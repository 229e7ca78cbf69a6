----------------------------- MODULE BlockHashes -----------------------------
\* The block hashes votes and attestations name, and ShellHash::ZERO.
CONSTANTS Hashes, NoHash

ASSUME HashesAssumption == NoHash \notin Hashes
==============================================================================
