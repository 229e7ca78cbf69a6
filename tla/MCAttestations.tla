--------------------------- MODULE MCAttestations ----------------------------
\* Two blocks at height 1 and one at height 2; room for two pending blocks.
EXTENDS Attestations, TLC

CONSTANTS a1, b1, a2

MCHashNumber == (a1 :> 1) @@ (b1 :> 1) @@ (a2 :> 2)
==============================================================================
