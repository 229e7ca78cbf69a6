--------------------------- MODULE FinalizedChain ----------------------------
(***************************************************************************)
(* What a node promises about finality: there is always one finalized      *)
(* block, and it is only ever replaced by one of its descendants.  Blocks  *)
(* may be skipped: a certificate finalizes everything below it.            *)
(***************************************************************************)
EXTENDS BlockTree

VARIABLE final

FinalInit == final = Genesis

Advance(b) == final \in Ancestors[b] \ {b} /\ final' = b

FinalNext == \E b \in Blocks : Advance(b)

FinalSpec == FinalInit /\ [][FinalNext]_final
==============================================================================
