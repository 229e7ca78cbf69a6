---------------------------- MODULE MCChainTotals ----------------------------
(* Small instances of ChainTotals, by the faults they allow. *)
EXTENDS ChainTotals

OneOfEach == [adopts |-> 1, crashes |-> 1, fails |-> 1, reads |-> 1]
OneFailedRecovery == [adopts |-> 0, crashes |-> 1, fails |-> 1, reads |-> 0]
OneFailedWrite == [adopts |-> 0, crashes |-> 0, fails |-> 1, reads |-> 0]
==============================================================================
