----------------------------- MODULE MCNodeChain -----------------------------
(* Trees and registries for NodeChain. *)
EXTENDS NodeChain

CONSTANTS v1, v2

\*   4 (genesis) <- 1 <- 3      a branch of height 2 and a competing block
\*               <- 2
MCBlocks == 1 .. 4
MCGenesis == 4
MCParent == <<4, 4, 1, 0>>
MCNumber == <<1, 1, 2, 0>>
MCAncestors == <<{1, 4}, {2, 4}, {1, 3, 4}, {4}>>

\*   7 (genesis) <- 1 <- 3 <- 5      two branches of height 3
\*               <- 2 <- 4 <- 6
DeepBlocks == 1 .. 7
DeepGenesis == 7
DeepParent == <<7, 7, 1, 2, 3, 4, 0>>
DeepNumber == <<1, 1, 2, 2, 3, 3, 0>>
DeepAncestors ==
  <<{1, 7}, {2, 7}, {1, 3, 7}, {2, 4, 7}, {1, 3, 5, 7}, {2, 4, 6, 7}, {7}>>

Even == [v \in {v1, v2} |-> 1]
Heavy == [v \in {v1, v2} |-> IF v = v1 THEN 3 ELSE 1]
Same == [b \in Blocks |-> Even]
\* the branch of block 1 gives v1 more weight
Reweighted == [b \in Blocks |-> IF b \in {1, 3} THEN Heavy ELSE Even]
==============================================================================
