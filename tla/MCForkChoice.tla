---------------------------- MODULE MCForkChoice -----------------------------
\* Two branches over genesis, one forking again; hash order against height.
EXTENDS ForkChoice, TLC

MCBlocks == 1 .. 6
MCGenesis == 3
MCParent == (3 :> 0) @@ (1 :> 3) @@ (4 :> 3) @@ (2 :> 4) @@ (5 :> 4) @@ (6 :> 1)
MCNumber == (3 :> 0) @@ (1 :> 1) @@ (4 :> 1) @@ (2 :> 2) @@ (5 :> 2) @@ (6 :> 2)
MCAncestors ==
  (3 :> {3}) @@ (1 :> {1, 3}) @@ (4 :> {3, 4}) @@ (2 :> {2, 3, 4})
    @@ (5 :> {3, 4, 5}) @@ (6 :> {1, 3, 6})
==============================================================================
