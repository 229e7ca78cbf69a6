----------------------------- MODULE MCWPoaRound -----------------------------
\* WPoaRound for TLC: two blocks, weights from 0 to MaxWeight, two views, and
\* validators that are numbers.
EXTENDS WPoaRound, FiniteSetsExt

\* The counted weight of every set is the sum of its validators' weights.
ASSUME WeightIsSum ==
  \A w \in WeightTables : \A S \in SUBSET DOMAIN w :
    WeightOf(w, S) = MapThenSumSet(LAMBDA v : w[v], S)

\* One table of every class that differs only in the names of the validators:
\* weights descend, and the unknown validators come last.
SortedTable(w) ==
  \A u \in Validators, v \in DOMAIN w : u < v => u \in DOMAIN w /\ w[u] >= w[v]

SortedInit == Init /\ SortedTable(round.weights)

SortedSpec == SortedInit /\ [][Next]_vars
==============================================================================
