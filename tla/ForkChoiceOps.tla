---------------------------- MODULE ForkChoiceOps ----------------------------
(***************************************************************************)
(* The methods of ForkChoice as operators on a fork-choice value.          *)
(* parent_map and scores always have the same keys: they are one function  *)
(* from the tracked blocks, whose parent and number come from BlockTree.   *)
(* The only parent the code rewrites is the pruned root's, to ZERO; a walk *)
(* that would pass it leaves the tracked blocks anyway.                    *)
(***************************************************************************)
EXTENDS Integers, BlockTree

NoRoot == 0   \* finalized_root = None

ScoreType == [finalized : BOOLEAN, weight : Nat]

Tracked(fc) == DOMAIN fc.scores

IsForkChoice(fc) ==
  /\ fc = [scores |-> fc.scores, root |-> fc.root, head |-> fc.head,
           headScore |-> fc.headScore]
  /\ Tracked(fc) \subseteq Blocks /\ fc.scores \in [Tracked(fc) -> ScoreType]
  /\ fc.root \in Blocks \cup {NoRoot} /\ fc.head \in Blocks
  /\ fc.headScore \in ScoreType

\* Mutant: the weight is compared before the finalized flag.
Beats_WeightFirst(h, s, g, t) ==
  \/ s.weight > t.weight
  \/ s.weight = t.weight /\ s.finalized /\ ~t.finalized
  \/ s.weight = t.weight /\ s.finalized = t.finalized /\ Number[h] > Number[g]
  \/ s.weight = t.weight /\ s.finalized = t.finalized /\ Number[h] = Number[g] /\ h < g

\* BlockScore::cmp is Greater: block h scored s against block g scored t.
Beats(h, s, g, t) ==
  \/ s.finalized /\ ~t.finalized
  \/ /\ s.finalized = t.finalized
     /\ \/ s.weight > t.weight
        \/ s.weight = t.weight /\ Number[h] > Number[g]
        \/ s.weight = t.weight /\ Number[h] = Number[g] /\ h < g

\* Walking the tracked parents from h arrives at a.
Reaches(fc, h, a) ==
  /\ a \in Ancestors[h]
  /\ \A x \in Ancestors[h] : Number[x] > Number[a] => x \in Tracked(fc)

\* b and every tracked block below it in the children map.
Subtree(fc, b) == {h \in Tracked(fc) : Reaches(fc, h, b)}

RecalculateHead(fc) ==
  LET best == CHOOSE h \in Tracked(fc) : \A g \in Tracked(fc) \ {h} :
                Beats(h, fc.scores[h], g, fc.scores[g])
  IN  [fc EXCEPT !.head = best, !.headScore = fc.scores[best]]

NewForkChoice(g) ==
  LET s == [finalized |-> FALSE, weight |-> 0]
  IN  [scores |-> [b \in {g} |-> s], root |-> NoRoot, head |-> g, headScore |-> s]

AddBlock(fc, h, w, onFinalized) ==
  LET s == [finalized |-> IF fc.root = NoRoot THEN onFinalized
                          ELSE Parent[h] \in Tracked(fc) /\ fc.scores[Parent[h]].finalized,
            weight |-> w]
      added == [fc EXCEPT !.scores = [b \in Tracked(fc) \cup {h} |->
                                        IF b = h THEN s ELSE fc.scores[b]]]
  IN  IF Beats(h, s, fc.head, fc.headScore)
      THEN [added EXCEPT !.head = h, !.headScore = s]
      ELSE added

\* Mutant: a weight update never promotes the block.
UpdateAttestedWeight_KeepsHead(fc, h, w) ==
  IF h \in Tracked(fc) THEN [fc EXCEPT !.scores[h].weight = w] ELSE fc

\* Mutant: the weight is decremented on the way, below zero for zero.
UpdateAttestedWeight_OffByOne(fc, h, w) ==
  IF h \in Tracked(fc) THEN [fc EXCEPT !.scores[h].weight = w - 1] ELSE fc

UpdateAttestedWeight(fc, h, w) ==
  LET s == [fc.scores[h] EXCEPT !.weight = w]
      updated == [fc EXCEPT !.scores[h] = s]
  IN  CASE h \notin Tracked(fc) -> fc
        [] h \in Tracked(fc) /\ h = fc.head -> [updated EXCEPT !.headScore = s]
        [] h \in Tracked(fc) /\ h # fc.head /\ Beats(h, s, fc.head, fc.headScore) ->
             [updated EXCEPT !.head = h, !.headScore = s]
        [] OTHER -> updated

\* Mutant: any tracked block is accepted as the new root.
Finalizable_AnyTracked(fc, h) == h \in Tracked(fc)

\* mark_finalized accepts h: tracked, and on a tracked path from the old root.
Finalizable(fc, h) ==
  /\ h \in Tracked(fc)
  /\ fc.root \in {NoRoot, h} \/ Reaches(fc, h, fc.root)

MarkFinalized(fc, h) ==
  IF ~Finalizable(fc, h) THEN fc
  ELSE RecalculateHead(
         [fc EXCEPT !.root = h,
                    !.scores = [b \in Tracked(fc) |->
                      [fc.scores[b] EXCEPT !.finalized = b \in Subtree(fc, h)]]])

PruneBelow(fc, n) ==
  LET roots == {h \in Tracked(fc) : fc.scores[h].finalized /\ Number[h] = n}
      root == CHOOSE h \in roots : \A g \in roots : h <= g
  IN  IF roots = {} THEN fc
      ELSE RecalculateHead(
             [fc EXCEPT !.root = root,
                        !.scores = [b \in Subtree(fc, root) |->
                          [fc.scores[b] EXCEPT !.finalized = TRUE]]])

\* Node::advance_fork_choice_finality.
AdvanceFinality(fc, h) ==
  LET marked == MarkFinalized(fc, h)
  IN  IF h \in Tracked(marked) /\ marked.scores[h].finalized
      THEN PruneBelow(marked, Number[h]) ELSE marked

\* A block whose parent entry is ZERO: genesis or the pruned root.
IsBase(fc, b) == b = Genesis \/ b = fc.root

\* Mutant: only the invalid block is dropped, its descendants stay.
RemoveSubtree_OnlyRoot(fc, b) ==
  IF IsBase(fc, b) \/ b \notin Tracked(fc) THEN fc
  ELSE RecalculateHead(
         [fc EXCEPT !.scores = [h \in Tracked(fc) \ {b} |-> fc.scores[h]]])

RemoveSubtree(fc, b) ==
  IF IsBase(fc, b) \/ b \notin Tracked(fc) \/ fc.root \in Subtree(fc, b) THEN fc
  ELSE RecalculateHead(
         [fc EXCEPT !.scores = [h \in Tracked(fc) \ Subtree(fc, b) |-> fc.scores[h]]])
==============================================================================
