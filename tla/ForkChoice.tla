----------------------------- MODULE ForkChoice ------------------------------
(***************************************************************************)
(* The fork-choice tree of one node under every order of the calls the     *)
(* node makes: a block is registered, its attested weight is updated, it   *)
(* is finalized (mark and prune), an invalid subtree is removed.           *)
(***************************************************************************)
EXTENDS ForkChoiceOps

CONSTANT MaxAttested   \* bound on the weights a block is given

ASSUME MaxAttestedAssumption == MaxAttested \in Nat

VARIABLE fc

TypeOK == IsForkChoice(fc)

Init == fc = NewForkChoice(Genesis)

\* register_fork_choice_block.  Import rejects every block at or below the
\* finalized number, so the caller's finalized flag is false.  The parent is
\* in the chain store, which does not mean that fork choice tracks it.
Register(h, w) ==
  /\ fc.root # NoRoot => Number[h] > Number[fc.root]
  /\ h # Genesis
  /\ fc' = AddBlock(fc, h, w, FALSE)

Reweigh(h, w) == h \in Tracked(fc) /\ fc' = UpdateAttestedWeight(fc, h, w)

Finalize(h) ==
  /\ h # Genesis
  /\ fc.root # NoRoot => Number[h] > Number[fc.root]
  /\ fc' = AdvanceFinality(fc, h)

Reject(h) == fc' = RemoveSubtree(fc, h)

Next ==
  \/ \E h \in Blocks, w \in 0 .. MaxAttested : Register(h, w)
  \/ \E h \in Blocks, w \in 0 .. MaxAttested : Reweigh(h, w)
  \/ \E h \in Blocks : Finalize(h)
  \/ \E h \in Blocks : Reject(h)

Spec == Init /\ [][Next]_fc

------------------------------------------------------------------------------
\* The flagged blocks are tracked descendants of the finalized root, and both
\* the root and the head are among them: fork choice never prefers a branch
\* that conflicts with finality, whatever weights it is told.
HeadExtendsRoot ==
  fc.root # NoRoot =>
    /\ fc.root \in Tracked(fc) /\ fc.scores[fc.root].finalized
    /\ fc.head \in Tracked(fc) /\ fc.scores[fc.head].finalized
    /\ \A h \in Tracked(fc) : fc.scores[h].finalized => Reaches(fc, h, fc.root)

\* The finalized root moves only up its own branch (mark_finalized's
\* chain_between test).
RootOnlyAdvances ==
  [][fc.root # NoRoot => fc'.root # NoRoot /\ fc.root \in Ancestors[fc'.root]]_fc

\* A block leaves the tree only together with everything built on it.
NoOrphansLeft ==
  [][\A h \in Tracked(fc') : Parent[h] \in Tracked(fc) =>
       Parent[h] \in Tracked(fc') \/ h = fc'.root]_fc

\* The cached head and its cached score are the best of all tracked blocks.
HeadIsBest ==
  /\ fc.head \in Tracked(fc) /\ fc.headScore = fc.scores[fc.head]
  /\ \A g \in Tracked(fc) \ {fc.head} : Beats(fc.head, fc.headScore, g, fc.scores[g])

\* No tracked block loses weight in this step.
Monotone ==
  \A h \in Tracked(fc) \cap Tracked(fc') : fc'.scores[h].weight >= fc.scores[h].weight

\* The head that add_block and update_attested_weight keep up incrementally
\* stays the best block through every step in which no weight falls.
HeadStaysBest == [][HeadIsBest /\ Monotone => HeadIsBest']_fc
==============================================================================
