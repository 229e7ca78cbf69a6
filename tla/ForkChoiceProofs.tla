-------------------------- MODULE ForkChoiceProofs ---------------------------
(***************************************************************************)
(* Fork choice over any finite tree and any weights: the recalculated head *)
(* exists and is the best block, the head never leaves the finalized       *)
(* branch, the root only advances, and no orphan is left behind.           *)
(***************************************************************************)
EXTENDS ForkChoice, FiniteSetTheorems, WellFoundedInduction, TLAPS

USE DEF NoRoot

------------------------------------------------------------------------------
\* Ancestry is reflexive, and a proper ancestor has a smaller number.
LEMMA AncestryFacts ==
  ASSUME NEW b \in Blocks
  PROVE  /\ b \in Ancestors[b] /\ Ancestors[b] \subseteq Blocks
         /\ \A a \in Ancestors[b] : a # b => Number[a] < Number[b]
         /\ \A a \in Ancestors[b] : a # b => b # Genesis /\ a \in Ancestors[Parent[b]]
<1>1. CASE b = Genesis
  BY <1>1, BlocksAssumption, TreeAssumption
<1>2. CASE b # Genesis
  <2>1. Parent[b] \in Blocks /\ Ancestors[b] = {b} \cup Ancestors[Parent[b]]
        /\ Number[b] = Number[Parent[b]] + 1 /\ Number[Parent[b]] \in Nat
    BY <1>2, BlocksAssumption, TreeAssumption
  <2>2. \A a \in Ancestors[Parent[b]] : Number[a] \in Nat /\ Number[a] <= Number[Parent[b]]
    BY <2>1, BlocksAssumption, AncestryAssumption
  <2> QED BY <1>2, <2>1, <2>2, BlocksAssumption
<1> QED BY <1>1, <1>2

\* Walking the tracked parents composes, and passes through the parent.
LEMMA ReachesStep ==
  ASSUME NEW f, NEW a \in Blocks, NEW h \in Blocks, h # a, Reaches(f, h, a)
  PROVE  h \in Tracked(f) /\ h # Genesis /\ Parent[h] \in Blocks /\ Reaches(f, Parent[h], a)
<1>1. h \in Ancestors[h] /\ a \in Ancestors[h] /\ Number[a] < Number[h]
  BY AncestryFacts DEF Reaches
<1>2. h # Genesis /\ a \in Ancestors[Parent[h]]
  BY AncestryFacts DEF Reaches
<1>3. Parent[h] \in Blocks /\ Ancestors[Parent[h]] \subseteq Ancestors[h]
  BY <1>2, TreeAssumption
<1> QED BY <1>1, <1>2, <1>3 DEF Reaches

LEMMA ReachesExtend ==
  ASSUME NEW f, NEW a \in Blocks, NEW h \in Tracked(f), h \in Blocks \ {Genesis},
         Reaches(f, Parent[h], a)
  PROVE  Reaches(f, h, a)
BY TreeAssumption DEF Reaches

LEMMA ReachesSelf ==
  ASSUME NEW f, NEW h \in Blocks
  PROVE  Reaches(f, h, h)
<1>1. \A x \in Ancestors[h] : x # h => Number[x] < Number[h]
  BY AncestryFacts
<1>2. \A x \in Ancestors[h] : Number[x] \in Nat
  BY AncestryFacts, BlocksAssumption
<1> QED BY <1>1, <1>2, AncestryFacts, BlocksAssumption DEF Reaches
------------------------------------------------------------------------------
\* BlockScore::cmp is a strict total order on scored blocks.
LEMMA BeatsOrder ==
  ASSUME NEW h \in Blocks, NEW g \in Blocks, NEW k \in Blocks,
         NEW s \in ScoreType, NEW t \in ScoreType, NEW u \in ScoreType
  PROVE  /\ ~Beats(h, s, h, s)
         /\ h # g => Beats(h, s, g, t) \/ Beats(g, t, h, s)
         /\ Beats(h, s, g, t) /\ Beats(g, t, k, u) => Beats(h, s, k, u)
         /\ Beats(h, s, g, t) => ~Beats(g, t, h, s)
<1>1. /\ h \in Nat /\ g \in Nat /\ k \in Nat
      /\ Number[h] \in Nat /\ Number[g] \in Nat /\ Number[k] \in Nat
  BY BlocksAssumption
<1>2. /\ s.weight \in Nat /\ t.weight \in Nat /\ u.weight \in Nat
      /\ s.finalized \in BOOLEAN /\ t.finalized \in BOOLEAN /\ u.finalized \in BOOLEAN
  BY DEF ScoreType
<1> QED BY <1>1, <1>2 DEF Beats

\* Every nonempty set of scored blocks has a best one.
LEMMA BestExists ==
  ASSUME NEW T \in SUBSET Blocks, T # {}, NEW sc \in [T -> ScoreType]
  PROVE  \E h \in T : \A g \in T \ {h} : Beats(h, sc[h], g, sc[g])
<1> DEFINE Above(h) == {g \in T : Beats(g, sc[g], h, sc[h])}
           Aboves == {Above(h) : h \in T}
           R == StrictSubsetOrdering(T)
<1>1. IsFiniteSet(T)
  BY FS_Subset, BlocksAssumption
<1>2. IsWellFoundedOn(R, SUBSET T)
  BY <1>1, FS_FiniteSubsetsOfFinite, FS_StrictSubsetOrderingWellFounded
<1>3. Aboves \subseteq SUBSET T /\ Aboves # {}
  <2>1. \A h \in T : Above(h) \in SUBSET T
    OBVIOUS
  <2> HIDE DEF Above
  <2>2. Aboves \subseteq SUBSET T
    BY <2>1
  <2>3. PICK h \in T : Above(h) \in Aboves
    OBVIOUS
  <2> QED BY <2>2, <2>3
<1>4. \E x \in Aboves : \A y \in Aboves : ~(<<y, x>> \in R)
  <2> HIDE DEF Aboves, R
  <2> QED BY <1>2, <1>3, WFMin
<1>5. PICK h \in T : \A g \in T : ~(<<Above(g), Above(h)>> \in R)
  BY <1>4
<1>6. \A g \in T : ~(Above(g) \subseteq Above(h) /\ Above(g) # Above(h))
  BY <1>5 DEF StrictSubsetOrdering
<1>7. \A g \in T : ~Beats(g, sc[g], h, sc[h])
  <2>1. SUFFICES ASSUME NEW g \in T, Beats(g, sc[g], h, sc[h])
                 PROVE  FALSE
    OBVIOUS
  <2>2. \A k \in T : Beats(k, sc[k], g, sc[g]) => Beats(k, sc[k], h, sc[h])
    BY <2>1, BeatsOrder
  <2>3. Above(g) \subseteq Above(h) /\ g \in Above(h) /\ g \notin Above(g)
    BY <2>1, <2>2, BeatsOrder
  <2> QED BY <2>3, <1>6
<1>8. \A g \in T \ {h} : Beats(h, sc[h], g, sc[g])
  <2>1. TAKE g \in T \ {h}
  <2>2. /\ h \in Blocks /\ g \in Blocks /\ h # g
        /\ sc[h] \in ScoreType /\ sc[g] \in ScoreType
    OBVIOUS
  <2>3. Beats(h, sc[h], g, sc[g]) \/ Beats(g, sc[g], h, sc[h])
    BY <2>2, BeatsOrder
  <2> QED BY <1>7, <2>3
<1> QED BY <1>8

\* recalculate_head leaves everything but the head alone, and the new head is
\* the best tracked block.
LEMMA RecalculateHeadBest ==
  ASSUME NEW f, IsForkChoice(f), Tracked(f) # {}
  PROVE  LET r == RecalculateHead(f) IN
         /\ IsForkChoice(r) /\ r.scores = f.scores /\ r.root = f.root
         /\ r.head \in Tracked(f) /\ r.headScore = f.scores[r.head]
         /\ \A g \in Tracked(f) \ {r.head} : Beats(r.head, f.scores[r.head], g, f.scores[g])
<1> DEFINE Best(h) == \A g \in Tracked(f) \ {h} : Beats(h, f.scores[h], g, f.scores[g])
           best == CHOOSE h \in Tracked(f) : Best(h)
           r == RecalculateHead(f)
<1>1. Tracked(f) \in SUBSET Blocks /\ f.scores \in [Tracked(f) -> ScoreType]
  BY DEF IsForkChoice
<1>2. \E h \in Tracked(f) : Best(h)
  BY <1>1, BestExists
<1>3. best \in Tracked(f) /\ Best(best)
  BY <1>2
<1>4. r = [f EXCEPT !.head = best, !.headScore = f.scores[best]]
  BY DEF RecalculateHead
<1> HIDE DEF best
<1>5. r = [scores |-> f.scores, root |-> f.root, head |-> best, headScore |-> f.scores[best]]
  BY <1>4 DEF IsForkChoice
<1>6. f.scores[best] \in ScoreType /\ best \in Blocks
  BY <1>1, <1>3
<1> QED BY <1>3, <1>5, <1>6 DEF IsForkChoice, Tracked
------------------------------------------------------------------------------
\* The flags of a tree with a finalized root: the root is tracked and flagged,
\* and every other flagged block has a flagged parent and a path to the root.
Flagged(f, h) == h \in Tracked(f) /\ f.scores[h].finalized

FlagsClosed(f) ==
  /\ Flagged(f, f.root)
  /\ \A h \in Tracked(f) : Flagged(f, h) => Reaches(f, h, f.root)
  /\ \A h \in Tracked(f) : Flagged(f, h) /\ h # f.root =>
       h # Genesis /\ Flagged(f, Parent[h])

\* The inductive invariant, on a fork-choice value.
Good(f) ==
  /\ IsForkChoice(f)
  /\ f.root = NoRoot => Genesis \in Tracked(f)
  /\ f.root # NoRoot => FlagsClosed(f) /\ Flagged(f, f.head) /\ f.headScore.finalized

\* Recalculating the head of a tree with consistent flags puts it on the
\* finalized branch.
LEMMA RecalculateGood ==
  ASSUME NEW f, IsForkChoice(f),
         f.root = NoRoot => Genesis \in Tracked(f),
         f.root # NoRoot => FlagsClosed(f)
  PROVE  /\ Good(RecalculateHead(f))
         /\ RecalculateHead(f).scores = f.scores /\ RecalculateHead(f).root = f.root
<1> DEFINE r == RecalculateHead(f)
<1>1. Tracked(f) # {}
  BY DEF FlagsClosed, Flagged
<1>2. /\ IsForkChoice(r) /\ r.scores = f.scores /\ r.root = f.root
      /\ r.head \in Tracked(f) /\ r.headScore = f.scores[r.head]
      /\ \A g \in Tracked(f) \ {r.head} : Beats(r.head, f.scores[r.head], g, f.scores[g])
  BY <1>1, RecalculateHeadBest
<1> HIDE DEF r
<1>3. Tracked(r) = Tracked(f)
  BY <1>2 DEF Tracked
<1>4. f.root # NoRoot => f.scores[r.head].finalized
  <2>1. SUFFICES ASSUME f.root # NoRoot, r.head # f.root
                 PROVE  f.scores[r.head].finalized
    BY DEF FlagsClosed, Flagged
  <2>2. f.root \in Tracked(f) /\ f.scores[f.root].finalized
    BY <2>1 DEF FlagsClosed, Flagged
  <2>3. f.scores[r.head] \in ScoreType /\ f.scores[f.root] \in ScoreType
    BY <1>2, <2>2 DEF IsForkChoice
  <2>4. Beats(r.head, f.scores[r.head], f.root, f.scores[f.root])
    BY <1>2, <2>1, <2>2
  <2> QED BY <2>2, <2>3, <2>4 DEF Beats, ScoreType
<1>5. f.root # NoRoot => FlagsClosed(r)
  BY <1>2, <1>3 DEF FlagsClosed, Flagged, Reaches
<1> QED BY <1>2, <1>3, <1>4, <1>5 DEF Good, Flagged, r

\* add_block above the root.
LEMMA AddBlockGood ==
  ASSUME NEW f, Good(f), NEW h \in Blocks \ {Genesis}, NEW w \in Nat,
         f.root # NoRoot => Number[h] > Number[f.root]
  PROVE  LET r == AddBlock(f, h, w, FALSE) IN
         Good(r) /\ r.root = f.root /\ Tracked(r) = Tracked(f) \cup {h}
<1> DEFINE s == [finalized |-> IF f.root = NoRoot THEN FALSE
                               ELSE Parent[h] \in Tracked(f) /\ f.scores[Parent[h]].finalized,
                 weight |-> w]
           sc == [b \in Tracked(f) \cup {h} |-> IF b = h THEN s ELSE f.scores[b]]
           wins == Beats(h, s, f.head, f.headScore)
           r == AddBlock(f, h, w, FALSE)
<1>1. /\ f = [scores |-> f.scores, root |-> f.root, head |-> f.head, headScore |-> f.headScore]
      /\ Tracked(f) \subseteq Blocks /\ f.scores \in [Tracked(f) -> ScoreType]
      /\ f.root \in Blocks \cup {NoRoot} /\ f.head \in Blocks /\ f.headScore \in ScoreType
  BY DEF Good, IsForkChoice
<1>2. s \in ScoreType
  <2>1. Parent[h] \in Tracked(f) => f.scores[Parent[h]].finalized \in BOOLEAN
    BY <1>1 DEF ScoreType
  <2> QED BY <2>1 DEF ScoreType
<1>3. r = IF wins THEN [scores |-> sc, root |-> f.root, head |-> h, headScore |-> s]
          ELSE [scores |-> sc, root |-> f.root, head |-> f.head, headScore |-> f.headScore]
  <2> DEFINE added == [f EXCEPT !.scores = sc]
  <2>1. r = IF wins THEN [added EXCEPT !.head = h, !.headScore = s] ELSE added
    BY DEF AddBlock
  <2>2. added = [scores |-> sc, root |-> f.root, head |-> f.head, headScore |-> f.headScore]
    <3> HIDE DEF sc
    <3> QED BY <1>1
  <2> HIDE DEF added, s, sc, wins, r
  <2>3. CASE wins
    <3>1. r = [added EXCEPT !.head = h, !.headScore = s]
      BY <2>1, <2>3
    <3>2. r = [scores |-> sc, root |-> f.root, head |-> h, headScore |-> s]
      BY <2>2, <3>1
    <3> QED BY <2>3, <3>2
  <2>4. CASE ~wins
    BY <2>1, <2>2, <2>4
  <2> QED BY <2>3, <2>4
<1> HIDE DEF s, r
<1>4. /\ r.scores = sc /\ r.root = f.root
      /\ Tracked(r) = Tracked(f) \cup {h}
      /\ r.head = (IF wins THEN h ELSE f.head)
      /\ r.headScore = (IF wins THEN s ELSE f.headScore)
      /\ r = [scores |-> r.scores, root |-> r.root, head |-> r.head, headScore |-> r.headScore]
  BY <1>3 DEF Tracked
<1>5. IsForkChoice(r)
  <2>1. sc \in [Tracked(f) \cup {h} -> ScoreType]
    BY <1>1, <1>2
  <2> HIDE DEF sc, wins
  <2> QED BY <1>1, <1>2, <1>4, <2>1 DEF IsForkChoice
<1>6. ASSUME f.root # NoRoot
      PROVE  FlagsClosed(r) /\ Flagged(r, r.head) /\ r.headScore.finalized
  <2>1. /\ FlagsClosed(f) /\ Flagged(f, f.head) /\ f.headScore.finalized
        /\ f.root \in Blocks /\ h # f.root
    BY <1>1, <1>6, BlocksAssumption DEF Good
  <2>2. /\ s.finalized <=> Flagged(f, Parent[h])
        /\ \A b \in Tracked(r) : r.scores[b] = IF b = h THEN s ELSE f.scores[b]
    BY <1>4, <1>6 DEF s, Flagged
  <2>3. Flagged(f, h) => s.finalized
    BY <2>1, <2>2 DEF FlagsClosed, Flagged
  <2>4. \A b : Flagged(f, b) => Flagged(r, b)
    BY <1>4, <2>2, <2>3 DEF Flagged
  <2>5. \A b \in Blocks : Reaches(f, b, f.root) => Reaches(r, b, f.root)
    BY <1>4 DEF Reaches
  <2>6. \A b \in Tracked(r) : Flagged(r, b) /\ b # f.root =>
          b # Genesis /\ Flagged(r, Parent[b])
    <3>1. TAKE b \in Tracked(r)
    <3>2. CASE b = h
      BY <3>2, <2>2, <2>4 DEF Flagged
    <3>3. CASE b # h
      BY <3>3, <1>4, <2>1, <2>2, <2>4 DEF FlagsClosed, Flagged
    <3> QED BY <3>2, <3>3
  <2>7. \A b \in Tracked(r) : Flagged(r, b) => Reaches(r, b, f.root)
    <3>1. TAKE b \in Tracked(r)
    <3>2. CASE b = h
      <4>1. SUFFICES ASSUME Flagged(f, Parent[h])
                     PROVE  Reaches(r, h, f.root)
        BY <3>2, <2>2 DEF Flagged
      <4>2. Parent[h] \in Blocks /\ Reaches(f, Parent[h], f.root)
        BY <4>1, <1>1, <2>1 DEF FlagsClosed, Flagged
      <4>3. Reaches(r, Parent[h], f.root)
        BY <4>2, <2>5
      <4> QED BY <4>3, <1>4, <2>1, ReachesExtend
    <3>3. CASE b # h
      BY <3>3, <1>1, <1>4, <2>1, <2>2, <2>5 DEF FlagsClosed, Flagged
    <3> QED BY <3>2, <3>3
  <2>8. FlagsClosed(r)
    BY <1>4, <2>1, <2>4, <2>6, <2>7 DEF FlagsClosed
  <2>9. wins => s.finalized
    BY <1>1, <1>2, <2>1 DEF Beats, ScoreType
  <2>10. Flagged(r, r.head) /\ r.headScore.finalized
    <3>1. CASE wins
      BY <3>1, <1>4, <2>2, <2>9 DEF Flagged
    <3>2. CASE ~wins
      BY <3>2, <1>4, <2>1, <2>4
    <3> QED BY <3>1, <3>2
  <2> QED BY <2>8, <2>10
<1>7. f.root = NoRoot => Genesis \in Tracked(r)
  BY <1>4 DEF Good
<1> QED BY <1>4, <1>5, <1>6, <1>7 DEF Good, r

\* update_attested_weight of a tracked block.
LEMMA UpdateGood ==
  ASSUME NEW f, Good(f), NEW h \in Tracked(f), NEW w \in Nat
  PROVE  LET r == UpdateAttestedWeight(f, h, w) IN
         Good(r) /\ r.root = f.root /\ Tracked(r) = Tracked(f)
<1> DEFINE s == [f.scores[h] EXCEPT !.weight = w]
           sc == [f.scores EXCEPT ![h] = s]
           wins == h # f.head /\ Beats(h, s, f.head, f.headScore)
           r == UpdateAttestedWeight(f, h, w)
<1>1. /\ f = [scores |-> f.scores, root |-> f.root, head |-> f.head, headScore |-> f.headScore]
      /\ Tracked(f) \subseteq Blocks /\ f.scores \in [Tracked(f) -> ScoreType]
      /\ f.root \in Blocks \cup {NoRoot} /\ f.head \in Blocks /\ f.headScore \in ScoreType
  BY DEF Good, IsForkChoice
<1>2. s \in ScoreType /\ s.finalized = f.scores[h].finalized
  BY <1>1 DEF ScoreType
<1>3. /\ r.scores = sc /\ r.root = f.root
      /\ r.head = (IF wins THEN h ELSE f.head)
      /\ r.headScore = (IF wins \/ h = f.head THEN s ELSE f.headScore)
      /\ r = [scores |-> r.scores, root |-> r.root, head |-> r.head, headScore |-> r.headScore]
  <2> DEFINE updated == [f EXCEPT !.scores[h] = s]
  <2>1. updated = [scores |-> sc, root |-> f.root, head |-> f.head, headScore |-> f.headScore]
    <3> HIDE DEF s
    <3> QED BY <1>1
  <2>2. /\ h = f.head => r = [updated EXCEPT !.headScore = s]
        /\ wins => r = [updated EXCEPT !.head = h, !.headScore = s]
        /\ ~wins /\ h # f.head => r = updated
    <3>1. h = f.head => r = [updated EXCEPT !.headScore = s]
      BY DEF UpdateAttestedWeight
    <3>2. wins => r = [updated EXCEPT !.head = h, !.headScore = s]
      BY DEF UpdateAttestedWeight
    <3>3. ~wins /\ h # f.head => r = updated
      BY DEF UpdateAttestedWeight
    <3> QED BY <3>1, <3>2, <3>3
  <2> HIDE DEF updated, s, sc, r
  <2>3. CASE h = f.head
    BY <2>1, <2>2, <2>3
  <2>4. CASE wins
    BY <2>1, <2>2, <2>4
  <2>5. CASE ~wins /\ h # f.head
    BY <2>1, <2>2, <2>5
  <2> QED BY <2>3, <2>4, <2>5
<1> HIDE DEF s, r
<1>4. /\ sc \in [Tracked(f) -> ScoreType]
      /\ Tracked(r) = Tracked(f)
      /\ \A b \in Tracked(f) : r.scores[b] = IF b = h THEN s ELSE f.scores[b]
  BY <1>1, <1>2, <1>3 DEF Tracked
<1>5. IsForkChoice(r)
  <2> HIDE DEF sc, wins
  <2> QED BY <1>1, <1>2, <1>3, <1>4 DEF IsForkChoice
<1>6. \A b : Flagged(r, b) <=> Flagged(f, b)
  BY <1>2, <1>4 DEF Flagged
<1>7. \A a, b \in Blocks : Reaches(r, b, a) <=> Reaches(f, b, a)
  BY <1>4 DEF Reaches
<1>8. f.root # NoRoot => FlagsClosed(r)
  BY <1>1, <1>3, <1>4, <1>6, <1>7 DEF Good, FlagsClosed
<1>9. f.root # NoRoot => Flagged(r, r.head) /\ r.headScore.finalized
  <2>1. SUFFICES ASSUME f.root # NoRoot, Flagged(f, f.head), f.headScore.finalized
                 PROVE  Flagged(r, r.head) /\ r.headScore.finalized
    BY DEF Good
  <2>2. CASE wins
    <3>1. s.finalized
      BY <2>1, <2>2, <1>1, <1>2 DEF Beats, ScoreType
    <3> QED BY <2>2, <3>1, <1>2, <1>3, <1>6 DEF Flagged
  <2>3. CASE ~wins
    BY <2>1, <2>3, <1>2, <1>3, <1>6 DEF Flagged
  <2> QED BY <2>2, <2>3
<1> QED BY <1>3, <1>4, <1>5, <1>8, <1>9 DEF Good, r

\* Updates of a record's fields, written out.
LEMMA SetFlag ==
  ASSUME NEW s \in ScoreType, NEW v \in BOOLEAN
  PROVE  LET t == [s EXCEPT !.finalized = v] IN
         t \in ScoreType /\ t.finalized = v /\ t.weight = s.weight
BY DEF ScoreType

LEMMA SetRootScores ==
  ASSUME NEW f, NEW sc, NEW h, NEW r, r = [f EXCEPT !.root = h, !.scores = sc],
         f = [scores |-> f.scores, root |-> f.root, head |-> f.head, headScore |-> f.headScore]
  PROVE  r = [scores |-> sc, root |-> h, head |-> f.head, headScore |-> f.headScore]
OBVIOUS

LEMMA SetScores ==
  ASSUME NEW f, NEW sc, NEW r, r = [f EXCEPT !.scores = sc],
         f = [scores |-> f.scores, root |-> f.root, head |-> f.head, headScore |-> f.headScore]
  PROVE  r = [scores |-> sc, root |-> f.root, head |-> f.head, headScore |-> f.headScore]
OBVIOUS

\* mark_finalized of an accepted block moves the root there and flags exactly
\* its subtree.
LEMMA MarkGood ==
  ASSUME NEW f, Good(f), NEW h \in Blocks, Finalizable(f, h)
  PROVE  LET r == MarkFinalized(f, h) IN
         /\ Good(r) /\ r.root = h /\ Tracked(r) = Tracked(f) /\ Flagged(r, h)
         /\ f.root # NoRoot => f.root \in Ancestors[h]
<1> DEFINE sc == [b \in Tracked(f) |-> [f.scores[b] EXCEPT !.finalized = b \in Subtree(f, h)]]
           m == [f EXCEPT !.root = h, !.scores = sc]
<1>1. /\ f = [scores |-> f.scores, root |-> f.root, head |-> f.head, headScore |-> f.headScore]
      /\ Tracked(f) \subseteq Blocks /\ f.scores \in [Tracked(f) -> ScoreType]
      /\ f.root \in Blocks \cup {NoRoot} /\ f.head \in Blocks /\ f.headScore \in ScoreType
  BY DEF Good, IsForkChoice
<1>2. h \in Tracked(f) /\ h # NoRoot
  BY BlocksAssumption DEF Finalizable
<1>3. /\ \A b \in Tracked(f) : sc[b] \in ScoreType /\ (sc[b].finalized <=> b \in Subtree(f, h))
      /\ sc \in [Tracked(f) -> ScoreType]
  <2>1. \A b \in Tracked(f) : f.scores[b] \in ScoreType
    BY <1>1
  <2>2. \A b \in Tracked(f) :
          /\ [f.scores[b] EXCEPT !.finalized = b \in Subtree(f, h)] \in ScoreType
          /\ [f.scores[b] EXCEPT !.finalized = b \in Subtree(f, h)].finalized
               <=> b \in Subtree(f, h)
    <3>1. TAKE b \in Tracked(f)
    <3>2. (b \in Subtree(f, h)) \in BOOLEAN
      OBVIOUS
    <3> QED BY <2>1, <3>2, SetFlag
  <2> QED BY <2>2
<1> HIDE DEF sc
<1>4. m = [scores |-> sc, root |-> h, head |-> f.head, headScore |-> f.headScore]
  BY <1>1, SetRootScores
<1>5. MarkFinalized(f, h) = RecalculateHead(m)
  BY DEF MarkFinalized, sc
<1> HIDE DEF m
<1>6. /\ m.scores = sc /\ m.root = h /\ Tracked(m) = Tracked(f) /\ IsForkChoice(m)
  BY <1>1, <1>3, <1>4 DEF Tracked, IsForkChoice
<1>7. \A b \in Blocks : Reaches(m, b, h) <=> Reaches(f, b, h)
  BY <1>6 DEF Reaches
<1>8. \A b : Flagged(m, b) <=> b \in Tracked(f) /\ Reaches(f, b, h)
  BY <1>3, <1>6 DEF Flagged, Subtree
<1>9. FlagsClosed(m)
  <2>1. Flagged(m, h)
    BY <1>2, <1>8, ReachesSelf
  <2>2. \A b \in Tracked(m) : Flagged(m, b) /\ b # h => b # Genesis /\ Flagged(m, Parent[b])
    <3>1. SUFFICES ASSUME NEW b \in Tracked(f), Reaches(f, b, h), b # h
                   PROVE  b # Genesis /\ Flagged(m, Parent[b])
      BY <1>6, <1>8
    <3>2. b # Genesis /\ Parent[b] \in Blocks /\ Reaches(f, Parent[b], h)
      BY <1>1, <3>1, ReachesStep
    <3>3. Parent[b] \in Tracked(f)
      BY <1>2, <3>2, ReachesStep
    <3> QED BY <1>8, <3>2, <3>3
  <2> QED BY <1>1, <1>6, <1>7, <1>8, <2>1, <2>2 DEF FlagsClosed
<1>10. Good(RecalculateHead(m)) /\ RecalculateHead(m).scores = sc /\ RecalculateHead(m).root = h
  BY <1>2, <1>6, <1>9, RecalculateGood
<1>11. f.root # NoRoot => f.root \in Ancestors[h]
  BY AncestryFacts DEF Finalizable, Reaches
<1>12. Flagged(RecalculateHead(m), h)
  BY <1>2, <1>10 DEF Good, FlagsClosed
<1> QED BY <1>3, <1>5, <1>10, <1>11, <1>12 DEF Tracked

\* prune_below at the root's own height keeps exactly the root's subtree.
LEMMA PruneGood ==
  ASSUME NEW f, Good(f), f.root # NoRoot
  PROVE  LET r == PruneBelow(f, Number[f.root]) IN
         Good(r) /\ r.root = f.root /\ Tracked(r) = Subtree(f, f.root)
<1> DEFINE h == f.root
           roots == {b \in Tracked(f) : f.scores[b].finalized /\ Number[b] = Number[h]}
           sc == [b \in Subtree(f, h) |-> [f.scores[b] EXCEPT !.finalized = TRUE]]
           m == [f EXCEPT !.root = h, !.scores = sc]
<1>1. /\ f = [scores |-> f.scores, root |-> f.root, head |-> f.head, headScore |-> f.headScore]
      /\ Tracked(f) \subseteq Blocks /\ f.scores \in [Tracked(f) -> ScoreType]
      /\ h \in Blocks /\ f.head \in Blocks /\ f.headScore \in ScoreType
  BY DEF Good, IsForkChoice
<1>2. FlagsClosed(f)
  BY DEF Good
<1>3. h \in Tracked(f) /\ h \in Subtree(f, h)
  BY <1>1, <1>2, ReachesSelf DEF FlagsClosed, Flagged, Subtree
<1>4. roots = {h}
  <2>1. h \in roots
    BY <1>2 DEF FlagsClosed, Flagged
  <2>2. ASSUME NEW b \in roots PROVE b = h
    <3>1. b \in Blocks /\ h \in Ancestors[b] /\ Number[b] = Number[h]
      BY <1>1, <1>2 DEF FlagsClosed, Flagged, Reaches
    <3>2. h # b => Number[h] < Number[b]
      BY <3>1, AncestryFacts
    <3> QED BY <1>1, <3>1, <3>2, BlocksAssumption
  <2> QED BY <2>1, <2>2
<1>5. (CHOOSE b \in roots : \A g \in roots : b <= g) = h
  BY <1>1, <1>4, BlocksAssumption
<1>6. PruneBelow(f, Number[h]) = RecalculateHead(m)
  <2>1. roots # {}
    BY <1>4
  <2> QED BY <1>5, <2>1 DEF PruneBelow
<1>7. /\ sc \in [Subtree(f, h) -> ScoreType]
      /\ \A b \in Subtree(f, h) : sc[b].finalized
  <2>1. \A b \in Subtree(f, h) : f.scores[b] \in ScoreType
    BY <1>1 DEF Subtree
  <2>2. \A b \in Subtree(f, h) : /\ [f.scores[b] EXCEPT !.finalized = TRUE] \in ScoreType
                                 /\ [f.scores[b] EXCEPT !.finalized = TRUE].finalized
    BY <2>1, SetFlag
  <2> QED BY <2>2
<1> HIDE DEF sc, h
<1>8. m = [scores |-> sc, root |-> h, head |-> f.head, headScore |-> f.headScore]
  BY <1>1, SetRootScores DEF h
<1> HIDE DEF m
<1>9. /\ m.scores = sc /\ m.root = h /\ Tracked(m) = Subtree(f, h) /\ IsForkChoice(m)
  BY <1>1, <1>7, <1>8 DEF Tracked, IsForkChoice, Subtree
<1>10. \A b : Flagged(m, b) <=> b \in Subtree(f, h)
  BY <1>7, <1>9 DEF Flagged
<1>11. \A b \in Subtree(f, h) : Reaches(m, b, h)
  <2>1. SUFFICES ASSUME NEW b \in Subtree(f, h), NEW x \in Ancestors[b], Number[x] > Number[h]
                 PROVE  x \in Subtree(f, h)
    BY <1>9 DEF Reaches, Subtree
  <2>2. b \in Blocks /\ Reaches(f, b, h) /\ x \in Tracked(f) /\ x \in Blocks
    BY <1>1, <2>1, AncestryFacts DEF Subtree, Reaches
  <2>3. Number[h] <= Number[x] /\ h \in Ancestors[b]
    BY <1>1, <2>1, <2>2, BlocksAssumption DEF Reaches
  <2>4. h \in Ancestors[x] /\ Ancestors[x] \subseteq Ancestors[b]
    BY <2>2, <2>3, AncestryAssumption
  <2> QED BY <2>2, <2>4 DEF Reaches, Subtree
<1>12. FlagsClosed(m)
  <2>1. \A b \in Subtree(f, h) : b # h => b # Genesis /\ Parent[b] \in Subtree(f, h)
    <3>1. SUFFICES ASSUME NEW b \in Subtree(f, h), b # h
                   PROVE  b # Genesis /\ Parent[b] \in Subtree(f, h)
      OBVIOUS
    <3>2. b # Genesis /\ Parent[b] \in Blocks /\ Reaches(f, Parent[b], h)
      BY <1>1, <3>1, ReachesStep DEF Subtree
    <3>3. Parent[b] \in Tracked(f)
      BY <1>1, <1>3, <3>2, ReachesStep
    <3> QED BY <3>2, <3>3 DEF Subtree
  <2> QED BY <1>1, <1>3, <1>9, <1>10, <1>11, <2>1 DEF FlagsClosed
<1>13. Good(RecalculateHead(m)) /\ RecalculateHead(m).scores = sc /\ RecalculateHead(m).root = h
  BY <1>3, <1>9, <1>12, RecalculateGood DEF h
<1> QED BY <1>6, <1>7, <1>13 DEF Tracked, h

\* advance_fork_choice_finality changes nothing, or moves the root up its own
\* branch and keeps the new root's subtree.
LEMMA AdvanceGood ==
  ASSUME NEW f, Good(f), NEW h \in Blocks
  PROVE  LET r == AdvanceFinality(f, h) IN
         /\ Good(r)
         /\ r = f \/ /\ r.root = h /\ h # NoRoot
                     /\ f.root # NoRoot => f.root \in Ancestors[h]
                     /\ Tracked(r) = Subtree(f, h)
<1> DEFINE m == MarkFinalized(f, h)
<1>1. CASE Finalizable(f, h)
  <2>1. /\ Good(m) /\ m.root = h /\ Tracked(m) = Tracked(f) /\ Flagged(m, h)
        /\ f.root # NoRoot => f.root \in Ancestors[h]
    BY <1>1, MarkGood
  <2>2. h # NoRoot
    BY BlocksAssumption
  <2>3. AdvanceFinality(f, h) = PruneBelow(m, Number[h])
    BY <2>1 DEF AdvanceFinality, Flagged
  <2> HIDE DEF m
  <2>4. /\ Good(PruneBelow(m, Number[h])) /\ PruneBelow(m, Number[h]).root = h
        /\ Tracked(PruneBelow(m, Number[h])) = Subtree(m, h)
    BY <2>1, <2>2, PruneGood
  <2>5. Subtree(m, h) = Subtree(f, h)
    BY <2>1 DEF Subtree, Reaches
  <2> QED BY <2>1, <2>2, <2>3, <2>4, <2>5
<1>2. CASE ~Finalizable(f, h)
  <2>1. m = f
    BY <1>2 DEF MarkFinalized
  <2>2. ~Flagged(f, h)
    BY <1>2 DEF Good, FlagsClosed, Flagged, Finalizable
  <2> QED BY <2>1, <2>2 DEF AdvanceFinality, Flagged
<1> QED BY <1>1, <1>2

\* remove_subtree changes nothing, or drops the whole tracked subtree and keeps
\* the root.
LEMMA RemoveGood ==
  ASSUME NEW f, Good(f), NEW b \in Blocks
  PROVE  LET r == RemoveSubtree(f, b) IN
         /\ Good(r) /\ r.root = f.root
         /\ r = f \/ Tracked(r) = Tracked(f) \ Subtree(f, b)
<1>1. CASE IsBase(f, b) \/ b \notin Tracked(f) \/ f.root \in Subtree(f, b)
  BY <1>1 DEF RemoveSubtree
<1>2. CASE b # Genesis /\ b # f.root /\ b \in Tracked(f) /\ f.root \notin Subtree(f, b)
  <2> DEFINE Kept == Tracked(f) \ Subtree(f, b)
             sc == [h \in Kept |-> f.scores[h]]
             m == [f EXCEPT !.scores = sc]
  <2>1. /\ f = [scores |-> f.scores, root |-> f.root, head |-> f.head, headScore |-> f.headScore]
        /\ Tracked(f) \subseteq Blocks /\ f.scores \in [Tracked(f) -> ScoreType]
        /\ f.root \in Blocks \cup {NoRoot} /\ f.head \in Blocks /\ f.headScore \in ScoreType
    BY DEF Good, IsForkChoice
  <2>2. sc \in [Kept -> ScoreType]
    BY <2>1
  <2>3. RemoveSubtree(f, b) = RecalculateHead(m)
    BY <1>2 DEF RemoveSubtree, IsBase
  <2>4. m = [scores |-> sc, root |-> f.root, head |-> f.head, headScore |-> f.headScore]
    BY <2>1, SetScores
  <2> HIDE DEF m
  <2>5. /\ m.scores = sc /\ m.root = f.root /\ Tracked(m) = Kept /\ IsForkChoice(m)
    BY <2>1, <2>2, <2>4 DEF Tracked, IsForkChoice
  <2>6. \A h : Flagged(m, h) <=> h \in Kept /\ Flagged(f, h)
    BY <2>5 DEF Flagged
  <2>7. f.root = NoRoot => Genesis \in Kept
    <3>1. Genesis \notin Subtree(f, b)
      BY <1>2, TreeAssumption DEF Subtree, Reaches
    <3> QED BY <3>1 DEF Good
  <2>8. ASSUME f.root # NoRoot PROVE FlagsClosed(m)
    <3>1. FlagsClosed(f) /\ f.root \in Blocks /\ f.root \in Kept
      BY <1>2, <2>1, <2>8 DEF Good, FlagsClosed, Flagged
    <3>2. ASSUME NEW h \in Kept, Flagged(f, h) PROVE Reaches(m, h, f.root)
      <4>1. Reaches(f, h, f.root) /\ h \in Blocks
        BY <2>1, <3>1, <3>2 DEF FlagsClosed
      <4>2. SUFFICES ASSUME NEW x \in Ancestors[h], Number[x] > Number[f.root], Reaches(f, x, b)
                     PROVE  Reaches(f, h, b)
        BY <2>5, <3>2, <4>1 DEF Reaches, Subtree
      <4>3. x \in Blocks /\ b \in Ancestors[x] /\ Ancestors[x] \subseteq Ancestors[h]
        BY <4>1, <4>2, AncestryFacts, AncestryAssumption DEF Reaches
      <4>4. ASSUME NEW y \in Ancestors[h], Number[y] > Number[b] PROVE y \in Tracked(f)
        <5>1. y \in Blocks
          BY <4>1, AncestryFacts
        <5>2. CASE Number[y] <= Number[x]
          <6>1. y \in Ancestors[x]
            BY <4>1, <5>2, AncestryAssumption
          <6> QED BY <4>2, <4>4, <6>1 DEF Reaches
        <5>3. CASE Number[y] > Number[x]
          <6>1. Number[y] > Number[f.root]
            <7>1. Number[y] \in Nat /\ Number[x] \in Nat /\ Number[f.root] \in Nat
              BY <3>1, <4>3, <5>1, BlocksAssumption
            <7> QED BY <4>2, <5>3, <7>1
          <6> QED BY <4>1, <6>1 DEF Reaches
        <5> QED BY <4>3, <5>1, <5>2, <5>3, BlocksAssumption
      <4> QED BY <4>3, <4>4 DEF Reaches
    <3>3. ASSUME NEW h \in Kept, Flagged(f, h), h # f.root
          PROVE  h # Genesis /\ Flagged(m, Parent[h])
      <4>1. h # Genesis /\ Flagged(f, Parent[h]) /\ h \in Blocks
        BY <2>1, <3>1, <3>3 DEF FlagsClosed
      <4>2. Parent[h] \notin Subtree(f, b)
        BY <3>3, <4>1, ReachesExtend DEF Subtree
      <4> QED BY <2>6, <4>1, <4>2 DEF Flagged
    <3> QED BY <2>5, <2>6, <3>1, <3>2, <3>3 DEF FlagsClosed
  <2>9. Good(RecalculateHead(m)) /\ RecalculateHead(m).scores = sc
        /\ RecalculateHead(m).root = f.root
    BY <2>5, <2>7, <2>8, RecalculateGood
  <2> QED BY <2>2, <2>3, <2>9 DEF Tracked
<1> QED BY <1>1, <1>2 DEF IsBase
------------------------------------------------------------------------------
\* Every call the node makes on a consistent tree: what it does to the
\* invariant, to the root and to the tracked blocks.
LEMMA NextGood ==
  ASSUME Good(fc), [Next]_fc
  PROVE  /\ Good(fc')
         /\ fc.root # NoRoot => fc'.root # NoRoot /\ fc.root \in Ancestors[fc'.root]
         /\ \A h \in Tracked(fc') : Parent[h] \in Tracked(fc) =>
              Parent[h] \in Tracked(fc') \/ h = fc'.root
<1> DEFINE Kept == \A h \in Tracked(fc') : Parent[h] \in Tracked(fc) =>
                     Parent[h] \in Tracked(fc') \/ h = fc'.root
           Advanced == fc.root # NoRoot => fc'.root # NoRoot /\ fc.root \in Ancestors[fc'.root]
<1>1. Tracked(fc) \subseteq Blocks /\ fc.root \in Blocks \cup {NoRoot}
  BY DEF Good, IsForkChoice
<1>2. fc'.root = fc.root => Advanced
  BY <1>1, AncestryFacts
<1>3. fc' = fc => Good(fc') /\ Advanced /\ Kept
  BY <1>2
<1>4. ASSUME NEW h \in Blocks, NEW w \in 0 .. MaxAttested, Register(h, w)
      PROVE  Good(fc') /\ Advanced /\ Kept
  <2>1. w \in Nat
    BY MaxAttestedAssumption
  <2>2. Good(fc') /\ fc'.root = fc.root /\ Tracked(fc') = Tracked(fc) \cup {h}
    BY <1>4, <2>1, AddBlockGood DEF Register
  <2> QED BY <1>2, <2>2
<1>5. ASSUME NEW h \in Blocks, NEW w \in 0 .. MaxAttested, Reweigh(h, w)
      PROVE  Good(fc') /\ Advanced /\ Kept
  <2>1. w \in Nat
    BY MaxAttestedAssumption
  <2>2. Good(fc') /\ fc'.root = fc.root /\ Tracked(fc') = Tracked(fc)
    BY <1>5, <2>1, UpdateGood DEF Reweigh
  <2> QED BY <1>2, <2>2
<1>6. ASSUME NEW h \in Blocks, Finalize(h)
      PROVE  Good(fc') /\ Advanced /\ Kept
  <2>1. /\ Good(fc')
        /\ fc' = fc \/ /\ fc'.root = h /\ h # NoRoot
                       /\ fc.root # NoRoot => fc.root \in Ancestors[h]
                       /\ Tracked(fc') = Subtree(fc, h)
    BY <1>6, AdvanceGood DEF Finalize
  <2>2. ASSUME fc'.root = h, Tracked(fc') = Subtree(fc, h) PROVE Kept
    <3>1. SUFFICES ASSUME NEW b \in Subtree(fc, h), b # h, Parent[b] \in Tracked(fc)
                   PROVE  Parent[b] \in Subtree(fc, h)
      BY <2>2
    <3> QED BY <1>1, <3>1, ReachesStep DEF Subtree
  <2> QED BY <1>3, <2>1, <2>2
<1>7. ASSUME NEW b \in Blocks, Reject(b)
      PROVE  Good(fc') /\ Advanced /\ Kept
  <2>1. /\ Good(fc') /\ fc'.root = fc.root
        /\ fc' = fc \/ Tracked(fc') = Tracked(fc) \ Subtree(fc, b)
    BY <1>7, RemoveGood DEF Reject
  <2>2. ASSUME Tracked(fc') = Tracked(fc) \ Subtree(fc, b) PROVE Kept
    <3>1. SUFFICES ASSUME NEW h \in Tracked(fc) \ Subtree(fc, b), Parent[h] \in Subtree(fc, b)
                   PROVE  FALSE
      BY <2>2
    <3>2. h \in Blocks \ {Genesis}
      BY <1>1, <3>1, BlocksAssumption, TreeAssumption DEF Subtree
    <3> QED BY <3>1, <3>2, ReachesExtend DEF Subtree
  <2> QED BY <1>2, <1>3, <2>1, <2>2
<1> HIDE DEF Kept, Advanced
<1>8. Good(fc') /\ Advanced /\ Kept
  BY <1>3, <1>4, <1>5, <1>6, <1>7 DEF Next
<1> QED BY <1>8 DEF Kept, Advanced

\* The inductive invariant holds throughout.
THEOREM GoodHolds == Spec => []Good(fc)
<1>1. Init => Good(fc)
  BY BlocksAssumption DEF Init, NewForkChoice, Good, IsForkChoice, Tracked, ScoreType
<1>2. Good(fc) /\ [Next]_fc => Good(fc)'
  BY NextGood DEF Good, IsForkChoice, FlagsClosed, Flagged, Tracked, Reaches
<1> QED BY <1>1, <1>2, PTL DEF Spec

\* A fork-choice value keeps its shape under every sequence of calls.
THEOREM TypeCorrect == Spec => []TypeOK
<1>1. Good(fc) => TypeOK
  BY DEF Good, TypeOK
<1> QED BY <1>1, GoodHolds, PTL

\* Whatever weights ForkChoice is told, in whatever order blocks are
\* registered, finalized and removed, its head descends from its finalized root.
THEOREM HeadNeverLeavesFinality == Spec => []HeadExtendsRoot
<1>1. Good(fc) => HeadExtendsRoot
  BY DEF Good, HeadExtendsRoot, FlagsClosed, Flagged
<1> QED BY <1>1, GoodHolds, PTL

\* mark_finalized and prune_below move the root only to its own descendants.
THEOREM RootAdvances == Spec => RootOnlyAdvances
<1>1. Good(fc) /\ [Next]_fc =>
        [fc.root # NoRoot => fc'.root # NoRoot /\ fc.root \in Ancestors[fc'.root]]_fc
  BY NextGood
<1> QED BY <1>1, GoodHolds, PTL DEF Spec, RootOnlyAdvances

\* prune_below and remove_subtree drop a block only with all that is built on it.
THEOREM OrphansNeverStay == Spec => NoOrphansLeft
<1>1. Good(fc) /\ [Next]_fc =>
        [\A h \in Tracked(fc') : Parent[h] \in Tracked(fc) =>
           Parent[h] \in Tracked(fc') \/ h = fc'.root]_fc
  BY NextGood
<1> QED BY <1>1, GoodHolds, PTL DEF Spec, NoOrphansLeft
==============================================================================
