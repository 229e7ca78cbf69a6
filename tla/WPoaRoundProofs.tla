--------------------------- MODULE WPoaRoundProofs ---------------------------
(***************************************************************************)
(* The round's invariants for every validator set, weight table and block  *)
(* set.  The inductive invariant adds to the checked ones the two-thirds   *)
(* weight behind every ViewChangeReady event.                              *)
(***************************************************************************)
EXTENDS WPoaRound, WeightsProofs

ReadiesAreQuorums ==
  \A q \in readies :
    /\ q \subseteq DOMAIN round.weights
    /\ 3 * WeightOf(round.weights, q) >= 2 * TotalWeight(round.weights)

\* The inductive invariant.
Inv ==
  /\ TypeOK
  /\ TallyExact
  /\ CommitsAreStrictQuorums
  /\ ReadiesAreQuorums

LEMMA NewRoundType ==
  ASSUME NEW w \in WeightTables
  PROVE  NewRound(w) \in RoundType
BY DEF NewRound, RoundType, Phases

LEMMA TotalNat ==
  ASSUME NEW w \in WeightTables
  PROVE  TotalWeight(w) \in Nat
BY WeightNat DEF TotalWeight

LEMMA InitInv == Init => Inv
<1> SUFFICES ASSUME NEW w \in WeightTables, round = NewRound(w), commits = {}, readies = {}
             PROVE  Inv
  BY DEF Init
<1>1. TypeOK
  BY NewRoundType DEF TypeOK
<1>2. TallyExact
  BY WeightEmpty DEF TallyExact, NewRound
<1> QED BY <1>1, <1>2 DEF Inv, CommitsAreStrictQuorums, ReadiesAreQuorums

\* Counting a vote keeps the tally, and says what weight it reached.
LEMMA CountedWeight ==
  ASSUME TypeOK, TallyExact, NEW v \in DOMAIN round.weights, v \notin round.votes
  PROVE  /\ round.weights \in WeightTables
         /\ v \in Validators
         /\ round.votes \cup {v} \in SUBSET DOMAIN round.weights
         /\ round.voteWeight + round.weights[v] \in Nat
         /\ WeightOf(round.weights, round.votes \cup {v}) = round.voteWeight + round.weights[v]
<1>1. round.weights \in WeightTables /\ round.voteWeight \in Nat
  BY DEF TypeOK, RoundType
<1>2. /\ v \in Validators /\ round.weights[v] \in Nat
  BY <1>1, TableType, WeightsAssumption
<1>3. round.votes \in SUBSET DOMAIN round.weights
  BY DEF TallyExact
<1>4. WeightOf(round.weights, round.votes \cup {v})
        = WeightOf(round.weights, round.votes) + round.weights[v]
  BY <1>1, <1>3, WeightAdd
<1> QED BY <1>1, <1>2, <1>3, <1>4 DEF TallyExact

LEMMA ProposeInv ==
  ASSUME Inv, NEW h \in Hashes, Propose(h)
  PROVE  Inv'
<1>1. /\ round' = [round EXCEPT !.phase = "Voting", !.hash = h, !.votes = {}, !.voteWeight = 0]
      /\ commits' = commits /\ readies' = readies
      /\ round \in RoundType
  BY DEF Propose, OnBlockProposed, Inv, TypeOK
<1>2. round' \in RoundType /\ round'.weights = round.weights
      /\ round'.votes = {} /\ round'.voteWeight = 0 /\ round.weights \in WeightTables
  BY <1>1 DEF RoundType, Phases
<1>3. TypeOK'
  BY <1>1, <1>2 DEF TypeOK, Inv
<1>4. TallyExact'
  BY <1>2, WeightEmpty, TotalNat, StrictQuorumExact DEF TallyExact
<1> QED BY <1>1, <1>2, <1>3, <1>4 DEF Inv, CommitsAreStrictQuorums, ReadiesAreQuorums

LEMMA VoteInv ==
  ASSUME Inv, NEW v \in Validators, NEW h \in Hashes, Vote(v, h)
  PROVE  Inv'
<1> DEFINE w == round.weights
           q == round.votes \cup {v}
<1>1. /\ round \in RoundType /\ v \in DOMAIN w /\ v \notin round.votes
      /\ round.phase = "Voting" /\ h = round.hash /\ readies' = readies
  BY DEF Vote, VoteCounts, Inv, TypeOK
<1>2. /\ w \in WeightTables /\ q \in SUBSET DOMAIN w
      /\ round.voteWeight + w[v] \in Nat
      /\ WeightOf(w, q) = round.voteWeight + w[v]
  BY <1>1, CountedWeight DEF Inv
<1>3. TotalWeight(w) \in Nat
  BY <1>2, TotalNat
<1>4. CASE VoteCommits(round, v, h)
  <2>1. /\ round' = [round EXCEPT !.phase = "Committed", !.votes = {}, !.voteWeight = 0]
        /\ commits' = commits \cup {[hash |-> h, signers |-> q]}
    BY <1>4 DEF Vote, OnVote
  <2>2. /\ round' \in RoundType /\ round'.weights = w /\ round'.votes = {}
        /\ round'.voteWeight = 0 /\ round'.phase = "Committed"
    BY <1>1, <2>1 DEF RoundType, Phases
  <2>3. TypeOK'
    BY <1>1, <1>2, <2>1, <2>2, TableType DEF TypeOK, Inv
  <2>4. TallyExact'
    BY <1>2, <2>2, WeightEmpty DEF TallyExact
  <2>5. 3 * WeightOf(w, q) > 2 * TotalWeight(w)
    <3>1. HasWeightedQuorum(round.voteWeight + w[v], TotalWeight(w))
      BY <1>3, <1>4 DEF VoteCommits, HasWeightedQuorum
    <3> QED BY <1>2, <1>3, <3>1, StrictQuorumExact
  <2>6. CommitsAreStrictQuorums'
    <3> SUFFICES ASSUME NEW c \in commits'
                 PROVE  /\ c.signers \subseteq DOMAIN w
                        /\ 3 * WeightOf(w, c.signers) > 2 * TotalWeight(w)
      BY <2>2 DEF CommitsAreStrictQuorums
    <3>1. CASE c \in commits
      BY <3>1 DEF CommitsAreStrictQuorums, Inv
    <3>2. CASE c = [hash |-> h, signers |-> q]
      BY <1>2, <2>5, <3>2
    <3> QED BY <2>1, <3>1, <3>2
  <2> QED BY <1>1, <2>2, <2>3, <2>4, <2>6 DEF Inv, ReadiesAreQuorums
<1>5. CASE ~VoteCommits(round, v, h)
  <2>1. /\ round' = [round EXCEPT !.votes = q, !.voteWeight = round.voteWeight + w[v]]
        /\ commits' = commits
    BY <1>5 DEF Vote, OnVote
  <2>2. /\ round' \in RoundType /\ round'.weights = w /\ round'.votes = q
        /\ round'.voteWeight = round.voteWeight + w[v] /\ round'.phase = "Voting"
    BY <1>1, <1>2, <2>1, TableType DEF RoundType
  <2>3. TypeOK'
    BY <1>1, <2>1, <2>2 DEF TypeOK, Inv
  <2>4. ~HasWeightedQuorum(round.voteWeight + w[v], TotalWeight(w))
    BY <1>1, <1>3, <1>5 DEF Vote, VoteCommits, HasWeightedQuorum
  <2>5. TallyExact'
    BY <1>2, <2>2, <2>4 DEF TallyExact
  <2> QED BY <1>1, <2>1, <2>2, <2>3, <2>5
          DEF Inv, CommitsAreStrictQuorums, ReadiesAreQuorums
<1> QED BY <1>4, <1>5

LEMMA ViewChangeVoteInv ==
  ASSUME Inv, NEW v \in Validators, NEW view \in 1 .. MaxView, ViewChangeVote(v, view)
  PROVE  Inv'
<1> DEFINE w == round.weights
           q == round.votes \cup {v}
<1>1. /\ round \in RoundType /\ v \in DOMAIN w /\ v \notin round.votes
      /\ round.phase = "ViewChanging" /\ commits' = commits
  BY DEF ViewChangeVote, ViewVoteCounts, Inv, TypeOK
<1>2. /\ w \in WeightTables /\ q \in SUBSET DOMAIN w
      /\ round.voteWeight + w[v] \in Nat
      /\ WeightOf(w, q) = round.voteWeight + w[v]
  BY <1>1, CountedWeight DEF Inv
<1>3. TotalWeight(w) \in Nat
  BY <1>2, TotalNat
<1>4. CASE ViewVoteReady(round, v, view)
  <2>1. /\ round' = NewRound(w) /\ readies' = readies \cup {q}
    BY <1>4 DEF ViewChangeVote, OnViewChangeVote
  <2>2. /\ round' \in RoundType /\ round'.weights = w /\ round'.votes = {}
        /\ round'.voteWeight = 0 /\ round'.phase = "Idle"
    BY <1>2, <2>1, NewRoundType DEF NewRound
  <2>3. TypeOK'
    BY <1>1, <1>2, <2>1, <2>2, TableType DEF TypeOK, Inv
  <2>4. TallyExact'
    BY <1>2, <2>2, WeightEmpty DEF TallyExact
  <2>5. 3 * WeightOf(w, q) >= 2 * TotalWeight(w)
    BY <1>2, <1>3, <1>4, ViewChangeQuorumExact DEF ViewVoteReady
  <2>6. ReadiesAreQuorums'
    BY <1>2, <2>1, <2>2, <2>5 DEF ReadiesAreQuorums, Inv
  <2> QED BY <1>1, <2>2, <2>3, <2>4, <2>6 DEF Inv, CommitsAreStrictQuorums
<1>5. CASE ~ViewVoteReady(round, v, view)
  <2>1. /\ round' = [round EXCEPT !.votes = q, !.voteWeight = round.voteWeight + w[v]]
        /\ readies' = readies
    BY <1>5 DEF ViewChangeVote, OnViewChangeVote
  <2>2. /\ round' \in RoundType /\ round'.weights = w /\ round'.votes = q
        /\ round'.voteWeight = round.voteWeight + w[v] /\ round'.phase = "ViewChanging"
    BY <1>1, <1>2, <2>1, TableType DEF RoundType
  <2>3. TypeOK'
    BY <1>1, <2>1, <2>2 DEF TypeOK, Inv
  <2>4. TallyExact'
    BY <1>2, <2>2 DEF TallyExact
  <2> QED BY <1>1, <2>1, <2>2, <2>3, <2>4
          DEF Inv, CommitsAreStrictQuorums, ReadiesAreQuorums
<1> QED BY <1>4, <1>5

LEMMA BeginViewChangeInv ==
  ASSUME Inv, NEW view \in 1 .. MaxView, BeginViewChange(view)
  PROVE  Inv'
<1>1. /\ round \in RoundType /\ round.weights \in WeightTables
      /\ round' = [NewRound(round.weights) EXCEPT !.phase = "ViewChanging", !.newView = view]
      /\ commits' = commits /\ readies' = readies
  BY DEF BeginViewChange, StartViewChange, Inv, TypeOK, RoundType
<1>2. view \in Nat
  BY MaxViewAssumption
<1>3. /\ round' \in RoundType /\ round'.weights = round.weights
      /\ round'.votes = {} /\ round'.voteWeight = 0 /\ round'.phase = "ViewChanging"
  BY <1>1, <1>2 DEF NewRound, RoundType, Phases
<1>4. TypeOK'
  BY <1>1, <1>3 DEF TypeOK, Inv
<1>5. TallyExact'
  BY <1>1, <1>3, WeightEmpty DEF TallyExact
<1> QED BY <1>1, <1>3, <1>4, <1>5 DEF Inv, CommitsAreStrictQuorums, ReadiesAreQuorums

\* The inductive invariant of the round state machine.
THEOREM InvHolds == Spec => []Inv
<1>1. Inv /\ [Next]_vars => Inv'
  <2> SUFFICES ASSUME Inv, [Next]_vars PROVE Inv'
    OBVIOUS
  <2>1. CASE UNCHANGED vars
    BY <2>1 DEF vars, Inv, TypeOK, TallyExact, CommitsAreStrictQuorums, ReadiesAreQuorums
  <2>2. CASE Next
    BY <2>2, ProposeInv, VoteInv, ViewChangeVoteInv, BeginViewChangeInv DEF Next
  <2> QED BY <2>1, <2>2
<1> QED BY InitInv, <1>1, PTL DEF Spec

\* on_vote and on_view_change_vote keep the running weight equal to the
\* weight of the recorded voters, and never sit on a reached quorum.
THEOREM TallyIsExact == Spec => [](TypeOK /\ TallyExact)
<1>1. Inv => TypeOK /\ TallyExact
  BY DEF Inv
<1> QED BY InvHolds, <1>1, PTL

\* Every BlockCommitted event has a strict two-thirds quorum behind it.
THEOREM CommitsHaveQuorum == Spec => []CommitsAreStrictQuorums
<1>1. Inv => CommitsAreStrictQuorums
  BY DEF Inv
<1> QED BY InvHolds, <1>1, PTL

\* Two blocks of one height commit only if more than a third of the weight
\* voted for both.
THEOREM ConflictsNeedDoubleVotes == Spec => []ConflictingCommitsOverlap
<1>1. Inv => ConflictingCommitsOverlap
  <2> SUFFICES ASSUME Inv, NEW c \in commits, NEW d \in commits
               PROVE  3 * WeightOf(round.weights, c.signers \cap d.signers)
                        > TotalWeight(round.weights)
    BY DEF ConflictingCommitsOverlap
  <2>1. round.weights \in WeightTables
    BY DEF Inv, TypeOK, RoundType
  <2>2. /\ c.signers \in SUBSET DOMAIN round.weights
        /\ d.signers \in SUBSET DOMAIN round.weights
        /\ 3 * WeightOf(round.weights, c.signers) > 2 * TotalWeight(round.weights)
        /\ 3 * WeightOf(round.weights, d.signers) > 2 * TotalWeight(round.weights)
    BY DEF Inv, CommitsAreStrictQuorums
  <2>3. /\ WeightOf(round.weights, d.signers) \in Nat /\ TotalWeight(round.weights) \in Nat
    BY <2>1, <2>2, WeightNat, TotalNat
  <2>4. 3 * WeightOf(round.weights, d.signers) >= 2 * TotalWeight(round.weights)
    BY <2>2, <2>3
  <2> QED BY <2>1, <2>2, <2>4, QuorumsOverlap
<1> QED BY InvHolds, <1>1, PTL

\* Every view-change quorum shares a third of the weight with every commit.
THEOREM ViewChangesMeetEveryCommit == Spec => []ViewChangesMeetCommits
<1>1. Inv => ViewChangesMeetCommits
  BY QuorumsOverlap
     DEF Inv, ViewChangesMeetCommits, CommitsAreStrictQuorums, ReadiesAreQuorums,
         TypeOK, RoundType
<1> QED BY InvHolds, <1>1, PTL

\* A committed round is left only by start_view_change.
THEOREM CommittedStays == Spec => CommittedIsFinal
<1>1. [Next]_vars => [round.phase = "Committed" => round'.phase = "ViewChanging"]_round
  BY DEF Next, vars, Propose, Vote, VoteCounts, ViewChangeVote, ViewVoteCounts,
         BeginViewChange, StartViewChange, NewRound
<1> QED BY <1>1, PTL DEF Spec, CommittedIsFinal
==============================================================================
