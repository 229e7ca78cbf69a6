------------------------------ MODULE WPoaRound ------------------------------
(***************************************************************************)
(* The round state machine of one block height driven by every order of    *)
(* proposals, votes and view changes.  The node itself only proposes and   *)
(* votes: it collects view changes in a ViewChangeState and opens a new    *)
(* round for another block, so that the view-change methods of the class   *)
(* are called by its tests alone.                                          *)
(***************************************************************************)
EXTENDS WPoaRoundOps

CONSTANT MaxView   \* bound on the views a view change may ask for

ASSUME MaxViewAssumption == MaxView \in Nat

VARIABLES round,     \* the WPoaRound value
          commits,   \* history: the BlockCommitted events emitted
          readies    \* history: the voters behind each ViewChangeReady event

vars == <<round, commits, readies>>

TypeOK ==
  /\ round \in RoundType
  /\ commits \subseteq [hash : Hashes, signers : SUBSET Validators]
  /\ readies \subseteq SUBSET Validators

Init ==
  /\ \E w \in WeightTables : round = NewRound(w)
  /\ commits = {}
  /\ readies = {}

\* Mutant: a late proposal restarts the vote whatever the phase.
Propose_AnyPhase(h) ==
  /\ round' = [round EXCEPT !.phase = "Voting", !.hash = h, !.votes = {}, !.voteWeight = 0]
  /\ UNCHANGED <<commits, readies>>

Propose(h) ==
  /\ round.phase = "Idle"
  /\ round' = OnBlockProposed(round, h)
  /\ UNCHANGED <<commits, readies>>

\* A counted vote; every other vote leaves the round as it was.
Vote(v, h) ==
  /\ VoteCounts(round, v, h)
  /\ round' = OnVote(round, v, h)
  /\ commits' = IF VoteCommits(round, v, h)
                THEN commits \cup {[hash |-> h, signers |-> round.votes \cup {v}]}
                ELSE commits
  /\ UNCHANGED readies

ViewChangeVote(v, view) ==
  /\ ViewVoteCounts(round, v, view)
  /\ round' = OnViewChangeVote(round, v, view)
  /\ readies' = IF ViewVoteReady(round, v, view)
                THEN readies \cup {round.votes \cup {v}}
                ELSE readies
  /\ UNCHANGED commits

BeginViewChange(view) ==
  /\ round' = StartViewChange(round, view)
  /\ UNCHANGED <<commits, readies>>

Next ==
  \/ \E h \in Hashes : Propose(h)
  \/ \E v \in Validators, h \in Hashes : Vote(v, h)
  \/ \E v \in Validators, view \in 1 .. MaxView : ViewChangeVote(v, view)
  \/ \E view \in 1 .. MaxView : BeginViewChange(view)

Spec == Init /\ [][Next]_vars
------------------------------------------------------------------------------
\* The running weight is the weight of the recorded voters, and a round that
\* is still voting never holds a quorum it failed to act on.
TallyExact ==
  /\ round.votes \subseteq DOMAIN round.weights
  /\ round.voteWeight = WeightOf(round.weights, round.votes)
  /\ round.phase = "Voting" =>
       ~HasWeightedQuorum(round.voteWeight, TotalWeight(round.weights))

\* Every BlockCommitted event carries signers whose weight is strictly more
\* than two thirds of the total (so none is emitted when the total is zero).
CommitsAreStrictQuorums ==
  \A c \in commits :
    /\ c.signers \subseteq DOMAIN round.weights
    /\ 3 * WeightOf(round.weights, c.signers) > 2 * TotalWeight(round.weights)

\* start_view_change accepts a Committed round, so one height can commit two
\* blocks; only if validators with more than a third of the weight voted for
\* both.
ConflictingCommitsOverlap ==
  \A c, d \in commits : c.hash # d.hash =>
    3 * WeightOf(round.weights, c.signers \cap d.signers) > TotalWeight(round.weights)

\* The weaker view-change quorum still shares more than a third of the weight
\* with every commit quorum, so some voter of a view change saw the commit.
ViewChangesMeetCommits ==
  \A c \in commits, q \in readies :
    3 * WeightOf(round.weights, c.signers \cap q) > TotalWeight(round.weights)

\* A committed round changes only by starting a view change: late votes and
\* late proposals cannot move it.
CommittedIsFinal ==
  [][round.phase = "Committed" => round'.phase = "ViewChanging"]_round
==============================================================================
