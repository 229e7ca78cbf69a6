---------------------------- MODULE WPoaRoundOps -----------------------------
(***************************************************************************)
(* The methods of WPoaRound as operators on a round value, for the modules *)
(* that own a round.  Signatures and Instants carry no control: a vote is  *)
(* its voter.  The phase Proposing is declared by the code and never       *)
(* entered by it, so it is left out.                                       *)
(***************************************************************************)
EXTENDS Weights, BlockHashes

Phases == {"Idle", "Voting", "Committed", "ViewChanging"}

\* WPoaRound and its RoundPhase; a field its phase does not have is empty.
RoundType == [weights : WeightTables, phase : Phases,
              hash : Hashes \cup {NoHash}, votes : SUBSET Validators,
              voteWeight : Nat, newView : Nat]

NewRound(w) == [weights |-> w, phase |-> "Idle", hash |-> NoHash,
                votes |-> {}, voteWeight |-> 0, newView |-> 0]

\* Mutant: the proposal parks the round in the phase the code never leaves.
OnBlockProposed_Parks(r, h) ==
  IF r.phase = "Idle" THEN [r EXCEPT !.phase = "Proposing", !.hash = h] ELSE r

OnBlockProposed(r, h) ==
  IF r.phase = "Idle"
  THEN [r EXCEPT !.phase = "Voting", !.hash = h, !.votes = {}, !.voteWeight = 0]
  ELSE r

\* Mutant: a repeated vote is counted again.
VoteCounts_Duplicate(r, v, h) ==
  v \in DOMAIN r.weights /\ r.phase = "Voting" /\ h = r.hash

\* The vote is recorded: a known voter, the round's hash, not a duplicate.
VoteCounts(r, v, h) ==
  v \in DOMAIN r.weights /\ r.phase = "Voting" /\ h = r.hash /\ v \notin r.votes

\* Mutant: the commit threshold is the view-change one.
VoteCommits_Ceil(r, v, h) ==
  /\ VoteCounts(r, v, h)
  /\ TotalWeight(r.weights) # 0
  /\ r.voteWeight + r.weights[v] >= ViewChangeQuorumWeight(TotalWeight(r.weights))

\* The vote is recorded and emits BlockCommitted (votes plus v as evidence).
VoteCommits(r, v, h) ==
  /\ VoteCounts(r, v, h)
  /\ TotalWeight(r.weights) # 0
  /\ r.voteWeight + r.weights[v] >= StrictQuorumWeight(TotalWeight(r.weights))

OnVote(r, v, h) ==
  CASE VoteCommits(r, v, h) ->
         [r EXCEPT !.phase = "Committed", !.votes = {}, !.voteWeight = 0]
    [] VoteCounts(r, v, h) /\ ~VoteCommits(r, v, h) ->
         [r EXCEPT !.votes = @ \cup {v}, !.voteWeight = @ + r.weights[v]]
    [] OTHER -> r

ViewVoteCounts(r, v, view) ==
  /\ v \in DOMAIN r.weights
  /\ r.phase = "ViewChanging" /\ view = r.newView
  /\ v \notin r.votes

\* Mutant: floor instead of ceiling of two thirds.
ViewVoteReady_Floor(r, v, view) ==
  /\ ViewVoteCounts(r, v, view)
  /\ TotalWeight(r.weights) # 0
  /\ r.voteWeight + r.weights[v] >= (2 * TotalWeight(r.weights)) \div 3

\* The vote emits ViewChangeReady.
ViewVoteReady(r, v, view) ==
  /\ ViewVoteCounts(r, v, view)
  /\ TotalWeight(r.weights) # 0
  /\ r.voteWeight + r.weights[v] >= ViewChangeQuorumWeight(TotalWeight(r.weights))

OnViewChangeVote(r, v, view) ==
  CASE ViewVoteReady(r, v, view) -> NewRound(r.weights)
    [] ViewVoteCounts(r, v, view) /\ ~ViewVoteReady(r, v, view) ->
         [r EXCEPT !.votes = @ \cup {v}, !.voteWeight = @ + r.weights[v]]
    [] OTHER -> r

\* From any phase, Committed included.
StartViewChange(r, view) ==
  [NewRound(r.weights) EXCEPT !.phase = "ViewChanging", !.newView = view]
==============================================================================
