------------------------------- MODULE Weights -------------------------------
(***************************************************************************)
(* Validator weights and the two quorum thresholds of the consensus crate. *)
(*                                                                         *)
(* The code adds the u64 weights of a set of validators with               *)
(* saturating_add.  WeightOf counts the weight units of the set, one pair  *)
(* <<v, i>> for every unit i of validator v: the same sum (ASSUME          *)
(* WeightIsSum of MCWPoaRound compares them), written as the size of a set *)
(* so that facts about sums follow from facts about cardinality.           *)
(* Saturation at 2^64 - 1 is out of reach of real weights and left out.    *)
(***************************************************************************)
EXTENDS Naturals, FiniteSets

CONSTANTS Validators,   \* every address that can be a validator
          MaxWeight     \* the largest weight a validator can have

ASSUME WeightsAssumption ==
  /\ IsFiniteSet(Validators)
  /\ MaxWeight \in Nat

\* A weight table: HashMap<Address, u64> of the validators it knows.
WeightTables == UNION {[K -> 0 .. MaxWeight] : K \in SUBSET Validators}

Units(w, S) == {u \in S \X (1 .. MaxWeight) : u[2] <= w[u[1]]}

WeightOf(w, S) == Cardinality(Units(w, S))

TotalWeight(w) == WeightOf(w, DOMAIN w)

\* Smallest weight strictly greater than two thirds of t (finality).
StrictQuorumWeight(t) == IF t = 0 THEN 0 ELSE (2 * t) \div 3 + 1

HasWeightedQuorum(a, t) == a >= StrictQuorumWeight(t) /\ t > 0

\* Ceiling of two thirds of t (view change).
ViewChangeQuorumWeight(t) == (2 * t + 2) \div 3
==============================================================================
