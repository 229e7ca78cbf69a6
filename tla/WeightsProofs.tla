---------------------------- MODULE WeightsProofs ----------------------------
(***************************************************************************)
(* Facts about weights and quorums, for every validator set and weight.    *)
(***************************************************************************)
EXTENDS Weights, FiniteSetTheorems, TLAPS

\* A weight table maps the validators it knows to weights.
LEMMA TableType ==
  ASSUME NEW w \in WeightTables
  PROVE  /\ DOMAIN w \in SUBSET Validators
         /\ \A v \in DOMAIN w : w[v] \in 0 .. MaxWeight
BY DEF WeightTables

LEMMA UnitsFinite ==
  ASSUME NEW w \in WeightTables, NEW S \in SUBSET DOMAIN w
  PROVE  IsFiniteSet(Units(w, S))
<1>1. IsFiniteSet(S)
  BY TableType, WeightsAssumption, FS_Subset
<1>2. IsFiniteSet(1 .. MaxWeight)
  BY FS_Interval, WeightsAssumption
<1>3. IsFiniteSet(S \X (1 .. MaxWeight))
  BY <1>1, <1>2, FS_Product
<1>4. Units(w, S) \subseteq S \X (1 .. MaxWeight)
  BY DEF Units
<1> QED BY <1>3, <1>4, FS_Subset

LEMMA WeightNat ==
  ASSUME NEW w \in WeightTables, NEW S \in SUBSET DOMAIN w
  PROVE  WeightOf(w, S) \in Nat
BY UnitsFinite, FS_CardinalityType DEF WeightOf

LEMMA WeightEmpty ==
  ASSUME NEW w \in WeightTables
  PROVE  WeightOf(w, {}) = 0
<1>1. Units(w, {}) = {}
  BY DEF Units
<1> QED BY <1>1, FS_EmptySet DEF WeightOf

\* Inclusion and exclusion: what the two summands share is counted twice.
LEMMA WeightUnion ==
  ASSUME NEW w \in WeightTables,
         NEW S \in SUBSET DOMAIN w, NEW T \in SUBSET DOMAIN w
  PROVE  WeightOf(w, S \cup T) + WeightOf(w, S \cap T) = WeightOf(w, S) + WeightOf(w, T)
<1>1. Units(w, S \cup T) = Units(w, S) \cup Units(w, T)
  BY DEF Units
<1>2. Units(w, S \cap T) = Units(w, S) \cap Units(w, T)
  BY DEF Units
<1>3. WeightOf(w, S \cup T) = WeightOf(w, S) + WeightOf(w, T) - WeightOf(w, S \cap T)
  <2>1. IsFiniteSet(Units(w, S)) /\ IsFiniteSet(Units(w, T))
    BY UnitsFinite
  <2>2. Cardinality(Units(w, S) \cup Units(w, T)) =
          Cardinality(Units(w, S)) + Cardinality(Units(w, T))
            - Cardinality(Units(w, S) \cap Units(w, T))
    BY <2>1, FS_Union
  <2> QED BY <1>1, <1>2, <2>2, Zenon DEF WeightOf
<1>4. /\ WeightOf(w, S) \in Nat /\ WeightOf(w, T) \in Nat
      /\ WeightOf(w, S \cap T) \in Nat
  BY WeightNat
<1> QED BY <1>3, <1>4

LEMMA WeightMonotone ==
  ASSUME NEW w \in WeightTables,
         NEW T \in SUBSET DOMAIN w, NEW S \in SUBSET T
  PROVE  WeightOf(w, S) <= WeightOf(w, T)
<1>1. Units(w, S) \subseteq Units(w, T)
  BY DEF Units
<1> QED BY <1>1, UnitsFinite, FS_Subset DEF WeightOf

LEMMA WeightSingle ==
  ASSUME NEW w \in WeightTables, NEW v \in DOMAIN w
  PROVE  WeightOf(w, {v}) = w[v]
<1>1. w[v] \in Nat /\ w[v] <= MaxWeight /\ MaxWeight \in Nat
  BY TableType, WeightsAssumption
<1> DEFINE f == [i \in 1 .. w[v] |-> <<v, i>>]
<1>2. f \in Bijection(1 .. w[v], Units(w, {v}))
  <2>1. Units(w, {v}) = {<<v, i>> : i \in 1 .. w[v]}
    BY <1>1 DEF Units
  <2> QED BY <2>1 DEF Bijection, Injection, Surjection, IsInjective
<1>3. IsFiniteSet(1 .. w[v]) /\ Cardinality(1 .. w[v]) = w[v]
  BY <1>1, FS_Interval
<1>4. ExistsBijection(1 .. w[v], Units(w, {v}))
  BY <1>2 DEF ExistsBijection
<1> QED BY <1>3, <1>4, FS_Bijection DEF WeightOf

\* Counting one more voter adds its weight.
LEMMA WeightAdd ==
  ASSUME NEW w \in WeightTables,
         NEW S \in SUBSET DOMAIN w, NEW v \in DOMAIN w, v \notin S
  PROVE  WeightOf(w, S \cup {v}) = WeightOf(w, S) + w[v]
<1>1. S \cap {v} = {}
  OBVIOUS
<1>2. WeightOf(w, S \cup {v}) + WeightOf(w, S \cap {v}) = WeightOf(w, S) + WeightOf(w, {v})
  BY WeightUnion
<1>3. /\ WeightOf(w, S \cup {v}) \in Nat /\ WeightOf(w, S) \in Nat /\ w[v] \in Nat
  BY WeightNat, TableType, WeightsAssumption
<1> QED BY <1>1, <1>2, <1>3, WeightEmpty, WeightSingle

\* has_weighted_quorum decides exactly "strictly more than two thirds".
THEOREM StrictQuorumExact ==
  ASSUME NEW a \in Nat, NEW t \in Nat
  PROVE  HasWeightedQuorum(a, t) <=> t > 0 /\ 3 * a > 2 * t
BY DEF HasWeightedQuorum, StrictQuorumWeight

\* view_change_quorum_weight decides exactly "at least two thirds".
THEOREM ViewChangeQuorumExact ==
  ASSUME NEW a \in Nat, NEW t \in Nat
  PROVE  a >= ViewChangeQuorumWeight(t) <=> 3 * a >= 2 * t
BY DEF ViewChangeQuorumWeight

\* A strict quorum and a set with two thirds of the weight share validators
\* with more than one third of it.
THEOREM QuorumsOverlap ==
  ASSUME NEW w \in WeightTables,
         NEW S \in SUBSET DOMAIN w, NEW T \in SUBSET DOMAIN w,
         3 * WeightOf(w, S) > 2 * TotalWeight(w),
         3 * WeightOf(w, T) >= 2 * TotalWeight(w)
  PROVE  3 * WeightOf(w, S \cap T) > TotalWeight(w)
<1>1. WeightOf(w, S \cup T) <= TotalWeight(w)
  BY WeightMonotone DEF TotalWeight
<1>2. WeightOf(w, S \cup T) + WeightOf(w, S \cap T) = WeightOf(w, S) + WeightOf(w, T)
  BY WeightUnion
<1>3. /\ WeightOf(w, S) \in Nat /\ WeightOf(w, T) \in Nat
      /\ WeightOf(w, S \cap T) \in Nat /\ WeightOf(w, S \cup T) \in Nat
      /\ TotalWeight(w) \in Nat
  BY WeightNat DEF TotalWeight
<1> QED BY <1>1, <1>2, <1>3
==============================================================================
