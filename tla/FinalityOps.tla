----------------------------- MODULE FinalityOps -----------------------------
(***************************************************************************)
(* The methods of FinalityState as operators on a finality value.  An      *)
(* attestation carries the block number its signer claims (the code also   *)
(* compares chain id, parent and round with the first attestation stored   *)
(* for the hash: one field stands for the four).  A hash is a key of       *)
(* pending_attestations, pending_attested_weight and attestation_store     *)
(* together, so they are one function; an entry keeps the metadata of its  *)
(* first attestation.                                                      *)
(***************************************************************************)
EXTENDS Weights, BlockHashes

CONSTANT MaxPending   \* MAX_PENDING_ATTESTATION_BLOCKS

ASSUME MaxPendingAssumption == MaxPending \in Nat

EntryType == [number : Nat, voters : SUBSET Validators, weight : Nat]

Pending(f) == DOMAIN f.pending

IsFinality(f) ==
  /\ f = [number |-> f.number, hash |-> f.hash, pending |-> f.pending, first |-> f.first]
  /\ f.number \in Nat /\ f.hash \in Hashes \cup {NoHash}
  /\ Pending(f) \subseteq Hashes /\ f.pending \in [Pending(f) -> EntryType]
  /\ f.first \subseteq Nat \X Validators \X Hashes

\* FinalityState::with_finalized, and new for number 0.
WithFinalized(n, h) ==
  [number |-> n, hash |-> h, pending |-> [b \in {} |-> b], first |-> {}]

AttestedWeight(f, h) == IF h \in Pending(f) THEN f.pending[h].weight ELSE 0

HasAttested(f, h, v) == h \in Pending(f) /\ v \in f.pending[h].voters

\* Mutant: the wrong height is looked up.
DetectEquivocation_NextHeight(f, h, n, v) ==
  \E g \in Hashes \ {h} : <<n + 1, v, g>> \in f.first

\* detect_equivocation: v's first attestation at height n was for another block.
DetectEquivocation(f, h, n, v) == \E g \in Hashes \ {h} : <<n, v, g>> \in f.first

\* Mutant: the capacity test is off by one.
Recordable_OverCap(f, h, n, v, w) ==
  /\ w > 0 /\ n > f.number
  /\ h \in Pending(f) => f.pending[h].number = n
  /\ h \notin Pending(f) => Cardinality(Pending(f)) <= MaxPending
  /\ ~HasAttested(f, h, v)

\* record_attestation_weighted returns true.
Recordable(f, h, n, v, w) ==
  /\ w > 0 /\ n > f.number
  /\ h \in Pending(f) => f.pending[h].number = n
  /\ h \notin Pending(f) => Cardinality(Pending(f)) < MaxPending
  /\ ~HasAttested(f, h, v)

Record(f, h, n, v, w) ==
  LET old == IF h \in Pending(f) THEN f.pending[h]
             ELSE [number |-> n, voters |-> {}, weight |-> 0]
      new == [old EXCEPT !.voters = @ \cup {v}, !.weight = @ + w]
  IN  [f EXCEPT !.pending = [g \in Pending(f) \cup {h} |->
                               IF g = h THEN new ELSE f.pending[g]],
                !.first = IF \E g \in Hashes : <<n, v, g>> \in @
                          THEN @ ELSE @ \cup {<<n, v, h>>}]

\* FinalityState::prune_below.
PruneAttestations(f, n) ==
  [f EXCEPT !.pending = [h \in {g \in Pending(f) : f.pending[g].number > n} |-> f.pending[h]],
            !.first = {e \in @ : e[1] > n}]

CanFinalize(f, h, n, total) ==
  /\ h \in Pending(f) /\ f.pending[h].number = n
  /\ HasWeightedQuorum(AttestedWeight(f, h), total)
  /\ n > f.number

SetFinalizedDirect(f, n, h) ==
  IF n > f.number THEN PruneAttestations([f EXCEPT !.number = n, !.hash = h], n) ELSE f

\* check_finality_weighted.
CheckFinality(f, h, n, total) ==
  IF CanFinalize(f, h, n, total) THEN SetFinalizedDirect(f, n, h) ELSE f
==============================================================================
