---------------------------- MODULE Attestations -----------------------------
(***************************************************************************)
(* FinalityState as the node drives it: attestations of stored blocks      *)
(* (Node::handle_attestation), certificates (set_finalized_direct),        *)
(* validator weights that change in between, and a durable finalized       *)
(* cursor whose write can fail.  Numbers are bound to hashes by the        *)
(* handler's comparison with the stored header.                            *)
(***************************************************************************)
EXTENDS FinalityOps

CONSTANT HashNumber   \* the number in the stored header of each hash

ASSUME HashNumberAssumption == HashNumber \in [Hashes -> Nat \ {0}]

VARIABLES finality,    \* Node::finality
          durable,     \* the persisted FINALIZED_NUMBER (0 = none)
          canonical,   \* number -> canonical hash, NoHash where there is none
          weights      \* ConsensusEngine::validator_weights

vars == <<finality, durable, canonical, weights>>

Numbers == {HashNumber[h] : h \in Hashes}

TypeOK ==
  /\ IsFinality(finality)
  /\ durable \in Nat
  /\ canonical \in [Numbers -> Hashes \cup {NoHash}]
  /\ weights \in WeightTables

Init ==
  /\ finality = WithFinalized(0, NoHash)
  /\ durable = 0
  /\ canonical = [n \in Numbers |-> NoHash]
  /\ weights \in WeightTables

\* Mutant: the canonical index is cut off at the new block.
Import_Truncates(h) ==
  LET n == HashNumber[h] IN
  /\ n > finality.number /\ canonical[n] # h
  /\ canonical' = [m \in {k \in Numbers : k <= n} |-> IF m = n THEN h ELSE canonical[m]]
  /\ UNCHANGED <<finality, durable, weights>>

\* A block on a canonical parent becomes canonical at its height, above
\* finality (import, or the first block of an adopted fork); what was above a
\* block it replaces is no longer canonical.
Import(h) ==
  LET n == HashNumber[h] IN
  /\ n > finality.number /\ canonical[n] # h
  /\ n - 1 \in Numbers => canonical[n - 1] # NoHash
  /\ canonical' = [m \in Numbers |-> IF m < n THEN canonical[m]
                                     ELSE IF m = n THEN h ELSE NoHash]
  /\ UNCHANGED <<finality, durable, weights>>

\* The attestation passes the equivocation test and is new or a repeat.
Accepted(h, v) ==
  /\ v \in DOMAIN weights
  /\ ~DetectEquivocation(finality, h, HashNumber[h], v)
  /\ \/ Recordable(finality, h, HashNumber[h], v, weights[v])
     \/ HasAttested(finality, h, v)

Recorded(h, v) ==
  IF Recordable(finality, h, HashNumber[h], v, weights[v])
  THEN Record(finality, h, HashNumber[h], v, weights[v]) ELSE finality

Finalizes(h, v) ==
  /\ canonical[HashNumber[h]] = h
  /\ CanFinalize(Recorded(h, v), h, HashNumber[h], TotalWeight(weights))

\* handle_attestation with no finality, or with the cursor's write failing:
\* the attestation stays pending.
Attest(h, v) ==
  /\ Accepted(h, v)
  /\ finality' = Recorded(h, v)
  /\ UNCHANGED <<durable, canonical, weights>>

\* Mutant: memory first, then a write that may not happen.
AttestFinal_MemoryFirst(h, v) ==
  /\ Accepted(h, v) /\ Finalizes(h, v)
  /\ finality' = CheckFinality(Recorded(h, v), h, HashNumber[h], TotalWeight(weights))
  /\ UNCHANGED <<durable, canonical, weights>>

\* handle_attestation that finalizes: the cursor is written first.
AttestFinal(h, v) ==
  /\ Accepted(h, v) /\ Finalizes(h, v)
  /\ durable' = HashNumber[h]
  /\ finality' = CheckFinality(Recorded(h, v), h, HashNumber[h], TotalWeight(weights))
  /\ UNCHANGED <<canonical, weights>>

\* Mutant: an old certificate sets both cursors.
Certify_AnyHeight(h) ==
  /\ canonical[HashNumber[h]] = h
  /\ durable' = HashNumber[h]
  /\ finality' = WithFinalized(HashNumber[h], h)
  /\ UNCHANGED <<canonical, weights>>

\* fast_finalize_with_certificate for a canonical block, certificate verified.
Certify(h) ==
  /\ canonical[HashNumber[h]] = h /\ HashNumber[h] > finality.number
  /\ durable' = HashNumber[h]
  /\ finality' = SetFinalizedDirect(finality, HashNumber[h], h)
  /\ UNCHANGED <<canonical, weights>>

\* An epoch reload or a slash replaces the active weights.
Reweigh(w) == weights' = w /\ UNCHANGED <<finality, durable, canonical>>

\* The process stops; Node::new reads the cursor back and
\* recover_unfinalized_head drops the canonical suffix above it.
Restart ==
  /\ finality' = WithFinalized(durable, IF durable = 0 THEN NoHash ELSE canonical[durable])
  /\ canonical' = [n \in Numbers |-> IF durable > 0 /\ n > durable THEN NoHash
                                     ELSE canonical[n]]
  /\ UNCHANGED <<durable, weights>>

Next ==
  \/ \E h \in Hashes : Import(h)
  \/ \E h \in Hashes, v \in Validators : Attest(h, v)
  \/ \E h \in Hashes, v \in Validators : AttestFinal(h, v)
  \/ \E h \in Hashes : Certify(h)
  \/ \E w \in WeightTables : Reweigh(w)
  \/ Restart

Spec == Init /\ [][Next]_vars
------------------------------------------------------------------------------
\* Whatever finalizes, everything at or below the cursor is forgotten and the
\* pending blocks stay within their capacity.
PendingBounded ==
  /\ Cardinality(Pending(finality)) <= MaxPending
  /\ \A h \in Pending(finality) : finality.pending[h].number > finality.number
  /\ \A e \in finality.first : e[1] > finality.number

\* A validator's weight is never counted for two blocks of one height: the
\* equivocation test of handle_attestation sees every earlier attestation.
NoDoubleCount ==
  \A g, h \in Pending(finality) :
    g # h /\ finality.pending[g].number = finality.pending[h].number =>
      finality.pending[g].voters \cap finality.pending[h].voters = {}

\* The volatile cursor is the durable one and names the canonical block, so a
\* restart at any moment neither loses nor invents finality.
CursorDurable ==
  /\ finality.number = durable
  /\ durable > 0 => finality.hash = canonical[durable] /\ finality.hash # NoHash

\* Finality never moves back and never changes its mind about a height.
CursorOnlyAdvances ==
  [][/\ finality'.number >= finality.number
     /\ finality'.number = finality.number => finality'.hash = finality.hash]_vars
==============================================================================
