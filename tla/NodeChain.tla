----------------------------- MODULE NodeChain -------------------------------
(***************************************************************************)
(* One node: its event loop takes blocks, votes, certificates and          *)
(* attestations from the network in any order, the block timer adopts the  *)
(* preferred fork or produces a block, store accesses may fail, and the    *)
(* process may stop between any two events.  Messages are unconstrained:   *)
(* any validator may sign anything.                                        *)
(***************************************************************************)
EXTENDS NodeChainOps

CONSTANTS Voters,        \* validators whose votes arrive
          Attesters,     \* validators whose attestations arrive
          Certificates,  \* signer sets of the certificates that arrive
          Producible,    \* blocks the local validator may build
          Writes,        \* the Outcomes of store accesses that occur
          Crashes        \* whether the process may stop

ASSUME NodeChainAssumption ==
  /\ Voters \subseteq Validators /\ Attesters \subseteq Validators
  /\ Certificates \subseteq SUBSET Validators
  /\ Producible \subseteq Blocks
  /\ Writes \subseteq Outcomes /\ Crashes \in BOOLEAN

VARIABLES node,
          torn,    \* history: the live state could not be opened at the head
          drift    \* history: the last boundary was passed without a reload

vars == <<node, torn, drift>>

FinalityWrites == Writes \cap {"done", "refused"}
ForkWrites == Writes \cap {"done", "refused", "reopen"}
ProduceWrites == Writes \cap ({"done", "refused"} \cup ProduceExits)

\* Only a block that becomes canonical can leave import_block_inner by one of
\* the exits after the batch.
ImportWrites(b) ==
  IF ImportsNext(node, b) THEN Writes \cap ({"done", "refused"} \cup ImportExits)
  ELSE ForkWrites

Init == node = GenesisNode /\ torn = FALSE /\ drift = FALSE

\* The history of a step; next: the head can only have moved to a child that was
\* imported or built, which reloads the authorities at a boundary.
Remember(next, w) ==
  /\ torn' = (node'.live # Tip(node') /\ (torn \/ w = "reopen"))
  /\ drift' =
       CASE Tip(node') = Tip(node) -> drift
         [] Tip(node') # Tip(node) /\ ~next -> TRUE
         [] OTHER -> IF ReloadHeight(TipNumber(node')) = TipNumber(node')
                     THEN w \in {"reopen", "backlog", "unloaded"} ELSE drift

NewBlock(b, w) ==
  b # Genesis /\ node' = HandleNewBlock(node, b, w) /\ Remember(TRUE, w)
SyncBlock(b, S, w) ==
  /\ b # Genesis /\ node' = HandleSyncBlock(node, b, S, w)
  /\ Remember(ClassifyImport(node, b) = "Next", w)
Vote(v, b, w) ==
  b # Genesis /\ node' = HandleVote(node, v, b, w) /\ UNCHANGED <<torn, drift>>
Certificate(b, S, w) ==
  b # Genesis /\ node' = HandleCertificate(node, b, S, w) /\ Remember(FALSE, w)
Attestation(v, b, w) ==
  b # Genesis /\ node' = HandleAttestation(node, v, b, w) /\ UNCHANGED <<torn, drift>>
AdoptFork(w) ==
  HasPlan(node) /\ node' = AdoptPreferredFork(node, w) /\ Remember(FALSE, w)
ProduceBlock(b, w) ==
  CanProduce(node, b) /\ node' = Produce(node, b, w) /\ Remember(TRUE, w)
StopAndStart ==
  /\ Crashes /\ node' = Restart(node)
  /\ torn' = FALSE /\ drift' = (Tip(node') # Tip(node))

Next ==
  \/ \E b \in Blocks : \E w \in ImportWrites(b) : NewBlock(b, w)
  \/ \E b \in Blocks, S \in Certificates \cup {{}} :
       \E w \in ImportWrites(b) : SyncBlock(b, S, w)
  \/ \E v \in Voters, b \in Blocks, w \in FinalityWrites : Vote(v, b, w)
  \/ \E b \in Blocks, S \in Certificates, w \in ForkWrites : Certificate(b, S, w)
  \/ \E v \in Attesters, b \in Blocks, w \in FinalityWrites : Attestation(v, b, w)
  \/ \E w \in ForkWrites : AdoptFork(w)
  \/ \E b \in Producible, w \in ProduceWrites : ProduceBlock(b, w)
  \/ StopAndStart

Spec == Init /\ [][Next]_vars
------------------------------------------------------------------------------
TypeOK == IsNode(node) /\ torn \in BOOLEAN /\ drift \in BOOLEAN

\* Core invariants 1 to 4: the canonical mapping is a path of stored blocks
\* from genesis to the head, the finalized block is on it, and the live state
\* is the head's unless it could not be opened after the head's batch; the
\* volatile finalized cursor is the durable one.
CoreInvariants ==
  /\ node.canon = PathTo(Tip(node)) /\ Tip(node) \in node.stored
  /\ torn \/ node.live = Tip(node)
  /\ node.finality.number = node.fin /\ node.fin <= TipNumber(node)
  /\ node.fin > 0 => node.finality.hash = node.canon[node.fin]

\* Core invariant 6 and finality: no step, a restart and a fork adoption
\* included, replaces or loses a canonical block at or below the cursor.
FinalizedStays ==
  [][/\ node'.fin >= node.fin
     /\ \A k \in 0 .. node.fin : node'.canon[k] = node.canon[k]]_vars

\* Fork choice follows finality: its root is the finalized block
\* and the whole canonical suffix is tracked, so that a quorum-backed
\* preferred fork whose own path is tracked always has a plan.
ForkChoiceFollows ==
  /\ node.fin > 0 => node.fc.root = node.finality.hash
  /\ \A k \in node.fin .. TipNumber(node) : node.canon[k] \in Tracked(node.fc)
  /\ PrefersFork(node) /\ Reaches(node.fc, node.fc.head, node.canon[node.fin])
       => HasPlan(node)

\* An invalid block never becomes canonical, by import or by adoption.
OnlyValidCanonical == \A k \in DOMAIN node.canon : node.canon[k] \notin Invalid

\* The active weights are those of the last epoch boundary of the canonical
\* chain.
AuthoritiesMatchHead ==
  node.weights = Registry[node.canon[ReloadHeight(TipNumber(node))]]

\* The active weights are those of the last epoch boundary of the canonical
\* chain, through failed writes and restarts, unless that boundary was passed by
\* adopting a fork, by a startup rewind or by an import or a production that
\* failed before its reload: whatever the drift, the next boundary block ends it.
AuthoritiesFollow == drift \/ AuthoritiesMatchHead


\* A round commits the canonical block of its height.
Commits ==
  LET r == node'.round.round IN
  r.phase = "Committed" /\ r # node.round.round /\ Canonical(node', r.hash)

\* A round that commits the canonical block of its height finalizes it in the
\* same step, as long as the active weights are the ones it began with: a vote
\* whose finality write fails leaves the round open for the vote to be repeated.
CommitFinalizes ==
  [][Commits /\ (node.round.number = node'.round.number
                    => node.round.round.weights = node.weights)
       => Number[node'.round.round.hash] <= node'.fin]_vars

\* The same without the restriction, as documented: "A failed write restores the
\* voting round so the triggering vote can safely retry persistence".  Refuted,
\* the replay under other weights may commit without that vote.
FailedWriteRetries == [][Commits => Number[node'.round.round.hash] <= node'.fin]_vars

\* The node implements FinalizedChain with its durable finalized block.
Finality == INSTANCE FinalizedChain WITH final <- node.canon[node.fin]
FinalityRefined == Finality!FinalSpec
==============================================================================
