---------------------------- MODULE NodeChainOps -----------------------------
(***************************************************************************)
(* The chain-moving handlers of Node as operators on a node value: the     *)
(* canonical chain and the durable records beside it, the finality state,  *)
(* fork choice, the voting round, the early commit certificate and the     *)
(* active validator weights.  A handler runs to its end before the event   *)
(* loop takes the next event, so each is one operator; its parameter w     *)
(* says how its store accesses fare (Outcomes).  A block changes the state,*)
(* so that no two blocks have the same state root.                         *)
(***************************************************************************)
EXTENDS WPoaRoundOps, FinalityOps, ForkChoiceOps

CONSTANTS Me,            \* the local validator
          Invalid,       \* blocks whose execution does not match their header
          EpochLength,   \* poa_config().epoch_length
          Registry       \* validators and weights in the state of each block

ASSUME NodeAssumption ==
  /\ Hashes = Blocks /\ NoHash = 0
  /\ Me \in Validators /\ Invalid \subseteq Blocks \ {Genesis}
  /\ EpochLength \in Nat
  /\ Registry \in [Blocks -> WeightTables]
  /\ \A b \in Blocks : DOMAIN Registry[b] # {}

\* How the store accesses of a handler fare: all are done; its finality or reorg
\* write is refused; or an error ends it after a block's durable batch: when the
\* state is opened at the new root, when the proof backlog is queued before the
\* fork-choice entry is made, before the authorities are reloaded, or after it.
Outcomes == {"done", "refused", "reopen", "backlog", "unloaded", "late"}

\* The `?` exits of import_block_inner after commit_canonical_overlay.
ImportExits == {"reopen", "unloaded", "late"}

\* Those of produce_block: update_chain_totals, too, fails before the reload.
ProduceExits == ImportExits \cup {"backlog"}

\* authority_reload_height, is_epoch_boundary (0: every block).
ReloadHeight(k) == IF EpochLength = 0 THEN k ELSE k - (k % EpochLength)

TipNumber(n) == Cardinality(DOMAIN n.canon) - 1
Tip(n) == n.canon[TipNumber(n)]
Canonical(n, b) == Number[b] \in DOMAIN n.canon /\ n.canon[Number[b]] = b
Total(n) == TotalWeight(n.weights)

\* The ancestors of b by number.
PathTo(b) == [k \in 0 .. Number[b] |-> CHOOSE a \in Ancestors[b] : Number[a] = k]

NoRound == [number |-> 0, round |-> NewRound([v \in {} |-> 0])]
NoCertificate == <<0, {}>>

\* The type of a node value.
IsNode(n) ==
  /\ n.canon \in [0 .. TipNumber(n) -> Blocks]
  /\ n.stored \subseteq Blocks /\ n.certs \subseteq n.stored
  /\ n.fin \in 0 .. TipNumber(n)
  /\ IsFinality(n.finality) /\ IsForkChoice(n.fc)
  /\ n.round.round \in RoundType /\ n.round.number \in Nat
  /\ n.early[1] \in Blocks \cup {0} /\ n.early[2] \subseteq Validators
  /\ n.weights \in WeightTables /\ n.live \in Blocks

GenesisNode ==
  [canon |-> PathTo(Genesis), stored |-> {Genesis}, certs |-> {}, fin |-> 0,
   finality |-> WithFinalized(0, 0), fc |-> NewForkChoice(Genesis),
   round |-> NoRound, early |-> NoCertificate,
   weights |-> Registry[Genesis], live |-> Genesis]
------------------------------------------------------------------------------
\* ChainStateMachine::classify_import; the two kinds of fork are handled alike.
ClassifyImport(n, b) ==
  LET k == Number[b] IN
  CASE k <= n.finality.number /\ ~Canonical(n, b) -> "Conflict"
    [] k > n.finality.number /\ k <= TipNumber(n) /\ ~Canonical(n, b) -> "Fork"
    [] k <= TipNumber(n) /\ Canonical(n, b) -> "Stale"
    [] k = TipNumber(n) + 1 /\ Parent[b] # Tip(n) -> "Fork"
    [] k = TipNumber(n) + 1 /\ Parent[b] = Tip(n) -> "Next"
    [] k > TipNumber(n) + 1 -> "Gap"

RegisterForkChoiceBlock(n, b) ==
  [n EXCEPT !.fc = AddBlock(@, b, AttestedWeight(n.finality, b),
                            n.finality.number >= Number[b])]

\* Mutant: the reload happens one block early.
ReloadAuthoritiesIfBoundary_Early(n, b) ==
  IF ReloadHeight(Number[b] + 1) = Number[b] + 1
  THEN [n EXCEPT !.weights = Registry[b]] ELSE n

ReloadAuthoritiesIfBoundary(n, b) ==
  IF ReloadHeight(Number[b]) = Number[b]
  THEN [n EXCEPT !.weights = Registry[b]] ELSE n

\* commit_canonical_overlay of the next block.
CommitCanonicalOverlay(n, b) ==
  [n EXCEPT !.canon = [k \in 0 .. Number[b] |-> IF k = Number[b] THEN b ELSE n.canon[k]],
            !.stored = @ \cup {b}]

\* The batch, replace_world_state and register_fork_choice_block.
CommitNext(n, b) ==
  RegisterForkChoiceBlock([CommitCanonicalOverlay(n, b) EXCEPT !.live = b], b)

\* What import_block_inner and produce_block do with the next block, as far as
\* the exit w lets them.
CommitAndReload(n, b, w) ==
  CASE w = "reopen" -> CommitCanonicalOverlay(n, b)
    [] w = "backlog" -> [CommitCanonicalOverlay(n, b) EXCEPT !.live = b]
    [] w = "unloaded" -> CommitNext(n, b)
    [] OTHER -> ReloadAuthoritiesIfBoundary(CommitNext(n, b), b)

\* The block extends the head, and executing it on the live state gives the
\* state root of its header.
ImportsNext(n, b) ==
  ClassifyImport(n, b) = "Next" /\ b \notin Invalid /\ n.live = Tip(n)

\* The block is stored beside the canonical chain.
ImportsFork(n, b) == ClassifyImport(n, b) = "Fork" /\ Parent[b] \in n.stored

\* import_block_inner returns Ok.
ImportOk(n, b, w) ==
  \/ ImportsNext(n, b) /\ w \notin ImportExits
  \/ ImportsFork(n, b)
  \/ ClassifyImport(n, b) = "Stale"

\* import_block_inner: a fork block is only stored and registered.
ImportBlock(n, b, w) ==
  CASE ImportsFork(n, b) -> RegisterForkChoiceBlock([n EXCEPT !.stored = @ \cup {b}], b)
    [] ImportsNext(n, b) -> CommitAndReload(n, b, w)
    [] OTHER -> n
------------------------------------------------------------------------------
\* verify_commit_certificate: every signer active, a strict quorum of them.
VerifyCommitCertificate(n, signers) ==
  /\ signers \subseteq DOMAIN n.weights
  /\ HasWeightedQuorum(WeightOf(n.weights, signers), Total(n))

\* Mutant: fork choice is not told.
Finalized_KeepsRoot(n, b) ==
  [n EXCEPT !.fin = Number[b], !.finality = SetFinalizedDirect(@, Number[b], b)]

\* The durable cursor, the finality state and fork choice move to b.
Finalized(n, b) ==
  [n EXCEPT !.fin = Number[b],
            !.finality = SetFinalizedDirect(@, Number[b], b),
            !.fc = AdvanceFinality(@, b)]

WithCertificate(n, b) == [n EXCEPT !.certs = @ \cup {b}]

\* fast_finalize_with_certificate returns true.
FastFinalizes(n, b, signers, w) ==
  Canonical(n, b) /\ VerifyCommitCertificate(n, signers) /\ w # "refused"

\* fast_finalize_with_certificate.
FastFinalize(n, b, signers, w) ==
  CASE ~FastFinalizes(n, b, signers, w) -> n
    [] FastFinalizes(n, b, signers, w) /\ Number[b] > n.finality.number ->
         Finalized(WithCertificate(n, b), b)
    [] OTHER -> WithCertificate(n, b)
------------------------------------------------------------------------------
\* find_common_ancestor of the canonical tip and the preferred head.
CommonAncestors(n) ==
  {a \in Ancestors[n.fc.head] \cap Ancestors[Tip(n)] :
     /\ Reaches(n.fc, n.fc.head, a) /\ Reaches(n.fc, Tip(n), a)
     /\ n.fc.root # NoRoot => n.fc.root \in Ancestors[a]
     /\ \A c \in Ancestors[n.fc.head] \cap Ancestors[Tip(n)] : Number[c] <= Number[a]}

\* Fork choice prefers a quorum-backed block that is not below the tip.
PrefersFork(n) ==
  /\ n.fc.head # Tip(n) /\ Number[n.fc.head] >= TipNumber(n)
  /\ HasWeightedQuorum(n.fc.scores[n.fc.head].weight, Total(n))

\* preferred_fork_plan accepts the fork point a.
PlanFrom(n, a) ==
  /\ Number[a] >= n.finality.number
  /\ n.finality.number > 0 /\ Number[a] = n.finality.number => a = n.finality.hash
  /\ Canonical(n, a)

\* preferred_fork_plan returns a plan.
HasPlan(n) == PrefersFork(n) /\ \E a \in CommonAncestors(n) : PlanFrom(n, a)

\* Mutant: the live state stays at the old tip.
Adopted_KeepsState(n, w) == [n EXCEPT !.canon = PathTo(n.fc.head)]

\* commit_reorg_overlay, the finality that advances with it, and, unless the
\* state cannot be opened, replace_world_state.
Adopted(n, w) ==
  LET p == n.fc.head
      m == [n EXCEPT !.canon = PathTo(p), !.live = IF w = "reopen" THEN @ ELSE p]
  IN  IF CanFinalize(n.finality, p, Number[p], Total(n)) THEN Finalized(m, p) ELSE m

\* Mutant: the fork is adopted without being replayed.
AdoptPreferredFork_NoReplay(n, w) == IF w # "refused" THEN Adopted(n, w) ELSE n

\* adopt_preferred_fork of the plan and its caller's error handling: replay
\* stops at the first invalid block, whose subtree leaves fork choice.
AdoptPreferredFork(n, w) ==
  LET p == n.fc.head
      bad == {b \in Ancestors[p] \ Ancestors[Tip(n)] : b \in Invalid}
      first == CHOOSE b \in bad : \A c \in bad : Number[b] <= Number[c]
  IN  CASE bad # {} -> [n EXCEPT !.fc = RemoveSubtree(@, first)]
        [] bad = {} /\ w # "refused" -> Adopted(n, w)
        [] OTHER -> n

\* Mutant: the certified block need not be stored.
AdoptCertifiedFork_Unstored(n, b, signers, w) ==
  IF Number[b] > n.finality.number /\ ~Canonical(n, b) /\ VerifyCommitCertificate(n, signers)
  THEN WithCertificate(n, b) ELSE n

\* adopt_certified_fork.
AdoptCertifiedFork(n, b, signers, w) ==
  LET m == [WithCertificate(n, b) EXCEPT
              !.fc = UpdateAttestedWeight(@, b, WeightOf(n.weights, signers))]
  IN  CASE \/ Number[b] <= n.finality.number \/ Canonical(n, b)
           \/ b \notin n.stored \/ ~VerifyCommitCertificate(n, signers) -> n
        [] OTHER -> IF HasPlan(m) /\ m.fc.head = b THEN AdoptPreferredFork(m, w) ELSE m

\* EarlyCommitCertificate::retain.
Retain(n, b, signers) ==
  IF Number[b] = TipNumber(n) + 1 /\ VerifyCommitCertificate(n, signers)
  THEN [n EXCEPT !.early = <<b, signers>>] ELSE n

\* EarlyCommitCertificate::finalize_imported.
FinalizeImported(n, w) ==
  IF n.early # NoCertificate /\ Number[n.early[1]] <= TipNumber(n)
  THEN FastFinalize([n EXCEPT !.early = NoCertificate], n.early[1], n.early[2], w)
  ELSE n
------------------------------------------------------------------------------
\* A round of block b with the signatures of S replayed under the weights w;
\* events of the replay are discarded.
Replayed(w, b, S) ==
  LET known == S \cap DOMAIN w
      r == OnBlockProposed(NewRound(w), b)
  IN  IF HasWeightedQuorum(WeightOf(w, known), TotalWeight(w))
      THEN [r EXCEPT !.phase = "Committed"]
      ELSE [r EXCEPT !.votes = known, !.voteWeight = WeightOf(w, known)]

\* FF.6: a vote against a finalized block.
VoteConflicts(n, b) == Number[b] <= n.finality.number /\ ~Canonical(n, b)

\* Mutant: a failed write leaves the round committed.
OnCommitted_NoRetry(n, v, b, w) ==
  LET committed == [n EXCEPT !.round.round = OnVote(@, v, b)]
  IN  IF w # "refused" /\ Canonical(n, b) /\ Number[b] > n.finality.number
      THEN Finalized(WithCertificate(committed, b), b) ELSE committed

\* BlockCommitted in handle_wpoa_vote: the quorum is weighed again with the
\* active weights, only a canonical block is finalized, and a failed write
\* restores the round without the triggering vote.
OnCommitted(n, v, b, w) ==
  LET r == n.round.round
      signers == r.votes \cup {v}
      signed == WeightOf(n.weights, signers \cap DOMAIN n.weights)
      committed == [n EXCEPT !.round.round = OnVote(r, v, b)]
  IN  CASE ~HasWeightedQuorum(signed, Total(n)) ->
             [n EXCEPT !.round.round = Replayed(n.weights, b, signers)]
        [] HasWeightedQuorum(signed, Total(n)) /\ ~Canonical(n, b) -> committed
        [] HasWeightedQuorum(signed, Total(n)) /\ Canonical(n, b) /\ w = "refused" ->
             [n EXCEPT !.round.round = Replayed(n.weights, b, signers \ {v})]
        [] OTHER -> IF Number[b] > n.finality.number
                    THEN Finalized(WithCertificate(committed, b), b)
                    ELSE WithCertificate(committed, b)

\* handle_wpoa_vote from a known authority with a valid signature.
HandleVote(n, v, b, w) ==
  CASE VoteConflicts(n, b) \/ n.round.number # Number[b] -> n
    [] OTHER -> IF VoteCommits(n.round.round, v, b)
                THEN OnCommitted(n, v, b, w)
                ELSE [n EXCEPT !.round.round = OnVote(@, v, b)]

NewRoundFor(n, b) ==
  [n EXCEPT !.round = [number |-> Number[b], round |-> OnBlockProposed(NewRound(n.weights), b)]]

\* NetworkMessage::NewBlock: import; if it is Ok and the head advanced, the
\* retained certificate, a round unless one is open for the height, and the own
\* vote.
HandleNewBlock(n, b, w) ==
  LET m == ImportBlock(n, b, w)
      early == FinalizeImported(m, w)
      opened == IF early.round.number # Number[b] THEN NewRoundFor(early, b) ELSE early
  IN  IF ImportOk(n, b, w) /\ TipNumber(m) > TipNumber(n)
      THEN HandleVote(opened, Me, b, w) ELSE m

\* NetworkMessage::BlockResponse, one block, with the signers of the
\* certificate sent along ({} for none).  An error of the import or of the
\* adoption ends it.
HandleSyncBlock(n, b, signers, w) ==
  LET certified == signers # {} /\ VerifyCommitCertificate(n, signers)
      m == ImportBlock(n, b, w)
      adopted == AdoptCertifiedFork(m, b, signers, w)
      final == FastFinalize(adopted, b, signers, w)
      done == IF certified THEN final ELSE m
  IN  CASE ~ImportOk(n, b, w) -> m
        [] ImportOk(n, b, w) /\ certified /\ w = "reopen" /\ Tip(adopted) # Tip(m) -> adopted
        [] OTHER -> IF Tip(done) = b /\ Tip(n) # b THEN FinalizeImported(done, w) ELSE done

\* NetworkMessage::CommitCertificate: an error of the adoption is only logged.
HandleCertificate(n, b, signers, w) ==
  LET m == AdoptCertifiedFork(n, b, signers, w)
  IN  IF FastFinalizes(m, b, signers, w)
      THEN FastFinalize(m, b, signers, w) ELSE Retain(m, b, signers)

\* Mutant: the attested block need not be canonical.
HandleAttestation_AnyStored(n, v, b, w) ==
  LET f == IF Recordable(n.finality, b, Number[b], v, n.weights[v])
           THEN Record(n.finality, b, Number[b], v, n.weights[v]) ELSE n.finality
      weighed == [n EXCEPT !.finality = f,
                           !.fc = UpdateAttestedWeight(@, b, AttestedWeight(f, b))]
  IN  IF b \notin n.stored THEN n
      ELSE IF CanFinalize(f, b, Number[b], Total(n)) /\ w # "refused" THEN Finalized(weighed, b) ELSE weighed

\* handle_attestation of a stored block by an active validator.
HandleAttestation(n, v, b, w) ==
  LET k == Number[b]
      f == IF Recordable(n.finality, b, k, v, n.weights[v])
           THEN Record(n.finality, b, k, v, n.weights[v]) ELSE n.finality
      final == Canonical(n, b) /\ CanFinalize(f, b, k, Total(n))
      weighed == [n EXCEPT !.finality = f,
                           !.fc = UpdateAttestedWeight(@, b, AttestedWeight(f, b))]
  IN  CASE \/ b \notin n.stored \/ v \notin DOMAIN n.weights
           \/ DetectEquivocation(n.finality, b, k, v)
           \/ ~HasAttested(f, b, v) -> n
        [] OTHER -> CASE final /\ w # "refused" -> Finalized(weighed, b)
                      [] final /\ w = "refused" -> [n EXCEPT !.finality = f]
                      [] ~final -> weighed
------------------------------------------------------------------------------
\* ensure_production_parent and the timer's gate: no fork is to be adopted.  The
\* block is executed on the live state: on another state than the head's its
\* header is wrong.
CanProduce(n, b) ==
  /\ ~PrefersFork(n)
  /\ Parent[b] = Tip(n) /\ b \notin n.stored /\ (b \in Invalid <=> n.live # Tip(n))
  /\ n.finality.number > 0 =>
       /\ TipNumber(n) >= n.finality.number
       /\ TipNumber(n) = n.finality.number => Tip(n) = n.finality.hash

\* produce_block and, if it is Ok, the timer's own round and vote.
Produce(n, b, w) ==
  LET m == CommitAndReload(n, b, w)
  IN  IF w \in ProduceExits THEN m ELSE HandleVote(NewRoundFor(m, b), Me, b, w)

\* restore_fork_choice: the canonical blocks from the finalized one up, each
\* added with weight 0 and therefore preferred to its parent.
RestoreForkChoice(canon, fin) ==
  LET tip == canon[Cardinality(DOMAIN canon) - 1]
      s == [finalized |-> fin > 0, weight |-> 0]
  IN  [scores |-> [b \in {canon[k] : k \in fin .. Number[tip]} |-> s],
       root |-> IF fin > 0 THEN canon[fin] ELSE NoRoot, head |-> tip, headScore |-> s]

\* recover_unfinalized_head.
Rewound(n) ==
  IF n.fin > 0 THEN [k \in 0 .. n.fin |-> n.canon[k]] ELSE n.canon

\* Mutant: the finalized cursor is not restored.
Restart_Forgets(n) ==
  [n EXCEPT !.fin = 0, !.finality = WithFinalized(0, 0), !.round = NoRound,
            !.fc = RestoreForkChoice(n.canon, 0), !.early = NoCertificate]

\* The process stops and starts: NodeBuilder::build takes the authorities of
\* the last boundary of the persisted chain, Node::run rewinds it.
Restart(n) ==
  LET canon == Rewound(n)
  IN  [n EXCEPT !.canon = canon, !.live = canon[Cardinality(DOMAIN canon) - 1],
                !.finality = WithFinalized(n.fin, IF n.fin > 0 THEN canon[n.fin] ELSE 0),
                !.fc = RestoreForkChoice(canon, n.fin),
                !.round = NoRound, !.early = NoCertificate,
                !.weights = Registry[n.canon[ReloadHeight(TipNumber(n))]]]
==============================================================================
