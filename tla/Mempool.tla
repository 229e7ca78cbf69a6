------------------------------- MODULE Mempool --------------------------------
(***************************************************************************)
(* The pool between its two users: transactions arrive from RPC calls and  *)
(* peers at any moment, and the event loop commits blocks.  A commit is    *)
(* several steps (the durable batch, the new world state, the removal of   *)
(* the block's transactions, the pruning, the return of reverted ones) and *)
(* a submission, which holds the world state's lock throughout, fits       *)
(* between any two of them.                                                *)
(*                                                                         *)
(* A block is its transactions, its base fee and the state after it; what  *)
(* execution does to balances and keys is a choice from Worlds.            *)
(***************************************************************************)
EXTENDS MempoolOps, SequencesExt

CONSTANTS Worlds,      \* [base, balance, root]: what a block may leave behind
          Genesis,     \* the one of them before the first block
          MaxHeight,   \* bound on the chain
          MaxBlockTxs, \* max_tx_per_block
          MaxFaults    \* bound on the rare events of a behaviour, each once

VARIABLES pool,
          chain,     \* durable canonical blocks, genesis first
          ws,        \* in-memory world state: nonce, balance, root
          job,       \* the event loop's unfinished handler
          dropped,   \* history: reverted transactions the pool refused
          faults     \* the rare events so far: adopt, open, refill, restart

vars == <<pool, chain, ws, job, dropped, faults>>

\* Transactions of s before position i.
Earlier(txs, i, s) == Cardinality({j \in 1 .. i - 1 : Tx[txs[j]].sender = s})

\* The block with these transactions on top of the state st.
Block(txs, st, w) ==
  [txs |-> txs, base |-> w.base,
   state |-> [nonce |-> [s \in Senders |-> st.nonce[s] + Earlier(txs, Len(txs) + 1, s)],
              balance |-> w.balance, root |-> w.root]]

GenesisState ==
  [nonce |-> [s \in Senders |-> 0], balance |-> Genesis.balance, root |-> Genesis.root]

Base(c) == Last(c).base

TxsOf(c) == FlattenSeq([i \in DOMAIN c |-> c[i].txs])

NoJob == [at |-> "idle"]

\* What is left to do once the batch of a handler is durable.
Committed(by, txs, reverted) ==
  [at |-> "committed", by |-> by, txs |-> txs, reverted |-> reverted]

Init ==
  /\ pool = EmptyPool
  /\ chain = <<Block(<<>>, GenesisState, Genesis)>>
  /\ ws = chain[1].state
  /\ job = NoJob /\ dropped = {} /\ faults = {}

Rarely(k) ==
  /\ k \notin faults /\ Cardinality(faults) < MaxFaults
  /\ faults' = faults \cup {k}

Idle == job = NoJob /\ Len(chain) <= MaxHeight

\* Mutant: the sender's nonce is not compared with the state.
Executable_AnyNonce(txs, st, base) ==
  \A i \in DOMAIN txs : Tx[txs[i]].key = st.root[Tx[txs[i]].sender] /\ Tx[txs[i]].fee >= base

\* validate_tx_for_import for each transaction in turn, from the state st.
Executable(txs, st, base) ==
  \A i \in DOMAIN txs :
    LET s == Tx[txs[i]].sender IN
    /\ Tx[txs[i]].nonce = st.nonce[s] + Earlier(txs, i, s)
    /\ Tx[txs[i]].key = st.root[s]
    /\ Tx[txs[i]].fee >= base

\* The blocks others may build on the state st.
BlocksOn(st) ==
  {Block(x.txs, st, x.w) : x \in
    {y \in [txs : SeqOf(TxIds, MaxBlockTxs), w : Worlds] : Executable(y.txs, st, y.w.base)}}
------------------------------------------------------------------------------
\* submit_tx and handle_incoming_tx.
Submit(t) ==
  /\ Admits(pool, t, ws, Base(chain))
  /\ pool' = Insert(pool, t, ws, Base(chain))
  /\ UNCHANGED <<chain, ws, job, dropped, faults>>

\* produce_block takes its candidates from one snapshot of the pool, at the
\* base fee of the block to come.
SelectCandidates(w) ==
  /\ Idle
  /\ job' = [at |-> "producing", w |-> w, candidates |-> PendingForBlock(pool, w.base)]
  /\ UNCHANGED <<pool, chain, ws, dropped, faults>>

\* The candidate loop of produce_block: it ends when the block is full; a
\* permanently invalid candidate leaves the pool with its descendants, one
\* that fails or does not fit the state is passed over.
CandidateLoop(invalid, failing) ==
  LET step(acc, t) ==
        IF Len(acc.txs) = MaxBlockTxs \/ t \in failing THEN acc
        ELSE IF t \in invalid THEN [acc EXCEPT !.pool = RemoveWithDescendants(@, t)]
        ELSE IF Executable(Append(acc.txs, t), ws, job.w.base)
             THEN [acc EXCEPT !.txs = Append(@, t)] ELSE acc
  IN FoldLeft(step, [txs |-> <<>>, pool |-> pool], job.candidates)

\* produce_block from the candidate loop to its batch.
Produce(invalid, failing) ==
  /\ job.at = "producing"
  /\ LET built == CandidateLoop(invalid, failing)
     IN /\ pool' = built.pool
        /\ chain' = Append(chain, Block(built.txs, ws, job.w))
        /\ job' = Committed("produce", ToSet(built.txs), <<>>)
  /\ UNCHANGED <<ws, dropped, faults>>

\* import_block of a valid block on the canonical head; replayed from another
\* state it would miss its state root.
Import(b) ==
  /\ Idle /\ ws = Last(chain).state
  /\ chain' = Append(chain, b)
  /\ job' = Committed("import", ToSet(b.txs), <<>>)
  /\ UNCHANGED <<pool, ws, dropped, faults>>

\* unique_reverted_transactions, in chain order.
UniqueReverted(old, new) ==
  SelectSeq(TxsOf(old), LAMBDA t : t \notin Range(TxsOf(new)))

\* adopt_preferred_fork: the blocks after the k-th give way to others.
Adopt(k, new) ==
  LET old == SubSeq(chain, k + 1, Len(chain)) IN
  /\ job = NoJob /\ Rarely("adopt")
  /\ chain' = SubSeq(chain, 1, k) \o new
  /\ job' = Committed("adopt", ToSet(TxsOf(new)), UniqueReverted(old, new))
  /\ UNCHANGED <<pool, ws, dropped>>

\* replace_world_state.
Swap ==
  /\ job.at = "committed"
  /\ ws' = Last(chain).state
  /\ job' = [job EXCEPT !.at = "swapped"]
  /\ UNCHANGED <<pool, chain, dropped, faults>>

\* An error ends the handler after its batch: the new state cannot be opened,
\* or (production only) the proof backlog cannot be refilled.
Fail(k) ==
  /\ CASE k = "open"   -> job.at = "committed"
       [] k = "refill" -> job.at = "swapped" /\ job.by = "produce"
  /\ Rarely(k)
  /\ job' = NoJob
  /\ UNCHANGED <<pool, chain, ws, dropped>>

\* remove_committed_hashes removes the block's transactions first ...
RemoveIncluded ==
  /\ job.at = "swapped"
  /\ pool' = RemoveBatch(pool, job.txs)
  /\ job' = [job EXCEPT !.at = "removed"]
  /\ UNCHANGED <<chain, ws, dropped, faults>>

\* ... and prunes what the new state invalidates under its lock.
Prune ==
  /\ job.at = "removed"
  /\ pool' = PruneRotatedRoots(PruneNonceTooLow(pool, ws), ws)
  /\ job' = IF job.by = "adopt" THEN [job EXCEPT !.at = "reinserting"] ELSE NoJob
  /\ UNCHANGED <<chain, ws, dropped, faults>>

Reinserted(p, txs, st, base) == FoldLeft(LAMBDA q, t : Insert(q, t, st, base), p, txs)

\* Reverted transactions the pool refused although their nonce is free.
Refused(p, txs, st, base) ==
  {t \in ToSet(txs) \ Held(Reinserted(p, txs, st, base)) : Tx[t].nonce >= st.nonce[Tx[t].sender]}

\* reinsert_reverted_transactions, under one lock of the world state.
Reinsert ==
  /\ job.at = "reinserting"
  /\ pool' = Reinserted(pool, job.reverted, ws, Base(chain))
  /\ dropped' = dropped \cup Refused(pool, job.reverted, ws, Base(chain))
  /\ job' = NoJob
  /\ UNCHANGED <<chain, ws, faults>>

\* The process stops at any point; recover_unfinalized_head may rewind to the
\* k-th block and return the abandoned transactions to the new, empty pool.
Restart(k) ==
  LET kept == SubSeq(chain, 1, k)
      reverted == UniqueReverted(SubSeq(chain, k + 1, Len(chain)), <<>>)
  IN /\ Rarely("restart")
     /\ chain' = kept /\ ws' = Last(kept).state
     /\ pool' = Reinserted(EmptyPool, reverted, ws', Base(kept))
     /\ dropped' = Refused(EmptyPool, reverted, ws', Base(kept))
     /\ job' = NoJob

\* Replacements for the blocks after the k-th, at least as many.
Replacements(k) ==
  {n \in {<<>>} \cup {<<b>> : b \in BlocksOn(chain[k].state)} \cup
         UNION {{<<b, c>> : c \in BlocksOn(b.state)} : b \in BlocksOn(chain[k].state)} :
     Len(n) >= Len(chain) - k /\ k + Len(n) <= MaxHeight + 1}

Next ==
  \/ \E t \in TxIds : Submit(t)
  \/ \E w \in Worlds : SelectCandidates(w)
  \/ job.at = "producing" /\
       \E invalid, failing \in SUBSET ToSet(job.candidates) : Produce(invalid, failing)
  \/ \E b \in BlocksOn(Last(chain).state) : Import(b)
  \/ job = NoJob /\ "adopt" \notin faults /\ Cardinality(faults) < MaxFaults /\
       \E k \in 1 .. Len(chain) - 1 : \E new \in Replacements(k) : Adopt(k, new)
  \/ Swap \/ RemoveIncluded \/ Prune \/ Reinsert
  \/ \E k \in {"open", "refill"} : Fail(k)
  \/ \E k \in 1 .. Len(chain) : Restart(k)

Spec == Init /\ [][Next]_vars
------------------------------------------------------------------------------
\* Every variable keeps its shape.
TypeOK ==
  /\ Held(pool) \subseteq TxIds
  /\ pool.seq \in Nat /\ pool.bytes \in Nat /\ pool.reserved \in [Senders -> Nat]
  /\ DOMAIN pool.queue = Senders
  /\ job.at \in {"idle", "producing", "committed", "swapped", "removed", "reinserting"}
  /\ dropped \subseteq TxIds /\ Cardinality(faults) <= MaxFaults
  /\ DOMAIN ws.nonce = Senders

\* The four indexes of PoolInner and its two running totals describe the same
\* transactions after any mix of insert, replacement, eviction and removal,
\* and no two entries share an arrival number although seq restarts at 0.
IndexesAgree ==
  /\ \A s \in Senders : \A n \in DOMAIN pool.queue[s] :
       LET t == pool.queue[s][n] IN t \in Held(pool) /\ Tx[t].sender = s /\ Tx[t].nonce = n
  /\ \A t \in Held(pool) : Tx[t].nonce \in DOMAIN pool.queue[Tx[t].sender]
                           /\ pool.queue[Tx[t].sender][Tx[t].nonce] = t
  /\ pool.order = {[tip |-> Tx[t].tip, seq |-> pool.entries[t], tx |-> t] : t \in Held(pool)}
  /\ \A t, u \in Held(pool) : t # u => pool.entries[t] # pool.entries[u]
  /\ \A t \in Held(pool) : pool.entries[t] < pool.seq
  /\ pool.bytes = Total(Held(pool), LAMBDA t : Tx[t].size)
  /\ \A a \in Senders : pool.reserved[a] = Total(Held(pool), LAMBDA t : Cost(t, a))

\* max_pool_size, max_pool_bytes and max_per_sender hold at all times, also
\* while a replacement or an eviction makes room (insert, capacity_evictions).
LimitsHold ==
  /\ Cardinality(Held(pool)) <= Limits.count
  /\ Total(Held(pool), LAMBDA t : Tx[t].size) <= Limits.bytes
  /\ \A s \in Senders : Cardinality({t \in Held(pool) : Tx[t].sender = s}) <= Limits.perSender

\* pending_for_block against its definition: a transaction is selected exactly
\* when it and all its sender's queued predecessors form an unbroken, eligible
\* run; none precedes its predecessor, and a better one waits for nothing but
\* its own predecessors.
SelectionSound ==
  \A w \in Worlds :
    LET sel == PendingForBlock(pool, w.base)
        Before(t) == {u \in Held(pool) : Tx[u].sender = Tx[t].sender /\ Tx[u].nonce <= Tx[t].nonce}
        Run(t) == LET ns == {Tx[u].nonce : u \in Before(t)} IN ns = Min(ns) .. Tx[t].nonce
    IN /\ ToSet(sel) = {t \in Held(pool) : Run(t) /\ \A u \in Before(t) : Tx[u].fee >= w.base}
       /\ \A i, j \in DOMAIN sel : i < j =>
            /\ sel[i] # sel[j]
            /\ Tx[sel[i]].sender = Tx[sel[j]].sender => Tx[sel[i]].nonce < Tx[sel[j]].nonce
            /\ MinerTip(sel[j], w.base) > MinerTip(sel[i], w.base) =>
                 \E m \in i .. j - 1 : sel[m] \in Before(sel[j])

\* Between handlers the pool holds nothing the chain has made useless: no
\* nonce below the account's and no signature under a replaced key, although
\* submissions were checked against the old state until the swap.  Only a
\* handler that ended with an error before the cleanup leaves some behind.
PoolFollowsChain ==
  (job.at \in {"idle", "producing"} /\ faults \cap {"open", "refill"} = {}) =>
    \A t \in Held(pool) : LET s == Tx[t].sender IN
      Tx[t].nonce >= Last(chain).state.nonce[s] /\ Tx[t].key = Last(chain).state.root[s]

\* The contiguous sender queue that remove_with_descendants speaks of: from
\* the account's nonce on a queue has no gap.  The exception is a sender of
\* whose reverted transactions one was refused on its return to the pool.
QueuesContiguous ==
  job.at \in {"idle", "producing"} =>
    \A s \in Senders :
      LET ns == {n \in DOMAIN pool.queue[s] : n >= ws.nonce[s]}
      IN (\A t \in dropped : Tx[t].sender # s) =>
           ns = ws.nonce[s] .. ws.nonce[s] + Cardinality(ns) - 1

\* When a transaction enters, the balance of every account it may charge, as
\* payer of gas or as sender of value, covers all that the pool then charges
\* to that account (ensure_pending_balance_available), sponsors included.
AdmissionsCovered ==
  [][\A t \in Held(pool)' \ Held(pool) : \A a \in Senders :
       Cost(t, a) > 0 => Total(Held(pool)', LAMBDA u : Cost(u, a)) <= ws'.balance[a]]_vars

\* No nonce is spent twice on the canonical chain: candidates selected from an
\* old snapshot or left behind by a failed cleanup are not committed again.
\* The exception is a node that could not open the state it had committed and
\* builds on the old one.
NoncesSpentOnce ==
  "open" \notin faults =>
    \A s \in Senders :
      LET own == SelectSeq(TxsOf(chain), LAMBDA t : Tx[t].sender = s)
      IN /\ \A i \in DOMAIN own : Tx[own[i]].nonce = i - 1
         /\ Last(chain).state.nonce[s] = Len(own)
==============================================================================
