----------------------------- MODULE ChainTotals -----------------------------
(***************************************************************************)
(* The aggregate counters behind the statistics RPCs.  The canonical chain *)
(* and its head move in one atomic batch; the counters (transactions, gas, *)
(* and the head they cover) are three separate writes that follow it.      *)
(* Imports, productions, fork adoption, startup recovery and RPC readers,  *)
(* which run concurrently with the event loop, write them; any access may  *)
(* fail and the process may stop between any two.  A node that does not    *)
(* keep every body prunes the old ones at the end of each canonical commit,*)
(* and a rebuild that misses a body keeps the stored number of             *)
(* transactions.                                                           *)
(*                                                                         *)
(* A block is its size, which it adds both to the transactions and to the  *)
(* gas.  The genesis block has size 0.  The writers outside a running      *)
(* node's own chain (the development rewind evm_revert, the head repair of *)
(* the command line, a checkpoint import) are not modelled.                *)
(***************************************************************************)
EXTENDS Integers, SequencesExt

CONSTANTS Sizes,        \* sizes of blocks
          Readers,      \* concurrent RPC calls
          MaxHeight,    \* bound on the chain
          KeepBodies,   \* the bodies kept behind the finalized block (0 = all)
          Budget        \* how many fork adoptions, process stops, failed store
                        \* accesses and RPC calls a behaviour may have

ASSUME TotalsAssumption ==
  /\ Sizes \subseteq Nat \ {0}
  /\ MaxHeight \in Nat
  /\ KeepBodies \subseteq Nat
  /\ Budget \in [adopts : Nat, crashes : Nat, fails : Nat, reads : Nat]
  /\ "node" \notin Readers

VARIABLES chain,      \* durable: sizes of the canonical blocks 1 .. head
          finalized,  \* durable finalized number (0 = never written)
          totals,     \* durable counters, NoTotals until first written
          pruned,     \* durable: the bodies of the numbers below it are deleted
          keep,       \* configuration: retention_count of the body pruner
          todo,       \* per process: what is left of the counters' update
          phase,      \* of the node process
          interrupted,\* history: some startup recovery did not complete
          budget      \* what is left of Budget

vars == <<chain, finalized, totals, pruned, keep, todo, phase, interrupted, budget>>

NoTotals == -1
Procs == {"node"} \cup Readers

\* One store access.  Add, Get, Redo and Check read the covered head and decide
\* what follows; Inc reads a counter before writing it, Put writes one, Prune is
\* the pass of the body pruner.
Add(n, size) == [op |-> "add", n |-> n, v |-> size]
Get(n) == [op |-> "get", n |-> n, v |-> 0]
Redo(n) == [op |-> "redo", n |-> n, v |-> 0]
Check(n) == [op |-> "check", n |-> n, v |-> 0]
Inc(key, v) == [op |-> "inc", n |-> key, v |-> v]
Put(key, v) == [op |-> "put", n |-> key, v |-> v]
Prune == [op |-> "prune", n |-> 0, v |-> 0]

\* record_canonical_state_root ends with a pass of the body pruner, which does
\* nothing on an archive node.
RecordStateRoot == IF keep = 0 THEN <<>> ELSE <<Prune>>

\* What the counters should say of a chain.
Total(c) == FoldLeft(LAMBDA a, b : a + b, 0, c)

TypeOK ==
  /\ chain \in Seq(Sizes) /\ Len(chain) <= MaxHeight
  /\ finalized \in 0 .. Len(chain)
  /\ totals.txs \in {NoTotals} \cup Nat /\ totals.gas \in {NoTotals} \cup Nat
  /\ totals.head \in {NoTotals} \cup 0 .. MaxHeight
  /\ pruned \in 0 .. finalized /\ keep \in KeepBodies
  /\ DOMAIN todo = Procs
  /\ phase \in {"serving", "recovering", "down", "refused"}
  /\ interrupted \in BOOLEAN
  /\ \A k \in DOMAIN Budget : budget[k] \in 0 .. Budget[k]

Init ==
  /\ chain = <<>> /\ finalized = 0
  /\ totals = [txs |-> NoTotals, gas |-> NoTotals, head |-> NoTotals]
  /\ pruned = 0 /\ keep \in KeepBodies
  /\ todo = [p \in Procs |-> <<>>]
  /\ phase = "serving" /\ interrupted = FALSE /\ budget = Budget

\* One fault or fork of the given kind.
Spend(k) == budget[k] > 0 /\ budget' = [budget EXCEPT ![k] = @ - 1]

Idle == phase = "serving" /\ todo["node"] = <<>>

\* rebuild_chain_totals succeeds: it can count the transactions, or reuse a count.
CanRebuild == pruned = 0 \/ totals.txs # NoTotals

\* rebuild_chain_totals: scan, then three writes; with a body missing the stored
\* number of transactions is written back.
RebuildChainTotals(n) ==
  LET t == Total(SubSeq(chain, 1, n)) IN
  <<Put("txs", IF pruned = 0 THEN t ELSE totals.txs), Put("gas", t), Put("head", n)>>

\* All three counters are there and cover block n.
Covers(n) == totals.head = n /\ totals.txs # NoTotals /\ totals.gas # NoTotals


\* add_canonical_block_to_totals advances the counters in place.
Advances(n) == Covers(n - 1)

\* Mutant: a rewind leaves the counters to the atomic batch.
Rewound_Never(n) == FALSE

\* recover_unfinalized_head rebuilds unless the counters cover its target.
Rewound(n) == totals.head \notin {NoTotals, n}

\* Access a finds that the counters have to be rebuilt.
Rebuilds(a) ==
  \/ a.op = "add" /\ ~Advances(a.n)
  \/ a.op = "get" /\ ~Covers(a.n)
  \/ a.op = "redo" /\ totals.head # NoTotals
  \/ a.op = "check" /\ Rewound(a.n)

\* What access a is followed by.
Decided(a) ==
  CASE Rebuilds(a) -> RebuildChainTotals(a.n)
    [] a.op = "add" /\ ~Rebuilds(a) -> <<Inc("txs", a.v), Inc("gas", a.v), Put("head", a.n)>>
    [] a.op = "inc" -> <<Put(a.n, totals[a.n] + a.v)>>
    [] OTHER -> <<>>

\* BodyPruner::prune_before at the finalized block, with its retention_cutoff.
PrunedBelow == Max({pruned, finalized - (keep - 1)})

\* Mutant: the subtractions wrap.
ReorgFits_Always(old) == TRUE

\* append_reorg_totals succeeds: its checked subtractions do not underflow.
ReorgFits(old) ==
  Covers(Len(chain)) => totals.txs >= Total(old) /\ totals.gas >= Total(old)

\* append_reorg_totals: part of the atomic batch, only if the counters cover
\* the old tip.
AppendReorgTotals(old, new, tip) ==
  IF old # <<>> /\ Covers(Len(chain))
  THEN [txs |-> totals.txs - Total(old) + Total(new),
        gas |-> totals.gas - Total(old) + Total(new), head |-> tip]
  ELSE totals
------------------------------------------------------------------------------
\* import_block or produce_block: the batch, then update_chain_totals, then
\* record_canonical_state_root, which ends by pruning bodies.
Commit(size) ==
  /\ Idle /\ Len(chain) < MaxHeight
  /\ chain' = Append(chain, size)
  /\ todo' = [todo EXCEPT !["node"] = <<Add(Len(chain) + 1, size)>> \o RecordStateRoot]
  /\ UNCHANGED <<finalized, totals, pruned, keep, phase, interrupted, budget>>

\* adopt_preferred_fork from ancestor k: never below finality, never shorter;
\* finality may advance to the new tip in the same batch.
Adopt(k, new) ==
  LET old == SubSeq(chain, k + 1, Len(chain))
      tip == k + Len(new)
  IN /\ Idle /\ Spend("adopts")
     /\ k >= finalized /\ old # <<>> /\ tip >= Len(chain) /\ ReorgFits(old)
     /\ chain' = SubSeq(chain, 1, k) \o new
     /\ finalized' \in {finalized, tip}
     /\ totals' = AppendReorgTotals(old, new, tip)
     /\ todo' = [todo EXCEPT !["node"] = <<Redo(tip)>> \o RecordStateRoot]
     /\ UNCHANGED <<pruned, keep, phase, interrupted>>

\* A quorum finalizes a canonical block.
Finalize(n) ==
  /\ Idle /\ n \in finalized + 1 .. Len(chain)
  /\ finalized' = n
  /\ UNCHANGED <<chain, totals, pruned, keep, todo, phase, interrupted, budget>>

\* A statistics RPC reads the head, then asks for the totals at that height.
Read(r) ==
  /\ phase = "serving" /\ todo[r] = <<>> /\ Spend("reads")
  /\ todo' = [todo EXCEPT ![r] = <<Get(Len(chain))>>]
  /\ UNCHANGED <<chain, finalized, totals, pruned, keep, phase, interrupted>>

\* Process p makes its next store access.
Access(p) ==
  /\ todo[p] # <<>>
  /\ LET a == Head(todo[p])
     IN /\ Rebuilds(a) => CanRebuild
        /\ todo' = [todo EXCEPT ![p] = Decided(a) \o Tail(@)]
        /\ totals' = IF a.op = "put" THEN [totals EXCEPT ![a.n] = a.v] ELSE totals
        /\ pruned' = IF a.op = "prune" THEN PrunedBelow ELSE pruned
  /\ UNCHANGED <<chain, finalized, keep, phase, interrupted, budget>>

\* A store access fails, or a rebuild has no number of transactions to write.  A
\* reader returns the error; so does a production, and any commit that cannot
\* reopen the state after its batch, while an import and an adoption only log an
\* error of the counters and go on to prune; a failed recovery ends the process.
Fail(p) ==
  /\ todo[p] # <<>>
  /\ IF Rebuilds(Head(todo[p])) /\ ~CanRebuild THEN UNCHANGED budget ELSE Spend("fails")
  /\ \E left \in {<<>>, SelectSeq(Tail(todo[p]), LAMBDA a : a.op = "prune")} :
       todo' = [todo EXCEPT ![p] = left]
  /\ phase' = IF phase = "recovering" THEN "down" ELSE phase
  /\ interrupted' = (interrupted \/ phase = "recovering")
  /\ UNCHANGED <<chain, finalized, totals, pruned, keep>>

\* The process stops: what was not written is lost.
Crash ==
  /\ phase # "down" /\ Spend("crashes")
  /\ phase' = "down"
  /\ todo' = [p \in Procs |-> <<>>]
  /\ interrupted' = (interrupted \/ phase = "recovering")
  /\ UNCHANGED <<chain, finalized, totals, pruned, keep>>

\* check_core_invariants: counters ahead of the head refuse the startup.
Checked == IF totals.head > Len(chain) THEN "refused" ELSE "serving"

\* Startup with nothing to rewind.
Start ==
  /\ phase = "down" /\ (finalized = 0 \/ Len(chain) <= finalized)
  /\ phase' = Checked
  /\ UNCHANGED <<chain, finalized, totals, pruned, keep, todo, interrupted, budget>>

\* Startup that rewinds to the finalized block, then looks at the counters.
StartRewinding ==
  LET old == SubSeq(chain, finalized + 1, Len(chain))
  IN /\ phase = "down" /\ finalized > 0 /\ old # <<>>
     /\ ReorgFits(old)
     /\ chain' = SubSeq(chain, 1, finalized)
     /\ totals' = AppendReorgTotals(old, <<>>, finalized)
     /\ todo' = [todo EXCEPT !["node"] = <<Check(finalized)>>]
     /\ phase' = "recovering"
     /\ UNCHANGED <<finalized, pruned, keep, interrupted, budget>>

\* Startup whose rewind fails on the counters.
StartRefused ==
  /\ phase = "down" /\ finalized \in 1 .. Len(chain) - 1
  /\ ~ReorgFits(SubSeq(chain, finalized + 1, Len(chain)))
  /\ phase' = "refused"
  /\ UNCHANGED <<chain, finalized, totals, pruned, keep, todo, interrupted, budget>>

\* The rebuild of a startup is done.
Recovered ==
  /\ phase = "recovering" /\ todo["node"] = <<>>
  /\ phase' = Checked
  /\ UNCHANGED <<chain, finalized, totals, pruned, keep, todo, interrupted, budget>>

Next ==
  \/ \E size \in Sizes : Commit(size)
  \/ \E k \in 0 .. Len(chain), m \in 1 .. MaxHeight :
       k + m <= MaxHeight /\ \E new \in [1 .. m -> Sizes] : Adopt(k, new)
  \/ \E n \in 1 .. MaxHeight : Finalize(n)
  \/ \E r \in Readers : Read(r)
  \/ \E p \in Procs : Access(p)
  \/ \E p \in Procs : Fail(p)
  \/ Crash
  \/ Start
  \/ StartRewinding
  \/ StartRefused
  \/ Recovered

Spec == Init /\ [][Next]_vars
------------------------------------------------------------------------------

\* What rebuild_chain_totals documents, "Rebuild canonical aggregate counters by
\* scanning block 0 through `head_number`", without the restriction to nodes
\* that keep every body: refuted, a rebuild after a failed write reuses the
\* stored number of transactions once a body is pruned.
RebuiltTotalsExact ==
  /\ budget.crashes = Budget.crashes /\ budget.reads = Budget.reads
  /\ Idle /\ totals.head = Len(chain)
  => totals.txs = Total(chain) /\ totals.gas = Total(chain)

\* Core invariant 5, as long as every startup recovery has run to its end: once
\* a startup is over, the counters never claim to cover more than the canonical
\* chain.  check_core_invariants refuses to start the node otherwise.
TotalsNotAhead ==
  ~interrupted /\ phase \in {"serving", "refused"} => totals.head <= Len(chain)

\* Core invariant 5 as documented: refuted, a recovery that stops between its
\* rewind and its rebuild is not resumed by the next one.
TotalsNeverAhead == phase \in {"serving", "refused"} => totals.head <= Len(chain)
==============================================================================
