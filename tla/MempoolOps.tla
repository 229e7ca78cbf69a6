------------------------------ MODULE MempoolOps ------------------------------
(***************************************************************************)
(* The transaction pool as a value (PoolInner) and its operations.  Every  *)
(* operation holds the pool's lock, so each is one step; what an operation *)
(* reads before it takes the lock is passed in.                            *)
(*                                                                         *)
(* A transaction is a member of TxIds (its hash); Tx gives the fields that *)
(* admission, eviction and selection look at.  key is the root under which *)
(* its signature verifies; gas is max_gas_cost.  Blob fees behave like fee *)
(* and are left out, as are the structural checks that depend on the       *)
(* transaction alone.                                                      *)
(***************************************************************************)
EXTENDS Integers, Sequences, FiniteSets, FiniteSetsExt, TLC

CONSTANTS Senders,   \* accounts; a paymaster is one of them
          TxIds,
          Tx,        \* [sender, nonce, fee, tip, size, gas, value, payer, key]
          Limits,    \* [count, bytes, perSender]: MempoolConfig
          BumpPct    \* replacement_fee_bump_pct

ASSUME MempoolAssumption ==
  /\ Limits \in [count : Nat, bytes : Nat, perSender : Nat]
  /\ BumpPct \in Nat
  /\ \A t \in TxIds : Tx[t].sender \in Senders /\ Tx[t].payer \in Senders

\* Saturating subtraction.
Minus(a, b) == IF a < b THEN 0 ELSE a - b

Without(f, x) == [y \in DOMAIN f \ {x} |-> f[y]]

\* reservation_costs: what a transaction may take from an account.
Cost(t, a) ==
  (IF a = Tx[t].payer THEN Tx[t].gas ELSE 0) + (IF a = Tx[t].sender THEN Tx[t].value ELSE 0)

Total(S, f(_)) == MapThenSumSet(f, S)

\* effective_gas_price less the base fee.
MinerTip(t, base) ==
  Minus(IF base + Tx[t].tip < Tx[t].fee THEN base + Tx[t].tip ELSE Tx[t].fee, base)

\* entries: by_hash (its arrival number); queue: by_sender; order: by_priority.
EmptyPool ==
  [entries |-> [t \in {} |-> 0], queue |-> [s \in Senders |-> [n \in {} |-> 0]],
   order |-> {}, seq |-> 0, bytes |-> 0, reserved |-> [a \in Senders |-> 0]]

Held(p) == DOMAIN p.entries

\* Mutant: the size comes off twice, without saturation.
RemoveEntry_Twice(p, t) ==
  IF t \notin Held(p) THEN p
  ELSE [p EXCEPT !.entries = Without(@, t),
                 !.bytes = @ - 2 * Tx[t].size,
                 !.reserved = [a \in Senders |-> Minus(@[a], Cost(t, a))],
                 !.order = {o \in @ : o.tx # t},
                 !.queue[Tx[t].sender] = Without(@, Tx[t].nonce)]

\* Mutant: the entry stays in the priority index.
RemoveEntry_KeepsOrder(p, t) ==
  IF t \notin Held(p) THEN p
  ELSE [p EXCEPT !.entries = Without(@, t),
                 !.bytes = Minus(@, Tx[t].size),
                 !.reserved = [a \in Senders |-> Minus(@[a], Cost(t, a))],
                 !.queue[Tx[t].sender] = Without(@, Tx[t].nonce)]

\* remove_entry.
RemoveEntry(p, t) ==
  IF t \notin Held(p) THEN p
  ELSE [p EXCEPT !.entries = Without(@, t),
                 !.bytes = Minus(@, Tx[t].size),
                 !.reserved = [a \in Senders |-> Minus(@[a], Cost(t, a))],
                 !.order = {o \in @ : ~(o.tip = Tx[t].tip /\ o.seq = p.entries[t])},
                 !.queue[Tx[t].sender] = Without(@, Tx[t].nonce)]

RemoveEach(p, S) == FoldSet(LAMBDA t, q : RemoveEntry(q, t), p, S)

\* Arrival numbers restart once the pool is empty.
Settle(p) == IF Held(p) = {} THEN [p EXCEPT !.seq = 0] ELSE p

\* Mutant: the later nonces stay.
EntryAndDescendants_Alone(p, t) == {t} \cap Held(p)

\* entry_and_descendant_hashes.
EntryAndDescendants(p, t) ==
  IF t \notin Held(p) THEN {}
  ELSE LET q == p.queue[Tx[t].sender] IN {q[n] : n \in {m \in DOMAIN q : m >= Tx[t].nonce}}

RemoveWithDescendants(p, t) == Settle(RemoveEach(p, EntryAndDescendants(p, t)))

RemoveBatch(p, S) == Settle(RemoveEach(p, S))

\* Mutant: only transactions of the block itself are stale.
PruneNonceTooLow_Off(p, ws) == p

PruneNonceTooLow(p, ws) ==
  RemoveBatch(p, {t \in Held(p) : Tx[t].nonce < ws.nonce[Tx[t].sender]})

PruneRotatedRoots(p, ws) ==
  LET stale == {t \in Held(p) : Tx[t].key # ws.root[Tx[t].sender]}
  IN Settle(RemoveEach(p, UNION {EntryAndDescendants(p, t) : t \in stale}))

------------------------------------------------------------------------------
\* next_expected_nonce: past the queued run that starts at the chain's nonce.
NextExpectedNonce(q, n) ==
  CHOOSE m \in n .. n + Cardinality(DOMAIN q) :
    m \notin DOMAIN q /\ n .. m - 1 \subseteq DOMAIN q

ReplacementFeeRequired(old) ==
  IF BumpPct = 0 THEN old ELSE Max({(old * (100 + BumpPct) + 99) \div 100, old + 1})

Existing(p, t) ==
  LET q == p.queue[Tx[t].sender]
  IN IF Tx[t].nonce \in DOMAIN q THEN {q[Tx[t].nonce]} ELSE {}

NonceFits(p, t, ws) ==
  LET old == Existing(p, t) IN
  /\ Tx[t].nonce >= ws.nonce[Tx[t].sender]
  /\ \A o \in old : /\ Tx[t].tip >= ReplacementFeeRequired(Tx[o].tip)
                    /\ Tx[t].fee >= ReplacementFeeRequired(Tx[o].fee)
  /\ old = {} => Tx[t].nonce = NextExpectedNonce(p.queue[Tx[t].sender], ws.nonce[Tx[t].sender])
  /\ old = {} => Cardinality(DOMAIN p.queue[Tx[t].sender]) < Limits.perSender

ProjectedBytes(p, gone, t) ==
  Minus(p.bytes, Total(gone, LAMBDA g : Tx[g].size)) + Tx[t].size

\* Mutant: the incoming transaction is not counted.
Fits_OffByOne(p, gone, t) ==
  /\ Cardinality(Held(p) \ gone) <= Limits.count
  /\ ProjectedBytes(p, gone, t) <= Limits.bytes

\* The pool without gone and with t stays within both limits.
Fits(p, gone, t) ==
  /\ Cardinality(Held(p) \ gone) + 1 <= Limits.count
  /\ ProjectedBytes(p, gone, t) <= Limits.bytes

\* Never the incoming sender's own transactions up to the incoming nonce.
Evictable(p, gone, t) ==
  {e \in {o.tx : o \in p.order} \ gone : ~(Tx[e].sender = Tx[t].sender /\ Tx[e].nonce <= Tx[t].nonce)}

\* The cheapest entry at the current base fee, the latest among equals, if
\* it pays less than the incoming transaction.
EvictionCandidate(p, gone, t, base) ==
  LET rank(e) == MinerTip(e, base) IN
  {e \in Evictable(p, gone, t) :
    /\ \A d \in Evictable(p, gone, t) :
         \/ rank(e) < rank(d)
         \/ rank(e) = rank(d) /\ p.entries[e] >= p.entries[d]
    /\ MinerTip(t, base) > rank(e)}

\* capacity_evictions: each round evicts one candidate and its descendants
\* until the incoming transaction fits or no candidate is left.
CapacityEvictions(p, t, base) ==
  LET round[n \in 0 .. Cardinality(Held(p))] ==
        IF n = 0 THEN Existing(p, t)
        ELSE LET gone == round[n - 1] IN
             IF Fits(p, gone, t) THEN gone
             ELSE gone \cup UNION {EntryAndDescendants(p, e) :
                                     e \in EvictionCandidate(p, gone, t, base)}
  IN round[Cardinality(Held(p))]

\* Mutant: each transaction is held against the whole balance.
Affordable_Alone(p, t, gone, ws) ==
  \A a \in Senders : Cost(t, a) <= ws.balance[a]

\* ensure_pending_balance_available, which implies the balance floors tested
\* before it; what the admission evicts no longer counts.
Affordable(p, t, gone, ws) ==
  \A a \in Senders : Cost(t, a) > 0 =>
    Minus(p.reserved[a], Total(gone, LAMBDA g : Cost(g, a))) + Cost(t, a) <= ws.balance[a]

Admits(p, t, ws, base) ==
  /\ Tx[t].fee >= base /\ Tx[t].key = ws.root[Tx[t].sender]
  /\ t \notin Held(p)
  /\ NonceFits(p, t, ws)
  /\ LET gone == CapacityEvictions(p, t, base)
     IN Fits(p, gone, t) /\ Affordable(p, t, gone, ws)

Inserted(p, t, base) ==
  LET gone == CapacityEvictions(p, t, base)
      q == RemoveEach(p, gone)
  IN [q EXCEPT !.entries = @ @@ (t :> p.seq),
               !.queue[Tx[t].sender] = (Tx[t].nonce :> t) @@ @,
               !.order = @ \cup {[tip |-> Tx[t].tip, seq |-> p.seq, tx |-> t]},
               !.seq = p.seq + 1,
               !.bytes = ProjectedBytes(p, gone, t),
               !.reserved = [a \in Senders |-> @[a] + Cost(t, a)]]

\* insert: the pool afterwards.
Insert(p, t, ws, base) == IF Admits(p, t, ws, base) THEN Inserted(p, t, base) ELSE p
------------------------------------------------------------------------------
\* Mutant: first come, first served.
Outranks_Arrival(p, t, u, base) == p.entries[t] <= p.entries[u]

\* selection_key: the higher tip at this base fee, then the earlier arrival.
Outranks(p, t, u, base) ==
  \/ MinerTip(t, base) > MinerTip(u, base)
  \/ MinerTip(t, base) = MinerTip(u, base) /\ p.entries[t] <= p.entries[u]

\* pending_for_block_matching_shared: repeatedly the best of the senders'
\* first remaining nonces; an ineligible one hides the rest of its queue.
PendingForBlock(p, base) ==
  LET Eligible(t) == Tx[t].fee >= base
      First(s) == {p.queue[s][n] : n \in {m \in DOMAIN p.queue[s] :
                                            \A k \in DOMAIN p.queue[s] : m <= k}}
      Follower(t) == LET q == p.queue[Tx[t].sender] IN
                     IF Tx[t].nonce + 1 \in DOMAIN q THEN {q[Tx[t].nonce + 1]} ELSE {}
      Best(S) == CHOOSE t \in S : \A u \in S : Outranks(p, t, u, base)
      pick[n \in 0 .. Cardinality(Held(p))] ==
        IF n = 0
        THEN [selected |-> <<>>, ready |-> {t \in UNION {First(s) : s \in Senders} : Eligible(t)}]
        ELSE LET was == pick[n - 1] IN
             IF was.ready = {} THEN was
             ELSE LET t == Best(was.ready)
                  IN [selected |-> Append(was.selected, t),
                      ready |-> (was.ready \ {t}) \cup {u \in Follower(t) : Eligible(u)}]
  IN pick[Cardinality(Held(p))].selected
==============================================================================
