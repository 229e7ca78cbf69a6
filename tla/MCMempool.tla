------------------------------ MODULE MCMempool -------------------------------
(***************************************************************************)
(* Two accounts and five transactions: a0 and its replacement r0, the next *)
(* nonces a1 and a2 of the same sender (a2 signed under the key a rotates  *)
(* to) and b0, whose gas a pays.  Two fit, if not large.                   *)
(***************************************************************************)
EXTENDS Mempool

CONSTANTS a, b, a0, r0, a1, a2, b0

MCTx ==
  LET tx(s, n, fee, tip, size, gas, value, payer, key) ==
        [sender |-> s, nonce |-> n, fee |-> fee, tip |-> tip, size |-> size,
         gas |-> gas, value |-> value, payer |-> payer, key |-> key]
  IN (a0 :> tx(a, 0, 2, 1, 1, 2, 0, a, 1)) @@ (r0 :> tx(a, 0, 4, 2, 3, 6, 0, a, 1))
     @@ (a1 :> tx(a, 1, 3, 2, 1, 0, 1, a, 1)) @@ (a2 :> tx(a, 2, 3, 3, 2, 1, 0, a, 2))
     @@ (b0 :> tx(b, 0, 3, 2, 2, 3, 1, a, 1))

MCLimits == [count |-> 2, bytes |-> 4, perSender |-> 2]

World(base, x, y, k) ==
  [base |-> base, balance |-> (a :> x) @@ (b :> y), root |-> (a :> k) @@ (b :> 1)]

MCGenesis == World(1, 6, 1, 1)

MCWorlds == {MCGenesis, World(3, 4, 0, 2)}
==============================================================================
