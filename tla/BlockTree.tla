------------------------------ MODULE BlockTree ------------------------------
(***************************************************************************)
(* The blocks of one chain, seen by their hashes.  A hash commits to the   *)
(* header, so parent and number are functions of it.  Hashes are naturals: *)
(* only their byte order is used by the code (fork-choice tiebreak).       *)
(***************************************************************************)
EXTENDS Naturals, FiniteSets

CONSTANTS Blocks,      \* the hashes; 0 plays ShellHash::ZERO
          Genesis,
          Parent,      \* header.parent_hash
          Number,      \* header.number
          Ancestors    \* a block and everything below it

ASSUME BlocksAssumption ==
  /\ Blocks \subseteq Nat \ {0} /\ IsFiniteSet(Blocks)
  /\ Genesis \in Blocks
  /\ Parent \in [Blocks -> Blocks \cup {0}]
  /\ Number \in [Blocks -> Nat]
  /\ Ancestors \in [Blocks -> SUBSET Blocks]

\* A valid header has number = parent.number + 1 (verify_import_consensus).
ASSUME TreeAssumption ==
  /\ Parent[Genesis] = 0 /\ Number[Genesis] = 0 /\ Ancestors[Genesis] = {Genesis}
  /\ \A b \in Blocks \ {Genesis} :
       /\ Parent[b] \in Blocks
       /\ Number[b] = Number[Parent[b]] + 1
       /\ Ancestors[b] = {b} \cup Ancestors[Parent[b]]

\* Facts of every such tree, stated because they need an induction on numbers.
ASSUME AncestryAssumption ==
  \A b \in Blocks :
    /\ Genesis \in Ancestors[b]
    /\ \A a \in Ancestors[b] : Ancestors[a] \subseteq Ancestors[b]
    /\ \A a \in Ancestors[b] : Number[a] <= Number[b]
    /\ \A a, c \in Ancestors[b] : Number[a] <= Number[c] => a \in Ancestors[c]
==============================================================================
