-------------------------- MODULE SettlementLedger ---------------------------
(***************************************************************************)
(* What the settlement observations promise about the orders of one        *)
(* account: a best knowledge of each order, kept for good, that only gets  *)
(* better.  The knowledge of an order never exceeds what the broker did,   *)
(* never shrinks, and is frozen once it is the broker's final state.       *)
(*                                                                         *)
(* No observer, poll, slot or retry appears here.                          *)
(***************************************************************************)
EXTENDS Naturals

CONSTANTS Attempts, Quantity

Fills == 0..Quantity
Order == [state: {"none", "open", "final"}, filled: Fills]

VARIABLES
  order,   \* order[a]: what the broker did with attempt a
  known    \* known[a]: what the ledger says of it; "none" is no knowledge

vars == <<order, known>>

Nothing == [state |-> "none", filled |-> 0]

Init ==
  /\ order = [a \in Attempts |-> Nothing]
  /\ known = [a \in Attempts |-> Nothing]

\* The broker accepts, fills, cancels or rejects.
Trade(a) ==
  /\ order[a].state # "final"
  /\ \E o \in Order :
       /\ o.state # "none"
       /\ o.filled >= order[a].filled
       /\ order' = [order EXCEPT ![a] = o]
  /\ UNCHANGED known

Learn(a) ==
  /\ known[a].state # "final"
  /\ \E k \in Order :
       /\ k.state # "none"
       /\ known[a].filled <= k.filled /\ k.filled <= order[a].filled
       /\ k.state = "final" => k = order[a]
       /\ known' = [known EXCEPT ![a] = k]
  /\ UNCHANGED order

Next == \E a \in Attempts : Trade(a) \/ Learn(a)
Spec == Init /\ [][Next]_vars
=============================================================================
