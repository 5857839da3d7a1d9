----------------------------- MODULE OrderDesk -----------------------------
(***************************************************************************)
(* What the payment side promises the rest of the system, without the      *)
(* steps it takes: a token is burnt before a payment record is written for *)
(* it, the record is written before an order is placed at the gateway, and *)
(* each of the three happens at most once and is never taken back.         *)
(***************************************************************************)

CONSTANT Tokens

VARIABLES
  burnt,      \* tokens that have been consumed
  recorded,   \* tokens with a payment record
  ordered     \* tokens with an order at the gateway

vars == <<burnt, recorded, ordered>>

Init == burnt = {} /\ recorded = {} /\ ordered = {}

Burn(t) ==
  /\ t \notin burnt
  /\ burnt' = burnt \cup {t}
  /\ UNCHANGED <<recorded, ordered>>

Record(t) ==
  /\ t \in burnt \ recorded
  /\ recorded' = recorded \cup {t}
  /\ UNCHANGED <<burnt, ordered>>

Order(t) ==
  /\ t \in recorded \ ordered
  /\ ordered' = ordered \cup {t}
  /\ UNCHANGED <<burnt, recorded>>

Next == \E t \in Tokens: Burn(t) \/ Record(t) \/ Order(t)

Spec == Init /\ [][Next]_vars
=============================================================================
