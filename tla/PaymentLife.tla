----------------------------- MODULE PaymentLife -----------------------------
(***************************************************************************)
(* The life of a payment as the application tells it, without the workers, *)
(* transactions and messages that bring it about: a payment is opened, and *)
(* then moves along a fixed table.  Some of its states are claims about    *)
(* the world outside the record (the gateway, the operators' queue); it    *)
(* moves into one of those only when there are grounds for the claim, and  *)
(* grounds, once there, stay.                                              *)
(***************************************************************************)

CONSTANTS
  Payments,
  Moves,    \* Moves[s]: the states that may follow s
  Claims    \* the states that need grounds

VARIABLES
  state,    \* state[p], "absent" until the payment is opened
  grounds   \* grounds[p]: the claims that could be made of p

vars == <<state, grounds>>

Init ==
  /\ state = [p \in Payments |-> "absent"]
  /\ grounds = [p \in Payments |-> {}]

Open(p) ==
  /\ state[p] = "absent"
  /\ state' = [state EXCEPT ![p] = "PENDING"]
  /\ UNCHANGED grounds

Move(p, s) ==
  /\ state[p] # "absent"
  /\ s \in Moves[state[p]]
  /\ s \in Claims => s \in grounds[p]
  /\ state' = [state EXCEPT ![p] = s]
  /\ UNCHANGED grounds

(* Something happens outside that the payment may claim from now on.       *)
Learn(p, claims) ==
  /\ grounds' = [grounds EXCEPT ![p] = @ \cup claims]
  /\ UNCHANGED state

Next ==
  \E p \in Payments:
    \/ Open(p)
    \/ \E s \in DOMAIN Moves: Move(p, s)
    \/ \E claims \in SUBSET Claims: Learn(p, claims)

Spec == Init /\ [][Next]_vars
=============================================================================
