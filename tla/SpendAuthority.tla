--------------------------- MODULE SpendAuthority ---------------------------
(***************************************************************************)
(* What the guardrail promises the rest of the system, without the steps   *)
(* it takes: a session has one spending limit; money is taken out of it    *)
(* slice by slice, never beyond the limit and never once the session is    *)
(* blocked; an authorisation (a capability token) stands for a slice that  *)
(* has been taken, and for one that no other authorisation stands for.     *)
(* A slice whose authorisation is never handed out is simply lost.         *)
(***************************************************************************)
EXTENDS Integers

CONSTANTS Sessions, Tokens, Amounts, Limits

VARIABLES
  limit,     \* limit[s], 0 until the session is opened
  taken,     \* taken[s]: what has been taken out of the limit
  blocked,   \* sessions from which nothing may be taken any more
  granted    \* the authorisations handed out

vars == <<limit, taken, blocked, granted>>

Init ==
  /\ limit = [s \in Sessions |-> 0]
  /\ taken = [s \in Sessions |-> 0]
  /\ blocked = {}
  /\ granted = {}

(* The limit is set once.                                                  *)
Open(s, l) ==
  /\ limit[s] = 0
  /\ limit' = [limit EXCEPT ![s] = l]
  /\ UNCHANGED <<taken, blocked, granted>>

Take(s, amount) ==
  /\ s \notin blocked
  /\ taken[s] + amount <= limit[s]
  /\ taken' = [taken EXCEPT ![s] = @ + amount]
  /\ UNCHANGED <<limit, blocked, granted>>

Block(s) ==
  /\ blocked' = blocked \cup {s}
  /\ UNCHANGED <<limit, taken, granted>>

(* Slices [b1, b1 + a1) and [b2, b2 + a2) do not overlap.                  *)
Disjoint(b1, a1, b2, a2) == b1 + a1 <= b2 \/ b2 + a2 <= b1

Grant(t, s, amount, base) ==
  /\ amount > 0
  /\ base + amount <= taken[s]
  /\ \A g \in granted:
       /\ g.id # t
       /\ g.session = s => Disjoint(base, amount, g.base, g.amount)
  /\ granted' = granted \cup {[id |-> t, session |-> s, amount |-> amount,
                               base |-> base]}
  /\ UNCHANGED <<limit, taken, blocked>>

Next ==
  \E s \in Sessions:
    \/ \E l \in Limits: Open(s, l)
    \/ \E amount \in Amounts: Take(s, amount)
    \/ Block(s)
    \/ \E t \in Tokens, amount \in Amounts, base \in 0..limit[s]:
         Grant(t, s, amount, base)

Spec == Init /\ [][Next]_vars
=============================================================================
