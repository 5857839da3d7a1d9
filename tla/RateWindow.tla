----------------------------- MODULE RateWindow -----------------------------
(***************************************************************************)
(* One bucket (client address and path) of the sliding-window limiter of   *)
(* security/rate_limiter.py, and the clock it reads.  The timestamps live  *)
(* in the memory of the process.                                           *)
(***************************************************************************)
EXTENDS Integers, Sequences, FiniteSets

CONSTANTS
  Window,   \* 60 seconds
  Limits,   \* what a request may state as limit (default 60)
  MaxTime   \* bound on the clock

ASSUME RateAssumption ==
  /\ Window \in Nat \ {0}
  /\ Limits \subseteq Nat \ {0}
  /\ MaxTime \in Nat

VARIABLES
  now,        \* time.time(), which is taken to go forward only
  admitted,   \* history: the requests admitted since the process started
  kept        \* _history[key]: which of them are remembered

rateVars == <<admitted, kept>>

Admissions == [at: 0..MaxTime, limit: Limits]

InitRate ==
  /\ now = 0
  /\ admitted = <<>>
  /\ kept = {}

Tick == now < MaxTime /\ now' = now + 1

FixedWindow == {n \in kept: now \div Window = admitted[n].at \div Window}   \* mutant: a counter per minute

Recent == {n \in kept: now - admitted[n].at < Window}

(* check: the old timestamps are dropped, and the request is counted if    *)
(* fewer than the limit are left.  The limit is a parameter of the         *)
(* dependency rate_limit_endpoint, so that every request brings its own.   *)
Admit(limit) ==
  /\ Cardinality(Recent) < limit
  /\ admitted' = Append(admitted, [at |-> now, limit |-> limit])
  /\ kept' = Recent \cup {Len(admitted) + 1}

Refuse(limit) ==
  /\ Cardinality(Recent) >= limit
  /\ kept' = Recent
  /\ UNCHANGED admitted

(* The process is restarted.                                               *)
ForgetRequestsOnly ==   \* mutant: what was remembered of them survives
  /\ admitted' = <<>>
  /\ UNCHANGED kept

ForgetRequests ==
  /\ admitted' = <<>>
  /\ kept' = {}

-----------------------------------------------------------------------------

RateTypeOK ==
  /\ now \in 0..MaxTime
  /\ admitted \in Seq(Admissions)
  /\ kept \subseteq 1..Len(admitted)

(* The requests of the window that ends with the n-th.                     *)
Before(n) == {m \in 1..n: admitted[n].at - admitted[m].at < Window}

(* Over any stretch of the length of the window, wherever it starts, no    *)
(* more requests are admitted than the last of them was allowed to make,   *)
(* although the timestamps at the edge of the window are forgotten.        *)
WithinRate ==
  \A n \in 1..Len(admitted): Cardinality(Before(n)) <= admitted[n].limit
=============================================================================
