--------------------------- MODULE Reconciliation ---------------------------
(***************************************************************************)
(* reconcile_payment, reconcile_all_pending, reconcile_stale and           *)
(* _dead_letter of payment/reconciliation.py: the record of a payment is   *)
(* compared with the gateway's order and corrected, or dead-lettered after *)
(* MaxAttempts.                                                            *)
(***************************************************************************)
EXTENDS Gateway

VARIABLE dlq   \* tokens whose record has a row in dead_letter_queue

ReconcileSteps == {"count", "inspect", "fetch", "bury", "next"}

(* The row being reconciled, what was read of it, and the rows of the      *)
(* batch that are still to do (none when a single record is reconciled).   *)
ReconcileJobs == [pc: ReconcileSteps, rec: Tokens, seen: Records,
                  todo: SUBSET Tokens]

InitReconciliation == dlq = {}

(* POST /payment/reconcile/{id}: any record, whatever its status.          *)
BeginReconcile(w, t) ==
  /\ Free(w)
  /\ Exists(t)
  /\ job' = [job EXCEPT ![w] = [pc |-> "count", rec |-> t, seen |-> NoRecord,
                                todo |-> {}]]
  /\ UNCHANGED <<rec, txn, dlq, gatewayVars>>

Unsettled == {t \in Tokens: rec[t].status \in {"PENDING", "CREATED"}}

(* The ids of a batch are read once, before the first is reconciled.       *)
BeginBatch(w, rows) ==
  /\ Free(w)
  /\ \E t \in rows:
       job' = [job EXCEPT ![w] = [pc |-> "count", rec |-> t, seen |-> NoRecord,
                                  todo |-> rows \ {t}]]
  /\ UNCHANGED <<rec, txn, dlq, gatewayVars>>

(* POST /payment/reconcile-all.                                            *)
BeginSweep(w) == BeginBatch(w, Unsettled)

(* reconcile_stale.  The threshold is negated twice (created_at < NOW() -  *)
(* '-300 seconds'), so that a record is stale from 300 seconds before it   *)
(* is written: every unsettled record is, one in mid-dispatch included.    *)
Stale == Unsettled

BeginStaleSweep(w) == BeginBatch(w, Stale)

(* attempts counts every invocation, before anything is known to fail.     *)
CountAttempt(w) ==
  LET t == job[w].rec IN
  /\ job[w].pc = "count"
  /\ rec' = [rec EXCEPT ![t].attempts = OneMore(rec[t].attempts)]
  /\ Goto(w, "inspect")
  /\ UNCHANGED <<txn, dlq, gatewayVars>>

NeverExhausted(row) == FALSE   \* mutant: attempts are not compared

ExhaustedEarly(row) == row.attempts + 1 >= MaxAttempts   \* mutant: one too early

Exhausted(row) == row.attempts >= MaxAttempts

(* Without an order id there is nothing to compare with.                   *)
Inspect(w) ==
  LET t == job[w].rec  row == rec[t] IN
  /\ job[w].pc = "inspect"
  /\ job' = [job EXCEPT ![w].seen = row,
                        ![w].pc = IF row.oid # NoOrder THEN "fetch"
                                  ELSE IF Exhausted(row) THEN "bury"
                                  ELSE "next"]
  /\ UNCHANGED <<rec, txn, dlq, gatewayVars>>

(* The gateway cannot be reached, does not know the order (a simulated     *)
(* one, in particular), or reports another amount or currency.             *)
FetchUnusable(w) ==
  /\ job[w].pc = "fetch"
  /\ Goto(w, IF Exhausted(job[w].seen) THEN "bury" ELSE "next")
  /\ UNCHANGED <<rec, txn, dlq, gatewayVars>>

(* status_map; the comparison is with the status read before the fetch.    *)
CorrectAttempted(t) ==   \* mutant: "attempted" maps to CAPTURED
  IF order[t] \in {"attempted", "paid"} THEN "CAPTURED" ELSE "CREATED"

CorrectNeverPaid(t) == "CREATED"   \* mutant: "paid" is missing from the map

CorrectStatus(t) == IF order[t] = "paid" THEN "CAPTURED" ELSE "CREATED"

FetchOrder(w) ==
  LET t == job[w].rec  seen == job[w].seen IN
  /\ job[w].pc = "fetch"
  /\ seen.oid = "real"
  /\ IF CorrectStatus(t) # seen.status
     THEN Call(w, ById(t, CorrectStatus(t), seen.oid, FALSE))
     ELSE UNCHANGED txn
  /\ Goto(w, "next")
  /\ UNCHANGED <<rec, dlq, gatewayVars>>

(* _dead_letter queues the row first, then asks for the transition.        *)
EnqueueNothing(w) ==   \* mutant: the transition without the queue row
  /\ job[w].pc = "bury"
  /\ Call(w, ById(job[w].rec, "DEAD_LETTER", NoOrder, FALSE))
  /\ Goto(w, "next")
  /\ UNCHANGED <<rec, dlq, gatewayVars>>

EnqueueDeadLetter(w) ==
  LET t == job[w].rec IN
  /\ job[w].pc = "bury"
  /\ dlq' = dlq \cup {t}
  /\ Call(w, ById(t, "DEAD_LETTER", NoOrder, FALSE))
  /\ Goto(w, "next")
  /\ UNCHANGED <<rec, gatewayVars>>

(* An exception in one row is logged and the batch goes on.                *)
NextRow(w) ==
  /\ job[w].pc = "next"
  /\ txn[w] = Idle \/ Finished(w)
  /\ IF job[w].todo = {} THEN EndJob(w)
     ELSE /\ \E t \in job[w].todo:
               job' = [job EXCEPT ![w] = [pc |-> "count", rec |-> t,
                                          seen |-> NoRecord,
                                          todo |-> job[w].todo \ {t}]]
          /\ Becomes(w, Idle)
  /\ UNCHANGED <<rec, dlq, gatewayVars>>

ReconcileStep(w) ==
  \/ CountAttempt(w)
  \/ Inspect(w)
  \/ FetchUnusable(w)
  \/ FetchOrder(w)
  \/ EnqueueDeadLetter(w)
  \/ NextRow(w)
=============================================================================
