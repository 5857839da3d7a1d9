------------------------------- MODULE Webhook -------------------------------
(***************************************************************************)
(* The webhook endpoint (webhook/router.py) and the handling and recovery  *)
(* of events (webhook/handler.py).  An event is recorded once, validated   *)
(* against the payment record, applied through transition_payment_state    *)
(* and marked; unprocessed events wait for POST /webhook/recover.          *)
(***************************************************************************)
EXTENDS Gateway

CONSTANT MaxRecoveries   \* max_attempts of recover_failed_webhooks

ASSUME WebhookAssumption == MaxRecoveries \in Nat \ {0}

VARIABLE inbox   \* inbox[e] is the webhook_events row of event e

(* processing_attempts is only compared with MaxRecoveries.                *)
EventRows == [status: {"absent", "RECEIVED", "FAILED", "PROCESSED",
                       "DEAD_LETTER"},
              attempts: 0..MaxRecoveries]

NoEvent == [status |-> "absent", attempts |-> 0]

WebhookSteps == {"validate", "apply", "reject", "exhausted", "recover"}

(* todo: the rows of the recovery batch still to do, each with what the    *)
(* snapshot said of its attempts.                                          *)
WebhookJobs == [pc: WebhookSteps, event: Events,
                todo: SUBSET [event: Events, exhausted: BOOLEAN]]

InitWebhook == inbox = [e \in Events |-> NoEvent]

-----------------------------------------------------------------------------

(* record_and_deduplicate_event.  A repeated delivery of an event that has *)
(* a row is discarded and changes nothing.                                 *)
ReceiveAgain(w, e) ==   \* mutant: ON CONFLICT DO UPDATE
  /\ Free(w)
  /\ e \in sent
  /\ inbox' = [inbox EXCEPT ![e].status = "RECEIVED"]
  /\ job' = [job EXCEPT ![w] = [pc |-> "validate", event |-> e, todo |-> {}]]
  /\ UNCHANGED <<rec, txn, gatewayVars>>

ReceiveEvent(w, e) ==
  /\ Free(w)
  /\ e \in sent
  /\ inbox[e].status = "absent"
  /\ inbox' = [inbox EXCEPT ![e].status = "RECEIVED"]
  /\ job' = [job EXCEPT ![w] = [pc |-> "validate", event |-> e, todo |-> {}]]
  /\ UNCHANGED <<rec, txn, gatewayVars>>

StatusFor(kind) ==
  CASE kind = "payment.authorized" -> "AUTHORIZED"
    [] kind = "payment.failed" -> "FAILED"
    [] kind \in {"payment.captured", "order.paid"} -> "CAPTURED"

(* _validate_monetary_consistency: the order id is on record, and amount   *)
(* and currency match.                                                     *)
ConsistentOrder(e) == rec[e.rec].oid = "real"   \* mutant: amounts not compared

Consistent(e) == rec[e.rec].oid = "real" /\ e.matches

ValidateEvent(w) ==
  LET e == job[w].event IN
  /\ job[w].pc = "validate"
  /\ IF Consistent(e)
     THEN Goto(w, "apply") /\ Call(w, ByOrder(e.rec, StatusFor(e.kind), e.pid))
     ELSE Goto(w, "reject") /\ UNCHANGED txn
  /\ UNCHANGED <<rec, inbox, gatewayVars>>

(* _mark_webhook_processed does not look at the status it replaces.        *)
Mark(w, status) ==
  LET e == job[w].event IN
  /\ inbox' = [inbox EXCEPT ![e] =
                 [status |-> status,
                  attempts |-> IF inbox[e].attempts < MaxRecoveries
                               THEN inbox[e].attempts + 1
                               ELSE inbox[e].attempts]]
  /\ IF job[w].todo = {} THEN EndJob(w)
     ELSE Goto(w, "recover") /\ Becomes(w, Idle)
  /\ UNCHANGED <<rec, gatewayVars>>

(* _update_payment_status swallows every exception: an event whose         *)
(* transition was refused is PROCESSED all the same.                       *)
MarkProcessed(w) == job[w].pc = "apply" /\ Finished(w) /\ Mark(w, "PROCESSED")
MarkFailed(w) == job[w].pc = "reject" /\ Mark(w, "FAILED")
MarkDeadLetter(w) == job[w].pc = "exhausted" /\ Mark(w, "DEAD_LETTER")

-----------------------------------------------------------------------------

(* processed = 0 AND processing_status != 'DEAD_LETTER'.                   *)
OnlyReceived ==   \* mutant: FAILED events are not selected
  {e \in Events: inbox[e].status = "RECEIVED"}

Unprocessed == {e \in Events: inbox[e].status \in {"RECEIVED", "FAILED"}}

TakeFrom(w, rows) ==
  \E row \in rows:
    job' = [job EXCEPT ![w] = [pc |-> IF row.exhausted THEN "exhausted"
                                      ELSE "validate",
                               event |-> row.event, todo |-> rows \ {row}]]

(* The code goes through the snapshot in the order of arrival; here any    *)
(* order may be taken.                                                     *)
BeginRecover(w) ==
  /\ Free(w)
  /\ TakeFrom(w, {[event |-> e, exhausted |-> inbox[e].attempts >= MaxRecoveries]:
                    e \in Unprocessed})
  /\ UNCHANGED <<rec, txn, inbox, gatewayVars>>

RecoverNext(w) ==
  /\ job[w].pc = "recover"
  /\ TakeFrom(w, job[w].todo)
  /\ UNCHANGED <<rec, txn, inbox, gatewayVars>>

WebhookStep(w) ==
  \/ ValidateEvent(w)
  \/ MarkProcessed(w)
  \/ MarkFailed(w)
  \/ MarkDeadLetter(w)
  \/ RecoverNext(w)
=============================================================================
