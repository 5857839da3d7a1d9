---------------------------- MODULE PaymentSystem ----------------------------
(***************************************************************************)
(* The payment side of the application: dispatch, reconciliation and       *)
(* webhook handling by a pool of workers that share one database, and the  *)
(* gateway.  With one worker the model is one process, whose handlers run  *)
(* one after the other; with two it is several processes on one database.  *)
(***************************************************************************)
EXTENDS Dispatch, Reconciliation, Webhook

vars == <<rec, txn, job, order, pay, sent, tok, dlq, inbox>>

Init ==
  /\ InitLedger
  /\ InitGateway
  /\ InitDispatch
  /\ InitReconciliation
  /\ InitWebhook

(* A request, an operator or an event gives a free worker something to do. *)
Arrive ==
  \/ \E w \in Workers, t \in Tokens: BeginDispatch(w, t) /\ UNCHANGED <<dlq, inbox>>
  \/ \E w \in Workers, t \in Tokens: BeginReconcile(w, t) /\ UNCHANGED <<tok, inbox>>
  \/ \E w \in Workers: BeginSweep(w) /\ UNCHANGED <<tok, inbox>>
  \/ \E w \in Workers: BeginStaleSweep(w) /\ UNCHANGED <<tok, inbox>>
  \/ \E w \in Workers, e \in sent: ReceiveEvent(w, e) /\ UNCHANGED <<tok, dlq>>
  \/ \E w \in Workers: BeginRecover(w) /\ UNCHANGED <<tok, dlq>>

(* What worker w does next in the handler it is in.                        *)
Continue(w) ==
  \/ TransitionStep(w) /\ UNCHANGED <<gatewayVars, tok, dlq, inbox>>
  \/ DispatchStep(w) /\ UNCHANGED <<dlq, inbox>>
  \/ ReconcileStep(w) /\ UNCHANGED <<tok, inbox>>
  \/ WebhookStep(w) /\ UNCHANGED <<tok, dlq>>

Environment ==
  \/ GatewayStep /\ UNCHANGED <<tok, dlq, inbox>>
  \/ \E t \in Tokens: ExpireToken(t) /\ UNCHANGED <<dlq, inbox>>

NextWithoutCrash == Arrive \/ Environment \/ \E w \in Workers: Continue(w)

Next ==
  \/ NextWithoutCrash
  \/ \E w \in Workers: Crash(w) /\ UNCHANGED <<gatewayVars, tok, dlq, inbox>>

Spec == Init /\ [][Next]_vars

(* Processes may be lost, but not for ever; a handler that has been        *)
(* entered runs on.                                                        *)
FairSpec ==
  /\ Init
  /\ [][Next]_vars
  /\ <>[][NextWithoutCrash]_vars
  /\ \A w \in Workers: WF_vars(Continue(w))

(* Operators keep calling /payment/reconcile-all, or that and              *)
(* /webhook/recover.  A worker may always be busy with something else when *)
(* they do, hence strong fairness.                                         *)
SweptSpec ==
  /\ FairSpec
  /\ \A w \in Workers: SF_vars(BeginSweep(w) /\ UNCHANGED <<tok, inbox>>)

OperatedSpec ==
  /\ FairSpec
  /\ \A w \in Workers:
       /\ SF_vars(BeginSweep(w) /\ UNCHANGED <<tok, inbox>>)
       /\ SF_vars(BeginRecover(w) /\ UNCHANGED <<tok, dlq>>)

(* All of that; and every event is delivered (each is recorded once only,  *)
(* so that fairness of receiving any is fairness of receiving all), and    *)
(* every record is reconciled again and again through                      *)
(* /payment/reconcile/{id}.                                                *)
DiligentSpec ==
  /\ FairSpec
  /\ \A w \in Workers:
       /\ SF_vars(BeginSweep(w) /\ UNCHANGED <<tok, inbox>>)
       /\ SF_vars(BeginRecover(w) /\ UNCHANGED <<tok, dlq>>)
       /\ \A t \in Tokens: SF_vars(BeginReconcile(w, t) /\ UNCHANGED <<tok, inbox>>)
       /\ SF_vars(\E e \in sent: ReceiveEvent(w, e) /\ UNCHANGED <<tok, dlq>>)

-----------------------------------------------------------------------------

(* The types of the nine variables.                                        *)
TypeOK ==
  /\ rec \in [Tokens -> Records]
  /\ txn \in [Workers -> Requests \cup {Idle, Return, Raise}]
  /\ job \in [Workers -> DispatchJobs \cup ReconcileJobs \cup WebhookJobs \cup {NoJob}]
  /\ order \in [Tokens -> OrderStatuses]
  /\ pay \in [Tokens -> [PayIds -> PayStatuses]]
  /\ sent \subseteq Events
  /\ tok \in [Tokens -> TokenStates]
  /\ dlq \subseteq Tokens
  /\ inbox \in [Events -> EventRows]

(* Money can move at the gateway only for a consumed token whose record is *)
(* already in the ledger (service.py, "Write PENDING to our ledger BEFORE  *)
(* calling Razorpay").                                                     *)
LedgerBeforeGateway ==
  \A t \in Tokens: order[t] # "none" => Exists(t) /\ tok[t].consumed

(* What dispatch, reconciliation, recovery and their losses do to tokens,  *)
(* records and orders is what OrderDesk promises: burnt, recorded, ordered *)
(* in this sequence, each once and for good.                               *)
Desk == INSTANCE OrderDesk WITH
  burnt <- {t \in Tokens: tok[t].consumed},
  recorded <- {t \in Tokens: Exists(t)},
  ordered <- {t \in Tokens: order[t] # "none"}

IsOrderDesk == Desk!Spec

(* What there is for a record to claim: a capture or an authorisation at   *)
(* the gateway, a row in the queue of the operators.                       *)
Claimable == {"AUTHORIZED", "CAPTURED", "DEAD_LETTER"}

Grounds(t) ==
  {claim \in Claimable:
     \/ claim = "CAPTURED" /\ order[t] = "paid"
     \/ claim = "AUTHORIZED"
          /\ \E p \in PayIds: pay[t][p] \in {"authorized", "captured"}
     \/ claim = "DEAD_LETTER" /\ t \in dlq}

Life == INSTANCE PaymentLife WITH
  Payments <- Tokens,
  Moves <- LegalTransitions,
  Claims <- Claimable,
  state <- [t \in Tokens |-> rec[t].status],
  grounds <- [t \in Tokens |-> Grounds(t)]

(* Within one process the read and write transactions of dispatches,       *)
(* reconciliations and events add up to the life PaymentLife tells: one    *)
(* legal move at a time, and a claim only once there are grounds for it.   *)
IsPaymentLife == Life!Spec

(* The ledger claims a payment only if the gateway has it, whatever        *)
(* interleaving or loss of events, sweeps and dispatches led there.        *)
ClaimsAreBacked ==
  \A t \in Tokens:
    /\ rec[t].status = "CAPTURED" => order[t] = "paid"
    /\ rec[t].status = "AUTHORIZED"
         => \E p \in PayIds: pay[t][p] \in {"authorized", "captured"}

(* The ids on a record are ids the gateway gave out.                       *)
IdsAreReal ==
  \A t \in Tokens:
    /\ rec[t].oid = "real" => order[t] # "none"
    /\ rec[t].pid # NoPay => pay[t][rec[t].pid] # "none"

(* A record that is dead-lettered is in the queue operators work from.     *)
DeadLetterIsQueued ==
  \A t \in Tokens: rec[t].status = "DEAD_LETTER" => t \in dlq

(* Nobody is handed to the operators early: a queued record has been tried *)
(* MaxAttempts times, although each reconciliation decides on the count it *)
(* read before the gateway answered, and dispatches count on beside it.    *)
QueuedAfterAllAttempts == \A t \in dlq: rec[t].attempts >= MaxAttempts

(* What was validated is still so once it has been applied: an event marked*)
(* PROCESSED reports the record's amount and currency, and its order is    *)
(* the one on the record, however long ago it was delivered or refused.    *)
ProcessedEventsMatch ==
  \A e \in Events: inbox[e].status = "PROCESSED"
                     => e.matches /\ rec[e.rec].oid = "real"

(* Ids, once written, stay, also when two transitions overlap.             *)
IdsWriteOnce ==
  [][\A t \in Tokens:
       /\ rec[t].oid # NoOrder => rec'[t].oid = rec[t].oid
       /\ rec[t].pid # NoPay => rec'[t].pid = rec[t].pid]_vars

(* Within one process every change of a status is in LEGAL_TRANSITIONS;    *)
(* CAPTURED and DEAD_LETTER are final.                                     *)
StatusChangesAreLegal ==
  [][\A t \in Tokens: Exists(t) => IsLegal(rec[t].status, rec'[t].status)]_vars

(* Within one process an event that has been PROCESSED is never handled    *)
(* again, so it keeps its mark.                                            *)
ProcessedStaysProcessed ==
  [][\A e \in Events:
       inbox[e].status = "PROCESSED" => inbox'[e] = inbox[e]]_vars

(* state_machine.py:33 "Terminal state - no regressions allowed".          *)
CapturedIsFinal ==
  [][\A t \in Tokens: rec[t].status = "CAPTURED" => rec'[t].status = "CAPTURED"]_vars

(* A payment is never silently dropped: it does not stay PENDING.          *)
NeverSilentlyDropped ==
  \A t \in Tokens: rec[t].status = "PENDING" ~> rec[t].status # "PENDING"

(* Every event on record is processed or dead-lettered in the end.         *)
EventsSettle ==
  \A e \in Events: inbox[e].status \in {"RECEIVED", "FAILED"}
                     ~> inbox[e].status \in {"PROCESSED", "DEAD_LETTER"}

(* A record whose order has been paid does not stay CREATED.               *)
PaidOrdersSettle ==
  \A t \in Tokens: rec[t].status = "CREATED" /\ order[t] = "paid"
                     ~> rec[t].status # "CREATED"

(* service.py:436 "never infer failure from our own timeout".              *)
FailureIsNotInferred ==
  \A t \in Tokens: rec[t].status = "FAILED"
    => order[t] = "none" \/ \E p \in PayIds: pay[t][p] = "failed"

(* reconciliation.py:7 "Correct: update our ledger to match Razorpay's     *)
(* state".                                                                 *)
PaidOrdersAreCaptured ==
  \A t \in Tokens: rec[t].oid = "real" /\ order[t] = "paid"
                     ~> rec[t].status \in {"CAPTURED", "DEAD_LETTER"}
=============================================================================
