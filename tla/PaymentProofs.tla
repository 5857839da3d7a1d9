---------------------------- MODULE PaymentProofs ----------------------------
(***************************************************************************)
(* Proofs about PaymentSystem, for any number of workers, tokens, payments *)
(* and attempts: its types; that it burns, records and orders as OrderDesk *)
(* promises; and that neither lost, repeated or overlapping transitions    *)
(* nor crashes make the ledger claim what the gateway does not have.       *)
(*                                                                         *)
(* What the gateway and the tables have reached is never taken back, so    *)
(* that what was true when a worker read it is still true when it writes:  *)
(* Inv says that every call and every handler rests on such facts only.    *)
(***************************************************************************)
EXTENDS PaymentSystem, TLAPS

Calls == Requests \cup {Idle, Return, Raise}
Jobs == DispatchJobs \cup ReconcileJobs \cup WebhookJobs \cup {NoJob}

(* Which of the variables a step may change, and through which action.     *)
LEMMA RecordSteps ==
  ASSUME [Next]_vars
  PROVE  \/ UNCHANGED rec
         \/ \E w \in Workers: Backfill(w) \/ WriteStatus(w) \/ InsertPending(w)
                                \/ CountAttempt(w)
BY DEF Next, NextWithoutCrash, Arrive, Environment, Continue, vars, TransitionStep,
       DispatchStep, ReconcileStep, WebhookStep, BeginDispatch, BeginReconcile,
       BeginSweep, BeginStaleSweep, BeginBatch, ReceiveEvent, BeginRecover,
       RejectCall, Reaffirm, RefuseTransition, AllowTransition, ConsumeToken,
       RetryPending, CreateSucceeds, CreateTimesOut, CreateIsDuplicate,
       CreateIsRejected, ReturnCreated, ReturnSettled, Inspect, FetchUnusable,
       FetchOrder, EnqueueDeadLetter, NextRow, ValidateEvent, MarkProcessed,
       MarkFailed, MarkDeadLetter, Mark, RecoverNext, GatewayStep, ExpireToken,
       Crash, ledgerVars

LEMMA GatewaySteps ==
  ASSUME [Next]_vars
  PROVE  \/ UNCHANGED <<order, pay, sent>>
         \/ \E w \in Workers: job[w].pc = "create" /\ NewOrder(job[w].rec)
         \/ \E t \in Tokens, p \in PayIds, matches \in Fidelity:
              \/ FailPayment(t, p, matches)
              \/ AuthorizePayment(t, p, matches)
              \/ CapturePayment(t, p, matches)
BY DEF Next, NextWithoutCrash, Arrive, Environment, Continue, vars, gatewayVars,
       DispatchStep, ReconcileStep, WebhookStep, BeginDispatch, BeginReconcile,
       BeginSweep, BeginStaleSweep, BeginBatch, ReceiveEvent, BeginRecover,
       InsertPending, CountAttempt, ConsumeToken, RetryPending, CreateSucceeds,
       CreateTimesOut, CreateIsDuplicate, CreateIsRejected, ReturnCreated,
       ReturnSettled, Inspect, FetchUnusable, FetchOrder, EnqueueDeadLetter,
       NextRow, ValidateEvent, MarkProcessed, MarkFailed, MarkDeadLetter, Mark,
       RecoverNext, GatewayStep, ExpireToken

LEMMA TokenSteps ==
  ASSUME [Next]_vars
  PROVE  \/ UNCHANGED tok
         \/ \E w \in Workers: ConsumeToken(w)
         \/ \E t \in Tokens: ExpireToken(t)
BY DEF Next, NextWithoutCrash, Arrive, Environment, Continue, vars,
       DispatchStep, BeginDispatch, InsertPending, RetryPending, CreateSucceeds,
       CreateTimesOut, CreateIsDuplicate, CreateIsRejected, ReturnCreated,
       ReturnSettled

LEMMA QueueSteps ==
  ASSUME [Next]_vars
  PROVE  UNCHANGED dlq \/ \E w \in Workers: EnqueueDeadLetter(w)
BY DEF Next, NextWithoutCrash, Arrive, Environment, Continue, vars,
       ReconcileStep, BeginReconcile, BeginSweep, BeginStaleSweep, BeginBatch,
       CountAttempt, Inspect, FetchUnusable, FetchOrder, NextRow

LEMMA InboxSteps ==
  ASSUME [Next]_vars
  PROVE  \/ UNCHANGED inbox
         \/ \E w \in Workers, e \in sent: ReceiveEvent(w, e)
         \/ \E w \in Workers: MarkProcessed(w) \/ MarkFailed(w) \/ MarkDeadLetter(w)
BY DEF Next, NextWithoutCrash, Arrive, Environment, Continue, vars,
       WebhookStep, BeginRecover, ValidateEvent, RecoverNext

WorkerMoves(w) ==
  \/ \E t \in Tokens: BeginDispatch(w, t) \/ BeginReconcile(w, t)
  \/ BeginSweep(w) \/ BeginStaleSweep(w) \/ BeginRecover(w)
  \/ \E e \in sent: ReceiveEvent(w, e)
  \/ TransitionStep(w) \/ DispatchStep(w) \/ ReconcileStep(w) \/ WebhookStep(w)
  \/ Crash(w)

LEMMA WorkerSteps ==
  ASSUME [Next]_vars
  PROVE  UNCHANGED <<txn, job>> \/ \E w \in Workers: WorkerMoves(w)
BY DEF Next, NextWithoutCrash, Arrive, Environment, Continue, vars, GatewayStep,
       ExpireToken, ledgerVars, WorkerMoves

-----------------------------------------------------------------------------

(* What the transition w is in rests on.                                   *)
CallFits(call) ==
  /\ call \in Calls
  /\ call \in Requests =>
       /\ call.step \in {"write", "backfill"} => Exists(call.rec)
       /\ call.oid = "real" => order[call.rec] # "none"
       /\ call.pid # NoPay => pay[call.rec][call.pid] # "none"
       /\ call.want = "CAPTURED" => order[call.rec] = "paid"
       /\ call.want = "AUTHORIZED"
            => \E p \in PayIds: pay[call.rec][p] \in {"authorized", "captured"}
       /\ call.want = "DEAD_LETTER" => call.rec \in dlq

(* What the handler w is in rests on.                                      *)
JobFits(handler) ==
  /\ handler \in Jobs
  /\ handler \in DispatchJobs =>
       /\ handler.pc \notin {"consume", "retry"} => tok[handler.rec].consumed
       /\ handler.pc \notin {"consume", "retry", "insert"} => Exists(handler.rec)
  /\ handler \in ReconcileJobs =>
       (handler.seen.oid = "real" => order[handler.rec] # "none")
  /\ handler \in WebhookJobs =>
       handler.event \in sent /\ \A row \in handler.todo: row.event \in sent

WorkersFit ==
  /\ txn \in [Workers -> Calls] /\ job \in [Workers -> Jobs]
  /\ \A w \in Workers: CallFits(txn[w]) /\ JobFits(job[w])

(* A record and an order rest on each other and on the token.              *)
RecordFits(t) ==
  /\ Exists(t) => tok[t].consumed
  /\ rec[t].oid # NoOrder \/ rec[t].pid # NoPay => Exists(t)
  /\ rec[t].oid = "real" => order[t] # "none"
  /\ rec[t].pid # NoPay => pay[t][rec[t].pid] # "none"
  /\ rec[t].status = "CAPTURED" => order[t] = "paid"
  /\ rec[t].status = "AUTHORIZED"
       => \E p \in PayIds: pay[t][p] \in {"authorized", "captured"}
  /\ rec[t].status = "DEAD_LETTER" => t \in dlq
  /\ order[t] # "none" => Exists(t)

(* What an event says has happened at the gateway.                         *)
EventFits(e) ==
  /\ pay[e.rec][e.pid] # "none"
  /\ e.kind = "payment.authorized" => pay[e.rec][e.pid] \in {"authorized", "captured"}
  /\ e.kind \in {"payment.captured", "order.paid"} => order[e.rec] = "paid"

Inv ==
  /\ TypeOK
  /\ WorkersFit
  /\ \A t \in Tokens: RecordFits(t)
  /\ \A e \in sent: EventFits(e)
  /\ \A e \in Events: inbox[e].status # "absent" => e \in sent

(* What is never taken back.                                               *)
Grows ==
  /\ \A t \in Tokens:
       /\ Exists(t) => Exists(t)'
       /\ tok[t].consumed => tok'[t].consumed
       /\ order[t] # "none" => order'[t] # "none"
       /\ order[t] = "paid" => order'[t] = "paid"
       /\ \A p \in PayIds:
            /\ pay[t][p] # "none" => pay'[t][p] # "none"
            /\ pay[t][p] \in {"authorized", "captured"}
                 => pay'[t][p] \in {"authorized", "captured"}
  /\ dlq \subseteq dlq' /\ sent \subseteq sent'

LEMMA StatusSet ==
  /\ Statuses = {"PENDING", "CREATED", "AUTHORIZED", "RECONCILING", "CAPTURED",
                 "FAILED", "DEAD_LETTER"}
  /\ "absent" \notin Statuses
BY DEF Statuses, LegalTransitions

(* Facts that never cease keep a call and a handler fitting.               *)
LEMMA CallStillFits ==
  ASSUME Grows, NEW call, CallFits(call)
  PROVE  CallFits(call)'
BY DEF Grows, CallFits, Requests, PayIds, NoPay

LEMMA JobStillFits ==
  ASSUME Grows, NEW handler, JobFits(handler)
  PROVE  JobFits(handler)'
<1>1. handler \in DispatchJobs \cup ReconcileJobs => handler.rec \in Tokens
  BY DEF DispatchJobs, ReconcileJobs
<1>. QED
  BY <1>1 DEF Grows, JobFits

(* A step of one worker that leaves it with the given call and handler.    *)
LEMMA WorkerMoved ==
  ASSUME WorkersFit, Grows, NEW w \in Workers, NEW call, NEW handler,
         txn' = [txn EXCEPT ![w] = call], job' = [job EXCEPT ![w] = handler],
         CallFits(call)', JobFits(handler)'
  PROVE  WorkersFit'
<1>1. /\ txn \in [Workers -> Calls] /\ job \in [Workers -> Jobs]
      /\ call \in Calls /\ handler \in Jobs
  BY DEF WorkersFit, CallFits, JobFits
<1>2. txn' \in [Workers -> Calls] /\ job' \in [Workers -> Jobs]
  BY <1>1
<1>3. txn'[w] = call /\ job'[w] = handler
  BY <1>1
<1>4. ASSUME NEW u \in Workers, u # w
      PROVE  CallFits(txn[u])' /\ JobFits(job[u])'
  <2>1. PICK c \in Calls, h \in Jobs: c = txn[u] /\ h = job[u]
    BY <1>1
  <2>2. txn'[u] = c /\ job'[u] = h
    BY <1>1, <1>4, <2>1
  <2>3. CallFits(c)' /\ JobFits(h)'
    BY <2>1, CallStillFits, JobStillFits DEF WorkersFit
  <2>. QED
    BY <2>2, <2>3 DEF CallFits, JobFits
<1>5. CallFits(txn[w])' /\ JobFits(job[w])'
  BY <1>3 DEF CallFits, JobFits
<1>. QED
  BY <1>2, <1>4, <1>5 DEF WorkersFit

-----------------------------------------------------------------------------

(* Where a worker stands says what handler, or what call, it is in.        *)
LEMMA HandlerKind ==
  ASSUME Inv, NEW w \in Workers
  PROVE  /\ job[w].pc \in DispatchSteps => job[w] \in DispatchJobs
         /\ job[w].pc \in ReconcileSteps => job[w] \in ReconcileJobs
         /\ job[w].pc \in WebhookSteps => job[w] \in WebhookJobs
<1>1. job[w] \in Jobs
  BY DEF Inv, WorkersFit
<1>. QED
  BY <1>1 DEF Jobs, NoJob, DispatchJobs, ReconcileJobs, WebhookJobs, DispatchSteps,
              ReconcileSteps, WebhookSteps

LEMMA CallKind ==
  ASSUME Inv, NEW w \in Workers, txn[w].step \in {"read", "write", "backfill"}
  PROVE  txn[w] \in Requests
<1>1. txn[w] \in Calls
  BY DEF Inv, WorkersFit
<1>. QED
  BY <1>1 DEF Calls, Idle, Return, Raise

LEMMA RequestTyped ==
  ASSUME NEW call \in Requests
  PROVE  /\ call.rec \in Tokens /\ call.want \in Statuses /\ call.oid \in OrderIds
         /\ call.pid \in PayIds \cup {NoPay} /\ call.counted \in BOOLEAN
BY DEF Requests

LEMMA RecordTyped ==
  ASSUME NEW row \in Records
  PROVE  /\ row.status \in Statuses \cup {"absent"} /\ row.oid \in OrderIds
         /\ row.pid \in PayIds \cup {NoPay} /\ row.attempts \in 0..MaxAttempts
         /\ OneMore(row.attempts) \in 0..MaxAttempts
BY LedgerAssumption DEF Records, OneMore

LEMMA FilledRecord ==
  ASSUME NEW row \in Records, NEW call \in Requests
  PROVE  /\ FillIds(row, call) \in Records
         /\ FillIds(row, call).status = row.status
         /\ FillIds(row, call).attempts = row.attempts
         /\ FillIds(row, call).oid = (IF row.oid = NoOrder THEN call.oid ELSE row.oid)
         /\ FillIds(row, call).pid = (IF row.pid = NoPay THEN call.pid ELSE row.pid)
BY RequestTyped DEF FillIds, Records

(* What the four writing steps make of a record.                           *)
LEMMA RecordWritten ==
  ASSUME Inv, NEW w \in Workers,
         Backfill(w) \/ WriteStatus(w) \/ InsertPending(w) \/ CountAttempt(w)
  PROVE  \E t \in Tokens, row \in Records:
           /\ rec' = [rec EXCEPT ![t] = row]
           /\ \/ /\ txn[w] \in Requests /\ txn[w].rec = t
                 /\ txn[w].step \in {"write", "backfill"}
                 /\ row.oid = (IF rec[t].oid = NoOrder THEN txn[w].oid ELSE rec[t].oid)
                 /\ row.pid = (IF rec[t].pid = NoPay THEN txn[w].pid ELSE rec[t].pid)
                 /\ row.status \in {rec[t].status, txn[w].want}
              \/ /\ ~Exists(t) /\ job[w].rec = t /\ job[w].pc = "insert"
                 /\ row.status = "PENDING" /\ row.oid = NoOrder /\ row.pid = NoPay
              \/ /\ row.oid = rec[t].oid /\ row.pid = rec[t].pid
                 /\ row.status = rec[t].status
<1>0. rec \in [Tokens -> Records]
  BY DEF Inv, TypeOK
<1>1. CASE Backfill(w)
  <2>1. txn[w] \in Requests
    BY <1>1, CallKind DEF Backfill
  <2>. DEFINE t == txn[w].rec
              row == FillIds(rec[t], txn[w])
  <2>2. t \in Tokens /\ rec[t] \in Records
    BY <1>0, <2>1, RequestTyped
  <2>3. rec' = [rec EXCEPT ![t] = row] /\ txn[w].step = "backfill"
    BY <1>1 DEF Backfill
  <2>4. /\ row \in Records /\ row.status = rec[t].status
        /\ row.oid = (IF rec[t].oid = NoOrder THEN txn[w].oid ELSE rec[t].oid)
        /\ row.pid = (IF rec[t].pid = NoPay THEN txn[w].pid ELSE rec[t].pid)
    BY <2>1, <2>2, FilledRecord
  <2>. HIDE DEF row
  <2>. QED
    BY <2>1, <2>2, <2>3, <2>4
<1>2. CASE WriteStatus(w)
  <2>1. txn[w] \in Requests
    BY <1>2, CallKind DEF WriteStatus
  <2>. DEFINE t == txn[w].rec
              filled == FillIds(rec[t], txn[w])
              counted == IF txn[w].counted THEN OneMore(rec[t].attempts)
                         ELSE rec[t].attempts
              row == [filled EXCEPT !.status = txn[w].want, !.attempts = counted]
  <2>2. t \in Tokens /\ rec[t] \in Records /\ txn[w].want \in Statuses
    BY <1>0, <2>1, RequestTyped
  <2>3. rec' = [rec EXCEPT ![t] = row] /\ txn[w].step = "write"
    BY <1>2 DEF WriteStatus
  <2>4. /\ filled \in Records
        /\ filled.oid = (IF rec[t].oid = NoOrder THEN txn[w].oid ELSE rec[t].oid)
        /\ filled.pid = (IF rec[t].pid = NoPay THEN txn[w].pid ELSE rec[t].pid)
    BY <2>1, <2>2, FilledRecord
  <2>5. counted \in 0..MaxAttempts
    BY <2>2, RecordTyped
  <2>. HIDE DEF filled, counted
  <2>6. /\ row \in Records /\ row.status = txn[w].want
        /\ row.oid = filled.oid /\ row.pid = filled.pid
    BY <2>2, <2>4, <2>5 DEF Records
  <2>. HIDE DEF row
  <2>. QED
    BY <2>1, <2>2, <2>3, <2>4, <2>6
<1>3. CASE InsertPending(w)
  <2>1. job[w].pc = "insert" /\ job[w].rec \in Tokens
    BY <1>3, HandlerKind DEF InsertPending, DispatchSteps, DispatchJobs
  <2>. DEFINE t == job[w].rec
              row == [NoRecord EXCEPT !.status = "PENDING"]
  <2>2. /\ row \in Records /\ row.status = "PENDING"
        /\ row.oid = NoOrder /\ row.pid = NoPay
    BY StatusSet, LedgerAssumption DEF NoRecord, Records, OrderIds
  <2>3. CASE Exists(t)
    <3>1. rec' = [rec EXCEPT ![t] = rec[t]]
      BY <1>0, <1>3, <2>1, <2>3 DEF InsertPending
    <3>. QED
      BY <1>0, <2>1, <3>1
  <2>4. CASE ~Exists(t)
    <3>1. rec' = [rec EXCEPT ![t] = row]
      BY <1>3, <2>4 DEF InsertPending
    <3>. HIDE DEF row
    <3>. QED
      BY <2>1, <2>2, <2>4, <3>1
  <2>. QED
    BY <2>3, <2>4
<1>4. CASE CountAttempt(w)
  <2>1. job[w].rec \in Tokens
    BY <1>4, HandlerKind DEF CountAttempt, ReconcileSteps, ReconcileJobs
  <2>. DEFINE t == job[w].rec
              row == [rec[t] EXCEPT !.attempts = OneMore(rec[t].attempts)]
  <2>2. rec[t] \in Records
    BY <1>0, <2>1
  <2>3. /\ row \in Records /\ row.status = rec[t].status
        /\ row.oid = rec[t].oid /\ row.pid = rec[t].pid
    BY <2>2, RecordTyped DEF Records
  <2>4. rec' = [rec EXCEPT ![t] = row]
    BY <1>0, <1>4, <2>1 DEF CountAttempt
  <2>. HIDE DEF row
  <2>. QED
    BY <2>1, <2>3, <2>4
<1>. QED
  BY <1>1, <1>2, <1>3, <1>4

LEMMA RecordsGrow ==
  ASSUME Inv, [Next]_vars
  PROVE  rec' \in [Tokens -> Records] /\ \A t \in Tokens: Exists(t) => Exists(t)'
<1>0. rec \in [Tokens -> Records]
  BY DEF Inv, TypeOK
<1>1. CASE UNCHANGED rec
  BY <1>0, <1>1 DEF Exists
<1>2. ASSUME NEW w \in Workers,
             Backfill(w) \/ WriteStatus(w) \/ InsertPending(w) \/ CountAttempt(w)
      PROVE  rec' \in [Tokens -> Records] /\ \A t \in Tokens: Exists(t) => Exists(t)'
  <2>1. PICK t \in Tokens, row \in Records:
          /\ rec' = [rec EXCEPT ![t] = row]
          /\ \/ txn[w] \in Requests /\ row.status \in {rec[t].status, txn[w].want}
             \/ ~Exists(t)
             \/ row.status = rec[t].status
    BY <1>2, RecordWritten
  <2>2. row.status = "absent" => ~Exists(t)
    BY <2>1, RequestTyped, StatusSet DEF Exists
  <2>. QED
    BY <1>0, <2>1, <2>2 DEF Exists
<1>. QED
  BY <1>1, <1>2, RecordSteps

LEMMA GatewayGrows ==
  ASSUME Inv, [Next]_vars
  PROVE  /\ order' \in [Tokens -> OrderStatuses]
         /\ pay' \in [Tokens -> [PayIds -> PayStatuses]]
         /\ sent' \subseteq Events /\ sent \subseteq sent'
         /\ \A t \in Tokens:
              /\ order[t] # "none" => order'[t] # "none"
              /\ order[t] = "paid" => order'[t] = "paid"
              /\ \A p \in PayIds:
                   /\ pay[t][p] # "none" => pay'[t][p] # "none"
                   /\ pay[t][p] \in {"authorized", "captured"}
                        => pay'[t][p] \in {"authorized", "captured"}
<1>. DEFINE Goal ==
       /\ order' \in [Tokens -> OrderStatuses]
       /\ pay' \in [Tokens -> [PayIds -> PayStatuses]]
       /\ sent' \subseteq Events /\ sent \subseteq sent'
       /\ \A t \in Tokens:
            /\ order[t] # "none" => order'[t] # "none"
            /\ order[t] = "paid" => order'[t] = "paid"
            /\ \A p \in PayIds:
                 /\ pay[t][p] # "none" => pay'[t][p] # "none"
                 /\ pay[t][p] \in {"authorized", "captured"}
                      => pay'[t][p] \in {"authorized", "captured"}
<1>0. /\ order \in [Tokens -> OrderStatuses]
      /\ pay \in [Tokens -> [PayIds -> PayStatuses]] /\ sent \subseteq Events
  BY DEF Inv, TypeOK
<1>1. CASE UNCHANGED <<order, pay, sent>>
  BY <1>0, <1>1
<1>2. ASSUME NEW w \in Workers, job[w].pc = "create", NewOrder(job[w].rec)
      PROVE  Goal
  BY <1>0, <1>2 DEF NewOrder, OrderStatuses
<1>3. ASSUME NEW t \in Tokens, NEW p \in PayIds, NEW matches \in Fidelity,
             NEW kinds, Send(kinds, t, p, matches)
      PROVE  sent' \subseteq Events /\ sent \subseteq sent'
  BY <1>0, <1>3 DEF Send, Events
<1>4. ASSUME NEW t \in Tokens, NEW p \in PayIds, NEW matches \in Fidelity,
             FailPayment(t, p, matches) \/ AuthorizePayment(t, p, matches)
               \/ CapturePayment(t, p, matches)
      PROVE  Goal
  <2>1. sent' \subseteq Events /\ sent \subseteq sent'
    BY <1>3, <1>4 DEF FailPayment, AuthorizePayment, CapturePayment
  <2>2. PICK state \in PayStatuses, label \in OrderStatuses:
          /\ pay' = [pay EXCEPT ![t][p] = state] /\ order' = [order EXCEPT ![t] = label]
          /\ state # "none" /\ label # "none"
          /\ pay[t][p] = "none" \/ (pay[t][p] = "authorized" /\ state = "captured")
    BY <1>4 DEF FailPayment, AuthorizePayment, CapturePayment, PayStatuses, OrderStatuses
  <2>3. order[t] # "paid"
    BY <1>4 DEF FailPayment, AuthorizePayment, CapturePayment, Payable
  <2>4. /\ pay' \in [Tokens -> [PayIds -> PayStatuses]] /\ pay'[t][p] = state
        /\ \A u \in Tokens, q \in PayIds: u # t \/ q # p => pay'[u][q] = pay[u][q]
    BY <1>0, <2>2
  <2>5. /\ order' \in [Tokens -> OrderStatuses] /\ order'[t] = label
        /\ \A u \in Tokens: u # t => order'[u] = order[u]
    BY <1>0, <2>2
  <2>. QED
    BY <2>1, <2>2, <2>3, <2>4, <2>5
<1>. QED
  BY <1>1, <1>2, <1>4, GatewaySteps

LEMMA TablesGrow ==
  ASSUME Inv, [Next]_vars
  PROVE  /\ tok' \in [Tokens -> TokenStates]
         /\ \A t \in Tokens: tok[t].consumed => tok'[t].consumed
         /\ dlq' \subseteq Tokens /\ dlq \subseteq dlq'
         /\ inbox' \in [Events -> EventRows]
<1>0. /\ tok \in [Tokens -> TokenStates] /\ dlq \subseteq Tokens
      /\ inbox \in [Events -> EventRows] /\ sent \subseteq Events
  BY DEF Inv, TypeOK
<1>. DEFINE TokensKept == /\ tok' \in [Tokens -> TokenStates]
                          /\ \A t \in Tokens: tok[t].consumed => tok'[t].consumed
<1>1. TokensKept
  <2>1. ASSUME NEW t \in Tokens, ExpireToken(t)
        PROVE  TokensKept
    BY <1>0, <2>1 DEF ExpireToken, TokenStates
  <2>2. ASSUME NEW w \in Workers, ConsumeToken(w)
        PROVE  TokensKept
    BY <1>0, <2>2 DEF ConsumeToken, TokenStates
  <2>. QED
    BY <1>0, <2>1, <2>2, TokenSteps
<1>2. dlq' \subseteq Tokens /\ dlq \subseteq dlq'
  <2>1. ASSUME NEW w \in Workers, EnqueueDeadLetter(w)
        PROVE  dlq' \subseteq Tokens /\ dlq \subseteq dlq'
    BY <1>0, <2>1, HandlerKind DEF EnqueueDeadLetter, ReconcileSteps, ReconcileJobs
  <2>. QED
    BY <1>0, <2>1, QueueSteps
<1>3. inbox' \in [Events -> EventRows]
  <2>1. ASSUME NEW w \in Workers, NEW e \in sent, ReceiveEvent(w, e)
        PROVE  inbox' \in [Events -> EventRows]
    BY <1>0, <2>1 DEF ReceiveEvent, EventRows
  <2>2. ASSUME NEW w \in Workers, NEW status \in {"PROCESSED", "FAILED", "DEAD_LETTER"},
               Mark(w, status)
        PROVE  inbox' \in [Events -> EventRows]
    <3>. DEFINE e == job[w].event
                row == [status |-> status,
                        attempts |-> IF inbox[e].attempts < MaxRecoveries
                                     THEN inbox[e].attempts + 1 ELSE inbox[e].attempts]
    <3>1. inbox' = [inbox EXCEPT ![e] = row]
      BY <2>2 DEF Mark
    <3>2. e \in Events => row \in EventRows
      BY <1>0, WebhookAssumption DEF EventRows
    <3>. HIDE DEF e, row
    <3>. QED
      BY <1>0, <3>1, <3>2
  <2>. QED
    BY <1>0, <2>1, <2>2, InboxSteps DEF MarkProcessed, MarkFailed, MarkDeadLetter
<1>. QED
  BY <1>1, <1>2, <1>3

LEMMA StepGrows == ASSUME Inv, [Next]_vars PROVE Grows
BY RecordsGrow, GatewayGrows, TablesGrow DEF Grows

-----------------------------------------------------------------------------

(* A step that changes the handler, or the call, and not the other.        *)
LEMMA JobMoved ==
  ASSUME Inv, Grows, NEW w \in Workers, NEW handler, UNCHANGED txn,
         job' = [job EXCEPT ![w] = handler], JobFits(handler)'
  PROVE  WorkersFit'
<1>1. PICK call \in Calls: call = txn[w] /\ CallFits(call)
  BY DEF Inv, WorkersFit
<1>2. txn' = [txn EXCEPT ![w] = call]
  BY <1>1 DEF Inv, WorkersFit
<1>3. CallFits(call)'
  BY <1>1, CallStillFits
<1>. QED
  BY <1>2, <1>3, WorkerMoved DEF Inv

LEMMA CallMoved ==
  ASSUME Inv, Grows, NEW w \in Workers, NEW call, UNCHANGED job,
         txn' = [txn EXCEPT ![w] = call], CallFits(call)'
  PROVE  WorkersFit'
<1>1. PICK handler \in Jobs: handler = job[w] /\ JobFits(handler)
  BY DEF Inv, WorkersFit
<1>2. job' = [job EXCEPT ![w] = handler]
  BY <1>1 DEF Inv, WorkersFit
<1>3. JobFits(handler)'
  BY <1>1, JobStillFits
<1>. QED
  BY <1>2, <1>3, WorkerMoved DEF Inv

LEMMA NothingToFit ==
  CallFits(Idle)' /\ CallFits(Return)' /\ CallFits(Raise)' /\ JobFits(NoJob)'
<1>1. Idle \notin Requests /\ Return \notin Requests /\ Raise \notin Requests
  BY DEF Idle, Return, Raise, Requests
<1>2. NoJob \notin DispatchJobs /\ NoJob \notin ReconcileJobs /\ NoJob \notin WebhookJobs
  BY DEF NoJob, DispatchJobs, ReconcileJobs, WebhookJobs, DispatchSteps,
         ReconcileSteps, WebhookSteps
<1>. QED
  BY <1>1, <1>2 DEF CallFits, JobFits, Calls, Jobs

(* The handler ends, or its process is lost.                               *)
LEMMA JobEnds ==
  ASSUME Inv, Grows, NEW w \in Workers,
         job' = [job EXCEPT ![w] = NoJob],
         UNCHANGED txn \/ txn' = [txn EXCEPT ![w] = Idle]
  PROVE  WorkersFit'
BY NothingToFit, JobMoved, WorkerMoved DEF Inv

(* The three kinds of handlers exclude one another.                        *)
LEMMA KindsApart ==
  /\ \A h \in DispatchJobs: h \notin ReconcileJobs /\ h \notin WebhookJobs
  /\ \A h \in ReconcileJobs: h \notin DispatchJobs /\ h \notin WebhookJobs
  /\ \A h \in WebhookJobs: h \notin DispatchJobs /\ h \notin ReconcileJobs
BY DEF DispatchJobs, ReconcileJobs, WebhookJobs, DispatchSteps, ReconcileSteps,
       WebhookSteps

LEMMA ByIdFits ==
  ASSUME NEW t \in Tokens, NEW want \in Statuses, NEW oid \in OrderIds,
         NEW counted \in BOOLEAN,
         oid = "real" => order'[t] # "none",
         want # "AUTHORIZED", want = "CAPTURED" => order'[t] = "paid",
         want = "DEAD_LETTER" => t \in dlq'
  PROVE  CallFits(ById(t, want, oid, counted))'
<1>. DEFINE call == ById(t, want, oid, counted)
<1>1. /\ call \in Requests /\ call.step = "read" /\ call.rec = t /\ call.oid = oid
      /\ call.pid = NoPay /\ call.want = want
  BY DEF ById, Requests
<1>. HIDE DEF call
<1>2. CallFits(call)'
  BY <1>1 DEF CallFits, Calls
<1>. QED
  BY <1>2 DEF call

-----------------------------------------------------------------------------

(* transition_payment_state: when it writes, the record it read is there.  *)
LEMMA TransitionFits ==
  ASSUME Inv, Grows, NEW w \in Workers, TransitionStep(w)
  PROVE  WorkersFit'
<1>1. ASSUME UNCHANGED job, Becomes(w, Raise) \/ Becomes(w, Return)
      PROVE  WorkersFit'
  BY <1>1, NothingToFit, CallMoved DEF Becomes
<1>2. ASSUME NEW label \in {"write", "backfill"}, txn[w].step = "read", Found(txn[w]),
             Becomes(w, [txn[w] EXCEPT !.step = label]), UNCHANGED job
      PROVE  WorkersFit'
  <2>1. PICK old \in Requests: old = txn[w] /\ CallFits(old)
    BY <1>2, CallKind DEF Inv, WorkersFit
  <2>2. PICK call: call = [old EXCEPT !.step = label]
    OBVIOUS
  <2>3. /\ call \in Requests /\ call.rec = old.rec /\ call.oid = old.oid
        /\ call.pid = old.pid /\ call.want = old.want
    BY <2>1, <2>2 DEF Requests
  <2>4. Exists(call.rec)
    <3>1. old.rec \in Tokens
      BY <2>1, RequestTyped
    <3>2. rec[old.rec].oid = "real" => Exists(old.rec)
      BY <3>1 DEF Inv, RecordFits, NoOrder
    <3>. QED
      BY <1>2, <2>1, <2>3, <3>2 DEF Found
  <2>5. CallFits(call)
    BY <2>1, <2>3, <2>4 DEF CallFits, Calls
  <2>6. txn' = [txn EXCEPT ![w] = call]
    BY <1>2, <2>1, <2>2 DEF Becomes
  <2>. QED
    BY <1>2, <2>5, <2>6, CallStillFits, CallMoved
<1>3. CASE Reaffirm(w)
  BY <1>1, <1>2, <1>3 DEF Reaffirm
<1>. QED
  BY <1>1, <1>2, <1>3 DEF TransitionStep, RejectCall, RefuseTransition, AllowTransition,
                          Backfill, WriteStatus

(* dispatch_payment: past the consumption the token is consumed, past the  *)
(* insertion the record is there.                                          *)
LEMMA DispatchFits ==
  ASSUME Inv, Grows, NEW w \in Workers, DispatchStep(w)
  PROVE  WorkersFit'
<1>0. job[w].pc \in DispatchSteps
  BY DEF DispatchStep, ConsumeToken, RetryPending, InsertPending, CreateSucceeds,
         CreateTimesOut, CreateIsDuplicate, CreateIsRejected, ReturnCreated,
         ReturnSettled, DispatchSteps
<1>1. PICK old \in DispatchJobs: old = job[w] /\ JobFits(old) /\ old.pc \in DispatchSteps
  BY <1>0, HandlerKind DEF Inv, WorkersFit
<1>2. PICK t \in Tokens: t = old.rec
  BY DEF DispatchJobs
<1>3. /\ Exists(t) => tok[t].consumed
      /\ tok[t].consumed => tok'[t].consumed
      /\ Exists(t) => Exists(t)'
  BY DEF Inv, RecordFits, Grows
<1>4. ASSUME NEW label \in DispatchSteps, Goto(w, label),
             label \notin {"consume", "retry"} => tok'[t].consumed,
             label \notin {"consume", "retry", "insert"} => Exists(t)'
      PROVE  \E handler: /\ job' = [job EXCEPT ![w] = handler]
                         /\ JobFits(handler)'
  <2>1. PICK handler: handler = [old EXCEPT !.pc = label]
    OBVIOUS
  <2>2. handler \in DispatchJobs /\ handler.rec = t /\ handler.pc = label
    BY <1>2, <2>1 DEF DispatchJobs
  <2>3. job' = [job EXCEPT ![w] = handler]
    BY <1>1, <1>4, <2>1 DEF Goto
  <2>4. JobFits(handler)'
    BY <1>4, <2>2, KindsApart DEF JobFits, Jobs
  <2>. QED
    BY <2>3, <2>4
<1>5. ASSUME NEW want \in {"CREATED", "FAILED"}, NEW oid \in OrderIds,
             oid = "real" => order'[t] # "none",
             Call(w, ById(t, want, oid, TRUE))
      PROVE  \E call: txn' = [txn EXCEPT ![w] = call] /\ CallFits(call)'
  BY <1>5, ByIdFits, StatusSet DEF Call
<1>6. CASE ConsumeToken(w)
  <2>1. PICK label \in {"retry", "insert"}:
          Goto(w, label) /\ (label = "insert" => tok'[t].consumed)
    BY <1>1, <1>2, <1>6 DEF ConsumeToken, Inv, TypeOK, TokenStates
  <2>2. UNCHANGED txn
    BY <1>6 DEF ConsumeToken
  <2>. QED
    BY <1>4, <2>1, <2>2, JobMoved DEF DispatchSteps
<1>7. CASE RetryPending(w)
  <2>1. CASE Exists(t)
    <3>1. Goto(w, "insert") /\ UNCHANGED txn
      BY <1>1, <1>2, <1>7, <2>1 DEF RetryPending
    <3>. QED
      BY <1>3, <1>4, <2>1, <3>1, JobMoved DEF DispatchSteps
  <2>2. CASE ~Exists(t)
    BY <1>1, <1>2, <1>7, <2>2, JobEnds DEF RetryPending
  <2>. QED
    BY <2>1, <2>2
<1>8. CASE InsertPending(w)
  <2>1. Goto(w, "create") /\ UNCHANGED txn /\ old.pc = "insert"
    BY <1>1, <1>8 DEF InsertPending
  <2>2. Exists(t)'
    BY <1>1, <1>2, <1>3, <1>8 DEF InsertPending, Exists, NoRecord, Inv, TypeOK
  <2>3. tok[t].consumed
    BY <1>1, <1>2, <2>1 DEF JobFits
  <2>. QED
    BY <1>3, <1>4, <2>1, <2>2, <2>3, JobMoved DEF DispatchSteps
<1>9. ASSUME old.pc \in {"create", "created", "settled"}
      PROVE  tok'[t].consumed /\ Exists(t)'
  BY <1>1, <1>2, <1>3, <1>9 DEF JobFits
<1>10. ASSUME old.pc \in {"create", "created"}, NEW want \in {"CREATED", "FAILED"},
              NEW label \in {"created", "settled"}, Goto(w, label),
              NEW oid \in OrderIds, oid = "real" => order'[t] # "none",
              Call(w, ById(t, want, oid, TRUE))
       PROVE  WorkersFit'
  <2>1. PICK handler: job' = [job EXCEPT ![w] = handler] /\ JobFits(handler)'
    BY <1>4, <1>9, <1>10 DEF DispatchSteps
  <2>2. PICK call: txn' = [txn EXCEPT ![w] = call] /\ CallFits(call)'
    BY <1>5, <1>10
  <2>. QED
    BY <2>1, <2>2, WorkerMoved DEF Inv
<1>11. CASE CreateSucceeds(w)
  <2>1. order'[t] # "none"
    BY <1>1, <1>2, <1>11 DEF CreateSucceeds, NewOrder, Inv, TypeOK
  <2>. QED
    BY <1>1, <1>2, <1>10, <1>11, <2>1 DEF CreateSucceeds, OrderIds
<1>12. CASE CreateTimesOut(w)
  BY <1>1, <1>2, <1>10, <1>12 DEF CreateTimesOut, Settle, OrderIds, NoOrder
<1>13. CASE CreateIsDuplicate(w)
  BY <1>13, JobEnds DEF CreateIsDuplicate
<1>14. CASE CreateIsRejected(w)
  BY <1>1, <1>2, <1>10, <1>14 DEF CreateIsRejected, Settle, OrderIds, NoOrder
<1>15. CASE ReturnCreated(w)
  <2>1. CASE EndJob(w)
    BY <2>1, JobEnds DEF EndJob
  <2>2. CASE Settle(w, "FAILED", NoOrder)
    BY <1>1, <1>2, <1>10, <1>15, <2>2 DEF ReturnCreated, Settle, OrderIds, NoOrder
  <2>. QED
    BY <1>15, <2>1, <2>2 DEF ReturnCreated
<1>16. CASE ReturnSettled(w)
  BY <1>16, JobEnds DEF ReturnSettled, EndJob
<1>. QED
  BY <1>6, <1>7, <1>8, <1>11, <1>12, <1>13, <1>14, <1>15, <1>16 DEF DispatchStep

(* The handlers of reconciliation: an order id that was seen on a record   *)
(* is the id of an order.                                                  *)
LEMMA ReconcileJobFits ==
  ASSUME NEW handler \in ReconcileJobs,
         handler.seen.oid = "real" => order'[handler.rec] # "none"
  PROVE  JobFits(handler)'
BY KindsApart DEF JobFits, Jobs

LEMMA FreshReconcileJob ==
  ASSUME NEW t \in Tokens, NEW todo \in SUBSET Tokens
  PROVE  JobFits([pc |-> "count", rec |-> t, seen |-> NoRecord, todo |-> todo])'
<1>. DEFINE handler == [pc |-> "count", rec |-> t, seen |-> NoRecord, todo |-> todo]
<1>1. NoRecord \in Records /\ NoRecord.oid = NoOrder
  BY LedgerAssumption DEF NoRecord, Records, OrderIds
<1>2. /\ handler \in ReconcileJobs /\ handler.rec = t /\ handler.seen = NoRecord
  BY <1>1 DEF ReconcileJobs, ReconcileSteps
<1>. HIDE DEF handler
<1>3. JobFits(handler)'
  BY <1>1, <1>2, ReconcileJobFits DEF NoOrder
<1>. QED
  BY <1>3 DEF handler

(* reconcile_payment: what it asks for is what the gateway says.           *)
LEMMA ReconcileFits ==
  ASSUME Inv, Grows, NEW w \in Workers, ReconcileStep(w)
  PROVE  WorkersFit'
<1>0. job[w].pc \in ReconcileSteps
  BY DEF ReconcileStep, CountAttempt, Inspect, FetchUnusable, FetchOrder,
         EnqueueDeadLetter, NextRow, ReconcileSteps
<1>1. PICK old \in ReconcileJobs: old = job[w] /\ JobFits(old)
  BY <1>0, HandlerKind DEF Inv, WorkersFit
<1>2. PICK t \in Tokens: t = old.rec
  BY DEF ReconcileJobs
<1>3. /\ order[t] # "none" => order'[t] # "none"
      /\ order[t] = "paid" => order'[t] = "paid"
      /\ old.seen \in Records /\ old.todo \subseteq Tokens
      /\ old.seen.oid = "real" => order[t] # "none"
  BY <1>1, <1>2 DEF Grows, ReconcileJobs, JobFits
<1>4. ASSUME NEW label \in ReconcileSteps, Goto(w, label)
      PROVE  \E handler: job' = [job EXCEPT ![w] = handler] /\ JobFits(handler)'
  <2>1. PICK handler: handler = [old EXCEPT !.pc = label]
    OBVIOUS
  <2>2. handler \in ReconcileJobs /\ handler.rec = t /\ handler.seen = old.seen
    BY <1>2, <2>1 DEF ReconcileJobs
  <2>3. job' = [job EXCEPT ![w] = handler]
    BY <1>1, <1>4, <2>1 DEF Goto
  <2>4. JobFits(handler)'
    BY <1>3, <2>2, ReconcileJobFits
  <2>. QED
    BY <2>3, <2>4
<1>5. CASE CountAttempt(w) \/ FetchUnusable(w)
  <2>1. PICK label \in ReconcileSteps: Goto(w, label)
    BY <1>5 DEF CountAttempt, FetchUnusable, ReconcileSteps
  <2>2. UNCHANGED txn
    BY <1>5 DEF CountAttempt, FetchUnusable
  <2>. QED
    BY <1>4, <2>1, <2>2, JobMoved
<1>6. CASE Inspect(w)
  <2>1. PICK row \in Records: row = rec[t] /\ (row.oid = "real" => order[t] # "none")
    BY DEF Inv, TypeOK, RecordFits
  <2>2. PICK label \in ReconcileSteps:
          job' = [job EXCEPT ![w] = [job[w] EXCEPT !.seen = row, !.pc = label]]
    <3>. DEFINE label == IF row.oid # NoOrder THEN "fetch"
                         ELSE IF Exhausted(row) THEN "bury" ELSE "next"
    <3>1. job' = [job EXCEPT ![w] = [job[w] EXCEPT !.seen = row, !.pc = label]]
      BY <1>1, <1>2, <1>6, <2>1 DEF Inspect
    <3>2. label \in ReconcileSteps
      BY DEF ReconcileSteps
    <3>. HIDE DEF label
    <3>. QED
      BY <3>1, <3>2
  <2>3. PICK handler: handler = [old EXCEPT !.seen = row, !.pc = label]
    OBVIOUS
  <2>4. handler \in ReconcileJobs /\ handler.rec = t /\ handler.seen = row
    BY <1>2, <2>3 DEF ReconcileJobs
  <2>5. JobFits(handler)'
    BY <1>3, <2>1, <2>4, ReconcileJobFits
  <2>6. job' = [job EXCEPT ![w] = handler] /\ UNCHANGED txn
    BY <1>1, <1>6, <2>2, <2>3 DEF Inspect
  <2>. QED
    BY <2>5, <2>6, JobMoved
<1>7. CASE FetchOrder(w)
  <2>1. PICK handler: job' = [job EXCEPT ![w] = handler] /\ JobFits(handler)'
    BY <1>4, <1>7 DEF FetchOrder, ReconcileSteps
  <2>2. CASE UNCHANGED txn
    BY <2>1, <2>2, JobMoved
  <2>3. CASE Call(w, ById(t, CorrectStatus(t), old.seen.oid, FALSE))
    <3>1. PICK want \in {"CREATED", "CAPTURED"}:
            want = CorrectStatus(t) /\ (want = "CAPTURED" => order'[t] = "paid")
      BY <1>3 DEF CorrectStatus
    <3>2. old.seen.oid \in OrderIds /\ (old.seen.oid = "real" => order'[t] # "none")
      BY <1>3, RecordTyped
    <3>3. CallFits(ById(t, want, old.seen.oid, FALSE))'
      BY <3>1, <3>2, ByIdFits, StatusSet
    <3>. QED
      BY <2>1, <2>3, <3>1, <3>3, WorkerMoved DEF Call, Inv
  <2>. QED
    BY <1>1, <1>2, <1>7, <2>2, <2>3 DEF FetchOrder
<1>8. CASE EnqueueDeadLetter(w)
  <2>1. PICK handler: job' = [job EXCEPT ![w] = handler] /\ JobFits(handler)'
    BY <1>4, <1>8 DEF EnqueueDeadLetter, ReconcileSteps
  <2>2. t \in dlq' /\ Call(w, ById(t, "DEAD_LETTER", NoOrder, FALSE))
    BY <1>1, <1>2, <1>8 DEF EnqueueDeadLetter
  <2>3. CallFits(ById(t, "DEAD_LETTER", NoOrder, FALSE))'
    BY <2>2, ByIdFits, StatusSet DEF OrderIds, NoOrder
  <2>. QED
    BY <2>1, <2>2, <2>3, WorkerMoved DEF Call, Inv
<1>9. CASE NextRow(w)
  <2>1. CASE EndJob(w)
    BY <2>1, JobEnds DEF EndJob
  <2>2. ASSUME NEW u \in old.todo, Becomes(w, Idle),
               job' = [job EXCEPT ![w] = [pc |-> "count", rec |-> u, seen |-> NoRecord,
                                          todo |-> old.todo \ {u}]]
        PROVE  WorkersFit'
    BY <1>3, <2>2, FreshReconcileJob, NothingToFit, WorkerMoved DEF Becomes, Inv
  <2>. QED
    BY <1>1, <1>9, <2>1, <2>2 DEF NextRow
<1>. QED
  BY <1>5, <1>6, <1>7, <1>8, <1>9 DEF ReconcileStep

(* The handlers of the webhook: an event in hand is one that was sent.     *)
LEMMA WebhookJobFits ==
  ASSUME NEW handler \in WebhookJobs, handler.event \in sent',
         \A row \in handler.todo: row.event \in sent'
  PROVE  JobFits(handler)'
BY KindsApart DEF JobFits, Jobs

LEMMA TakenFits ==
  ASSUME Inv, Grows, NEW w \in Workers, UNCHANGED txn,
         NEW rows \in SUBSET [event: Events, exhausted: BOOLEAN],
         \A row \in rows: row.event \in sent,
         TakeFrom(w, rows)
  PROVE  WorkersFit'
<1>1. PICK row \in rows:
        job' = [job EXCEPT ![w] = [pc |-> IF row.exhausted THEN "exhausted"
                                          ELSE "validate",
                                   event |-> row.event, todo |-> rows \ {row}]]
  BY DEF TakeFrom
<1>2. PICK handler: handler = [pc |-> IF row.exhausted THEN "exhausted" ELSE "validate",
                               event |-> row.event, todo |-> rows \ {row}]
  OBVIOUS
<1>3. row.event \in Events
  OBVIOUS
<1>4. handler \in WebhookJobs /\ handler.event = row.event /\ handler.todo \subseteq rows
  BY <1>2, <1>3 DEF WebhookJobs, WebhookSteps
<1>5. JobFits(handler)'
  BY <1>4, WebhookJobFits DEF Grows
<1>. QED
  BY <1>1, <1>2, <1>5, JobMoved

LEMMA WebhookFits ==
  ASSUME Inv, Grows, NEW w \in Workers, WebhookStep(w)
  PROVE  WorkersFit'
<1>0. job[w].pc \in WebhookSteps
  BY DEF WebhookStep, ValidateEvent, MarkProcessed, MarkFailed, MarkDeadLetter,
         RecoverNext, WebhookSteps
<1>1. PICK old \in WebhookJobs: old = job[w] /\ JobFits(old)
  BY <1>0, HandlerKind DEF Inv, WorkersFit
<1>2. PICK e \in Events: e = old.event /\ e \in sent
  BY <1>1 DEF WebhookJobs, JobFits
<1>3. ASSUME NEW label \in WebhookSteps, Goto(w, label)
      PROVE  \E handler: job' = [job EXCEPT ![w] = handler] /\ JobFits(handler)'
  <2>1. PICK handler: handler = [old EXCEPT !.pc = label]
    OBVIOUS
  <2>2. /\ handler \in WebhookJobs /\ handler.event = old.event
        /\ handler.todo = old.todo
    BY <2>1 DEF WebhookJobs
  <2>3. job' = [job EXCEPT ![w] = handler]
    BY <1>1, <1>3, <2>1 DEF Goto
  <2>4. JobFits(handler)'
    BY <1>1, <2>2, WebhookJobFits DEF JobFits, Grows
  <2>. QED
    BY <2>3, <2>4
<1>4. CASE ValidateEvent(w)
  <2>1. PICK handler: job' = [job EXCEPT ![w] = handler] /\ JobFits(handler)'
    BY <1>3, <1>4 DEF ValidateEvent, WebhookSteps
  <2>2. CASE UNCHANGED txn
    BY <2>1, <2>2, JobMoved
  <2>3. CASE Consistent(e) /\ Call(w, ByOrder(e.rec, StatusFor(e.kind), e.pid))
    <3>1. e.rec \in Tokens /\ e.pid \in PayIds /\ e.kind \in AllEventKinds
      BY GatewayAssumption DEF Events
    <3>2. PICK want \in {"AUTHORIZED", "FAILED", "CAPTURED"}:
            /\ want = StatusFor(e.kind)
            /\ want = "AUTHORIZED" => e.kind = "payment.authorized"
            /\ want = "CAPTURED" => e.kind \in {"payment.captured", "order.paid"}
      BY <3>1 DEF StatusFor, AllEventKinds
    <3>3. EventFits(e) /\ RecordFits(e.rec)
      BY <1>2, <3>1 DEF Inv
    <3>4. /\ order'[e.rec] # "none" /\ pay'[e.rec][e.pid] # "none"
          /\ want = "CAPTURED" => order'[e.rec] = "paid"
          /\ want = "AUTHORIZED"
               => \E p \in PayIds: pay'[e.rec][p] \in {"authorized", "captured"}
      BY <2>3, <3>1, <3>2, <3>3 DEF EventFits, RecordFits, Consistent, Grows
    <3>5. PICK call: call = ByOrder(e.rec, want, e.pid)
      OBVIOUS
    <3>6. /\ call \in Requests /\ call.step = "read" /\ call.rec = e.rec
          /\ call.oid = "real" /\ call.pid = e.pid /\ call.want = want
      BY <3>1, <3>5, StatusSet DEF ByOrder, Requests, OrderIds
    <3>7. CallFits(call)'
      BY <3>4, <3>6 DEF CallFits, Calls
    <3>. QED
      BY <2>1, <2>3, <3>2, <3>5, <3>7, WorkerMoved DEF Call, Inv
  <2>. QED
    BY <1>1, <1>2, <1>4, <2>2, <2>3 DEF ValidateEvent
<1>5. ASSUME NEW status, Mark(w, status)
      PROVE  WorkersFit'
  <2>1. CASE EndJob(w)
    BY <2>1, JobEnds DEF EndJob
  <2>2. CASE Goto(w, "recover") /\ Becomes(w, Idle)
    <3>1. PICK handler: job' = [job EXCEPT ![w] = handler] /\ JobFits(handler)'
      BY <1>3, <2>2 DEF WebhookSteps
    <3>. QED
      BY <2>2, <3>1, NothingToFit, WorkerMoved DEF Becomes, Inv
  <2>. QED
    BY <1>5, <2>1, <2>2 DEF Mark
<1>6. CASE RecoverNext(w)
  <2>1. old.todo \in SUBSET [event: Events, exhausted: BOOLEAN]
    BY DEF WebhookJobs
  <2>2. \A row \in old.todo: row.event \in sent
    BY <1>1 DEF JobFits
  <2>3. TakeFrom(w, old.todo) /\ UNCHANGED txn
    BY <1>1, <1>6 DEF RecoverNext
  <2>. QED
    BY <2>1, <2>2, <2>3, TakenFits
<1>. QED
  BY <1>4, <1>5, <1>6 DEF WebhookStep, MarkProcessed, MarkFailed, MarkDeadLetter

(* A handler starts.                                                       *)
LEMMA ArrivalFits ==
  ASSUME Inv, Grows, NEW w \in Workers,
         \/ \E t \in Tokens: BeginDispatch(w, t) \/ BeginReconcile(w, t)
         \/ BeginSweep(w) \/ BeginStaleSweep(w) \/ BeginRecover(w)
         \/ \E e \in sent: ReceiveEvent(w, e)
  PROVE  WorkersFit'
<1>1. ASSUME NEW t \in Tokens, BeginDispatch(w, t)
      PROVE  WorkersFit'
  <2>1. PICK handler: handler = [pc |-> "consume", rec |-> t]
    OBVIOUS
  <2>2. handler \in DispatchJobs /\ handler.pc = "consume"
    BY <2>1 DEF DispatchJobs, DispatchSteps
  <2>3. JobFits(handler)'
    BY <2>2, KindsApart DEF JobFits, Jobs
  <2>. QED
    BY <1>1, <2>1, <2>3, JobMoved DEF BeginDispatch
<1>2. ASSUME NEW t \in Tokens, NEW todo \in SUBSET Tokens, UNCHANGED txn,
             job' = [job EXCEPT ![w] = [pc |-> "count", rec |-> t, seen |-> NoRecord,
                                        todo |-> todo]]
      PROVE  WorkersFit'
  BY <1>2, FreshReconcileJob, JobMoved
<1>3. ASSUME NEW rows \in SUBSET Tokens, BeginBatch(w, rows)
      PROVE  WorkersFit'
  <2>1. PICK t \in rows:
          job' = [job EXCEPT ![w] = [pc |-> "count", rec |-> t, seen |-> NoRecord,
                                     todo |-> rows \ {t}]]
    BY <1>3 DEF BeginBatch
  <2>2. rows \ {t} \in SUBSET Tokens /\ t \in Tokens /\ UNCHANGED txn
    BY <1>3 DEF BeginBatch
  <2>. QED
    BY <1>2, <2>1, <2>2
<1>4. CASE BeginSweep(w) \/ BeginStaleSweep(w)
  BY <1>3, <1>4 DEF BeginSweep, BeginStaleSweep, Stale, Unsettled
<1>5. ASSUME NEW t \in Tokens, BeginReconcile(w, t)
      PROVE  WorkersFit'
  <2>1. {} \in SUBSET Tokens
    OBVIOUS
  <2>. QED
    BY <1>2, <1>5, <2>1 DEF BeginReconcile
<1>6. ASSUME NEW e \in sent, ReceiveEvent(w, e)
      PROVE  WorkersFit'
  <2>1. PICK handler: handler = [pc |-> "validate", event |-> e, todo |-> {}]
    OBVIOUS
  <2>2. handler \in WebhookJobs /\ handler.event = e /\ handler.todo = {}
    BY <2>1 DEF WebhookJobs, WebhookSteps, Inv, TypeOK
  <2>3. JobFits(handler)'
    BY <2>2, WebhookJobFits DEF Grows
  <2>. QED
    BY <1>6, <2>1, <2>3, JobMoved DEF ReceiveEvent
<1>7. CASE BeginRecover(w)
  <2>. DEFINE rows == {[event |-> e, exhausted |-> inbox[e].attempts >= MaxRecoveries]:
                         e \in Unprocessed}
  <2>1. rows \in SUBSET [event: Events, exhausted: BOOLEAN]
    <3>1. ASSUME NEW e \in Unprocessed, NEW exhausted \in BOOLEAN
          PROVE  [event |-> e, exhausted |-> exhausted]
                   \in [event: Events, exhausted: BOOLEAN]
      BY DEF Unprocessed
    <3>2. \A e \in Unprocessed: (inbox[e].attempts >= MaxRecoveries) \in BOOLEAN
      OBVIOUS
    <3>. QED
      BY <3>1, <3>2
  <2>2. \A row \in rows: row.event \in sent
    BY DEF Unprocessed, Inv
  <2>3. TakeFrom(w, rows) /\ UNCHANGED txn
    BY <1>7 DEF BeginRecover
  <2>. HIDE DEF rows
  <2>. QED
    BY <2>1, <2>2, <2>3, TakenFits
<1>. QED
  BY <1>1, <1>4, <1>5, <1>6, <1>7

LEMMA WorkersFitStep ==
  ASSUME Inv, [Next]_vars
  PROVE  WorkersFit'
<1>1. Grows
  BY StepGrows
<1>2. CASE UNCHANGED <<txn, job>>
  <2>1. ASSUME NEW w \in Workers
        PROVE  CallFits(txn[w])' /\ JobFits(job[w])'
    <3>1. PICK call \in Calls, handler \in Jobs:
            /\ call = txn[w] /\ handler = job[w]
            /\ CallFits(call) /\ JobFits(handler)
      BY DEF Inv, WorkersFit
    <3>2. CallFits(call)' /\ JobFits(handler)'
      BY <1>1, <3>1, CallStillFits, JobStillFits
    <3>3. txn'[w] = call /\ job'[w] = handler
      BY <1>2, <3>1
    <3>. QED
      BY <3>2, <3>3 DEF CallFits, JobFits
  <2>. QED
    BY <1>2, <2>1 DEF Inv, WorkersFit
<1>3. ASSUME NEW w \in Workers, Crash(w)
      PROVE  WorkersFit'
  BY <1>1, <1>3, JobEnds DEF Crash, EndJob
<1>. QED
  BY <1>1, <1>2, <1>3, ArrivalFits, TransitionFits, DispatchFits, ReconcileFits,
     WebhookFits, WorkerSteps DEF WorkerMoves

-----------------------------------------------------------------------------

(* No order comes into being without a record.                             *)
LEMMA OrdersHaveRecords ==
  ASSUME Inv, [Next]_vars, NEW t \in Tokens, order'[t] # "none"
  PROVE  Exists(t)
<1>0. order \in [Tokens -> OrderStatuses] /\ RecordFits(t)
  BY DEF Inv, TypeOK
<1>1. CASE order[t] # "none"
  BY <1>0, <1>1 DEF RecordFits
<1>2. ASSUME NEW w \in Workers, job[w].pc = "create", NewOrder(job[w].rec)
      PROVE  Exists(t)
  <2>1. job[w] \in DispatchJobs /\ JobFits(job[w])
    BY <1>2, HandlerKind DEF DispatchSteps, Inv, WorkersFit
  <2>2. Exists(job[w].rec)
    BY <1>2, <2>1 DEF JobFits
  <2>3. t = job[w].rec \/ order'[t] = order[t]
    BY <1>0, <1>2 DEF NewOrder
  <2>. QED
    BY <1>1, <2>2, <2>3
<1>3. ASSUME NEW u \in Tokens, NEW p \in PayIds, NEW matches \in Fidelity,
             FailPayment(u, p, matches) \/ AuthorizePayment(u, p, matches)
               \/ CapturePayment(u, p, matches)
      PROVE  Exists(t)
  <2>1. Payable(u) /\ (t = u \/ order'[t] = order[t])
    BY <1>0, <1>3 DEF FailPayment, AuthorizePayment, CapturePayment
  <2>2. t = u => order[t] # "none"
    BY <2>1 DEF Payable
  <2>. QED
    BY <1>1, <2>1, <2>2
<1>. QED
  BY <1>1, <1>2, <1>3, GatewaySteps

(* A record that is not written stays fit.                                 *)
LEMMA RecordStillFits ==
  ASSUME Inv, [Next]_vars, NEW t \in Tokens,
         rec'[t].status = rec[t].status, rec'[t].oid = rec[t].oid,
         rec'[t].pid = rec[t].pid
  PROVE  RecordFits(t)'
<1>1. RecordFits(t) /\ rec[t] \in Records
  BY DEF Inv, TypeOK
<1>2. Exists(t)' <=> Exists(t)
  BY DEF Exists
<1>3. Grows
  BY StepGrows
<1>4. /\ tok[t].consumed => tok'[t].consumed
      /\ order[t] # "none" => order'[t] # "none"
      /\ order[t] = "paid" => order'[t] = "paid"
      /\ t \in dlq => t \in dlq'
      /\ \A p \in PayIds:
           /\ pay[t][p] # "none" => pay'[t][p] # "none"
           /\ pay[t][p] \in {"authorized", "captured"}
                => pay'[t][p] \in {"authorized", "captured"}
  BY <1>3 DEF Grows
<1>5. rec[t].pid # NoPay => rec[t].pid \in PayIds
  BY <1>1, RecordTyped
<1>. QED
  BY <1>1, <1>2, <1>4, <1>5, OrdersHaveRecords DEF RecordFits

LEMMA RecordsFitStep ==
  ASSUME Inv, [Next]_vars, NEW t \in Tokens
  PROVE  RecordFits(t)'
<1>0. rec \in [Tokens -> Records] /\ Grows
  BY StepGrows DEF Inv, TypeOK
<1>1. CASE UNCHANGED rec
  BY <1>1, RecordStillFits
<1>2. ASSUME NEW w \in Workers,
             Backfill(w) \/ WriteStatus(w) \/ InsertPending(w) \/ CountAttempt(w)
      PROVE  RecordFits(t)'
  <2>1. PICK u \in Tokens, row \in Records:
           /\ rec' = [rec EXCEPT ![u] = row]
           /\ \/ /\ txn[w] \in Requests /\ txn[w].rec = u
                 /\ txn[w].step \in {"write", "backfill"}
                 /\ row.oid = (IF rec[u].oid = NoOrder THEN txn[w].oid ELSE rec[u].oid)
                 /\ row.pid = (IF rec[u].pid = NoPay THEN txn[w].pid ELSE rec[u].pid)
                 /\ row.status \in {rec[u].status, txn[w].want}
              \/ /\ ~Exists(u) /\ job[w].rec = u /\ job[w].pc = "insert"
                 /\ row.status = "PENDING" /\ row.oid = NoOrder /\ row.pid = NoPay
              \/ /\ row.oid = rec[u].oid /\ row.pid = rec[u].pid
                 /\ row.status = rec[u].status
    BY <1>2, RecordWritten
  <2>2. CASE t # u
    <3>1. rec'[t] = rec[t]
      BY <1>0, <2>1, <2>2
    <3>. QED
      BY <3>1, RecordStillFits
  <2>3. CASE t = u
    <3>1. rec'[t] = row
      BY <1>0, <2>1, <2>3
    <3>2. CASE row.oid = rec[t].oid /\ row.pid = rec[t].pid /\ row.status = rec[t].status
      BY <3>1, <3>2, RecordStillFits
    <3>3. CASE ~Exists(t) /\ job[w].rec = t /\ job[w].pc = "insert"
               /\ row.status = "PENDING" /\ row.oid = NoOrder /\ row.pid = NoPay
      <4>1. tok[t].consumed
        <5>1. job[w] \in DispatchJobs /\ JobFits(job[w])
          BY <3>3, HandlerKind DEF DispatchSteps, Inv, WorkersFit
        <5>. QED
          BY <3>3, <5>1 DEF JobFits
      <4>2. tok'[t].consumed /\ Exists(t)'
        BY <1>0, <3>1, <3>3, <4>1 DEF Grows, Exists
      <4>. QED
        BY <3>1, <3>3, <4>2 DEF RecordFits, NoOrder
    <3>4. CASE /\ txn[w] \in Requests /\ txn[w].rec = t
               /\ txn[w].step \in {"write", "backfill"}
               /\ row.oid = (IF rec[t].oid = NoOrder THEN txn[w].oid ELSE rec[t].oid)
               /\ row.pid = (IF rec[t].pid = NoPay THEN txn[w].pid ELSE rec[t].pid)
               /\ row.status \in {rec[t].status, txn[w].want}
      <4>1. PICK call \in Requests: call = txn[w] /\ CallFits(call)
        BY <3>4 DEF Inv, WorkersFit
      <4>2. CallFits(call)'
        BY <1>0, <4>1, CallStillFits
      <4>3. Exists(t)' /\ Exists(t)
        BY <1>0, <3>4, <4>1 DEF CallFits, Grows
      <4>4. RecordFits(t)
        BY DEF Inv
      <4>5. tok'[t].consumed
        BY <1>0, <4>3, <4>4 DEF RecordFits, Grows
      <4>6. call.rec = t /\ call.pid \in PayIds \cup {NoPay}
        BY <3>4, <4>1, RequestTyped
      <4>7. row.oid = "real" => order'[t] # "none"
        <5>1. rec[t].oid = "real" => order'[t] # "none"
          BY <1>0, <4>4 DEF RecordFits, Grows
        <5>2. call.oid = "real" => order'[t] # "none"
          BY <4>2, <4>6 DEF CallFits
        <5>. QED
          BY <3>4, <4>1, <5>1, <5>2
      <4>8. row.pid # NoPay => pay'[t][row.pid] # "none"
        <5>1. rec[t].pid # NoPay => pay'[t][rec[t].pid] # "none"
          <6>1. rec[t].pid # NoPay => rec[t].pid \in PayIds
            BY <1>0, RecordTyped
          <6>. QED
            BY <1>0, <4>4, <6>1 DEF RecordFits, Grows
        <5>2. call.pid # NoPay => pay'[t][call.pid] # "none"
          BY <4>2, <4>6 DEF CallFits
        <5>. QED
          BY <3>4, <4>1, <5>1, <5>2
      <4>9. /\ row.status = "CAPTURED" => order'[t] = "paid"
            /\ row.status = "AUTHORIZED"
                 => \E p \in PayIds: pay'[t][p] \in {"authorized", "captured"}
            /\ row.status = "DEAD_LETTER" => t \in dlq'
        <5>1. CASE row.status = rec[t].status
          BY <1>0, <4>4, <5>1 DEF RecordFits, Grows
        <5>2. CASE row.status = call.want
          BY <4>2, <4>6, <5>2 DEF CallFits
        <5>. QED
          BY <3>4, <4>1, <5>1, <5>2
      <4>. QED
        BY <3>1, <4>3, <4>5, <4>7, <4>8, <4>9 DEF RecordFits
    <3>. QED
      BY <2>1, <2>3, <3>2, <3>3, <3>4
  <2>. QED
    BY <2>2, <2>3
<1>. QED
  BY <1>1, <1>2, RecordSteps

(* Events tell what has happened, and go on being true.                    *)
LEMMA EventsFitStep ==
  ASSUME Inv, [Next]_vars
  PROVE  \A e \in sent': EventFits(e)'
<1>0. /\ order \in [Tokens -> OrderStatuses]
      /\ pay \in [Tokens -> [PayIds -> PayStatuses]]
      /\ sent \subseteq Events /\ Grows
  BY StepGrows DEF Inv, TypeOK
<1>1. ASSUME NEW e \in sent
      PROVE  EventFits(e)'
  <2>1. e.rec \in Tokens /\ e.pid \in PayIds /\ EventFits(e)
    BY <1>0 DEF Events, Inv
  <2>. QED
    BY <1>0, <2>1 DEF EventFits, Grows
<1>2. ASSUME NEW t \in Tokens, NEW p \in PayIds, NEW matches \in Fidelity,
             NEW e \in sent' \ sent,
             FailPayment(t, p, matches) \/ AuthorizePayment(t, p, matches)
               \/ CapturePayment(t, p, matches)
      PROVE  EventFits(e)'
  <2>1. CASE FailPayment(t, p, matches)
    BY <1>0, <1>2, <2>1 DEF FailPayment, Send, EventFits
  <2>2. CASE AuthorizePayment(t, p, matches)
    BY <1>0, <1>2, <2>2 DEF AuthorizePayment, Send, EventFits
  <2>3. CASE CapturePayment(t, p, matches)
    BY <1>0, <1>2, <2>3 DEF CapturePayment, Send, EventFits
  <2>. QED
    BY <1>2, <2>1, <2>2, <2>3
<1>3. ASSUME NEW w \in Workers, NewOrder(job[w].rec)
      PROVE  sent' = sent
  BY <1>3 DEF NewOrder
<1>. QED
  BY <1>1, <1>2, <1>3, GatewaySteps

(* The inbox holds only events that were sent.                             *)
LEMMA InboxStep ==
  ASSUME Inv, [Next]_vars, NEW e \in Events, inbox'[e].status # "absent"
  PROVE  e \in sent'
<1>0. inbox \in [Events -> EventRows] /\ sent \subseteq sent'
  BY GatewayGrows DEF Inv, TypeOK
<1>1. CASE inbox[e].status # "absent"
  BY <1>0, <1>1 DEF Inv
<1>2. ASSUME NEW w \in Workers, NEW f \in sent, ReceiveEvent(w, f)
      PROVE  e \in sent'
  <2>1. e = f \/ inbox'[e] = inbox[e]
    BY <1>0, <1>2 DEF ReceiveEvent
  <2>. QED
    BY <1>0, <1>1, <2>1
<1>3. ASSUME NEW w \in Workers, job[w].pc \in WebhookSteps, NEW status, Mark(w, status)
      PROVE  e \in sent'
  <2>1. job[w].event \in sent
    BY <1>3, HandlerKind DEF Inv, WorkersFit, JobFits
  <2>2. e = job[w].event \/ inbox'[e] = inbox[e]
    BY <1>0, <1>3 DEF Mark
  <2>. QED
    BY <1>0, <1>1, <2>1, <2>2
<1>. QED
  BY <1>1, <1>2, <1>3, InboxSteps
     DEF MarkProcessed, MarkFailed, MarkDeadLetter, WebhookSteps

LEMMA InvStep == Inv /\ [Next]_vars => Inv'
<1>. SUFFICES ASSUME Inv, [Next]_vars
              PROVE  Inv'
  OBVIOUS
<1>1. WorkersFit'
  BY WorkersFitStep
<1>2. txn' \in [Workers -> Calls] /\ job' \in [Workers -> Jobs]
  BY <1>1 DEF WorkersFit
<1>3. TypeOK'
  BY <1>2, RecordsGrow, GatewayGrows, TablesGrow DEF TypeOK, Calls, Jobs
<1>. QED
  BY <1>1, <1>3, RecordsFitStep, EventsFitStep, InboxStep DEF Inv

LEMMA InvInit == Init => Inv
<1>. SUFFICES ASSUME Init
              PROVE  Inv
  OBVIOUS
<1>. USE DEF Init, InitLedger, InitGateway, InitDispatch, InitReconciliation, InitWebhook
<1>1. NoRecord \in Records /\ NoRecord.status = "absent" /\ NoRecord.oid = NoOrder
      /\ NoRecord.pid = NoPay
  BY LedgerAssumption DEF NoRecord, Records, OrderIds
<1>2. NoEvent \in EventRows /\ NoEvent.status = "absent"
  BY WebhookAssumption DEF NoEvent, EventRows
<1>3. TypeOK
  BY <1>1, <1>2 DEF TypeOK, OrderStatuses, PayStatuses, TokenStates
<1>4. CallFits(Idle) /\ JobFits(NoJob)
  <2>1. Idle \notin Requests
    BY DEF Idle, Requests
  <2>2. NoJob \notin DispatchJobs /\ NoJob \notin ReconcileJobs /\ NoJob \notin WebhookJobs
    BY DEF NoJob, DispatchJobs, ReconcileJobs, WebhookJobs, DispatchSteps,
           ReconcileSteps, WebhookSteps
  <2>. QED
    BY <2>1, <2>2 DEF CallFits, JobFits, Calls, Jobs
<1>5. WorkersFit
  BY <1>4 DEF WorkersFit, Calls, Jobs
<1>6. \A t \in Tokens: RecordFits(t)
  BY <1>1 DEF RecordFits, Exists, NoOrder
<1>. QED
  BY <1>2, <1>3, <1>5, <1>6 DEF Inv

THEOREM Invariance == Spec => []Inv
BY InvInit, InvStep, PTL DEF Spec

(* The types, for any number of workers, tokens and attempts.              *)
THEOREM PaymentTypes == Spec => []TypeOK
<1>1. Inv => TypeOK
  BY DEF Inv
<1>. QED
  BY <1>1, Invariance, PTL

(* No order is at the gateway without a record of it and a token consumed  *)
(* for it, whichever dispatches overlapped, were repeated or were lost.    *)
THEOREM LedgerFirst == Spec => []LedgerBeforeGateway
<1>1. Inv => LedgerBeforeGateway
  BY DEF Inv, RecordFits, LedgerBeforeGateway
<1>. QED
  BY <1>1, Invariance, PTL

(* The ledger never claims a payment the gateway does not have, for any    *)
(* interleaving of dispatches, sweeps, events and crashes.                 *)
THEOREM BackedClaims == Spec => []ClaimsAreBacked
<1>1. Inv => ClaimsAreBacked
  BY DEF Inv, RecordFits, ClaimsAreBacked
<1>. QED
  BY <1>1, Invariance, PTL

(* No id is on a record that the gateway has not given out for it.         *)
THEOREM RealIds == Spec => []IdsAreReal
<1>1. Inv => IdsAreReal
  BY DEF Inv, RecordFits, IdsAreReal
<1>. QED
  BY <1>1, Invariance, PTL

(* No record is dead-lettered behind the operators' backs.                 *)
THEOREM QueuedDeadLetters == Spec => []DeadLetterIsQueued
<1>1. Inv => DeadLetterIsQueued
  BY DEF Inv, RecordFits, DeadLetterIsQueued
<1>. QED
  BY <1>1, Invariance, PTL

(* Ids stay once written, although the writing transition may have read    *)
(* the record before another one filled them in.                           *)
THEOREM IdsStay == Spec => IdsWriteOnce
<1>1. ASSUME Inv, [Next]_vars, NEW t \in Tokens
      PROVE  /\ rec[t].oid # NoOrder => rec'[t].oid = rec[t].oid
             /\ rec[t].pid # NoPay => rec'[t].pid = rec[t].pid
  <2>0. rec \in [Tokens -> Records] /\ RecordFits(t)
    BY <1>1 DEF Inv, TypeOK
  <2>1. ASSUME NEW w \in Workers,
               Backfill(w) \/ WriteStatus(w) \/ InsertPending(w) \/ CountAttempt(w)
        PROVE  /\ rec[t].oid # NoOrder => rec'[t].oid = rec[t].oid
               /\ rec[t].pid # NoPay => rec'[t].pid = rec[t].pid
    <3>1. PICK u \in Tokens, row \in Records:
           /\ rec' = [rec EXCEPT ![u] = row]
           /\ \/ /\ row.oid = (IF rec[u].oid = NoOrder THEN txn[w].oid ELSE rec[u].oid)
                 /\ row.pid = (IF rec[u].pid = NoPay THEN txn[w].pid ELSE rec[u].pid)
              \/ ~Exists(u)
              \/ row.oid = rec[u].oid /\ row.pid = rec[u].pid
      BY <1>1, <2>1, RecordWritten
    <3>2. (t # u => rec'[t] = rec[t]) /\ (t = u => rec'[t] = row)
      BY <2>0, <3>1
    <3>. QED
      BY <2>0, <3>1, <3>2 DEF RecordFits
  <2>. QED
    BY <1>1, <2>1, RecordSteps
<1>2. Inv /\ [Next]_vars
        => [\A t \in Tokens:
              /\ rec[t].oid # NoOrder => rec'[t].oid = rec[t].oid
              /\ rec[t].pid # NoPay => rec'[t].pid = rec[t].pid]_vars
  BY <1>1
<1>. QED
  BY <1>2, Invariance, PTL DEF Spec, IdsWriteOnce

(* No step touches more than one of tokens, records and orders.            *)
LEMMA OneTableAtATime ==
  ASSUME [Next]_vars
  PROVE  \/ UNCHANGED <<rec, tok>>
         \/ UNCHANGED <<rec, order>>
         \/ UNCHANGED <<tok, order>>
BY DEF Next, NextWithoutCrash, Arrive, Environment, Continue, vars, gatewayVars,
       ledgerVars, GatewayStep, FailPayment, AuthorizePayment, CapturePayment,
       ExpireToken, TransitionStep, WebhookStep, DispatchStep, ReconcileStep,
       BeginDispatch, BeginReconcile, BeginSweep, BeginStaleSweep, BeginBatch,
       ReceiveEvent, BeginRecover, ConsumeToken, RetryPending, InsertPending,
       CreateSucceeds, CreateTimesOut, CreateIsDuplicate, CreateIsRejected,
       ReturnCreated, ReturnSettled, CountAttempt, Inspect, FetchUnusable,
       FetchOrder, EnqueueDeadLetter, NextRow, ValidateEvent, MarkProcessed,
       MarkFailed, MarkDeadLetter, Mark, RecoverNext, Crash, RejectCall, Reaffirm,
       RefuseTransition, AllowTransition, Backfill, WriteStatus

LEMMA TokensBurn ==
  ASSUME Inv, [Next]_vars
  PROVE  \/ \A t \in Tokens: tok'[t].consumed <=> tok[t].consumed
         \/ \E u \in Tokens:
              /\ ~tok[u].consumed /\ tok'[u].consumed
              /\ \A t \in Tokens: t # u => (tok'[t].consumed <=> tok[t].consumed)
<1>0. tok \in [Tokens -> TokenStates]
  BY DEF Inv, TypeOK
<1>1. ASSUME NEW w \in Workers, ConsumeToken(w), tok' # tok
      PROVE  \E u \in Tokens:
               /\ ~tok[u].consumed /\ tok'[u].consumed
               /\ \A t \in Tokens: t # u => (tok'[t].consumed <=> tok[t].consumed)
  <2>1. PICK u \in Tokens: u = job[w].rec
    BY <1>1, HandlerKind DEF ConsumeToken, DispatchSteps, DispatchJobs
  <2>2. ~tok[u].consumed /\ tok' = [tok EXCEPT ![u].consumed = TRUE]
    BY <1>1, <2>1 DEF ConsumeToken
  <2>3. tok'[u].consumed /\ \A t \in Tokens: t # u => tok'[t] = tok[t]
    BY <1>0, <2>1, <2>2 DEF TokenStates
  <2>. QED
    BY <2>1, <2>2, <2>3
<1>2. ASSUME NEW u \in Tokens, ExpireToken(u)
      PROVE  \A t \in Tokens: tok'[t].consumed <=> tok[t].consumed
  BY <1>0, <1>2 DEF ExpireToken, TokenStates
<1>. QED
  BY <1>1, <1>2, TokenSteps

LEMMA RecordsAppear ==
  ASSUME Inv, [Next]_vars
  PROVE  \/ \A t \in Tokens: Exists(t)' <=> Exists(t)
         \/ \E u \in Tokens:
              /\ ~Exists(u) /\ Exists(u)' /\ tok[u].consumed
              /\ \A t \in Tokens: t # u => (Exists(t)' <=> Exists(t))
<1>0. rec \in [Tokens -> Records]
  BY DEF Inv, TypeOK
<1>1. CASE UNCHANGED rec
  BY <1>1 DEF Exists
<1>2. ASSUME NEW w \in Workers,
             Backfill(w) \/ WriteStatus(w) \/ InsertPending(w) \/ CountAttempt(w)
      PROVE  \/ \A t \in Tokens: Exists(t)' <=> Exists(t)
             \/ \E u \in Tokens:
                  /\ ~Exists(u) /\ Exists(u)' /\ tok[u].consumed
                  /\ \A t \in Tokens: t # u => (Exists(t)' <=> Exists(t))
  <2>1. PICK u \in Tokens, row \in Records:
          /\ rec' = [rec EXCEPT ![u] = row]
          /\ \/ /\ txn[w] \in Requests /\ txn[w].rec = u
                /\ txn[w].step \in {"write", "backfill"}
                /\ row.status \in {rec[u].status, txn[w].want}
             \/ /\ ~Exists(u) /\ job[w].rec = u /\ job[w].pc = "insert"
                /\ row.status = "PENDING"
             \/ row.status = rec[u].status
    BY <1>2, RecordWritten
  <2>2. rec'[u] = row /\ \A t \in Tokens: t # u => rec'[t] = rec[t]
    BY <1>0, <2>1
  <2>3. CASE /\ txn[w] \in Requests /\ txn[w].rec = u
             /\ txn[w].step \in {"write", "backfill"}
             /\ row.status \in {rec[u].status, txn[w].want}
    <3>1. Exists(u)
      BY <2>3 DEF Inv, WorkersFit, CallFits
    <3>2. Exists(u)'
      BY <3>1, RecordsGrow
    <3>. QED
      BY <2>2, <3>1, <3>2 DEF Exists
  <2>4. CASE ~Exists(u) /\ job[w].rec = u /\ job[w].pc = "insert" /\ row.status = "PENDING"
    <3>1. job[w] \in DispatchJobs /\ JobFits(job[w])
      BY <2>4, HandlerKind DEF DispatchSteps, Inv, WorkersFit
    <3>2. tok[u].consumed
      BY <2>4, <3>1 DEF JobFits
    <3>. QED
      BY <2>2, <2>4, <3>2 DEF Exists
  <2>5. CASE row.status = rec[u].status
    BY <2>2, <2>5 DEF Exists
  <2>. QED
    BY <2>1, <2>3, <2>4, <2>5
<1>. QED
  BY <1>1, <1>2, RecordSteps

LEMMA OrdersAppear ==
  ASSUME Inv, [Next]_vars
  PROVE  \/ \A t \in Tokens: order'[t] # "none" <=> order[t] # "none"
         \/ \E u \in Tokens:
              /\ order[u] = "none" /\ order'[u] # "none" /\ Exists(u)
              /\ \A t \in Tokens: t # u => (order'[t] # "none" <=> order[t] # "none")
<1>0. order \in [Tokens -> OrderStatuses]
  BY DEF Inv, TypeOK
<1>1. ASSUME NEW w \in Workers, job[w].pc = "create", NewOrder(job[w].rec)
      PROVE  \E u \in Tokens:
               /\ order[u] = "none" /\ order'[u] # "none" /\ Exists(u)
               /\ \A t \in Tokens: t # u => (order'[t] # "none" <=> order[t] # "none")
  <2>1. PICK u \in Tokens: u = job[w].rec
    BY <1>1, HandlerKind DEF DispatchSteps, DispatchJobs
  <2>2. Exists(u)
    BY <1>1, <2>1, OrdersHaveRecords, <1>0 DEF NewOrder
  <2>3. order[u] = "none" /\ order' = [order EXCEPT ![u] = "created"]
    BY <1>1, <2>1 DEF NewOrder
  <2>. QED
    BY <1>0, <2>1, <2>2, <2>3
<1>2. ASSUME NEW u \in Tokens, NEW p \in PayIds, NEW matches \in Fidelity,
             FailPayment(u, p, matches) \/ AuthorizePayment(u, p, matches)
               \/ CapturePayment(u, p, matches)
      PROVE  \A t \in Tokens: order'[t] # "none" <=> order[t] # "none"
  BY <1>0, <1>2 DEF FailPayment, AuthorizePayment, CapturePayment, Payable
<1>. QED
  BY <1>1, <1>2, GatewaySteps

(* Dispatch, reconciliation, events and losses burn, record and order as   *)
(* OrderDesk promises the rest of the system.                              *)
THEOREM KeepsTheDesk == Spec => IsOrderDesk
<1>. DEFINE burnt == {t \in Tokens: tok[t].consumed}
            recorded == {t \in Tokens: Exists(t)}
            ordered == {t \in Tokens: order[t] # "none"}
<1>1. Init => Desk!Init
  <2>. SUFFICES ASSUME Init
                PROVE  burnt = {} /\ recorded = {} /\ ordered = {}
    BY DEF Desk!Init
  <2>. QED
    BY DEF Init, InitLedger, InitGateway, InitDispatch, NoRecord, Exists
<1>2. Inv /\ [Next]_vars => [Desk!Next]_(Desk!vars)
  <2>. SUFFICES ASSUME Inv, [Next]_vars
                PROVE  [Desk!Next]_(Desk!vars)
    OBVIOUS
  <2>1. burnt' = burnt \/ \E u \in Tokens: u \notin burnt /\ burnt' = burnt \cup {u}
    BY TokensBurn
  <2>2. \/ recorded' = recorded
        \/ \E u \in Tokens: u \in burnt \ recorded /\ recorded' = recorded \cup {u}
    BY RecordsAppear
  <2>3. \/ ordered' = ordered
        \/ \E u \in Tokens: u \in recorded \ ordered /\ ordered' = ordered \cup {u}
    BY OrdersAppear
  <2>4. /\ UNCHANGED tok => burnt' = burnt
        /\ UNCHANGED rec => recorded' = recorded
        /\ UNCHANGED order => ordered' = ordered
    BY DEF Exists
  <2>5. /\ [Desk!Next]_(Desk!vars)
           <=> \/ \E t \in Tokens:
                    \/ /\ t \notin burnt /\ burnt' = burnt \cup {t}
                       /\ UNCHANGED <<recorded, ordered>>
                    \/ /\ t \in burnt \ recorded /\ recorded' = recorded \cup {t}
                       /\ UNCHANGED <<burnt, ordered>>
                    \/ /\ t \in recorded \ ordered /\ ordered' = ordered \cup {t}
                       /\ UNCHANGED <<burnt, recorded>>
               \/ UNCHANGED <<burnt, recorded, ordered>>
    BY DEF Desk!Next, Desk!vars, Desk!Burn, Desk!Record, Desk!Order
  <2>. HIDE DEF burnt, recorded, ordered
  <2>. QED
    BY <2>1, <2>2, <2>3, <2>4, <2>5, OneTableAtATime
<1>. QED
  BY <1>1, <1>2, Invariance, PTL DEF Spec, IsOrderDesk, Desk!Spec
=============================================================================
