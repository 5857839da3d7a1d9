---------------------------- MODULE HandlerProofs ----------------------------
(***************************************************************************)
(* What reconciliation and the webhook read before they act is still true  *)
(* when they act, for any number of workers: a record is handed over to    *)
(* the operators only when it has been tried MaxAttempts times, and an     *)
(* event is marked PROCESSED only if it matches its record.                *)
(*                                                                         *)
(* Both rest on what a record never loses: its existence, its attempts and *)
(* the order id that the gateway gave it.                                  *)
(***************************************************************************)
EXTENDS ProcessProofs

(* What a handler has read and is still going to act on.                   *)
RestsOn(handler) ==
  /\ handler.pc \in ReconcileSteps =>
       /\ Exists(handler.rec) /\ \A u \in handler.todo: Exists(u)
       /\ handler.pc = "fetch" => handler.seen.attempts <= rec[handler.rec].attempts
       /\ handler.pc = "bury" => rec[handler.rec].attempts >= MaxAttempts
  /\ handler.pc = "apply" => Consistent(handler.event)

(* A record starts to be counted when it is written.                       *)
CountsFromWriting == \A t \in Tokens: ~Exists(t) => rec[t].attempts = 0

HandlersRest == \A w \in Workers: RestsOn(job[w])

(* The step of a record that no worker may undo.                           *)
RecordsKeep ==
  \A t \in Tokens:
    /\ Exists(t) => Exists(t)'
    /\ rec[t].attempts <= rec'[t].attempts
    /\ rec[t].oid = "real" => rec'[t].oid = "real"

LEMMA OneMoreRises ==
  ASSUME NEW n \in 0..MaxAttempts
  PROVE  n <= OneMore(n) /\ OneMore(n) \in 0..MaxAttempts
BY LedgerAssumption DEF OneMore

(* The four writing steps count up the attempts of a record that is there, *)
(* or leave them.                                                          *)
LEMMA AttemptsWritten ==
  ASSUME Inv, CountsFromWriting, HandlersRest, NEW w \in Workers,
         Backfill(w) \/ WriteStatus(w) \/ InsertPending(w) \/ CountAttempt(w),
         NEW t \in Tokens
  PROVE  /\ rec[t].attempts <= rec'[t].attempts
         /\ ~Exists(t) => rec'[t].attempts = 0
<1>0. rec \in [Tokens -> Records] /\ rec[t].attempts \in 0..MaxAttempts
  BY RecordTyped DEF Inv, TypeOK
<1>1. ASSUME NEW u \in Tokens, NEW row \in Records,
             rec' = [rec EXCEPT ![u] = row], Exists(u),
             row.attempts \in {rec[u].attempts, OneMore(rec[u].attempts)}
      PROVE  /\ rec[t].attempts <= rec'[t].attempts
             /\ ~Exists(t) => rec'[t].attempts = 0
  <2>1. CASE u # t
    BY <1>0, <1>1, <2>1 DEF CountsFromWriting
  <2>2. CASE u = t
    <3>1. rec'[t].attempts \in {rec[t].attempts, OneMore(rec[t].attempts)}
      BY <1>0, <1>1, <2>2
    <3>. QED
      BY <1>0, <1>1, <2>2, <3>1, OneMoreRises
  <2>. QED
    BY <2>1, <2>2
<1>2. CASE Backfill(w)
  <2>1. PICK call \in Requests: call = txn[w] /\ call.step = "backfill"
    BY <1>2, CallKind DEF Backfill
  <2>2. call.rec \in Tokens /\ rec[call.rec] \in Records /\ Exists(call.rec)
    BY <1>0, <2>1, RequestTyped DEF Inv, WorkersFit, CallFits
  <2>3. PICK row: row = FillIds(rec[call.rec], call)
    OBVIOUS
  <2>4. row \in Records /\ row.attempts = rec[call.rec].attempts
    BY <2>2, <2>3, FilledRecord
  <2>5. rec' = [rec EXCEPT ![call.rec] = row]
    BY <1>2, <2>1, <2>3 DEF Backfill
  <2>. QED
    BY <1>1, <2>2, <2>4, <2>5
<1>3. CASE WriteStatus(w)
  <2>1. PICK call \in Requests: call = txn[w] /\ call.step = "write"
    BY <1>3, CallKind DEF WriteStatus
  <2>2. /\ call.rec \in Tokens /\ call.want \in Statuses
        /\ rec[call.rec] \in Records /\ Exists(call.rec)
    BY <1>0, <2>1, RequestTyped DEF Inv, WorkersFit, CallFits
  <2>3. PICK filled \in Records: filled = FillIds(rec[call.rec], call)
    BY <2>2, FilledRecord
  <2>4. PICK n: n = IF call.counted THEN OneMore(rec[call.rec].attempts)
                    ELSE rec[call.rec].attempts
    OBVIOUS
  <2>5. n \in 0..MaxAttempts /\ n \in {rec[call.rec].attempts, OneMore(rec[call.rec].attempts)}
    BY <2>2, <2>4, RecordTyped
  <2>6. PICK row: row = [filled EXCEPT !.status = call.want, !.attempts = n]
    OBVIOUS
  <2>7. row \in Records /\ row.attempts = n
    BY <2>2, <2>3, <2>5, <2>6 DEF Records
  <2>8. rec' = [rec EXCEPT ![call.rec] = row]
    BY <1>3, <2>1, <2>3, <2>4, <2>6 DEF WriteStatus
  <2>. QED
    BY <1>1, <2>2, <2>5, <2>7, <2>8
<1>4. CASE InsertPending(w)
  <2>1. PICK u \in Tokens: u = job[w].rec
    BY <1>4, HandlerKind DEF InsertPending, DispatchSteps, DispatchJobs
  <2>2. CASE Exists(u)
    BY <1>0, <1>4, <2>1, <2>2 DEF InsertPending, CountsFromWriting
  <2>3. CASE ~Exists(u)
    <3>1. PICK row: row = [NoRecord EXCEPT !.status = "PENDING"]
      OBVIOUS
    <3>2. row.attempts = 0
      BY <3>1 DEF NoRecord
    <3>3. rec' = [rec EXCEPT ![u] = row]
      BY <1>4, <2>1, <2>3, <3>1 DEF InsertPending
    <3>. QED
      BY <1>0, <2>3, <3>2, <3>3 DEF CountsFromWriting
  <2>. QED
    BY <2>2, <2>3
<1>5. CASE CountAttempt(w)
  <2>1. PICK u \in Tokens: u = job[w].rec /\ job[w].pc \in ReconcileSteps
    BY <1>5, HandlerKind DEF CountAttempt, ReconcileSteps, ReconcileJobs
  <2>2. Exists(u)
    BY <2>1 DEF HandlersRest, RestsOn
  <2>3. PICK row: row = [rec[u] EXCEPT !.attempts = OneMore(rec[u].attempts)]
    OBVIOUS
  <2>4. row \in Records /\ row.attempts = OneMore(rec[u].attempts)
    BY <1>0, <2>3, RecordTyped DEF Records
  <2>5. rec' = [rec EXCEPT ![u] = row]
    BY <1>0, <1>5, <2>1, <2>3 DEF CountAttempt
  <2>. QED
    BY <1>1, <2>2, <2>4, <2>5
<1>. QED
  BY <1>2, <1>3, <1>4, <1>5

(* A record loses neither its existence, nor its attempts, nor its order.  *)
LEMMA RecordsKeepStep ==
  ASSUME Inv, CountsFromWriting, HandlersRest, [Next]_vars
  PROVE  RecordsKeep /\ CountsFromWriting'
<1>0. rec \in [Tokens -> Records]
  BY DEF Inv, TypeOK
<1>1. \A t \in Tokens: Exists(t) => Exists(t)'
  BY RecordsGrow
<1>2. CASE UNCHANGED rec
  <2>1. \A t \in Tokens: rec[t].attempts \in Nat
    BY <1>0, RecordTyped, LedgerAssumption
  <2>. QED
    BY <1>1, <1>2, <2>1 DEF RecordsKeep, CountsFromWriting, Exists
<1>3. ASSUME NEW w \in Workers,
             Backfill(w) \/ WriteStatus(w) \/ InsertPending(w) \/ CountAttempt(w)
      PROVE  RecordsKeep /\ CountsFromWriting'
  <2>1. ASSUME NEW t \in Tokens
        PROVE  /\ rec[t].attempts <= rec'[t].attempts
               /\ ~Exists(t) => rec'[t].attempts = 0
    BY <1>3, AttemptsWritten
  <2>2. PICK t \in Tokens, row \in Records:
          /\ rec' = [rec EXCEPT ![t] = row]
          /\ \/ row.oid = (IF rec[t].oid = NoOrder THEN txn[w].oid ELSE rec[t].oid)
             \/ ~Exists(t)
             \/ row.oid = rec[t].oid
    BY <1>3, RecordWritten
  <2>3. ~Exists(t) => rec[t].oid = NoOrder
    BY DEF Inv, RecordFits
  <2>4. rec[t].oid = "real" => row.oid = "real"
    BY <2>2, <2>3 DEF NoOrder
  <2>5. \A u \in Tokens: rec[u].oid = "real" => rec'[u].oid = "real"
    BY <1>0, <2>2, <2>4
  <2>. QED
    BY <1>1, <2>1, <2>5 DEF RecordsKeep, CountsFromWriting
<1>. QED
  BY <1>2, <1>3, RecordSteps

-----------------------------------------------------------------------------

(* What a handler rests on survives every step that leaves it waiting.     *)
LEMMA WaitingRests ==
  ASSUME Inv, RecordsKeep, rec' \in [Tokens -> Records],
         NEW w \in Workers, RestsOn(job[w]), job'[w] = job[w]
  PROVE  RestsOn(job[w])'
<1>1. CASE job[w].pc \in ReconcileSteps
  <2>1. PICK handler \in ReconcileJobs: handler = job[w] /\ handler.pc \in ReconcileSteps
    BY <1>1, HandlerKind
  <2>2. handler.rec \in Tokens /\ handler.todo \subseteq Tokens /\ handler.seen \in Records
    BY <2>1 DEF ReconcileJobs
  <2>3. /\ rec[handler.rec].attempts \in 0..MaxAttempts
        /\ rec'[handler.rec].attempts \in 0..MaxAttempts
        /\ handler.seen.attempts \in 0..MaxAttempts
        /\ rec[handler.rec].attempts <= rec'[handler.rec].attempts
    BY <2>2, RecordTyped DEF Inv, TypeOK, RecordsKeep
  <2>4. Exists(handler.rec)' /\ \A u \in handler.todo: Exists(u)'
    BY <1>1, <2>1, <2>2 DEF RestsOn, RecordsKeep
  <2>5. /\ handler.pc = "fetch" => handler.seen.attempts <= rec'[handler.rec].attempts
        /\ handler.pc = "bury" => rec'[handler.rec].attempts >= MaxAttempts
    BY <1>1, <2>1, <2>3, LedgerAssumption DEF RestsOn
  <2>6. handler.pc # "apply"
    BY <2>1 DEF ReconcileSteps
  <2>. QED
    BY <2>1, <2>4, <2>5, <2>6 DEF RestsOn
<1>2. CASE job[w].pc \in WebhookSteps
  <2>1. PICK handler \in WebhookJobs: handler = job[w]
    BY <1>2, HandlerKind
  <2>2. handler.event.rec \in Tokens
    BY <2>1 DEF WebhookJobs, Events
  <2>3. Consistent(handler.event) => Consistent(handler.event)'
    BY <2>2 DEF Consistent, RecordsKeep
  <2>4. handler.pc \notin ReconcileSteps
    BY <1>2, <2>1 DEF WebhookSteps, ReconcileSteps
  <2>. QED
    BY <2>1, <2>3, <2>4 DEF RestsOn
<1>. QED
  BY <1>1, <1>2 DEF RestsOn, WebhookSteps

(* A worker outside reconciliation and validation rests on nothing.        *)
LEMMA NothingToRestOn ==
  ASSUME NEW w \in Workers,
         job'[w].pc \notin ReconcileSteps, job'[w].pc # "apply"
  PROVE  RestsOn(job[w])'
BY DEF RestsOn

(* A reconciliation rests on records that are there, and decides on the    *)
(* attempts it read.                                                       *)
LEMMA ReconcileRests ==
  ASSUME Inv, RecordsKeep, rec' \in [Tokens -> Records],
         NEW w \in Workers, RestsOn(job[w]), ReconcileStep(w)
  PROVE  RestsOn(job[w])'
<1>0. /\ job \in [Workers -> Jobs] /\ rec \in [Tokens -> Records]
      /\ job[w].pc \in ReconcileSteps
  BY DEF Inv, WorkersFit, TypeOK, ReconcileSteps, ReconcileStep, CountAttempt,
         Inspect, FetchUnusable, FetchOrder, EnqueueDeadLetter, NextRow
<1>1. PICK handler \in ReconcileJobs: handler = job[w]
  BY <1>0, HandlerKind
<1>2. PICK t \in Tokens: t = handler.rec
  BY DEF ReconcileJobs
<1>3. /\ Exists(t)' /\ handler.todo \subseteq Tokens
      /\ \A u \in handler.todo: Exists(u)'
  BY <1>0, <1>1, <1>2 DEF RestsOn, RecordsKeep, ReconcileJobs
<1>4. ASSUME NEW label \in ReconcileSteps, Goto(w, label),
             label = "fetch" => FALSE,
             label = "bury" => rec'[t].attempts >= MaxAttempts
      PROVE  RestsOn(job[w])'
  <2>1. job'[w] = [handler EXCEPT !.pc = label]
    BY <1>0, <1>1, <1>4 DEF Goto
  <2>2. /\ job'[w].pc = label /\ job'[w].rec = t /\ job'[w].todo = handler.todo
    BY <1>2, <2>1 DEF ReconcileJobs
  <2>. QED
    BY <1>3, <1>4, <2>2 DEF RestsOn, ReconcileSteps
<1>5. CASE CountAttempt(w)
  BY <1>4, <1>5 DEF CountAttempt, ReconcileSteps
<1>6. CASE Inspect(w)
  <2>1. PICK row \in Records: row = rec[t]
    BY <1>0
  <2>2. PICK label: label = IF row.oid # NoOrder THEN "fetch"
                            ELSE IF Exhausted(row) THEN "bury" ELSE "next"
    OBVIOUS
  <2>3. job'[w] = [handler EXCEPT !.seen = row, !.pc = label] /\ rec' = rec
    BY <1>0, <1>1, <1>2, <1>6, <2>1, <2>2 DEF Inspect
  <2>4. /\ job'[w].pc = label /\ job'[w].rec = t /\ job'[w].todo = handler.todo
        /\ job'[w].seen = row
    BY <1>2, <2>3 DEF ReconcileJobs
  <2>5. label \in {"fetch", "bury", "next"} /\ (label = "bury" => Exhausted(row))
    BY <2>2
  <2>6. label = "bury" => rec'[t].attempts >= MaxAttempts
    BY <2>1, <2>3, <2>5 DEF Exhausted
  <2>7. row.attempts <= rec'[t].attempts
    BY <2>1, <2>3, RecordTyped, LedgerAssumption
  <2>. QED
    BY <1>3, <2>4, <2>5, <2>6, <2>7 DEF RestsOn
<1>7. CASE FetchUnusable(w)
  <2>1. Exhausted(handler.seen) => rec'[t].attempts >= MaxAttempts
    <3>1. handler.seen.attempts <= rec[t].attempts
      BY <1>0, <1>1, <1>2, <1>7 DEF RestsOn, FetchUnusable
    <3>2. /\ handler.seen.attempts \in 0..MaxAttempts
          /\ rec[t].attempts \in 0..MaxAttempts /\ rec' = rec
      BY <1>0, <1>7, RecordTyped DEF ReconcileJobs, FetchUnusable
    <3>. QED
      BY <3>1, <3>2, LedgerAssumption DEF Exhausted
  <2>. QED
    BY <1>1, <1>4, <1>7, <2>1 DEF FetchUnusable, ReconcileSteps
<1>8. CASE FetchOrder(w) \/ EnqueueDeadLetter(w)
  BY <1>4, <1>8 DEF FetchOrder, EnqueueDeadLetter, ReconcileSteps
<1>9. CASE NextRow(w)
  <2>1. CASE EndJob(w)
    BY <1>0, <2>1, NothingToRestOn DEF EndJob, NoJob, ReconcileSteps
  <2>2. ASSUME NEW u \in handler.todo,
               job' = [job EXCEPT ![w] = [pc |-> "count", rec |-> u, seen |-> NoRecord,
                                          todo |-> handler.todo \ {u}]]
        PROVE  RestsOn(job[w])'
    BY <1>0, <1>3, <2>2 DEF RestsOn
  <2>. QED
    BY <1>1, <1>9, <2>1, <2>2 DEF NextRow
<1>. QED
  BY <1>5, <1>6, <1>7, <1>8, <1>9 DEF ReconcileStep

(* The webhook applies an event only after it has been validated.          *)
LEMMA WebhookRests ==
  ASSUME Inv, NEW w \in Workers,
         \/ WebhookStep(w) \/ BeginRecover(w)
         \/ \E e \in sent: ReceiveEvent(w, e)
  PROVE  RestsOn(job[w])'
<1>0. job \in [Workers -> Jobs]
  BY DEF Inv, WorkersFit
<1>1. CASE ValidateEvent(w)
  <2>1. PICK handler \in WebhookJobs: handler = job[w]
    BY <1>1, HandlerKind DEF ValidateEvent, WebhookSteps
  <2>2. PICK label \in {"apply", "reject"}:
          /\ Goto(w, label) /\ rec' = rec
          /\ label = "apply" => Consistent(handler.event)
    BY <1>1, <2>1 DEF ValidateEvent
  <2>3. job'[w] = [handler EXCEPT !.pc = label]
    BY <1>0, <2>1, <2>2 DEF Goto
  <2>4. job'[w].pc = label /\ job'[w].event = handler.event
    BY <2>3 DEF WebhookJobs
  <2>. QED
    BY <2>2, <2>4 DEF RestsOn, ReconcileSteps, Consistent
<1>2. CASE MarkProcessed(w) \/ MarkFailed(w) \/ MarkDeadLetter(w)
  <2>1. PICK handler \in WebhookJobs: handler = job[w]
    BY <1>2, HandlerKind DEF MarkProcessed, MarkFailed, MarkDeadLetter, WebhookSteps
  <2>2. job'[w] = NoJob \/ job'[w] = [handler EXCEPT !.pc = "recover"]
    BY <1>0, <1>2, <2>1 DEF MarkProcessed, MarkFailed, MarkDeadLetter, Mark, EndJob, Goto
  <2>3. job'[w].pc \in {"none", "recover"}
    BY <2>2 DEF NoJob, WebhookJobs
  <2>. QED
    BY <2>3, NothingToRestOn DEF ReconcileSteps
<1>3. CASE BeginRecover(w) \/ RecoverNext(w)
  <2>1. PICK rows: TakeFrom(w, rows)
    BY <1>3 DEF BeginRecover, RecoverNext
  <2>2. job'[w].pc \in {"exhausted", "validate"}
    BY <1>0, <2>1 DEF TakeFrom
  <2>. QED
    BY <2>2, NothingToRestOn DEF ReconcileSteps
<1>4. ASSUME NEW e \in sent, ReceiveEvent(w, e)
      PROVE  RestsOn(job[w])'
  <2>1. job'[w].pc = "validate"
    BY <1>0, <1>4 DEF ReceiveEvent
  <2>. QED
    BY <2>1, NothingToRestOn DEF ReconcileSteps
<1>. QED
  BY <1>1, <1>2, <1>3, <1>4 DEF WebhookStep

(* A reconciliation is begun for records that are there.                   *)
LEMMA BegunRests ==
  ASSUME Inv, RecordsKeep, NEW w \in Workers,
         \/ \E t \in Tokens: BeginReconcile(w, t)
         \/ BeginSweep(w) \/ BeginStaleSweep(w)
  PROVE  RestsOn(job[w])'
<1>0. job \in [Workers -> Jobs]
  BY DEF Inv, WorkersFit
<1>1. ASSUME NEW t \in Tokens, NEW todo \in SUBSET Tokens,
             Exists(t), \A u \in todo: Exists(u),
             job' = [job EXCEPT ![w] = [pc |-> "count", rec |-> t, seen |-> NoRecord,
                                        todo |-> todo]]
      PROVE  RestsOn(job[w])'
  <2>1. /\ job'[w].pc = "count" /\ job'[w].rec = t /\ job'[w].todo = todo
    BY <1>0, <1>1
  <2>2. Exists(t)' /\ \A u \in todo: Exists(u)'
    BY <1>1 DEF RecordsKeep
  <2>. QED
    BY <2>1, <2>2 DEF RestsOn
<1>2. ASSUME NEW t \in Tokens, BeginReconcile(w, t)
      PROVE  RestsOn(job[w])'
  <2>1. job' = [job EXCEPT ![w] = [pc |-> "count", rec |-> t, seen |-> NoRecord,
                                   todo |-> {}]]
        /\ Exists(t)
    BY <1>2 DEF BeginReconcile
  <2>2. {} \in SUBSET Tokens /\ \A u \in {}: Exists(u)
    OBVIOUS
  <2>. QED
    BY <1>1, <2>1, <2>2
<1>3. ASSUME BeginBatch(w, Unsettled)
      PROVE  RestsOn(job[w])'
  <2>1. \A u \in Unsettled: u \in Tokens /\ Exists(u)
    BY DEF Unsettled, Exists
  <2>2. PICK t \in Unsettled:
          job' = [job EXCEPT ![w] = [pc |-> "count", rec |-> t, seen |-> NoRecord,
                                     todo |-> Unsettled \ {t}]]
    BY <1>3 DEF BeginBatch
  <2>3. Unsettled \ {t} \in SUBSET Tokens
    BY <2>1
  <2>. QED
    BY <1>1, <2>1, <2>2, <2>3
<1>. QED
  BY <1>2, <1>3 DEF BeginSweep, BeginStaleSweep, Stale

LEMMA HandlersRestStep ==
  ASSUME Inv, RecordsKeep, HandlersRest, rec' \in [Tokens -> Records], [Next]_vars
  PROVE  HandlersRest'
<1>. SUFFICES ASSUME NEW w \in Workers
              PROVE  RestsOn(job[w])'
  BY DEF HandlersRest, RestsOn
<1>0. RestsOn(job[w]) /\ job \in [Workers -> Jobs]
  BY DEF HandlersRest, Inv, WorkersFit
<1>1. CASE UNCHANGED <<txn, job>>
  BY <1>0, <1>1, WaitingRests
<1>2. ASSUME NEW v \in Workers, v # w, WorkerMoves(v)
      PROVE  RestsOn(job[w])'
  BY <1>0, <1>2, OthersWait, WaitingRests
<1>3. CASE WorkerMoves(w)
  <2>1. CASE ReconcileStep(w)
    BY <1>0, <2>1, ReconcileRests
  <2>2. CASE WebhookStep(w) \/ BeginRecover(w) \/ \E e \in sent: ReceiveEvent(w, e)
    BY <2>2, WebhookRests
  <2>3. CASE \/ \E t \in Tokens: BeginReconcile(w, t)
             \/ BeginSweep(w) \/ BeginStaleSweep(w)
    BY <2>3, BegunRests
  <2>4. CASE DispatchStep(w)
    BY <2>4, DispatchStays, NothingToRestOn DEF DispatchSteps, ReconcileSteps
  <2>5. ASSUME NEW t \in Tokens, BeginDispatch(w, t)
        PROVE  RestsOn(job[w])'
    <3>1. job'[w].pc = "consume"
      BY <1>0, <2>5 DEF BeginDispatch
    <3>. QED
      BY <3>1, NothingToRestOn DEF ReconcileSteps
  <2>6. CASE TransitionStep(w)
    <3>1. job' = job
      BY <2>6 DEF TransitionStep, RejectCall, Reaffirm, RefuseTransition,
         AllowTransition, Backfill, WriteStatus
    <3>. QED
      BY <1>0, <3>1, WaitingRests
  <2>7. CASE Crash(w)
    <3>1. job'[w] = NoJob
      BY <1>0, <2>7 DEF Crash, EndJob
    <3>. QED
      BY <3>1, NothingToRestOn DEF NoJob, ReconcileSteps
  <2>. QED
    BY <1>3, <2>1, <2>2, <2>3, <2>4, <2>5, <2>6, <2>7 DEF WorkerMoves
<1>. QED
  BY <1>1, <1>2, <1>3, WorkerSteps

-----------------------------------------------------------------------------

(* The inductive invariant of the two results.                             *)
HistoryInv ==
  /\ CountsFromWriting /\ HandlersRest
  /\ QueuedAfterAllAttempts /\ ProcessedEventsMatch

(* Only a handler at "bury" queues a record, and the count never falls.    *)
LEMMA QueuedStep ==
  ASSUME Inv, RecordsKeep, rec' \in [Tokens -> Records], HandlersRest,
         QueuedAfterAllAttempts, [Next]_vars
  PROVE  QueuedAfterAllAttempts'
<1>0. /\ rec \in [Tokens -> Records] /\ dlq \subseteq Tokens
      /\ \A t \in Tokens: /\ rec[t].attempts \in 0..MaxAttempts
                          /\ rec'[t].attempts \in 0..MaxAttempts
  BY RecordTyped DEF Inv, TypeOK
<1>1. \A t \in dlq: rec'[t].attempts >= MaxAttempts
  BY <1>0, LedgerAssumption DEF QueuedAfterAllAttempts, RecordsKeep
<1>2. ASSUME NEW w \in Workers, EnqueueDeadLetter(w)
      PROVE  QueuedAfterAllAttempts'
  <2>1. /\ job[w].pc = "bury" /\ dlq' = dlq \cup {job[w].rec} /\ rec' = rec
    BY <1>2 DEF EnqueueDeadLetter
  <2>2. rec[job[w].rec].attempts >= MaxAttempts
    BY <2>1 DEF HandlersRest, RestsOn, ReconcileSteps
  <2>. QED
    BY <1>1, <2>1, <2>2 DEF QueuedAfterAllAttempts
<1>. QED
  BY <1>1, <1>2, QueueSteps DEF QueuedAfterAllAttempts

(* Only a handler at "apply" marks an event PROCESSED.                     *)
LEMMA ProcessedStep ==
  ASSUME Inv, RecordsKeep, HandlersRest, ProcessedEventsMatch, [Next]_vars
  PROVE  ProcessedEventsMatch'
<1>. SUFFICES ASSUME NEW e \in Events, inbox'[e].status = "PROCESSED"
              PROVE  e.matches /\ rec'[e.rec].oid = "real"
  BY DEF ProcessedEventsMatch
<1>0. inbox \in [Events -> EventRows] /\ sent \subseteq Events /\ e.rec \in Tokens
  BY DEF Inv, TypeOK, Events
<1>1. CASE inbox[e].status = "PROCESSED"
  BY <1>0, <1>1 DEF ProcessedEventsMatch, RecordsKeep
<1>2. CASE inbox[e].status # "PROCESSED"
  <2>1. ~UNCHANGED inbox
    BY <1>2
  <2>2. ASSUME NEW w \in Workers, NEW f \in sent, ReceiveEvent(w, f)
        PROVE  FALSE
    BY <1>0, <1>2, <2>2 DEF ReceiveEvent, EventRows
  <2>3. ASSUME NEW w \in Workers, MarkFailed(w) \/ MarkDeadLetter(w)
        PROVE  FALSE
    BY <1>0, <1>2, <2>3 DEF MarkFailed, MarkDeadLetter, Mark
  <2>4. ASSUME NEW w \in Workers, MarkProcessed(w)
        PROVE  e.matches /\ rec'[e.rec].oid = "real"
    <3>1. job[w].event = e /\ job[w].pc = "apply"
      BY <1>0, <1>2, <2>4 DEF MarkProcessed, Mark
    <3>. QED
      BY <1>0, <3>1 DEF HandlersRest, RestsOn, Consistent, RecordsKeep
  <2>. QED
    BY <2>1, <2>2, <2>3, <2>4, InboxSteps
<1>. QED
  BY <1>1, <1>2

LEMMA HistoryStep == Inv /\ HistoryInv /\ [Next]_vars => HistoryInv'
<1>. SUFFICES ASSUME Inv, HistoryInv, [Next]_vars
              PROVE  HistoryInv'
  OBVIOUS
<1>1. RecordsKeep /\ CountsFromWriting' /\ rec' \in [Tokens -> Records]
  BY RecordsKeepStep, RecordsGrow DEF HistoryInv
<1>. QED
  BY <1>1, HandlersRestStep, QueuedStep, ProcessedStep DEF HistoryInv

LEMMA HistoryInit == Init => HistoryInv
<1>. SUFFICES ASSUME Init
              PROVE  HistoryInv
  OBVIOUS
<1>1. CountsFromWriting
  BY DEF Init, InitLedger, CountsFromWriting, NoRecord
<1>2. HandlersRest
  BY DEF Init, InitLedger, HandlersRest, RestsOn, NoJob, ReconcileSteps
<1>3. QueuedAfterAllAttempts
  BY DEF Init, InitReconciliation, QueuedAfterAllAttempts
<1>4. ProcessedEventsMatch
  BY DEF Init, InitWebhook, ProcessedEventsMatch, NoEvent
<1>. QED
  BY <1>1, <1>2, <1>3, <1>4 DEF HistoryInv

(* What handlers rest on, with any number of workers and whatever is lost. *)
THEOREM HistoryInvariance == Spec => []HistoryInv
BY HistoryInit, HistoryStep, Invariance, PTL DEF Spec

(* No record reaches the operators' queue before MaxAttempts attempts,     *)
(* with any number of reconciliations, sweeps and dispatches at once.      *)
THEOREM QueueWaitsForAttempts == Spec => []QueuedAfterAllAttempts
BY HistoryInvariance, PTL DEF HistoryInv

(* An event marked PROCESSED matches the record it reports on, although    *)
(* the validation and the mark are transactions apart.                     *)
THEOREM ProcessedMatches == Spec => []ProcessedEventsMatch
BY HistoryInvariance, PTL DEF HistoryInv
=============================================================================
