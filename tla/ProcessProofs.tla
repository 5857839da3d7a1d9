---------------------------- MODULE ProcessProofs ----------------------------
(***************************************************************************)
(* What two processes on one database can break, and exactly what breaks   *)
(* it.  Statuses move along LEGAL_TRANSITIONS as long as no two transitions*)
(* of a record are between their read and their write at once, and an      *)
(* event is processed once as long as no two handlers hold it at once.     *)
(* One process, whose handlers run one after the other, never comes to     *)
(* either overlap.                                                         *)
(***************************************************************************)
EXTENDS PaymentProofs

OneProcess == \A v, w \in Workers: v = w

(* No two transitions of one record have been allowed and wait to write.   *)
NoOverlap ==
  \A v, w \in Workers:
    v # w /\ txn[v].step = "write" /\ txn[w].step = "write"
      => txn[v].rec # txn[w].rec

-----------------------------------------------------------------------------

(* A transition that was allowed is still legal when it is written.        *)
StillLegal ==
  \A w \in Workers: txn[w].step = "write"
    => IsLegal(rec[txn[w].rec].status, txn[w].want)

(* A step of worker v leaves the calls alone or gives v another one; a     *)
(* call that writes comes from AllowTransition only.                       *)
Recalls(v) ==
  \/ UNCHANGED txn
  \/ AllowTransition(v)
  \/ \E call: txn' = [txn EXCEPT ![v] = call] /\ call.step # "write"

LEMMA RequestsRead ==
  /\ \A t, want, oid, counted: ById(t, want, oid, counted).step # "write"
  /\ \A t, want, pid: ByOrder(t, want, pid).step # "write"
  /\ Idle.step # "write" /\ Return.step # "write" /\ Raise.step # "write"
BY DEF ById, ByOrder, Idle, Return, Raise

LEMMA TransitionRecalls ==
  ASSUME Inv, NEW v \in Workers, TransitionStep(v)
  PROVE  Recalls(v)
<1>1. ASSUME Reaffirm(v)
      PROVE  Recalls(v)
  <2>1. PICK call \in Requests: call = txn[v]
    BY <1>1, CallKind DEF Reaffirm
  <2>2. [call EXCEPT !.step = "backfill"].step # "write"
    BY DEF Requests
  <2>3. \/ txn' = [txn EXCEPT ![v] = [call EXCEPT !.step = "backfill"]]
        \/ txn' = [txn EXCEPT ![v] = Return]
    BY <1>1, <2>1 DEF Reaffirm, Becomes
  <2>. QED
    BY <2>2, <2>3, RequestsRead DEF Recalls
<1>. QED
  BY <1>1, RequestsRead DEF TransitionStep, Recalls, RejectCall, RefuseTransition,
     Backfill, WriteStatus, Becomes

LEMMA CallRecalls ==
  ASSUME NEW v \in Workers, NEW call, call.step # "write",
         txn' = [txn EXCEPT ![v] = call]
  PROVE  Recalls(v)
BY DEF Recalls

LEMMA HandlerRecalls ==
  ASSUME NEW v \in Workers, WorkerMoves(v), ~TransitionStep(v)
  PROVE  Recalls(v)
<1>1. CASE DispatchStep(v)
  <2>1. CASE CreateSucceeds(v)
    BY <2>1, RequestsRead, CallRecalls DEF CreateSucceeds, Call
  <2>2. ASSUME NEW want, NEW oid, Settle(v, want, oid)
        PROVE  Recalls(v)
    BY <2>2, RequestsRead, CallRecalls DEF Settle, Call
  <2>3. CASE CreateTimesOut(v) \/ CreateIsRejected(v)
    BY <2>2, <2>3 DEF CreateTimesOut, CreateIsRejected
  <2>4. CASE ReturnCreated(v) \/ ReturnSettled(v)
    BY <2>2, <2>4, RequestsRead, CallRecalls DEF ReturnCreated, ReturnSettled, EndJob
  <2>5. CASE ConsumeToken(v) \/ RetryPending(v) \/ InsertPending(v) \/ CreateIsDuplicate(v)
    BY <2>5 DEF Recalls, ConsumeToken, RetryPending, InsertPending, CreateIsDuplicate
  <2>. QED
    BY <1>1, <2>1, <2>3, <2>4, <2>5 DEF DispatchStep
<1>2. CASE ReconcileStep(v)
  <2>1. CASE FetchOrder(v)
    <3>1. PICK call: call = ById(job[v].rec, CorrectStatus(job[v].rec),
                                 job[v].seen.oid, FALSE)
      OBVIOUS
    <3>2. UNCHANGED txn \/ txn' = [txn EXCEPT ![v] = call]
      BY <2>1, <3>1 DEF FetchOrder, Call
    <3>3. call.step # "write"
      BY <3>1 DEF ById
    <3>. QED
      BY <3>2, <3>3, CallRecalls DEF Recalls
  <2>2. CASE EnqueueDeadLetter(v)
    BY <2>2, RequestsRead DEF Recalls, EnqueueDeadLetter, Call
  <2>3. CASE NextRow(v)
    BY <2>3, RequestsRead DEF Recalls, NextRow, EndJob, Becomes
  <2>4. CASE CountAttempt(v) \/ Inspect(v) \/ FetchUnusable(v)
    BY <2>4 DEF Recalls, CountAttempt, Inspect, FetchUnusable
  <2>. QED
    BY <1>2, <2>1, <2>2, <2>3, <2>4 DEF ReconcileStep
<1>3. CASE WebhookStep(v)
  BY <1>3, RequestsRead DEF Recalls, WebhookStep, ValidateEvent, MarkProcessed,
     MarkFailed, MarkDeadLetter, Mark, RecoverNext, EndJob, Call, Becomes
<1>4. CASE Crash(v)
  BY <1>4, RequestsRead DEF Recalls, Crash, EndJob
<1>5. ASSUME NEW t \in Tokens, BeginDispatch(v, t) \/ BeginReconcile(v, t)
      PROVE  Recalls(v)
  BY <1>5 DEF Recalls, BeginDispatch, BeginReconcile
<1>6. CASE BeginSweep(v) \/ BeginStaleSweep(v) \/ BeginRecover(v)
  BY <1>6 DEF Recalls, BeginSweep, BeginStaleSweep, BeginBatch, BeginRecover
<1>7. ASSUME NEW e \in sent, ReceiveEvent(v, e)
      PROVE  Recalls(v)
  BY <1>7 DEF Recalls, ReceiveEvent
<1>. QED
  BY <1>1, <1>2, <1>3, <1>4, <1>5, <1>6, <1>7 DEF WorkerMoves

LEMMA AllowedByRead ==
  ASSUME Inv, [Next]_vars, NEW w \in Workers, txn'[w].step = "write"
  PROVE  txn'[w] = txn[w] \/ AllowTransition(w)
<1>1. txn \in [Workers -> Calls]
  BY DEF Inv, WorkersFit
<1>2. CASE UNCHANGED <<txn, job>>
  BY <1>2
<1>3. ASSUME NEW v \in Workers, Recalls(v)
      PROVE  txn'[w] = txn[w] \/ AllowTransition(w)
  <2>1. CASE AllowTransition(v)
    BY <1>1, <2>1 DEF AllowTransition, Becomes
  <2>2. ASSUME NEW call, txn' = [txn EXCEPT ![v] = call], call.step # "write"
        PROVE  txn'[w] = txn[w]
    BY <1>1, <2>2
  <2>. QED
    BY <1>3, <2>1, <2>2 DEF Recalls
<1>. QED
  BY <1>2, <1>3, WorkerSteps, TransitionRecalls, HandlerRecalls

(* The status of a record that is there changes by WriteStatus only.       *)
LEMMA StatusWritten ==
  ASSUME Inv, [Next]_vars, NEW t \in Tokens, Exists(t)
  PROVE  \/ rec'[t].status = rec[t].status
         \/ \E w \in Workers: /\ WriteStatus(w) /\ txn[w].rec = t
                              /\ rec'[t].status = txn[w].want
<1>0. rec \in [Tokens -> Records]
  BY DEF Inv, TypeOK
<1>1. ASSUME NEW w \in Workers, Backfill(w) \/ WriteStatus(w)
      PROVE  \/ rec'[t].status = rec[t].status
             \/ /\ WriteStatus(w) /\ txn[w].rec = t
                /\ rec'[t].status = txn[w].want
  <2>1. PICK call \in Requests: call = txn[w]
    BY <1>1, CallKind DEF Backfill, WriteStatus
  <2>2. call.rec \in Tokens /\ rec[call.rec] \in Records
    BY <1>0, <2>1, RequestTyped
  <2>3. PICK row \in Records: row = FillIds(rec[call.rec], call)
    BY <2>1, <2>2, FilledRecord
  <2>4. row.status = rec[call.rec].status
    BY <2>1, <2>2, <2>3, FilledRecord
  <2>5. CASE Backfill(w)
    <3>1. rec' = [rec EXCEPT ![call.rec] = row]
      BY <2>1, <2>3, <2>5 DEF Backfill
    <3>. QED
      BY <1>0, <2>2, <2>4, <3>1
  <2>6. CASE WriteStatus(w)
    <3>1. PICK n: rec' = [rec EXCEPT ![call.rec] =
                            [row EXCEPT !.status = call.want, !.attempts = n]]
      BY <2>1, <2>3, <2>6 DEF WriteStatus
    <3>2. [row EXCEPT !.status = call.want, !.attempts = n].status = call.want
      BY DEF Records
    <3>. QED
      BY <1>0, <2>1, <2>2, <2>6, <3>1, <3>2
  <2>. QED
    BY <1>1, <2>5, <2>6
<1>2. ASSUME NEW w \in Workers, InsertPending(w)
      PROVE  rec'[t].status = rec[t].status
  BY <1>0, <1>2 DEF InsertPending, Exists
<1>3. ASSUME NEW w \in Workers, CountAttempt(w)
      PROVE  rec'[t].status = rec[t].status
  BY <1>0, <1>3 DEF CountAttempt, Records
<1>. QED
  BY <1>1, <1>2, <1>3, RecordSteps

LEMMA StillLegalStep ==
  ASSUME NoOverlap, Inv, StillLegal, [Next]_vars
  PROVE  StillLegal'
<1>. SUFFICES ASSUME NEW w \in Workers, txn'[w].step = "write"
              PROVE  IsLegal(rec'[txn'[w].rec].status, txn'[w].want)
  BY DEF StillLegal, IsLegal
<1>0. txn \in [Workers -> Calls]
  BY DEF Inv, WorkersFit
<1>1. CASE txn'[w] = txn[w]
  <2>1. txn[w] \in Requests /\ txn[w].rec \in Tokens /\ Exists(txn[w].rec)
    BY <1>1, CallKind, RequestTyped DEF Inv, WorkersFit, CallFits
  <2>2. ASSUME NEW v \in Workers, WriteStatus(v), txn[v].rec = txn[w].rec
        PROVE  FALSE
    <3>1. CASE v = w
      BY <1>0, <1>1, <2>2, <3>1 DEF WriteStatus, Becomes, Return
    <3>2. CASE v # w
      BY <1>1, <2>2, <3>2 DEF NoOverlap, WriteStatus
    <3>. QED
      BY <3>1, <3>2
  <2>3. rec'[txn[w].rec].status = rec[txn[w].rec].status
    BY <2>1, <2>2, StatusWritten
  <2>. QED
    BY <1>1, <2>3 DEF StillLegal
<1>2. CASE AllowTransition(w)
  <2>1. PICK call \in Requests: call = txn[w]
    BY <1>2, CallKind DEF AllowTransition
  <2>2. txn'[w] = [call EXCEPT !.step = "write"]
    BY <1>0, <1>2, <2>1 DEF AllowTransition, Becomes
  <2>3. txn'[w].rec = call.rec /\ txn'[w].want = call.want
    BY <2>2 DEF Requests
  <2>4. rec' = rec /\ IsLegal(rec[call.rec].status, call.want)
    BY <1>2, <2>1 DEF AllowTransition
  <2>. QED
    BY <2>3, <2>4
<1>. QED
  BY <1>1, <1>2, AllowedByRead

(* Every change of a status is in LEGAL_TRANSITIONS unless two transitions *)
(* of the record overlap: the read and the write of                        *)
(* transition_payment_state are two transactions, and nothing but a second *)
(* write of the same record can invalidate what the first one read, not    *)
(* another transaction of any handler and not a loss.                      *)
THEOREM SerialWritesAreLegal == Spec => ([]NoOverlap => StatusChangesAreLegal)
<1>1. Init => StillLegal
  BY DEF Init, InitLedger, StillLegal, Idle
<1>2. NoOverlap /\ Inv /\ StillLegal /\ [Next]_vars => StillLegal'
  BY StillLegalStep
<1>3. ASSUME Inv, StillLegal, [Next]_vars, NEW t \in Tokens, Exists(t)
      PROVE  IsLegal(rec[t].status, rec'[t].status)
  <2>1. CASE rec'[t].status = rec[t].status
    BY <2>1 DEF IsLegal
  <2>2. ASSUME NEW w \in Workers, WriteStatus(w), txn[w].rec = t,
               rec'[t].status = txn[w].want
        PROVE  IsLegal(rec[t].status, rec'[t].status)
    <3>1. txn[w].step = "write"
      BY <2>2 DEF WriteStatus
    <3>. QED
      BY <1>3, <2>2, <3>1 DEF StillLegal
  <2>. QED
    BY <1>3, <2>1, <2>2, StatusWritten
<1>4. Inv /\ StillLegal /\ [Next]_vars
        => [\A t \in Tokens: Exists(t) => IsLegal(rec[t].status, rec'[t].status)]_vars
  BY <1>3
<1>. QED
  BY <1>1, <1>2, <1>4, Invariance, PTL DEF Spec, StatusChangesAreLegal

(* The promise of state_machine.py:33 ("Terminal state - no regressions    *)
(* allowed") holds on the same condition, which two processes do not meet: *)
(* the overlap of two writes is the only way out of CAPTURED.              *)
THEOREM SerialCapturesAreFinal == Spec => ([]NoOverlap => CapturedIsFinal)
<1>1. [\A t \in Tokens: Exists(t) => IsLegal(rec[t].status, rec'[t].status)]_vars
        => [\A t \in Tokens:
              rec[t].status = "CAPTURED" => rec'[t].status = "CAPTURED"]_vars
  BY DEF Exists, IsLegal, LegalTransitions, vars
<1>. QED
  BY <1>1, SerialWritesAreLegal, PTL DEF StatusChangesAreLegal, CapturedIsFinal

(* In one process there is no second handler to overlap with.              *)
THEOREM LegalInOneProcess ==
  ASSUME OneProcess
  PROVE  Spec => StatusChangesAreLegal
<1>1. NoOverlap
  BY DEF OneProcess, NoOverlap
<1>. QED
  BY <1>1, SerialWritesAreLegal, PTL

(* In one process a captured payment stays captured.                       *)
THEOREM CapturedFinalInOneProcess ==
  ASSUME OneProcess
  PROVE  Spec => CapturedIsFinal
<1>1. NoOverlap
  BY DEF OneProcess, NoOverlap
<1>. QED
  BY <1>1, SerialCapturesAreFinal, PTL

-----------------------------------------------------------------------------

(* No step touches both the records and what they may claim.               *)
LEMMA RecordsOrGrounds ==
  ASSUME [Next]_vars
  PROVE  \/ UNCHANGED rec /\ (UNCHANGED <<order, pay>> \/ UNCHANGED dlq)
         \/ UNCHANGED <<order, pay, dlq>>
<1>1. CASE Arrive
  BY <1>1 DEF Arrive, BeginDispatch, BeginReconcile, BeginSweep, BeginStaleSweep,
              BeginBatch, ReceiveEvent, BeginRecover, gatewayVars
<1>2. CASE Environment
  BY <1>2 DEF Environment, GatewayStep, ExpireToken, ledgerVars
<1>3. ASSUME NEW w \in Workers, TransitionStep(w), UNCHANGED <<gatewayVars, dlq>>
      PROVE  UNCHANGED <<order, pay, dlq>>
  BY <1>3 DEF gatewayVars
<1>4. ASSUME NEW w \in Workers, DispatchStep(w), UNCHANGED dlq
      PROVE  UNCHANGED rec \/ UNCHANGED <<order, pay>>
  BY <1>4 DEF DispatchStep, ConsumeToken, RetryPending, InsertPending,
              CreateSucceeds, CreateTimesOut, CreateIsDuplicate,
              CreateIsRejected, ReturnCreated, ReturnSettled, gatewayVars
<1>5. ASSUME NEW w \in Workers, ReconcileStep(w)
      PROVE  UNCHANGED <<order, pay>> /\ (UNCHANGED rec \/ UNCHANGED dlq)
  BY <1>5 DEF ReconcileStep, CountAttempt, Inspect, FetchUnusable, FetchOrder,
              EnqueueDeadLetter, NextRow, gatewayVars
<1>6. ASSUME NEW w \in Workers, WebhookStep(w)
      PROVE  UNCHANGED <<rec, order, pay>>
  BY <1>6 DEF WebhookStep, ValidateEvent, MarkProcessed, MarkFailed,
              MarkDeadLetter, Mark, RecoverNext, gatewayVars
<1>7. ASSUME NEW w \in Workers, Continue(w)
      PROVE  \/ UNCHANGED rec /\ (UNCHANGED <<order, pay>> \/ UNCHANGED dlq)
             \/ UNCHANGED <<order, pay, dlq>>
  BY <1>3, <1>4, <1>5, <1>6, <1>7 DEF Continue
<1>8. ASSUME NEW w \in Workers, Crash(w), UNCHANGED <<gatewayVars, tok, dlq, inbox>>
      PROVE  UNCHANGED <<order, pay, dlq>>
  BY <1>8 DEF gatewayVars
<1>9. CASE UNCHANGED vars
  BY <1>9 DEF vars, ledgerVars, gatewayVars
<1>. QED
  BY <1>1, <1>2, <1>7, <1>8, <1>9 DEF Next, NextWithoutCrash

(* A step that keeps the records may add grounds, to one record at most.   *)
LEMMA GroundsGrow ==
  ASSUME Inv, [Next]_vars
  PROVE  \/ \A t \in Tokens: Grounds(t)' = Grounds(t)
         \/ /\ \A t \in Tokens: Grounds(t) \subseteq Grounds(t)'
            /\ \E u \in Tokens: \A t \in Tokens: t # u => Grounds(t)' = Grounds(t)
<1>0. Grows
  BY StepGrows
<1>1. \A t \in Tokens: Grounds(t) \subseteq Grounds(t)'
  BY <1>0 DEF Grounds, Grows
<1>2. CASE UNCHANGED <<order, pay, dlq>>
  BY <1>2 DEF Grounds
<1>3. CASE UNCHANGED dlq
  <2>0. order \in [Tokens -> OrderStatuses] /\ pay \in [Tokens -> [PayIds -> PayStatuses]]
    BY DEF Inv, TypeOK
  <2>1. ASSUME NEW u \in Tokens,
               \A t \in Tokens: t # u => order'[t] = order[t] /\ pay'[t] = pay[t]
        PROVE  \A t \in Tokens: t # u => Grounds(t)' = Grounds(t)
    BY <1>3, <2>1 DEF Grounds
  <2>2. ASSUME NEW w \in Workers, job[w].pc = "create", NewOrder(job[w].rec)
        PROVE  \E u \in Tokens:
                 \A t \in Tokens: t # u => order'[t] = order[t] /\ pay'[t] = pay[t]
    BY <2>0, <2>2, HandlerKind DEF NewOrder, DispatchSteps, DispatchJobs
  <2>3. ASSUME NEW u \in Tokens, NEW p \in PayIds, NEW matches \in Fidelity,
               FailPayment(u, p, matches) \/ AuthorizePayment(u, p, matches)
                 \/ CapturePayment(u, p, matches)
        PROVE  \A t \in Tokens: t # u => order'[t] = order[t] /\ pay'[t] = pay[t]
    BY <2>0, <2>3 DEF FailPayment, AuthorizePayment, CapturePayment
  <2>. QED
    BY <1>1, <1>2, <1>3, <2>1, <2>2, <2>3, GatewaySteps
<1>4. CASE UNCHANGED <<order, pay>>
  <2>1. ASSUME NEW w \in Workers, EnqueueDeadLetter(w)
        PROVE  \E u \in Tokens: \A t \in Tokens: t # u => Grounds(t)' = Grounds(t)
    <3>1. PICK u \in Tokens: u = job[w].rec
      BY <2>1, HandlerKind DEF EnqueueDeadLetter, ReconcileSteps, ReconcileJobs
    <3>2. dlq' = dlq \cup {u}
      BY <2>1, <3>1 DEF EnqueueDeadLetter
    <3>. QED
      BY <1>4, <3>2 DEF Grounds
  <2>. QED
    BY <1>1, <1>2, <1>4, <2>1, QueueSteps
<1>. QED
  BY <1>2, <1>3, <1>4, RecordsOrGrounds

(* A record is opened as PENDING, or its status changes to one for which   *)
(* there are grounds; no step writes two records.                          *)
LEMMA StatesMove ==
  ASSUME Inv, [Next]_vars
  PROVE  \/ \A t \in Tokens: rec'[t].status = rec[t].status
         \/ \E u \in Tokens:
              /\ \A t \in Tokens: t # u => rec'[t].status = rec[t].status
              /\ \/ ~Exists(u) /\ rec'[u].status = "PENDING"
                 \/ /\ Exists(u) /\ rec'[u].status \in Statuses
                    /\ rec'[u].status \in Claimable => rec'[u].status \in Grounds(u)
<1>0. rec \in [Tokens -> Records]
  BY DEF Inv, TypeOK
<1>1. CASE UNCHANGED rec
  BY <1>1
<1>2. ASSUME NEW w \in Workers,
             Backfill(w) \/ WriteStatus(w) \/ InsertPending(w) \/ CountAttempt(w),
             ~ \A t \in Tokens: rec'[t].status = rec[t].status
      PROVE  \E u \in Tokens:
               /\ \A t \in Tokens: t # u => rec'[t].status = rec[t].status
               /\ \/ ~Exists(u) /\ rec'[u].status = "PENDING"
                  \/ /\ Exists(u) /\ rec'[u].status \in Statuses
                     /\ rec'[u].status \in Claimable => rec'[u].status \in Grounds(u)
  <2>1. PICK u \in Tokens, row \in Records:
          /\ rec' = [rec EXCEPT ![u] = row]
          /\ \/ /\ txn[w] \in Requests /\ txn[w].rec = u
                /\ txn[w].step \in {"write", "backfill"}
                /\ row.status \in {rec[u].status, txn[w].want}
             \/ ~Exists(u) /\ row.status = "PENDING"
             \/ row.status = rec[u].status
    BY <1>2, RecordWritten
  <2>2. rec'[u] = row /\ \A t \in Tokens: t # u => rec'[t] = rec[t]
    BY <1>0, <2>1
  <2>3. row.status # rec[u].status
    BY <1>2, <2>2
  <2>4. CASE ~Exists(u) /\ row.status = "PENDING"
    BY <2>2, <2>4
  <2>5. CASE /\ txn[w] \in Requests /\ txn[w].rec = u
             /\ txn[w].step \in {"write", "backfill"} /\ row.status = txn[w].want
    <3>1. /\ Exists(u)
          /\ row.status = "CAPTURED" => order[u] = "paid"
          /\ row.status = "AUTHORIZED"
               => \E p \in PayIds: pay[u][p] \in {"authorized", "captured"}
          /\ row.status = "DEAD_LETTER" => u \in dlq
      BY <2>5 DEF Inv, WorkersFit, CallFits
    <3>2. row.status \in Claimable => row.status \in Grounds(u)
      BY <3>1 DEF Claimable, Grounds
    <3>3. row.status \in Statuses
      BY <2>5, RequestTyped
    <3>. QED
      BY <2>2, <3>1, <3>2, <3>3
  <2>. QED
    BY <2>1, <2>3, <2>4, <2>5
<1>. QED
  BY <1>1, <1>2, RecordSteps

(* Dispatch, reconciliation, events and losses lead payments the life that *)
(* PaymentLife tells, as long as no two transitions of a record overlap.   *)
THEOREM SerialWritesLeadTheLife == Spec => ([]NoOverlap => IsPaymentLife)
<1>. DEFINE states == [t \in Tokens |-> rec[t].status]
            reasons == [t \in Tokens |-> Grounds(t)]
            Legally == \A t \in Tokens: Exists(t)
                         => IsLegal(rec[t].status, rec'[t].status)
<1>1. Init => Life!Init
  BY DEF Init, InitLedger, InitGateway, InitReconciliation, Life!Init, NoRecord, Grounds
<1>2. Inv /\ [Next]_vars /\ [Legally]_vars => [Life!Next]_(Life!vars)
  <2>. SUFFICES ASSUME Inv, [Next]_vars, [Legally]_vars
                PROVE  [Life!Next]_(Life!vars)
    OBVIOUS
  <2>1. CASE UNCHANGED rec
    <3>1. states' = states
      BY <2>1
    <3>2. CASE \A t \in Tokens: Grounds(t)' = Grounds(t)
      <4>1. reasons' = reasons
        BY <3>2
      <4>. QED
        BY <3>1, <4>1 DEF Life!vars
    <3>3. CASE /\ \A t \in Tokens: Grounds(t) \subseteq Grounds(t)'
               /\ \E u \in Tokens: \A t \in Tokens: t # u => Grounds(t)' = Grounds(t)
      <4>1. PICK u \in Tokens: \A t \in Tokens: t # u => Grounds(t)' = Grounds(t)
        BY <3>3
      <4>2. Grounds(u)' \in SUBSET Claimable /\ Grounds(u)' = Grounds(u) \cup Grounds(u)'
        BY <3>3 DEF Grounds
      <4>3. reasons' = [reasons EXCEPT ![u] = Grounds(u) \cup Grounds(u)']
        BY <4>1, <4>2
      <4>4. Life!Learn(u, Grounds(u)')
        BY <3>1, <4>3 DEF Life!Learn
      <4>. QED
        BY <4>2, <4>4 DEF Life!Next
    <3>. QED
      BY <3>2, <3>3, GroundsGrow
  <2>2. CASE UNCHANGED <<order, pay, dlq>>
    <3>1. reasons' = reasons
      BY <2>2 DEF Grounds
    <3>2. CASE \A t \in Tokens: rec'[t].status = rec[t].status
      <4>1. states' = states
        BY <3>2
      <4>. QED
        BY <3>1, <4>1 DEF Life!vars
    <3>3. ASSUME NEW u \in Tokens,
                 \A t \in Tokens: t # u => rec'[t].status = rec[t].status,
                 rec'[u].status # rec[u].status
          PROVE  states' = [states EXCEPT ![u] = rec'[u].status]
      BY <3>3
    <3>4. ASSUME NEW u \in Tokens,
                 \A t \in Tokens: t # u => rec'[t].status = rec[t].status,
                 ~Exists(u), rec'[u].status = "PENDING"
          PROVE  [Life!Next]_(Life!vars)
      <4>1. Life!Open(u)
        BY <3>1, <3>3, <3>4 DEF Life!Open, Exists
      <4>. QED
        BY <4>1 DEF Life!Next
    <3>5. ASSUME NEW u \in Tokens,
                 \A t \in Tokens: t # u => rec'[t].status = rec[t].status,
                 Exists(u), rec'[u].status \in Statuses, rec'[u].status # rec[u].status,
                 rec'[u].status \in Claimable => rec'[u].status \in Grounds(u)
          PROVE  [Life!Next]_(Life!vars)
      <4>1. PICK s \in DOMAIN LegalTransitions: s = rec'[u].status
        BY <3>5 DEF Statuses
      <4>2. s \in LegalTransitions[rec[u].status]
        BY <3>5, <4>1 DEF vars, IsLegal
      <4>3. Life!Move(u, s)
        BY <3>1, <3>3, <3>5, <4>1, <4>2 DEF Life!Move, Exists
      <4>. QED
        BY <4>3 DEF Life!Next
    <3>. QED
      BY <3>2, <3>4, <3>5, StatesMove
  <2>. QED
    BY <2>1, <2>2, RecordsOrGrounds
<1>. QED
  BY <1>1, <1>2, SerialWritesAreLegal, Invariance, PTL
     DEF Spec, StatusChangesAreLegal, IsPaymentLife, Life!Spec

(* One process leads every payment that life.                              *)
THEOREM PaymentLifeInOneProcess ==
  ASSUME OneProcess
  PROVE  Spec => IsPaymentLife
<1>1. NoOverlap
  BY DEF OneProcess, NoOverlap
<1>. QED
  BY <1>1, SerialWritesLeadTheLife, PTL

-----------------------------------------------------------------------------

(* The events a handler still has to mark differ from one another, and     *)
(* none of them has been processed.                                        *)
Fresh(handler) ==
  handler.pc \in WebhookSteps =>
    /\ handler.pc # "recover"
         => /\ inbox[handler.event].status # "PROCESSED"
            /\ \A row \in handler.todo: row.event # handler.event
    /\ \A row \in handler.todo: inbox[row.event].status # "PROCESSED"
    /\ \A row, other \in handler.todo: row.event = other.event => row = other

FreshEvents == \A w \in Workers: Fresh(job[w])

(* The events a handler holds: the one it is about to mark and the rest of *)
(* its batch.  No two handlers hold the same event.                        *)
Held(handler) ==
  {e \in Events:
     /\ handler.pc \in WebhookSteps
     /\ \/ handler.pc # "recover" /\ e = handler.event
        \/ \E row \in handler.todo: row.event = e}

NoSharedEvent ==
  \A v, w \in Workers: v # w => Held(job[v]) \cap Held(job[w]) = {}

LEMMA MarkedOnce ==
  ASSUME Inv, NEW w \in Workers, NEW status, Mark(w, status),
         Fresh(job[w]), job[w].pc \in WebhookSteps \ {"recover"}
  PROVE  Fresh(job[w])'
<1>0. PICK handler \in WebhookJobs: handler = job[w]
  BY HandlerKind
<1>1. job \in [Workers -> Jobs] /\ inbox \in [Events -> EventRows]
  BY DEF Inv, WorkersFit, TypeOK
<1>2. handler.event \in Events /\ \A row \in handler.todo: row.event \in Events
  BY <1>0 DEF WebhookJobs
<1>3. \A row \in handler.todo: inbox'[row.event] = inbox[row.event]
  BY <1>0, <1>1, <1>2 DEF Mark, Fresh
<1>4. CASE handler.todo = {}
  BY <1>0, <1>1, <1>4 DEF Mark, EndJob, Fresh, NoJob, WebhookSteps
<1>5. CASE handler.todo # {}
  <2>1. job'[w] = [handler EXCEPT !.pc = "recover"]
    BY <1>0, <1>1, <1>5 DEF Mark, Goto
  <2>2. job'[w].pc = "recover" /\ job'[w].todo = handler.todo
    BY <2>1 DEF WebhookJobs
  <2>3. /\ \A row \in handler.todo: inbox[row.event].status # "PROCESSED"
        /\ \A row, other \in handler.todo: row.event = other.event => row = other
    BY <1>0 DEF Fresh
  <2>. QED
    BY <1>3, <2>2, <2>3 DEF Fresh
<1>. QED
  BY <1>4, <1>5

LEMMA TakenFresh ==
  ASSUME Inv, NEW w \in Workers, NEW rows, TakeFrom(w, rows), UNCHANGED inbox,
         \A row \in rows: inbox[row.event].status # "PROCESSED",
         \A row, other \in rows: row.event = other.event => row = other
  PROVE  Fresh(job[w])'
<1>1. job \in [Workers -> Jobs]
  BY DEF Inv, WorkersFit
<1>2. PICK row \in rows:
        job' = [job EXCEPT ![w] = [pc |-> IF row.exhausted THEN "exhausted"
                                          ELSE "validate",
                                   event |-> row.event, todo |-> rows \ {row}]]
  BY DEF TakeFrom
<1>3. /\ job'[w].event = row.event /\ job'[w].todo = rows \ {row}
  BY <1>1, <1>2
<1>. QED
  BY <1>3 DEF Fresh

LEMMA WebhookFresh ==
  ASSUME Inv, NEW w \in Workers, Fresh(job[w]),
         \/ WebhookStep(w) \/ BeginRecover(w)
         \/ \E e \in sent: ReceiveEvent(w, e)
  PROVE  Fresh(job[w])'
<1>0. job \in [Workers -> Jobs] /\ inbox \in [Events -> EventRows]
  BY DEF Inv, WorkersFit, TypeOK
<1>1. CASE ValidateEvent(w)
  <2>1. PICK handler \in WebhookJobs: handler = job[w] /\ handler.pc = "validate"
    BY <1>1, HandlerKind DEF ValidateEvent, WebhookSteps
  <2>2. PICK pc \in {"apply", "reject"}: job'[w] = [handler EXCEPT !.pc = pc]
    BY <1>0, <1>1, <2>1 DEF ValidateEvent, Goto
  <2>3. job'[w].event = handler.event /\ job'[w].todo = handler.todo
    BY <2>2 DEF WebhookJobs
  <2>4. inbox' = inbox
    BY <1>1 DEF ValidateEvent
  <2>. QED
    BY <2>1, <2>3, <2>4 DEF Fresh, WebhookSteps
<1>2. CASE MarkProcessed(w) \/ MarkFailed(w) \/ MarkDeadLetter(w)
  BY <1>2, MarkedOnce DEF MarkProcessed, MarkFailed, MarkDeadLetter, WebhookSteps
<1>3. CASE RecoverNext(w)
  <2>1. job[w].pc \in WebhookSteps
    BY <1>3 DEF RecoverNext, WebhookSteps
  <2>. QED
    BY <1>3, <2>1, TakenFresh DEF RecoverNext, Fresh
<1>4. CASE BeginRecover(w)
  <2>. DEFINE rows == {[event |-> e, exhausted |-> inbox[e].attempts >= MaxRecoveries]:
                         e \in Unprocessed}
  <2>1. \A row \in rows: inbox[row.event].status # "PROCESSED"
    BY DEF Unprocessed
  <2>2. \A row, other \in rows: row.event = other.event => row = other
    OBVIOUS
  <2>3. TakeFrom(w, rows) /\ UNCHANGED inbox
    BY <1>4 DEF BeginRecover
  <2>. HIDE DEF rows
  <2>. QED
    BY <2>1, <2>2, <2>3, TakenFresh
<1>5. ASSUME NEW e \in sent, ReceiveEvent(w, e)
      PROVE  Fresh(job[w])'
  <2>1. e \in Events
    BY DEF Inv, TypeOK
  <2>2. /\ job'[w].event = e /\ job'[w].todo = {}
        /\ inbox'[e].status = "RECEIVED"
    BY <1>0, <1>5, <2>1 DEF ReceiveEvent, EventRows
  <2>3. /\ inbox'[job'[w].event].status # "PROCESSED"
        /\ \A row \in job'[w].todo: FALSE
    BY <2>2
  <2>. QED
    BY <2>3 DEF Fresh
<1>. QED
  BY <1>1, <1>2, <1>3, <1>4, <1>5 DEF WebhookStep

(* A dispatch goes on as a dispatch, or ends.                              *)
LEMMA DispatchStays ==
  ASSUME Inv, NEW w \in Workers, DispatchStep(w)
  PROVE  job'[w].pc \in DispatchSteps \cup {"none"}
<1>0. job \in [Workers -> Jobs]
  BY DEF Inv, WorkersFit
<1>1. job[w] \in DispatchJobs
  BY HandlerKind DEF DispatchSteps, DispatchStep, ConsumeToken, RetryPending,
     InsertPending, CreateSucceeds, CreateTimesOut, CreateIsDuplicate,
     CreateIsRejected, ReturnCreated, ReturnSettled
<1>2. job' = [job EXCEPT ![w] = NoJob]
        \/ \E pc \in DispatchSteps: job' = [job EXCEPT ![w].pc = pc]
  <2>1. CASE ConsumeToken(w) \/ RetryPending(w) \/ InsertPending(w)
    BY <2>1 DEF ConsumeToken, RetryPending, InsertPending, Goto, DispatchSteps
  <2>2. ASSUME NEW want, NEW oid, Settle(w, want, oid)
        PROVE  job' = [job EXCEPT ![w].pc = "settled"] /\ "settled" \in DispatchSteps
    BY <2>2 DEF Settle, Goto, DispatchSteps
  <2>3. CASE CreateTimesOut(w) \/ CreateIsRejected(w)
    BY <2>2, <2>3 DEF CreateTimesOut, CreateIsRejected
  <2>4. CASE ReturnCreated(w) \/ ReturnSettled(w)
    BY <2>2, <2>4 DEF ReturnCreated, ReturnSettled, EndJob
  <2>5. CASE CreateSucceeds(w) \/ CreateIsDuplicate(w)
    BY <2>5 DEF CreateSucceeds, CreateIsDuplicate, Goto, DispatchSteps
  <2>. QED
    BY <2>1, <2>3, <2>4, <2>5 DEF DispatchStep
<1>. QED
  BY <1>0, <1>1, <1>2 DEF DispatchJobs, NoJob

(* The other steps of a worker leave it in no webhook handler, or as it is.*)
LEMMA OtherFresh ==
  ASSUME Inv, NEW w \in Workers, Fresh(job[w]), WorkerMoves(w), UNCHANGED inbox,
         ~WebhookStep(w), ~BeginRecover(w), \A e \in sent: ~ReceiveEvent(w, e)
  PROVE  Fresh(job[w])'
<1>0. job \in [Workers -> Jobs]
  BY DEF Inv, WorkersFit
<1>1. job'[w] = job[w] => Fresh(job[w])'
  BY DEF Fresh
<1>2. job'[w].pc \notin WebhookSteps => Fresh(job[w])'
  BY DEF Fresh
<1>3. CASE DispatchStep(w)
  BY <1>2, <1>3, DispatchStays DEF DispatchSteps, WebhookSteps
<1>4. CASE ReconcileStep(w)
  <2>1. PICK handler \in ReconcileJobs: handler = job[w]
    BY <1>4, HandlerKind DEF ReconcileSteps, ReconcileStep, CountAttempt, Inspect,
       FetchUnusable, FetchOrder, EnqueueDeadLetter, NextRow
  <2>2. CASE NextRow(w)
    BY <1>0, <1>2, <2>2 DEF NextRow, EndJob, NoJob, WebhookSteps
  <2>3. CASE Inspect(w)
    BY <1>0, <1>2, <2>1, <2>3 DEF Inspect, ReconcileJobs, WebhookSteps
  <2>4. CASE CountAttempt(w) \/ FetchUnusable(w) \/ FetchOrder(w) \/ EnqueueDeadLetter(w)
    <3>1. PICK pc \in ReconcileSteps: job'[w] = [handler EXCEPT !.pc = pc]
      BY <1>0, <2>1, <2>4 DEF CountAttempt, FetchUnusable, FetchOrder,
         EnqueueDeadLetter, Goto, ReconcileSteps
    <3>2. job'[w].pc = pc
      BY <3>1 DEF ReconcileJobs
    <3>. QED
      BY <1>2, <3>2 DEF ReconcileSteps, WebhookSteps
  <2>. QED
    BY <1>4, <2>2, <2>3, <2>4 DEF ReconcileStep
<1>5. CASE TransitionStep(w)
  BY <1>1, <1>5 DEF TransitionStep, RejectCall, Reaffirm, RefuseTransition,
     AllowTransition, Backfill, WriteStatus
<1>6. CASE Crash(w)
  BY <1>0, <1>2, <1>6 DEF Crash, EndJob, NoJob, WebhookSteps
<1>7. ASSUME NEW t \in Tokens, BeginDispatch(w, t) \/ BeginReconcile(w, t)
      PROVE  Fresh(job[w])'
  BY <1>0, <1>2, <1>7 DEF BeginDispatch, BeginReconcile, WebhookSteps
<1>8. CASE BeginSweep(w) \/ BeginStaleSweep(w)
  BY <1>0, <1>2, <1>8 DEF BeginSweep, BeginStaleSweep, BeginBatch, WebhookSteps
<1>. QED
  BY <1>3, <1>4, <1>5, <1>6, <1>7, <1>8 DEF WorkerMoves

(* A step of one worker leaves the handlers of the others as they are.     *)
LEMMA OthersWait ==
  ASSUME Inv, NEW v \in Workers, NEW w \in Workers, v # w, WorkerMoves(v)
  PROVE  job'[w] = job[w]
<1>. job \in [Workers -> Jobs]
  BY DEF Inv, WorkersFit
<1>1. CASE DispatchStep(v)
  BY <1>1 DEF DispatchStep, ConsumeToken, RetryPending, InsertPending, CreateSucceeds,
     CreateTimesOut, CreateIsDuplicate, CreateIsRejected, ReturnCreated, ReturnSettled,
     Settle, Goto, EndJob
<1>2. CASE ReconcileStep(v)
  BY <1>2 DEF ReconcileStep, CountAttempt, Inspect, FetchUnusable, FetchOrder,
     EnqueueDeadLetter, NextRow, Goto, EndJob
<1>3. CASE WebhookStep(v) \/ BeginRecover(v)
  BY <1>3 DEF WebhookStep, BeginRecover, ValidateEvent, MarkProcessed, MarkFailed,
     MarkDeadLetter, Mark, RecoverNext, TakeFrom, Goto, EndJob
<1>4. CASE TransitionStep(v)
  BY <1>4 DEF TransitionStep, RejectCall, Reaffirm, RefuseTransition,
     AllowTransition, Backfill, WriteStatus
<1>5. CASE Crash(v) \/ BeginSweep(v) \/ BeginStaleSweep(v)
  BY <1>5 DEF Crash, EndJob, BeginSweep, BeginStaleSweep, BeginBatch
<1>6. ASSUME NEW t \in Tokens, BeginDispatch(v, t) \/ BeginReconcile(v, t)
      PROVE  job'[w] = job[w]
  BY <1>6 DEF BeginDispatch, BeginReconcile
<1>7. ASSUME NEW e \in sent, ReceiveEvent(v, e)
      PROVE  job'[w] = job[w]
  BY <1>7 DEF ReceiveEvent
<1>. QED
  BY <1>1, <1>2, <1>3, <1>4, <1>5, <1>6, <1>7 DEF WorkerMoves

(* A handler keeps its events fresh when another one marks its own.        *)
LEMMA SparedFresh ==
  ASSUME Inv, NoSharedEvent, NEW v \in Workers, NEW w \in Workers, v # w,
         Fresh(job[w]),
         \/ \E e \in sent: ReceiveEvent(v, e)
         \/ MarkProcessed(v) \/ MarkFailed(v) \/ MarkDeadLetter(v)
  PROVE  Fresh(job[w])'
<1>0. /\ job \in [Workers -> Jobs] /\ inbox \in [Events -> EventRows]
      /\ sent \subseteq Events
  BY DEF Inv, WorkersFit, TypeOK
<1>1. WorkerMoves(v)
  BY DEF WorkerMoves, WebhookStep
<1>2. job'[w] = job[w]
  BY <1>1, OthersWait
<1>3. ASSUME NEW e \in Held(job[w]), inbox[e].status # "PROCESSED"
      PROVE  inbox'[e].status # "PROCESSED"
  <2>0. e \in Events
    BY DEF Held
  <2>1. ASSUME NEW f \in sent, ReceiveEvent(v, f)
        PROVE  inbox'[e].status # "PROCESSED"
    BY <1>0, <1>3, <2>0, <2>1 DEF ReceiveEvent, EventRows
  <2>2. CASE MarkProcessed(v) \/ MarkFailed(v) \/ MarkDeadLetter(v)
    <3>1. job[v].pc \in WebhookSteps \ {"recover"}
      BY <2>2 DEF MarkProcessed, MarkFailed, MarkDeadLetter, WebhookSteps
    <3>2. job[v].event \in Events
      BY <3>1, HandlerKind DEF WebhookJobs
    <3>3. job[v].event \in Held(job[v])
      BY <3>1, <3>2 DEF Held
    <3>4. e # job[v].event
      BY <3>3 DEF NoSharedEvent
    <3>5. inbox'[e] = inbox[e]
      BY <1>0, <2>0, <2>2, <3>2, <3>4 DEF MarkProcessed, MarkFailed, MarkDeadLetter, Mark
    <3>. QED
      BY <1>3, <3>5
  <2>. QED
    BY <2>1, <2>2
<1>4. CASE job[w].pc \in WebhookSteps
  <2>1. PICK handler \in WebhookJobs: handler = job[w]
    BY <1>4, HandlerKind
  <2>2. handler.event \in Events /\ \A row \in handler.todo: row.event \in Events
    BY <2>1 DEF WebhookJobs
  <2>3. handler.pc # "recover" => handler.event \in Held(job[w])
    BY <1>4, <2>1, <2>2 DEF Held
  <2>4. \A row \in handler.todo: row.event \in Held(job[w])
    BY <1>4, <2>1, <2>2 DEF Held
  <2>. QED
    BY <1>2, <1>3, <1>4, <2>1, <2>3, <2>4 DEF Fresh
<1>. QED
  BY <1>2, <1>4 DEF Fresh

LEMMA FreshStep ==
  ASSUME NoSharedEvent, Inv, FreshEvents, [Next]_vars
  PROVE  FreshEvents'
<1>. SUFFICES ASSUME NEW w \in Workers
              PROVE  Fresh(job[w])'
  BY DEF FreshEvents, Fresh
<1>0. Fresh(job[w])
  BY DEF FreshEvents
<1>1. CASE WebhookStep(w) \/ BeginRecover(w) \/ \E e \in sent: ReceiveEvent(w, e)
  BY <1>0, <1>1, WebhookFresh
<1>2. ASSUME NEW v \in Workers,
             \/ \E e \in sent: ReceiveEvent(v, e)
             \/ MarkProcessed(v) \/ MarkFailed(v) \/ MarkDeadLetter(v)
      PROVE  Fresh(job[w])'
  <2>1. CASE v = w
    BY <1>1, <1>2, <2>1 DEF WebhookStep
  <2>. QED
    BY <1>0, <1>2, <2>1, SparedFresh
<1>3. CASE UNCHANGED inbox /\ UNCHANGED <<txn, job>>
  BY <1>0, <1>3 DEF Fresh
<1>4. ASSUME NEW v \in Workers, WorkerMoves(v), UNCHANGED inbox
      PROVE  Fresh(job[w])'
  <2>1. CASE v = w
    BY <1>0, <1>1, <1>4, <2>1, OtherFresh
  <2>2. CASE v # w
    <3>1. job'[w] = job[w]
      BY <1>4, <2>2, OthersWait
    <3>. QED
      BY <1>0, <1>4, <3>1 DEF Fresh
  <2>. QED
    BY <2>1, <2>2
<1>. QED
  BY <1>2, <1>3, <1>4, InboxSteps, WorkerSteps

(* A processed event keeps its mark unless two handlers hold it at once:   *)
(* it is delivered again, swept up by recovery and lost on the way without *)
(* ever being applied or marked a second time.                             *)
THEOREM ApartHandlersProcessOnce ==
  Spec => ([]NoSharedEvent => ProcessedStaysProcessed)
<1>1. Init => FreshEvents
  BY DEF Init, InitLedger, FreshEvents, Fresh, NoJob, WebhookSteps
<1>2. NoSharedEvent /\ Inv /\ FreshEvents /\ [Next]_vars => FreshEvents'
  BY FreshStep
<1>3. ASSUME Inv, FreshEvents, [Next]_vars,
             NEW e \in Events, inbox[e].status = "PROCESSED"
      PROVE  inbox'[e] = inbox[e]
  <2>0. inbox \in [Events -> EventRows] /\ sent \subseteq Events
    BY <1>3 DEF Inv, TypeOK
  <2>1. ASSUME NEW w \in Workers, NEW f \in sent, ReceiveEvent(w, f)
        PROVE  inbox'[e] = inbox[e]
    BY <1>3, <2>0, <2>1 DEF ReceiveEvent
  <2>2. ASSUME NEW w \in Workers, MarkProcessed(w) \/ MarkFailed(w) \/ MarkDeadLetter(w)
        PROVE  inbox'[e] = inbox[e]
    <3>1. job[w].pc \in WebhookSteps \ {"recover"}
      BY <2>2 DEF MarkProcessed, MarkFailed, MarkDeadLetter, WebhookSteps
    <3>2. job[w].event # e
      BY <1>3, <3>1 DEF FreshEvents, Fresh
    <3>. QED
      BY <2>0, <2>2, <3>2 DEF MarkProcessed, MarkFailed, MarkDeadLetter, Mark
  <2>. QED
    BY <1>3, <2>1, <2>2, InboxSteps
<1>4. Inv /\ FreshEvents /\ [Next]_vars
        => [\A e \in Events:
              inbox[e].status = "PROCESSED" => inbox'[e] = inbox[e]]_vars
  BY <1>3
<1>. QED
  BY <1>1, <1>2, <1>4, Invariance, PTL DEF Spec, ProcessedStaysProcessed

(* In one process no second handler holds anything.                        *)
THEOREM ProcessedOnce ==
  ASSUME OneProcess
  PROVE  Spec => ProcessedStaysProcessed
<1>1. NoSharedEvent
  BY DEF OneProcess, NoSharedEvent
<1>. QED
  BY <1>1, ApartHandlersProcessOnce, PTL
=============================================================================
