---------------------------- MODULE PaymentLedger ----------------------------
(***************************************************************************)
(* The payment_records table and the one function through which its status *)
(* changes: transition_payment_state of payment/state_machine.py.          *)
(*                                                                         *)
(* The function reads the row in one transaction and writes it in another, *)
(* and its UPDATE does not look at the status again.  Here too the read    *)
(* and the write are separate steps, between which other workers run.      *)
(***************************************************************************)
EXTENDS Integers

CONSTANTS
  Tokens,       \* capability tokens; one gives one idempotency key, one record
  Workers,      \* handlers that can run at the same time
  MaxPays,      \* payments a customer makes on one order
  MaxAttempts   \* settings.max_reconciliation_attempts

ASSUME LedgerAssumption == MaxPays \in Nat /\ MaxAttempts \in Nat \ {0}

VARIABLES
  rec,   \* rec[t] is the payment record of token t
  txn,   \* txn[w] is the transition_payment_state call worker w is in
  job    \* job[w] is the handler worker w is running

ledgerVars == <<rec, txn, job>>

-----------------------------------------------------------------------------

LegalTransitions ==
  [PENDING     |-> {"CREATED", "FAILED", "RECONCILING", "DEAD_LETTER"},
   CREATED     |-> {"AUTHORIZED", "CAPTURED", "FAILED", "RECONCILING",
                    "DEAD_LETTER"},
   AUTHORIZED  |-> {"CAPTURED", "FAILED", "RECONCILING", "DEAD_LETTER"},
   RECONCILING |-> {"CREATED", "AUTHORIZED", "CAPTURED", "FAILED",
                    "DEAD_LETTER"},
   CAPTURED    |-> {},
   FAILED      |-> {"RECONCILING", "DEAD_LETTER"},
   DEAD_LETTER |-> {}]

Statuses == DOMAIN LegalTransitions

IsLegal(from, to) == from = to \/ to \in LegalTransitions[from]

PayIds == 1..MaxPays

(* NULL in the two id columns.  An order id is one the gateway gave out    *)
(* for this record, or one simulated by the dispatch.                      *)
NoPay == 0
NoOrder == "no order"
OrderIds == {NoOrder, "real", "simulated"}

(* attempts is only ever compared with MaxAttempts and stops there.        *)
Records == [status: Statuses \cup {"absent"}, oid: OrderIds,
            pid: PayIds \cup {NoPay}, attempts: 0..MaxAttempts]

NoRecord == [status |-> "absent", oid |-> NoOrder, pid |-> NoPay, attempts |-> 0]

Exists(t) == rec[t].status # "absent"

OneMore(n) == IF n < MaxAttempts THEN n + 1 ELSE n

(* Calls of transition_payment_state, by record id or by order id.         *)
Requests == [step: {"read", "write", "backfill"}, by: {"id", "order"},
             rec: Tokens, want: Statuses, oid: OrderIds,
             pid: PayIds \cup {NoPay}, counted: BOOLEAN]

Idle == [step |-> "idle"]
Return == [step |-> "returned"]
Raise == [step |-> "raised"]

ById(t, want, oid, counted) ==
  [step |-> "read", by |-> "id", rec |-> t, want |-> want, oid |-> oid,
   pid |-> NoPay, counted |-> counted]

ByOrder(t, want, pid) ==
  [step |-> "read", by |-> "order", rec |-> t, want |-> want, oid |-> "real",
   pid |-> pid, counted |-> FALSE]

Call(w, request) == txn' = [txn EXCEPT ![w] = request]
Becomes(w, state) == txn' = [txn EXCEPT ![w] = state]

Returned(w) == txn[w] = Return
Finished(w) == txn[w] \in {Return, Raise}

NoJob == [pc |-> "none"]
Free(w) == job[w] = NoJob
Goto(w, label) == job' = [job EXCEPT ![w].pc = label]

InitLedger ==
  /\ rec = [t \in Tokens |-> NoRecord]
  /\ txn = [w \in Workers |-> Idle]
  /\ job = [w \in Workers |-> NoJob]

-----------------------------------------------------------------------------

Found(call) == IF call.by = "id" THEN Exists(call.rec)
               ELSE rec[call.rec].oid = "real"

PaymentIdConflicts(call) ==
  /\ call.pid # NoPay
  /\ rec[call.rec].pid # NoPay
  /\ call.pid # rec[call.rec].pid

(* The read: no such record, or its payment id is another one.             *)
RejectCall(w) ==
  LET call == txn[w] IN
  /\ call.step = "read"
  /\ ~Found(call) \/ PaymentIdConflicts(call)
  /\ Becomes(w, Raise)
  /\ UNCHANGED <<rec, job>>

(* The status is the one wanted: only ids that are NULL are filled in.     *)
Reaffirm(w) ==
  LET call == txn[w]  row == rec[call.rec] IN
  /\ call.step = "read"
  /\ Found(call) /\ ~PaymentIdConflicts(call)
  /\ row.status = call.want
  /\ IF \/ call.pid # NoPay /\ row.pid = NoPay
        \/ call.oid # NoOrder /\ row.oid = NoOrder
     THEN Becomes(w, [call EXCEPT !.step = "backfill"])
     ELSE Becomes(w, Return)
  /\ UNCHANGED <<rec, job>>

RefuseTransition(w) ==
  LET call == txn[w]  row == rec[call.rec] IN
  /\ call.step = "read"
  /\ Found(call) /\ ~PaymentIdConflicts(call)
  /\ ~IsLegal(row.status, call.want)
  /\ Becomes(w, Raise)
  /\ UNCHANGED <<rec, job>>

AllowAnyTransition(w) ==   \* mutant: LEGAL_TRANSITIONS is not consulted
  LET call == txn[w]  row == rec[call.rec] IN
  /\ call.step = "read"
  /\ Found(call) /\ ~PaymentIdConflicts(call)
  /\ row.status # call.want
  /\ Becomes(w, [call EXCEPT !.step = "write"])
  /\ UNCHANGED <<rec, job>>

AllowTransition(w) ==
  LET call == txn[w]  row == rec[call.rec] IN
  /\ call.step = "read"
  /\ Found(call) /\ ~PaymentIdConflicts(call)
  /\ row.status # call.want /\ IsLegal(row.status, call.want)
  /\ Becomes(w, [call EXCEPT !.step = "write"])
  /\ UNCHANGED <<rec, job>>

(* COALESCE(column, new): a column that is not NULL is kept.               *)
OverwriteIds(row, call) ==   \* mutant: SET without COALESCE
  [row EXCEPT !.oid = call.oid, !.pid = call.pid]

FillIds(row, call) ==
  [row EXCEPT !.oid = IF row.oid = NoOrder THEN call.oid ELSE row.oid,
              !.pid = IF row.pid = NoPay THEN call.pid ELSE row.pid]

Backfill(w) ==
  LET call == txn[w] IN
  /\ call.step = "backfill"
  /\ rec' = [rec EXCEPT ![call.rec] = FillIds(rec[call.rec], call)]
  /\ Becomes(w, Return)
  /\ UNCHANGED job

(* UPDATE ... WHERE id = ...: whatever the status has become meanwhile.    *)
WriteStatus(w) ==
  LET call == txn[w]  row == rec[call.rec] IN
  /\ call.step = "write"
  /\ rec' = [rec EXCEPT ![call.rec] =
               [FillIds(row, call) EXCEPT
                  !.status = call.want,
                  !.attempts = IF call.counted THEN OneMore(row.attempts)
                               ELSE row.attempts]]
  /\ Becomes(w, Return)
  /\ UNCHANGED job

TransitionStep(w) ==
  \/ RejectCall(w)
  \/ Reaffirm(w)
  \/ RefuseTransition(w)
  \/ AllowTransition(w)
  \/ Backfill(w)
  \/ WriteStatus(w)

(* The handler returns; what its last transition left behind is dropped.   *)
EndJob(w) ==
  /\ job' = [job EXCEPT ![w] = NoJob]
  /\ txn' = [txn EXCEPT ![w] = Idle]

(* The process is lost between two transactions or gateway calls.          *)
Crash(w) ==
  /\ ~Free(w)
  /\ EndJob(w)
  /\ UNCHANGED rec
=============================================================================
