------------------------------ MODULE Dispatch ------------------------------
(***************************************************************************)
(* dispatch_payment of payment/service.py: a capability token is consumed, *)
(* a PENDING record is written, an order is created at the gateway, and    *)
(* the record becomes CREATED or FAILED.                                   *)
(***************************************************************************)
EXTENDS Gateway

CONSTANT SimulationEnabled   \* settings.payment_simulation_enabled

ASSUME DispatchAssumption == SimulationEnabled \in BOOLEAN

VARIABLE tok   \* tok[t]: whether t has expired, whether it has been consumed

TokenStates == [expired: BOOLEAN, consumed: BOOLEAN]

DispatchSteps == {"consume", "retry", "insert", "create", "created", "settled"}
DispatchJobs == [pc: DispatchSteps, rec: Tokens]

InitDispatch == tok = [t \in Tokens |-> [expired |-> FALSE, consumed |-> FALSE]]

ExpireToken(t) ==
  /\ ~tok[t].expired
  /\ tok' = [tok EXCEPT ![t].expired = TRUE]
  /\ UNCHANGED <<ledgerVars, gatewayVars>>

(* Steps 1 to 3a: the token verifies and matches the request, and there is *)
(* no record with an order id to return.  (A refused request and the       *)
(* return of an existing order change nothing and are not steps.  A record *)
(* never loses its order id, so the look-up may be taken together with the *)
(* verification.)                                                          *)
BeginDispatch(w, t) ==
  /\ Free(w)
  /\ ~tok[t].expired
  /\ rec[t].oid = NoOrder
  /\ job' = [job EXCEPT ![w] = [pc |-> "consume", rec |-> t]]
  /\ UNCHANGED <<rec, txn, tok, gatewayVars>>

(* The conditional UPDATE of consume_capability_token.                     *)
ConsumeTokenSkips(w) ==   \* mutant: the gateway is called before PENDING is written
  LET t == job[w].rec IN
  /\ job[w].pc = "consume"
  /\ IF tok[t].consumed \/ tok[t].expired
     THEN Goto(w, "retry") /\ UNCHANGED tok
     ELSE Goto(w, "create") /\ tok' = [tok EXCEPT ![t].consumed = TRUE]
  /\ UNCHANGED <<rec, txn, gatewayVars>>

ConsumeToken(w) ==
  LET t == job[w].rec IN
  /\ job[w].pc = "consume"
  /\ IF tok[t].consumed \/ tok[t].expired
     THEN Goto(w, "retry") /\ UNCHANGED tok
     ELSE Goto(w, "insert") /\ tok' = [tok EXCEPT ![t].consumed = TRUE]
  /\ UNCHANGED <<rec, txn, gatewayVars>>

(* Not consumed by this call: go on only if the record is already there.   *)
RetryAlways(w) ==   \* mutant: goes on without a record
  /\ job[w].pc = "retry"
  /\ Goto(w, "insert")
  /\ UNCHANGED <<rec, txn, tok, gatewayVars>>

RetryPending(w) ==
  /\ job[w].pc = "retry"
  /\ IF Exists(job[w].rec) THEN Goto(w, "insert")
     ELSE job' = [job EXCEPT ![w] = NoJob]
  /\ UNCHANGED <<rec, txn, tok, gatewayVars>>

(* INSERT ... ON CONFLICT (idempotency_key) DO NOTHING.                    *)
InsertPending(w) ==
  LET t == job[w].rec IN
  /\ job[w].pc = "insert"
  /\ rec' = IF Exists(t) THEN rec
            ELSE [rec EXCEPT ![t] = [NoRecord EXCEPT !.status = "PENDING"]]
  /\ Goto(w, "create")
  /\ UNCHANGED <<txn, tok, gatewayVars>>

(* order.create with the idempotency key as receipt: the gateway creates   *)
(* the order unless it has one for this receipt.                           *)
NewOrder(t) ==
  /\ order[t] = "none"
  /\ order' = [order EXCEPT ![t] = "created"]
  /\ UNCHANGED <<pay, sent>>

Settle(w, want, oid) ==
  /\ Goto(w, "settled")
  /\ Call(w, ById(job[w].rec, want, oid, TRUE))

CreateSucceeds(w) ==
  /\ job[w].pc = "create"
  /\ NewOrder(job[w].rec)
  /\ Goto(w, "created")
  /\ Call(w, ById(job[w].rec, "CREATED", "real", TRUE))
  /\ UNCHANGED <<rec, tok>>

(* The response is lost, or the request is: both are the same exception.   *)
CreateTimesOutWithId(w) ==   \* mutant: records an order id it never saw
  /\ job[w].pc = "create"
  /\ NewOrder(job[w].rec) \/ UNCHANGED gatewayVars
  /\ Settle(w, "FAILED", "real")
  /\ UNCHANGED <<rec, tok>>

CreateTimesOut(w) ==
  /\ job[w].pc = "create"
  /\ NewOrder(job[w].rec) \/ UNCHANGED gatewayVars
  /\ Settle(w, "FAILED", NoOrder)
  /\ UNCHANGED <<rec, tok>>

(* "Duplicate request": reported as success, the record is not touched.    *)
CreateIsDuplicateState(w) ==   \* mutant: the response status is persisted
  /\ job[w].pc = "create"
  /\ order[job[w].rec] # "none"
  /\ Settle(w, "DUPLICATE", NoOrder)
  /\ UNCHANGED <<rec, tok, gatewayVars>>

CreateIsDuplicate(w) ==
  /\ job[w].pc = "create"
  /\ order[job[w].rec] # "none"
  /\ job' = [job EXCEPT ![w] = NoJob]
  /\ UNCHANGED <<rec, txn, tok, gatewayVars>>

(* Any other BadRequestError: a simulated order, if that is enabled.       *)
CreateIsRejected(w) ==
  /\ job[w].pc = "create"
  /\ order[job[w].rec] = "none"
  /\ IF SimulationEnabled THEN Settle(w, "CREATED", "simulated")
     ELSE Settle(w, "FAILED", NoOrder)
  /\ UNCHANGED <<rec, tok, gatewayVars>>

(* The CREATED transition is inside the try block: if it raises, the       *)
(* generic except clause tries to make the record FAILED.                  *)
ReturnCreated(w) ==
  /\ job[w].pc = "created"
  /\ Finished(w)
  /\ IF Returned(w) THEN EndJob(w) ELSE Settle(w, "FAILED", NoOrder)
  /\ UNCHANGED <<rec, tok, gatewayVars>>

(* The other transitions are in except clauses: a raise is a 500.          *)
ReturnSettled(w) ==
  /\ job[w].pc = "settled"
  /\ Finished(w)
  /\ EndJob(w)
  /\ UNCHANGED <<rec, tok, gatewayVars>>

DispatchStep(w) ==
  \/ ConsumeToken(w)
  \/ RetryPending(w)
  \/ InsertPending(w)
  \/ CreateSucceeds(w)
  \/ CreateTimesOut(w)
  \/ CreateIsDuplicate(w)
  \/ CreateIsRejected(w)
  \/ ReturnCreated(w)
  \/ ReturnSettled(w)
=============================================================================
