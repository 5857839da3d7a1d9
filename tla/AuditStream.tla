----------------------------- MODULE AuditStream -----------------------------
(***************************************************************************)
(* The audit log and its server-sent event stream (audit/router.py).  A    *)
(* row gets its id when it is inserted and can be seen once its            *)
(* transaction commits.  A stream starts behind the newest row, polls for  *)
(* rows with larger ids than the last it has emitted, and emits them one   *)
(* by one; whoever reconnects starts afresh.                               *)
(***************************************************************************)
EXTENDS Integers, Sequences, FiniteSets

CONSTANTS
  Writers,   \* transactions that can be open on the audit log at one time
  Streams,   \* event streams
  Batch,     \* LIMIT 20
  MaxRows    \* bound on the rows of the log

(* Handlers have no await inside a transaction, so that one process has    *)
(* one transaction open.  With two, a row could commit behind a cursor.    *)
ASSUME StreamAssumption ==
  /\ \A v, w \in Writers: v = w
  /\ Batch \in Nat \ {0}
  /\ MaxRows \in Nat

VARIABLES
  log,      \* log[r]: state of the row with id r
  writing,  \* writing[w]: the row of w's open transaction, 0 if there is none
  stream    \* stream[s]: the generator of the connection s

auditVars == <<log, writing, stream>>

Rows == 1..MaxRows
RowStates == {"open", "committed", "gone"}
Committed == {r \in DOMAIN log: log[r] = "committed"}

(* origin: last_id at the start; got (history): the rows emitted.  Whether *)
(* they are emitted complete or sanitized is left out.                     *)
Generators == [open: {TRUE}, origin: Nat, last: Nat,
               todo: SUBSET Rows, got: SUBSET Rows]
Closed == [open |-> FALSE]

IsOpen(s) == stream[s].open

InitAudit ==
  /\ log = <<>>
  /\ writing = [w \in Writers |-> 0]
  /\ stream = [s \in Streams |-> Closed]

-----------------------------------------------------------------------------

(* INSERT INTO audit_log inside a transaction of any component.            *)
InsertRow(w) ==
  /\ writing[w] = 0
  /\ Len(log) < MaxRows
  /\ log' = Append(log, "open")
  /\ writing' = [writing EXCEPT ![w] = Len(log) + 1]
  /\ UNCHANGED stream

(* A rolled back transaction leaves a gap in the ids.                      *)
EndTransaction(w, state) ==
  /\ writing[w] # 0
  /\ log' = [log EXCEPT ![writing[w]] = state]
  /\ writing' = [writing EXCEPT ![w] = 0]
  /\ UNCHANGED stream

(* The generator starts with SELECT MAX(id).                               *)
OpenStream(s) ==
  /\ ~IsOpen(s)
  /\ \E top \in Committed \cup {0}:
       /\ \A r \in Committed: r <= top
       /\ stream' = [stream EXCEPT ![s] = [open |-> TRUE, origin |-> top, last |-> top,
                                           todo |-> {}, got |-> {}]]
  /\ UNCHANGED <<log, writing>>

(* SELECT ... WHERE id > last_id ORDER BY id ASC LIMIT 20.                 *)
NewRowsLate(s) == {r \in Committed: r > stream[s].last + 1}   \* mutant: the next id is skipped

NewRows(s) == {r \in Committed: r > stream[s].last}

NewestRows(rows) == {r \in rows: Cardinality({q \in rows: q > r}) < Batch}   \* mutant: ORDER BY id DESC

FirstRows(rows) == {r \in rows: Cardinality({q \in rows: q < r}) < Batch}

Poll(s) ==
  /\ IsOpen(s)
  /\ stream[s].todo = {}
  /\ NewRows(s) # {}
  /\ stream' = [stream EXCEPT ![s].todo = FirstRows(NewRows(s))]
  /\ UNCHANGED <<log, writing>>

Emit(s) ==
  /\ IsOpen(s)
  /\ \E r \in stream[s].todo:
       /\ \A q \in stream[s].todo: r <= q
       /\ stream' = [stream EXCEPT ![s].todo = stream[s].todo \ {r},
                                   ![s].got = stream[s].got \cup {r},
                                   ![s].last = r]
  /\ UNCHANGED <<log, writing>>

(* The client leaves, or the generator fails.                              *)
CloseStream(s) ==
  /\ IsOpen(s)
  /\ stream' = [stream EXCEPT ![s] = Closed]
  /\ UNCHANGED <<log, writing>>

(* The process is restarted: open transactions are rolled back.            *)
CloseAll ==
  /\ log' = [r \in DOMAIN log |-> IF log[r] = "open" THEN "gone" ELSE log[r]]
  /\ writing' = [w \in Writers |-> 0]
  /\ stream' = [s \in Streams |-> Closed]

-----------------------------------------------------------------------------

AuditTypeOK ==
  /\ log \in Seq(RowStates) /\ Len(log) <= MaxRows
  /\ writing \in [Writers -> Rows \cup {0}]
  /\ stream \in [Streams -> Generators \cup {Closed}]

(* A stream that has come to row n has emitted exactly the rows up to n    *)
(* that were committed since it started: none skipped by the batches, the  *)
(* gaps of rolled back ids or a commit behind the cursor, and none twice.  *)
NothingSkipped ==
  \A s \in Streams: IsOpen(s) =>
    stream[s].got = {r \in Committed: stream[s].origin < r /\ r <= stream[s].last}

(* Every row committed while a stream is open is emitted, unless the       *)
(* stream is closed first.                                                 *)
EveryRowArrives ==
  \A s \in Streams, r \in Rows:
    IsOpen(s) /\ r \in Committed /\ stream[s].origin < r
      ~> (IsOpen(s) => r \in stream[s].got)
=============================================================================
