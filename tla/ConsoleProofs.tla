---------------------------- MODULE ConsoleProofs ----------------------------
(***************************************************************************)
(* Proofs about OperatorConsole, for every window, limit, batch size,      *)
(* lifetime and number of streams and tickets: its types, the rate that    *)
(* the limiter admits, the completeness of an event stream, and the single *)
(* use of a stream ticket.                                                 *)
(***************************************************************************)
EXTENDS OperatorConsole, TLAPS, FiniteSetTheorems, SequenceTheorems

(* What a step does to the limiter.                                        *)
RateMoves ==
  \/ (\E limit \in Limits: Admit(limit) \/ Refuse(limit)) /\ UNCHANGED now
  \/ ForgetRequests /\ UNCHANGED now
  \/ Tick /\ UNCHANGED rateVars
  \/ UNCHANGED <<now, rateVars>>

LEMMA RateStep == ASSUME [Next]_vars PROVE RateMoves
BY DEF Next, Operator, Login, LoginFails, LoginThrottled, MintTicket, Logging,
       Subscribe, SubscribeWithTicket, SubscribeWithoutTicket, Serve, Restart,
       RateMoves, vars

(* What a step does to the log and the streams.                            *)
AuditMoves ==
  \/ \E w \in Writers:
       InsertRow(w) \/ \E state \in {"committed", "gone"}: EndTransaction(w, state)
  \/ \E s \in Streams: OpenStream(s) \/ Poll(s) \/ Emit(s) \/ CloseStream(s)
  \/ CloseAll
  \/ UNCHANGED auditVars

LEMMA AuditStep == ASSUME [Next]_vars PROVE AuditMoves
BY DEF Next, Operator, Login, LoginFails, LoginThrottled, MintTicket, Logging,
       Subscribe, SubscribeWithTicket, SubscribeWithoutTicket, Serve, Restart,
       AuditMoves, vars

-----------------------------------------------------------------------------
(* The limiter.                                                            *)

(* Every request that still counts is remembered.                          *)
RateInv ==
  /\ RateTypeOK
  /\ \A n \in 1..Len(admitted): now - admitted[n].at < Window => n \in kept
  /\ WithinRate

LEMMA RateInvStep ==
  ASSUME RateInv, RateMoves
  PROVE  RateInv'
<1>. USE RateAssumption
<1>0. /\ now \in Nat /\ Window \in Nat /\ MaxTime \in Nat
      /\ admitted \in Seq(Admissions) /\ Len(admitted) \in Nat
      /\ kept \subseteq 1..Len(admitted)
      /\ \A n \in 1..Len(admitted): /\ admitted[n] \in Admissions
                                    /\ admitted[n].at \in Nat /\ admitted[n].limit \in Nat
  <2>1. now \in Nat /\ admitted \in Seq(Admissions) /\ kept \subseteq 1..Len(admitted)
    BY DEF RateInv, RateTypeOK
  <2>2. Len(admitted) \in Nat
    BY <2>1, LenProperties
  <2>3. \A n \in 1..Len(admitted): admitted[n] \in Admissions
    BY <2>1, ElementOfSeq
  <2>4. \A row \in Admissions: row.at \in Nat /\ row.limit \in Nat
    <3>1. \A row \in Admissions: row.at \in 0..MaxTime /\ row.limit \in Limits
      BY DEF Admissions
    <3>2. 0..MaxTime \subseteq Nat /\ Limits \subseteq Nat
      OBVIOUS
    <3>. QED
      BY <3>1, <3>2, Zenon
  <2>. QED
    BY <2>1, <2>2, <2>3, <2>4
<1>1. ASSUME NEW limit \in Limits, Admit(limit), UNCHANGED now
      PROVE  RateInv'
  <2>6. PICK n \in Nat: n = Len(admitted) + 1
    BY <1>0
  <2>5. PICK new \in Admissions: new = [at |-> now, limit |-> limit]
    BY DEF RateInv, RateTypeOK, Admissions
  <2>1. /\ admitted' \in Seq(Admissions) /\ Len(admitted') = n
        /\ \A m \in 1..Len(admitted): admitted'[m] = admitted[m]
        /\ admitted'[n] = new
    BY <1>0, <1>1, <2>5, <2>6, AppendProperties DEF Admit
  <2>2. /\ kept' = Recent \cup {n} /\ Cardinality(Recent) < limit /\ now' = now
        /\ limit \in Nat
    BY <1>0, <1>1, <2>6 DEF Admit
  <2>3. Recent = {m \in 1..Len(admitted): now - admitted[m].at < Window}
    BY <1>0 DEF RateInv, Recent
  <2>4. IsFiniteSet(Recent)
    <3>1. Recent \in SUBSET (1..Len(admitted)) /\ IsFiniteSet(1..Len(admitted))
      BY <1>0, <2>3, FS_Interval
    <3>. QED
      BY <3>1, FS_Subset
  <2>7. RateTypeOK'
    BY <1>0, <2>1, <2>2, <2>3, <2>6 DEF RateInv, RateTypeOK
  <2>8. \A m \in 1..n: now - admitted'[m].at < Window => m \in kept'
    BY <1>0, <2>1, <2>2, <2>3, <2>6
  <2>9. ASSUME NEW m \in 1..Len(admitted)
        PROVE  Cardinality(Before(m))' <= admitted'[m].limit
    <3>1. Before(m)' = Before(m)
      <4>1. \A l \in 1..m: admitted'[l] = admitted[l]
        BY <1>0, <2>1
      <4>. QED
        BY <4>1 DEF Before
    <3>. QED
      BY <2>1, <3>1 DEF RateInv, WithinRate
  <2>10. Cardinality(Before(n))' <= admitted'[n].limit
    <3>1. Before(n)' = Recent \cup {n}
      <4>1. Before(n)' = {m \in 1..n: now - admitted'[m].at < Window}
        BY <2>1, <2>5 DEF Before
      <4>2. \A m \in 1..n: m = n \/ (m \in 1..Len(admitted) /\ admitted'[m] = admitted[m])
        BY <1>0, <2>1, <2>6
      <4>3. now - admitted'[n].at < Window /\ n \in 1..n
        BY <1>0, <2>1, <2>2, <2>5, <2>6
      <4>4. \A m \in Recent: m \in 1..n /\ m \in 1..Len(admitted) /\ admitted'[m] = admitted[m]
        BY <1>0, <2>1, <2>3, <2>6
      <4>. QED
        BY <4>1, <4>2, <4>3, <4>4, <2>3
    <3>2. n \notin Recent
      BY <1>0, <2>3, <2>6
    <3>3. Cardinality(Recent) \in Nat /\ Cardinality(Recent \cup {n}) = Cardinality(Recent) + 1
      BY <2>4, <3>2, FS_AddElement, FS_CardinalityType
    <3>. QED
      BY <2>1, <2>2, <2>5, <3>1, <3>3
  <2>11. WithinRate'
    <3>1. \A m \in 1..n: m = n \/ m \in 1..Len(admitted)
      BY <1>0, <2>6
    <3>2. \A m \in 1..n: Cardinality(Before(m))' <= admitted'[m].limit
      BY <2>9, <2>10, <3>1
    <3>. QED
      BY <2>1, <3>2 DEF WithinRate
  <2>. QED
    BY <2>1, <2>2, <2>7, <2>8, <2>11 DEF RateInv
<1>2. ASSUME NEW limit \in Limits, Refuse(limit), UNCHANGED now
      PROVE  RateInv'
  <2>1. kept' = {n \in kept: now - admitted[n].at < Window}
        /\ UNCHANGED <<now, admitted>>
    BY <1>2 DEF Refuse, Recent
  <2>2. WithinRate'
    BY <2>1 DEF RateInv, WithinRate, Before
  <2>. QED
    BY <1>0, <2>1, <2>2 DEF RateInv, RateTypeOK
<1>3. CASE ForgetRequests /\ UNCHANGED now
  <2>1. admitted' = <<>> /\ kept' = {} /\ now' = now /\ now \in 0..MaxTime
    BY <1>3 DEF ForgetRequests, RateInv, RateTypeOK
  <2>2. admitted' \in Seq(Admissions) /\ Len(admitted') = 0
    BY <2>1, EmptySeq
  <2>3. 1..Len(admitted') = {}
    BY <2>2
  <2>. QED
    BY <2>1, <2>2, <2>3 DEF RateInv, RateTypeOK, WithinRate
<1>4. CASE Tick /\ UNCHANGED rateVars
  <2>1. now' = now + 1 /\ now' \in 0..MaxTime /\ UNCHANGED <<admitted, kept>>
    BY <1>0, <1>4 DEF Tick, rateVars
  <2>2. \A n \in 1..Len(admitted): now' - admitted[n].at < Window => n \in kept
    BY <1>0, <2>1 DEF RateInv
  <2>3. WithinRate'
    BY <2>1 DEF RateInv, WithinRate, Before
  <2>. QED
    BY <2>1, <2>2, <2>3 DEF RateInv, RateTypeOK
<1>5. CASE UNCHANGED <<now, rateVars>>
  BY <1>5 DEF rateVars, RateInv, RateTypeOK, WithinRate, Before
<1>. QED
  BY <1>1, <1>2, <1>3, <1>4, <1>5 DEF RateMoves

LEMMA RateInvInit == Init => RateInv
BY RateAssumption DEF Init, InitRate, RateInv, RateTypeOK, WithinRate

(* In no stretch of the length of the window are more requests admitted    *)
(* than the last of them was allowed, for any window, limits and restarts: *)
(* what the limiter forgets is never inside the window of a later request. *)
THEOREM RateHolds == Spec => []WithinRate
<1>1. RateInv /\ [Next]_vars => RateInv'
  BY RateStep, RateInvStep
<1>2. RateInv => WithinRate
  BY DEF RateInv
<1>. QED
  BY <1>1, <1>2, RateInvInit, PTL DEF Spec

-----------------------------------------------------------------------------
(* The event streams.                                                      *)

(* The row of an open transaction is the newest: nothing is ever committed *)
(* behind a row that a stream has seen.                                    *)
NewestIsOpen ==
  \A w \in Writers: writing[w] # 0
    => writing[w] = Len(log) /\ Len(log) > 0 /\ log[Len(log)] = "open"

(* What the generator of s holds is the beginning of what it has to emit.  *)
StreamOK(s) ==
  LET g == stream[s] IN
  /\ g.origin \in Nat /\ g.last \in Committed \cup {0}
  /\ g.origin <= g.last
  /\ g.todo \subseteq NewRows(s)
  /\ \A r \in NewRows(s), q \in g.todo: r <= q => r \in g.todo
  /\ g.got = {r \in Committed: g.origin < r /\ r <= g.last}

AuditInv ==
  /\ AuditTypeOK
  /\ NewestIsOpen
  /\ \A s \in Streams: IsOpen(s) => StreamOK(s)

LEMMA AuditTypes ==
  ASSUME AuditInv
  PROVE  /\ log \in Seq(RowStates) /\ Len(log) \in Nat /\ DOMAIN log = 1..Len(log)
         /\ Len(log) <= MaxRows
         /\ \A r \in DOMAIN log: r \in Rows /\ r \in Nat
         /\ writing \in [Writers -> Rows \cup {0}]
         /\ stream \in [Streams -> Generators \cup {Closed}]
         /\ Committed \subseteq Rows /\ Committed \subseteq Nat \ {0}
<1>1. log \in Seq(RowStates) /\ Len(log) <= MaxRows
  BY DEF AuditInv, AuditTypeOK
<1>2. Len(log) \in Nat /\ DOMAIN log = 1..Len(log)
  BY <1>1, LenProperties
<1>3. \A r \in DOMAIN log: r \in Rows /\ r \in Nat \ {0}
  BY <1>1, <1>2, StreamAssumption DEF Rows
<1>. QED
  BY <1>1, <1>2, <1>3 DEF AuditInv, AuditTypeOK, Committed

LEMMA Generator ==
  ASSUME AuditInv, NEW s \in Streams, IsOpen(s)
  PROVE  stream[s] \in Generators
BY AuditTypes DEF IsOpen, Closed

(* A batch is a beginning of the rows it is taken from.                    *)
LEMMA FirstRowsFirst ==
  ASSUME NEW rows \in SUBSET Rows, NEW r \in rows, NEW q \in FirstRows(rows), r <= q
  PROVE  r \in FirstRows(rows)
<1>. DEFINE below(x) == {p \in rows: p < x}
<1>1. \A p \in rows: p \in Int
  BY StreamAssumption DEF Rows
<1>2. q \in rows /\ Cardinality(below(q)) < Batch
  BY DEF FirstRows
<1>3. below(r) \subseteq below(q)
  BY <1>1, <1>2
<1>4. IsFiniteSet(below(q))
  <2>1. IsFiniteSet(1..MaxRows)
    BY FS_Interval, StreamAssumption
  <2>2. below(q) \in SUBSET (1..MaxRows)
    BY DEF Rows
  <2>. QED
    BY <2>1, <2>2, FS_Subset
<1>5. Cardinality(below(r)) <= Cardinality(below(q)) /\ IsFiniteSet(below(r))
  BY <1>3, <1>4, FS_Subset
<1>6. Cardinality(below(r)) \in Nat /\ Cardinality(below(q)) \in Nat
  BY <1>4, <1>5, FS_CardinalityType
<1>7. Cardinality(below(r)) < Batch
  BY <1>2, <1>5, <1>6, StreamAssumption
<1>. QED
  BY <1>7 DEF FirstRows

(* The log changes and a stream does not: what is committed comes behind   *)
(* every row that the stream has seen or is about to emit.                 *)
LEMMA StreamUndisturbed ==
  ASSUME AuditInv, NEW s \in Streams, IsOpen(s), stream'[s] = stream[s],
         Committed \subseteq Committed',
         \A r \in Committed' \ Committed:
           r \in Nat \ {0} /\ \A q \in Committed: q < r
  PROVE  StreamOK(s)'
<1>. DEFINE g == stream[s]
<1>1. StreamOK(s)
  BY DEF AuditInv
<1>2. \A r \in Committed: r \in Nat \ {0}
  BY AuditTypes
<1>3. g.last \in Nat /\ g.origin \in Nat
  BY <1>1, <1>2 DEF StreamOK
<1>4. \A r \in Committed' \ Committed: g.last < r
  BY <1>1, <1>2, <1>3 DEF StreamOK
<1>5. NewRows(s) \subseteq NewRows(s)'
  BY DEF NewRows
<1>6. \A q \in g.todo: q \in Committed
  BY <1>1 DEF StreamOK, NewRows
<1>7. ASSUME NEW r \in NewRows(s)', NEW q \in g.todo, r <= q
      PROVE  r \in g.todo
  <2>1. r \in Committed' /\ r > g.last
    BY DEF NewRows
  <2>2. r \in Committed
    BY <1>2, <1>6, <1>7, <2>1
  <2>. QED
    BY <1>1, <1>7, <2>1, <2>2 DEF StreamOK, NewRows
<1>8. g.got = {r \in Committed': g.origin < r /\ r <= g.last}
  <2>1. g.got = {r \in Committed: g.origin < r /\ r <= g.last}
    BY <1>1 DEF StreamOK
  <2>2. \A r \in Committed' \ Committed: ~(r <= g.last)
    BY <1>3, <1>4
  <2>. QED
    BY <2>1, <2>2
<1>. QED
  BY <1>1, <1>3, <1>5, <1>7, <1>8 DEF StreamOK

(* The record that a stream moves to is the one its generator describes.   *)
LEMMA StreamMoved ==
  ASSUME AuditInv, NEW s \in Streams, NEW g \in Generators,
         UNCHANGED <<log, writing>>, stream' = [stream EXCEPT ![s] = g],
         g.origin \in Nat, g.last \in Committed \cup {0}, g.origin <= g.last,
         g.todo \subseteq {r \in Committed: r > g.last},
         \A r \in Committed, q \in g.todo: r > g.last /\ r <= q => r \in g.todo,
         g.got = {r \in Committed: g.origin < r /\ r <= g.last}
  PROVE  AuditInv'
<1>1. Committed' = Committed
  BY DEF Committed
<1>2. stream'[s] = g /\ \A u \in Streams: u # s => stream'[u] = stream[u]
  BY AuditTypes
<1>3. AuditTypeOK'
  BY AuditTypes DEF AuditInv, AuditTypeOK
<1>4. NewestIsOpen'
  BY DEF AuditInv, NewestIsOpen
<1>5. StreamOK(s)'
  BY <1>1, <1>2 DEF StreamOK, NewRows
<1>6. ASSUME NEW u \in Streams, u # s, IsOpen(u)'
      PROVE  StreamOK(u)'
  BY <1>1, <1>2, <1>6 DEF AuditInv, StreamOK, NewRows, IsOpen
<1>. QED
  BY <1>3, <1>4, <1>5, <1>6 DEF AuditInv

LEMMA AuditInvStep ==
  ASSUME AuditInv, AuditMoves
  PROVE  AuditInv'
<1>. USE StreamAssumption
<1>0. NewestIsOpen /\ \A s \in Streams: IsOpen(s) => StreamOK(s)
  BY DEF AuditInv
<1>1. ASSUME NEW w \in Writers, InsertRow(w)
      PROVE  AuditInv'
  <2>1. PICK n \in Nat: n = Len(log) + 1
    BY AuditTypes
  <2>2. /\ log' \in Seq(RowStates) /\ Len(log') = n
        /\ \A r \in 1..Len(log): log'[r] = log[r]
        /\ log'[n] = "open"
    BY <1>1, <2>1, AuditTypes, AppendProperties DEF InsertRow, RowStates
  <2>3. DOMAIN log' = 1..n
    BY <2>2, LenProperties
  <2>4. n \in Rows /\ writing' = [writing EXCEPT ![w] = n] /\ UNCHANGED stream
    BY <1>1, <2>1, AuditTypes DEF InsertRow, Rows
  <2>5. AuditTypeOK'
    BY <2>2, <2>4, AuditTypes DEF AuditTypeOK, Rows
  <2>6. Committed' = Committed
    BY <2>1, <2>2, <2>3, AuditTypes DEF Committed
  <2>7. NewestIsOpen'
    BY <2>1, <2>2, <2>4, AuditTypes DEF NewestIsOpen
  <2>. QED
    BY <1>0, <2>4, <2>5, <2>6, <2>7 DEF AuditInv, StreamOK, NewRows, IsOpen
<1>2. ASSUME NEW w \in Writers, NEW state \in {"committed", "gone"},
             EndTransaction(w, state)
      PROVE  AuditInv'
  <2>1. PICK n \in Nat: n = Len(log)
    BY AuditTypes
  <2>2. writing[w] = n /\ n > 0 /\ log[n] = "open"
    BY <1>0, <1>2, <2>1 DEF EndTransaction, NewestIsOpen
  <2>3. log' = [log EXCEPT ![n] = state]
    BY <1>2, <2>2 DEF EndTransaction
  <2>4. /\ log' \in Seq(RowStates) /\ Len(log') = n
        /\ \A r \in 1..n: log'[r] = IF r = n THEN state ELSE log[r]
    BY <2>1, <2>2, <2>3, AuditTypes, ExceptSeq DEF RowStates
  <2>5. DOMAIN log' = 1..n /\ DOMAIN log = 1..n
    BY <2>1, <2>4, LenProperties, AuditTypes
  <2>6. writing' = [writing EXCEPT ![w] = 0] /\ UNCHANGED stream
    BY <1>2 DEF EndTransaction
  <2>7. AuditTypeOK'
    BY <2>1, <2>4, <2>6, AuditTypes DEF AuditTypeOK
  <2>8. NewestIsOpen'
    BY <2>6, AuditTypes DEF NewestIsOpen
  <2>9. Committed \subseteq Committed' /\ \A r \in Committed' \ Committed: r = n
    BY <2>2, <2>4, <2>5 DEF Committed
  <2>10. \A q \in Committed: q < n
    BY <2>2, <2>5 DEF Committed
  <2>. QED
    BY <1>0, <2>2, <2>6, <2>7, <2>8, <2>9, <2>10, StreamUndisturbed DEF AuditInv, IsOpen
<1>3. ASSUME NEW s \in Streams, OpenStream(s)
      PROVE  AuditInv'
  <2>1. PICK top \in Committed \cup {0}:
          /\ \A r \in Committed: r <= top
          /\ stream' = [stream EXCEPT ![s] = [open |-> TRUE, origin |-> top, last |-> top,
                                              todo |-> {}, got |-> {}]]
    BY <1>3 DEF OpenStream
  <2>2. top \in Nat /\ \A r \in Committed: r \in Nat
    BY AuditTypes
  <2>. DEFINE g == [open |-> TRUE, origin |-> top, last |-> top, todo |-> {}, got |-> {}]
  <2>3. /\ g \in Generators /\ g.origin = top /\ g.last = top
        /\ g.todo = {} /\ g.got = {}
    BY <2>2 DEF Generators
  <2>4. UNCHANGED <<log, writing>> /\ stream' = [stream EXCEPT ![s] = g]
    BY <1>3, <2>1 DEF OpenStream
  <2>. HIDE DEF g
  <2>5. {r \in Committed: g.origin < r /\ r <= g.last} = {}
    <3>1. \A r \in Committed: ~(top < r /\ r <= top)
      BY <2>2
    <3>. QED
      BY <2>3, <3>1
  <2>6. g.origin \in Nat /\ g.last \in Committed \cup {0} /\ g.origin <= g.last
    BY <2>1, <2>2, <2>3
  <2>7. \A r \in Committed, q \in g.todo: r > g.last /\ r <= q => r \in g.todo
    BY <2>3
  <2>8. g.todo \subseteq {r \in Committed: r > g.last}
    BY <2>3
  <2>. QED
    BY <2>3, <2>4, <2>5, <2>6, <2>7, <2>8, StreamMoved
<1>4. ASSUME NEW s \in Streams, Poll(s)
      PROVE  AuditInv'
  <2>1. IsOpen(s) /\ stream[s] \in Generators /\ StreamOK(s)
    BY <1>0, <1>4, Generator DEF Poll
  <2>. DEFINE g == [stream[s] EXCEPT !.todo = FirstRows(NewRows(s))]
  <2>2. FirstRows(NewRows(s)) \subseteq NewRows(s) /\ NewRows(s) \subseteq Rows
    BY AuditTypes DEF FirstRows, NewRows
  <2>3. /\ g \in Generators /\ g.origin = stream[s].origin /\ g.last = stream[s].last
        /\ g.todo = FirstRows(NewRows(s)) /\ g.got = stream[s].got
    BY <2>1, <2>2 DEF Generators
  <2>4. UNCHANGED <<log, writing>> /\ stream' = [stream EXCEPT ![s] = g]
    BY <1>4 DEF Poll
  <2>. HIDE DEF g
  <2>5. \A r \in Committed, q \in g.todo: r > g.last /\ r <= q => r \in g.todo
    BY <2>2, <2>3, FirstRowsFirst DEF NewRows
  <2>6. g.todo \subseteq {r \in Committed: r > g.last}
    BY <2>2, <2>3 DEF NewRows
  <2>7. /\ g.origin \in Nat /\ g.last \in Committed \cup {0} /\ g.origin <= g.last
        /\ g.got = {r \in Committed: g.origin < r /\ r <= g.last}
    BY <2>1, <2>3 DEF StreamOK
  <2>. QED
    BY <2>3, <2>4, <2>5, <2>6, <2>7, StreamMoved
<1>5. ASSUME NEW s \in Streams, Emit(s)
      PROVE  AuditInv'
  <2>1. IsOpen(s) /\ stream[s] \in Generators /\ StreamOK(s)
    BY <1>0, <1>5, Generator DEF Emit
  <2>2. PICK r \in stream[s].todo:
          /\ \A q \in stream[s].todo: r <= q
          /\ stream' = [stream EXCEPT ![s].todo = stream[s].todo \ {r},
                                      ![s].got = stream[s].got \cup {r},
                                      ![s].last = r]
    BY <1>5 DEF Emit
  <2>3. /\ r \in Committed /\ r > stream[s].last /\ r \in Rows
        /\ stream[s].last \in Nat /\ stream[s].origin \in Nat
        /\ \A q \in Committed: q \in Nat
    BY <2>1, AuditTypes DEF StreamOK, NewRows
  <2>. DEFINE g == [stream[s] EXCEPT !.todo = stream[s].todo \ {r},
                                     !.got = stream[s].got \cup {r}, !.last = r]
  <2>4. /\ g \in Generators /\ g.origin = stream[s].origin /\ g.last = r
        /\ g.todo = stream[s].todo \ {r} /\ g.got = stream[s].got \cup {r}
    BY <2>1, <2>3 DEF Generators, Rows
  <2>5. UNCHANGED <<log, writing>> /\ stream' = [stream EXCEPT ![s] = g]
    BY <1>5, <2>2 DEF Emit
  <2>. HIDE DEF g
  <2>6. g.todo \subseteq {q \in Committed: q > g.last}
    <3>1. \A q \in stream[s].todo: q \in Committed /\ r <= q /\ q \in Nat /\ r \in Nat
      BY <2>1, <2>2, <2>3 DEF StreamOK, NewRows
    <3>2. \A q \in stream[s].todo: q # r => q > r
      BY <3>1
    <3>. QED
      BY <2>4, <3>1, <3>2
  <2>7. \A p \in Committed, q \in g.todo: p > g.last /\ p <= q => p \in g.todo
    <3>1. \A p \in Committed, q \in stream[s].todo:
            p > stream[s].last /\ p <= q => p \in stream[s].todo
      BY <2>1 DEF StreamOK, NewRows
    <3>2. \A p \in Committed: p > r => p > stream[s].last /\ p # r
      BY <2>3
    <3>. QED
      BY <2>4, <3>1, <3>2
  <2>8. \A p \in Committed: p > stream[s].last /\ p <= r => p = r
    <3>1. \A p \in Committed: p > stream[s].last /\ p <= r => p \in stream[s].todo
      BY <2>1 DEF StreamOK, NewRows
    <3>. QED
      BY <2>2, <2>3, <3>1
  <2>9. g.got = {p \in Committed: g.origin < p /\ p <= g.last}
    <3>1. stream[s].got = {p \in Committed: stream[s].origin < p /\ p <= stream[s].last}
          /\ stream[s].origin <= stream[s].last
      BY <2>1 DEF StreamOK
    <3>2. \A p \in Committed: stream[s].origin < p /\ p <= r
                                <=> (stream[s].origin < p /\ p <= stream[s].last) \/ p = r
      BY <2>3, <2>8, <3>1
    <3>. QED
      BY <2>3, <2>4, <3>1, <3>2
  <2>10. g.origin \in Nat /\ g.last \in Committed \cup {0} /\ g.origin <= g.last
    BY <2>1, <2>3, <2>4 DEF StreamOK
  <2>. QED
    BY <2>4, <2>5, <2>6, <2>7, <2>9, <2>10, StreamMoved
<1>6. ASSUME NEW s \in Streams, CloseStream(s)
      PROVE  AuditInv'
  <2>1. UNCHANGED <<log, writing>> /\ stream' = [stream EXCEPT ![s] = Closed]
    BY <1>6 DEF CloseStream
  <2>2. Committed' = Committed
    BY <2>1 DEF Committed
  <2>3. ~IsOpen(s)' /\ \A u \in Streams: u # s => stream'[u] = stream[u]
    BY <2>1, AuditTypes DEF IsOpen, Closed
  <2>4. AuditTypeOK' /\ NewestIsOpen'
    BY <2>1, AuditTypes DEF AuditInv, AuditTypeOK, NewestIsOpen
  <2>. QED
    BY <1>0, <2>2, <2>3, <2>4 DEF AuditInv, StreamOK, NewRows, IsOpen
<1>7. CASE CloseAll
  <2>1. PICK n \in Nat: n = Len(log)
    BY AuditTypes
  <2>2. log \in Seq(RowStates) /\ DOMAIN log = 1..n
        /\ \A r \in 1..n: log[r] \in RowStates
    BY <2>1, AuditTypes, ElementOfSeq
  <2>3. log' \in [1..n -> RowStates]
    BY <1>7, <2>2 DEF CloseAll, RowStates
  <2>4. log' \in Seq(RowStates) /\ Len(log') = n
    BY <2>1, <2>3
  <2>5. \A s \in Streams: ~IsOpen(s)'
    BY <1>7 DEF CloseAll, IsOpen, Closed
  <2>6. AuditTypeOK'
    BY <1>7, <2>1, <2>4, AuditTypes DEF CloseAll, AuditTypeOK
  <2>7. NewestIsOpen'
    BY <1>7 DEF CloseAll, NewestIsOpen
  <2>. QED
    BY <2>5, <2>6, <2>7 DEF AuditInv
<1>8. CASE UNCHANGED auditVars
  BY <1>8 DEF auditVars, AuditInv, AuditTypeOK, NewestIsOpen, StreamOK, NewRows,
              Committed, IsOpen
<1>. QED
  BY <1>1, <1>2, <1>3, <1>4, <1>5, <1>6, <1>7, <1>8 DEF AuditMoves

LEMMA AuditInvInit == Init => AuditInv
<1>. SUFFICES ASSUME Init PROVE AuditInv
  OBVIOUS
<1>1. log \in Seq(RowStates) /\ Len(log) = 0
  BY EmptySeq DEF Init, InitAudit
<1>. QED
  BY <1>1, StreamAssumption DEF Init, InitAudit, AuditInv, AuditTypeOK, NewestIsOpen,
                                IsOpen, Closed

(* An event stream has emitted every row committed since it started, up to *)
(* the row it has come to, for any batch size and number of streams.       *)
THEOREM StreamsComplete == Spec => []NothingSkipped
<1>1. AuditInv /\ [Next]_vars => AuditInv'
  BY AuditStep, AuditInvStep
<1>2. AuditInv => NothingSkipped
  BY DEF AuditInv, StreamOK, NothingSkipped
<1>. QED
  BY <1>1, <1>2, AuditInvInit, PTL DEF Spec

-----------------------------------------------------------------------------
(* The tickets.                                                            *)

(* The tickets the process would accept now.                               *)
Live(t) ==
  issued[t] # Never /\ now <= issued[t] + TicketTTL /\ uses[t] = 0 /\ t \notin lost

TicketTypeOK ==
  /\ now \in Nat
  /\ bearer \in Nat
  /\ tickets \subseteq TicketRows
  /\ issued \in [Tickets -> Nat \cup {Never}]
  /\ lost \subseteq Tickets
  /\ uses \in [Tickets -> 0..2]

(* What is stored was minted, is not used and not lost; only what is past  *)
(* its time has been dropped without a use.                                *)
TicketInv ==
  /\ TicketTypeOK
  /\ \A k \in tickets:
       /\ issued[k.id] # Never /\ k.expiry = issued[k.id] + TicketTTL
       /\ uses[k.id] = 0 /\ k.id \notin lost
  /\ \A t \in Tickets:
       /\ issued[t] = Never => uses[t] = 0 /\ t \notin lost
       /\ uses[t] <= 1
       /\ Live(t) => \E k \in tickets: k.id = t

LEMMA TicketInvStep ==
  ASSUME TicketInv, [Next]_vars
  PROVE  TicketInv'
<1>. USE ConsoleAssumption DEF Never
<1>0. /\ TicketTypeOK /\ TicketTTL \in Nat /\ LoginTTL \in Nat
      /\ \A t \in Tickets: issued[t] \in Nat \cup {Never}
      /\ \A k \in tickets: k.id \in Tickets /\ k.expiry \in Nat
  BY DEF TicketInv, TicketTypeOK, TicketRows
<1>1. CASE UNCHANGED <<now, tickets, issued, lost, uses>> /\ bearer' \in Nat
  BY <1>1 DEF TicketInv, TicketTypeOK, Live
<1>2. ASSUME NEW t \in Tickets, MintTicket(t)
      PROVE  TicketInv'
  <2>1. PICK new \in TicketRows: new = [id |-> t, expiry |-> now + TicketTTL]
    <3>1. now + TicketTTL \in Nat
      BY <1>0 DEF TicketTypeOK
    <3>. QED
      BY <3>1 DEF TicketRows
  <2>2. /\ tickets' = {k \in tickets: k.expiry >= now} \cup {new}
        /\ issued' = [issued EXCEPT ![t] = now] /\ issued[t] = Never
        /\ UNCHANGED <<now, bearer, lost, uses>>
    BY <1>2, <2>1 DEF MintTicket
  <2>3. /\ issued'[t] = now /\ now \in Nat
        /\ \A u \in Tickets: u # t => issued'[u] = issued[u]
    BY <1>0, <2>2 DEF TicketTypeOK
  <2>4. TicketTypeOK'
    BY <1>0, <2>1, <2>2 DEF TicketTypeOK
  <2>5. uses[t] = 0 /\ t \notin lost /\ \A k \in tickets: k.id # t
    BY <2>2 DEF TicketInv
  <2>6. \A k \in tickets':
          /\ issued'[k.id] # Never /\ k.expiry = issued'[k.id] + TicketTTL
          /\ uses'[k.id] = 0 /\ k.id \notin lost'
    <3>1. ASSUME NEW k \in tickets
          PROVE  /\ issued'[k.id] # Never /\ k.expiry = issued'[k.id] + TicketTTL
                 /\ uses'[k.id] = 0 /\ k.id \notin lost'
      BY <1>0, <2>2, <2>3, <2>5 DEF TicketInv
    <3>2. /\ issued'[new.id] # Never /\ new.expiry = issued'[new.id] + TicketTTL
          /\ uses'[new.id] = 0 /\ new.id \notin lost'
      BY <2>1, <2>2, <2>3, <2>5
    <3>. QED
      BY <2>2, <3>1, <3>2
  <2>7. ASSUME NEW u \in Tickets, Live(u)'
        PROVE  \E k \in tickets': k.id = u
    <3>1. CASE u = t
      BY <2>1, <2>2, <3>1
    <3>2. CASE u # t
      <4>1. Live(u)
        BY <2>2, <2>3, <2>7, <3>2 DEF Live
      <4>2. PICK k \in tickets: k.id = u
        BY <4>1 DEF TicketInv
      <4>3. k.expiry = issued[u] + TicketTTL /\ now <= issued[u] + TicketTTL
        BY <4>1, <4>2 DEF TicketInv, Live
      <4>4. k.expiry >= now
        BY <1>0, <2>3, <4>3
      <4>. QED
        BY <2>2, <4>2, <4>4
    <3>. QED
      BY <3>1, <3>2
  <2>8. \A u \in Tickets: uses'[u] <= 1
                          /\ (issued'[u] = Never => uses'[u] = 0 /\ u \notin lost')
    BY <2>2, <2>3 DEF TicketInv
  <2>. QED
    BY <2>4, <2>6, <2>7, <2>8 DEF TicketInv
<1>3. ASSUME NEW s \in Streams, NEW t \in Tickets, SubscribeWithTicket(s, t)
      PROVE  TicketInv'
  <2>1. /\ tickets' = {k \in tickets: k.id # t} /\ UNCHANGED <<now, bearer, issued, lost>>
        /\ uses' = IF Valid(t) /\ uses[t] < 2 THEN [uses EXCEPT ![t] = uses[t] + 1]
                   ELSE uses
    BY <1>3 DEF SubscribeWithTicket, PopTicket
  <2>2. Valid(t) => uses[t] = 0
    BY DEF Valid, TicketInv
  <2>3. /\ \A u \in Tickets: u # t => uses'[u] = uses[u]
        /\ uses'[t] \in 0..2 /\ uses'[t] <= 1 /\ uses' \in [Tickets -> 0..2]
        /\ (uses'[t] = 0 => ~Valid(t) /\ uses'[t] = uses[t])
    <3>1. CASE Valid(t)
      <4>1. uses[t] < 2 /\ uses[t] + 1 = 1
        BY <2>2, <3>1
      <4>2. uses' = [uses EXCEPT ![t] = 1]
        BY <2>1, <3>1, <4>1
      <4>. QED
        BY <1>0, <4>2 DEF TicketTypeOK
    <3>2. CASE ~Valid(t)
      <4>1. uses' = uses
        BY <2>1, <3>2
      <4>. QED
        BY <1>0, <3>2, <4>1 DEF TicketInv, TicketTypeOK
    <3>. QED
      BY <3>1, <3>2
  <2>4. TicketTypeOK'
    BY <1>0, <2>1, <2>3 DEF TicketTypeOK
  <2>5. ~Live(t)'
    <3>1. SUFFICES ASSUME Live(t)' PROVE FALSE
      OBVIOUS
    <3>2. Live(t) /\ ~Valid(t)
      BY <2>1, <2>3, <3>1 DEF Live
    <3>3. PICK k \in tickets: k.id = t
      BY <3>2 DEF TicketInv
    <3>4. k.expiry = issued[t] + TicketTTL /\ now <= issued[t] + TicketTTL
      BY <3>2, <3>3 DEF TicketInv, Live
    <3>5. k.expiry >= now
      BY <1>0, <3>4 DEF TicketTypeOK
    <3>. QED
      BY <3>2, <3>3, <3>5 DEF Valid
  <2>6. ASSUME NEW u \in Tickets, u # t, Live(u)'
        PROVE  \E k \in tickets': k.id = u
    BY <2>1, <2>3, <2>6 DEF TicketInv, Live
  <2>7. \A k \in tickets':
          /\ issued'[k.id] # Never /\ k.expiry = issued'[k.id] + TicketTTL
          /\ uses'[k.id] = 0 /\ k.id \notin lost'
    BY <1>0, <2>1, <2>3 DEF TicketInv
  <2>8. \A u \in Tickets: uses'[u] <= 1
    BY <2>3 DEF TicketInv
  <2>9. issued[t] = Never => ~Valid(t)
    BY DEF Valid, TicketInv
  <2>10. \A u \in Tickets: issued'[u] = Never => uses'[u] = 0 /\ u \notin lost'
    BY <2>1, <2>3, <2>9 DEF TicketInv
  <2>. QED
    BY <2>4, <2>5, <2>6, <2>7, <2>8, <2>10 DEF TicketInv
<1>4. CASE Restart
  <2>1. /\ tickets' = {} /\ lost' = lost \cup {k.id: k \in tickets}
        /\ UNCHANGED <<now, bearer, issued, uses>>
    BY <1>4 DEF Restart
  <2>2. TicketTypeOK'
    BY <1>0, <2>1 DEF TicketTypeOK
  <2>3. \A t \in Tickets: ~Live(t)'
    BY <2>1 DEF Live, TicketInv
  <2>4. \A t \in Tickets: issued[t] = Never => t \notin lost'
    BY <2>1 DEF TicketInv
  <2>. QED
    BY <2>1, <2>2, <2>3, <2>4 DEF TicketInv
<1>5. CASE Tick /\ UNCHANGED <<rateVars, auditVars, ticketVars>>
  <2>1. now' = now + 1 /\ UNCHANGED <<bearer, tickets, issued, lost, uses>>
    BY <1>5 DEF Tick, ticketVars
  <2>2. \A t \in Tickets: Live(t)' => Live(t)
    BY <1>0, <2>1 DEF Live, TicketTypeOK
  <2>. QED
    BY <1>0, <2>1, <2>2 DEF TicketInv, TicketTypeOK
<1>6. ASSUME NEW limit \in Limits, Login(limit) \/ LoginFails(limit) \/ LoginThrottled(limit)
      PROVE  TicketInv'
  <2>1. UNCHANGED <<now, tickets, issued, lost, uses>> /\ bearer' \in Nat
    BY <1>0, <1>6 DEF Login, LoginFails, LoginThrottled, ticketVars, TicketTypeOK,
                      Admit, Refuse
  <2>. QED
    BY <1>1, <2>1
<1>7. CASE UNCHANGED <<now, ticketVars>>
  BY <1>0, <1>1, <1>7 DEF ticketVars, TicketTypeOK
<1>. QED
  BY <1>2, <1>3, <1>4, <1>5, <1>6, <1>7
     DEF Next, Operator, Logging, Subscribe, SubscribeWithoutTicket, Serve, vars

LEMMA TicketInvInit == Init => TicketInv
BY DEF Init, InitRate, TicketInv, TicketTypeOK, Live, Never

(* A minted ticket opens at most one stream, and is accepted exactly as    *)
(* long as it is unused, in time and in the memory of the process.         *)
THEOREM OneStreamPerTicket == Spec => []TicketsOpenOneStream
<1>1. TicketInv /\ [Next]_vars => TicketInv'
  BY TicketInvStep
<1>2. TicketInv => TicketsOpenOneStream
  <2>. SUFFICES ASSUME TicketInv, NEW t \in Tickets
                PROVE  /\ uses[t] <= 1
                       /\ Valid(t) <=> Live(t)
    BY DEF TicketsOpenOneStream, Live
  <2>1. \A k \in tickets: k.expiry \in Nat /\ now \in Nat
    BY DEF TicketInv, TicketTypeOK, TicketRows
  <2>2. ASSUME Valid(t) PROVE Live(t)
    <3>1. PICK k \in tickets: k.id = t /\ k.expiry >= now
      BY <2>2 DEF Valid
    <3>. QED
      BY <2>1, <3>1 DEF TicketInv, Live
  <2>3. ASSUME Live(t) PROVE Valid(t)
    <3>1. PICK k \in tickets: k.id = t
      BY <2>3 DEF TicketInv
    <3>2. k.expiry = issued[t] + TicketTTL /\ now <= issued[t] + TicketTTL
      BY <2>3, <3>1 DEF TicketInv, Live
    <3>. QED
      BY <2>1, <3>1, <3>2 DEF Valid
  <2>. QED
    BY <2>2, <2>3 DEF TicketInv
<1>. QED
  BY <1>1, <1>2, TicketInvInit, PTL DEF Spec

(* The types of the console, for any parameters.                           *)
THEOREM ConsoleTypes == Spec => []TypeOK
<1>1. RateInv /\ [Next]_vars => RateInv'
  BY RateStep, RateInvStep
<1>2. AuditInv /\ [Next]_vars => AuditInv'
  BY AuditStep, AuditInvStep
<1>3. TicketInv /\ [Next]_vars => TicketInv'
  BY TicketInvStep
<1>4. RateInv /\ AuditInv /\ TicketInv => TypeOK
  BY DEF RateInv, AuditInv, TicketInv, TicketTypeOK, TypeOK
<1>. QED
  BY <1>1, <1>2, <1>3, <1>4, RateInvInit, AuditInvInit, TicketInvInit, PTL DEF Spec
=============================================================================
