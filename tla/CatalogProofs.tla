---------------------------- MODULE CatalogProofs ----------------------------
(***************************************************************************)
(* Proofs about Catalog, for every set of processes, versions and items,   *)
(* any contents and any lifetime of the cache.                             *)
(***************************************************************************)
EXTENDS Catalog, SequenceTheorems, TLAPS

(* What a process caches was the newest version when it was read: a later  *)
(* one is not older than the timestamp of the cache.                       *)
CacheWasCurrent ==
  \A p \in Processes: cache[p].at # Invalid =>
    /\ cache[p].at <= clock
    /\ \E k \in DOMAIN db:
         /\ db[k].content = cache[p].content
         /\ k = Len(db) \/ cache[p].at <= db[k + 1].at

(* The items a check has done with have the price of the quote.            *)
CheckedAtQuotedPrice ==
  \A p \in Processes: call[p].pc \in {"drift", "approved"} =>
    /\ \A i \in call[p].cart \ call[p].todo:
         call[p].seen[i].price = call[p].quote[i].price
    /\ call[p].pc = "approved" => call[p].todo = {}

-----------------------------------------------------------------------------

(* A process in a check holds a typed one.                                 *)
LEMMA CheckTyped ==
  ASSUME TypeOK, NEW p \in Processes, call[p].pc \in {"drift", "approved"}
  PROVE  call[p] \in Checks
BY DEF TypeOK, Seeding, Checks, NoCall

(* The rows of the table, and the newest one when there is one.            *)
LEMMA RowTyped ==
  ASSUME TypeOK
  PROVE  /\ Len(db) \in Nat
         /\ DOMAIN db = 1..Len(db)
         /\ \A k \in DOMAIN db: db[k] \in Rows
BY DEF TypeOK

LEMMA NewestTyped ==
  ASSUME TypeOK, db # << >>
  PROVE  Len(db) \in DOMAIN db /\ db[Len(db)] \in Rows
BY DEF TypeOK

(* An inserted row joins the others.                                       *)
LEMMA RowInserted ==
  ASSUME TypeOK, NEW row \in Rows, db' = Append(db, row)
  PROVE  /\ db' \in Seq(Rows)
         /\ db' # << >>
         /\ Len(db') = Len(db) + 1
         /\ DOMAIN db' = 1..Len(db) + 1
         /\ db'[Len(db) + 1] = row
         /\ \A k \in DOMAIN db: db'[k] = db[k]
<1>1. db \in Seq(Rows)
  BY DEF TypeOK
<1>2. /\ Append(db, row) \in Seq(Rows)
      /\ Append(db, row) # << >>
      /\ Len(Append(db, row)) = Len(db) + 1
      /\ \A k \in 1..Len(db): Append(db, row)[k] = db[k]
      /\ Append(db, row)[Len(db) + 1] = row
  BY <1>1, AppendProperties
<1>. QED
  BY <1>1, <1>2, RowTyped

(* A fresh cache holds a content, not older than the clock allows.         *)
LEMMA FreshTyped ==
  ASSUME TypeOK, NEW p \in Processes, Fresh(p)
  PROVE  /\ cache[p].content \in Contents
         /\ cache[p].at \in 0..MaxTime
         /\ cache[p].at # Invalid
<1>1. cache[p] \in Caches
  BY DEF TypeOK
<1>2. cache[p].at # Invalid
  BY <1>1, CatalogAssumption DEF Fresh, Invalid, TypeOK
<1>. QED
  BY <1>1, <1>2 DEF Fresh, Caches

(* get_manifest returns a content that a version may hold.                 *)
LEMMA ManifestTyped ==
  ASSUME TypeOK, NEW p \in Processes, db # << >>
  PROVE  Manifest(p) \in Contents
BY FreshTyped, NewestTyped DEF Manifest, Rows

(* get_manifest keeps the cache typed.                                     *)
LEMMA RememberTyped ==
  ASSUME TypeOK, NEW p \in Processes, db # << >>, Remember(p)
  PROVE  cache' \in [Processes -> Caches]
<1>1. [content |-> Manifest(p), at |-> clock] \in Caches
  BY ManifestTyped DEF Caches, TypeOK
<1>. QED
  BY <1>1 DEF Remember, TypeOK

(* The type invariant is inductive once a check is known to have found a   *)
(* catalog.                                                                *)
ChecksHaveCatalog ==
  \A p \in Processes: call[p].pc \in {"drift", "approved"} => db # << >>

THEOREM TypeCorrect == Spec => [](TypeOK /\ ChecksHaveCatalog)
<1>. USE CatalogAssumption
<1>. DEFINE Inv == TypeOK /\ ChecksHaveCatalog
<1>1. Init => Inv
  BY DEF Init, TypeOK, ChecksHaveCatalog, NoCall, Caches
<1>2. Inv /\ [Next]_vars => Inv'
  <2>. SUFFICES ASSUME Inv, [Next]_vars
                PROVE  Inv'
    OBVIOUS
  <2>1. CASE Tick
    BY <2>1 DEF Tick, TypeOK, ChecksHaveCatalog
  <2>2. ASSUME NEW p \in Processes, GetManifest(p)
        PROVE  Inv'
    BY <2>2, RememberTyped DEF GetManifest, TypeOK, ChecksHaveCatalog
  <2>3. ASSUME NEW p \in Processes, NEW v \in Versions, NEW c \in Contents,
               InsertVersion(p, v, c)
        PROVE  Inv'
    <3>1. [version |-> v, content |-> c, at |-> clock] \in Rows
      BY DEF Rows, TypeOK
    <3>2. db' \in Seq(Rows) /\ (db # << >> => db' # << >>)
      <4>1. db' = db \/ db' = Append(db, [version |-> v, content |-> c, at |-> clock])
        BY <2>3 DEF InsertVersion
      <4>. QED
        BY <3>1, <4>1, RowInserted DEF TypeOK
    <3>3. [pc |-> "verify", version |-> v, content |-> c] \in Seeding
      BY DEF Seeding
    <3>. QED
      BY <2>3, <3>2, <3>3 DEF InsertVersion, TypeOK, ChecksHaveCatalog
  <2>4. ASSUME NEW p \in Processes, VerifyVersion(p)
        PROVE  Inv'
    <3>1. [cache[p] EXCEPT !.at = Invalid] \in Caches
      BY DEF TypeOK, Caches
    <3>2. cache' \in [Processes -> Caches]
      BY <2>4, <3>1 DEF VerifyVersion, TypeOK
    <3>. QED
      BY <2>4, <3>2 DEF VerifyVersion, TypeOK, ChecksHaveCatalog, NoCall
  <2>5. ASSUME NEW p \in Processes, NEW cart \in SUBSET Items \ {{}},
               NEW quote \in Published, ResolveCart(p, cart, quote)
        PROVE  Inv'
    <3>1. quote \in Contents
      BY RowTyped DEF Published, Rows
    <3>2. db # << >> /\ Manifest(p) \in Contents
      BY <2>5, ManifestTyped DEF ResolveCart
    <3>3. [pc |-> "drift", cart |-> cart, todo |-> cart,
           seen |-> Manifest(p), quote |-> quote] \in Checks
      BY <3>1, <3>2 DEF Checks
    <3>4. cache' \in [Processes -> Caches]
      BY <2>5, <3>2, RememberTyped DEF ResolveCart
    <3>. QED
      BY <2>5, <3>2, <3>3, <3>4 DEF ResolveCart, TypeOK, ChecksHaveCatalog
  <2>6. ASSUME NEW p \in Processes, CheckDrift(p)
        PROVE  Inv'
    <3>1. call[p] \in Checks /\ db # << >>
      BY <2>6, CheckTyped DEF CheckDrift, ChecksHaveCatalog
    <3>2. cache' \in [Processes -> Caches]
      BY <2>6, <3>1, RememberTyped DEF CheckDrift
    <3>3. PICK i \in call[p].todo:
            call' = [call EXCEPT ![p] =
                       IF ~NoDrift(p, i) THEN NoCall
                       ELSE [call[p] EXCEPT
                               !.todo = call[p].todo \ {i},
                               !.pc = IF call[p].todo \ {i} = {}
                                      THEN "approved" ELSE "drift"]]
      BY <2>6 DEF CheckDrift
    <3>4. [call[p] EXCEPT
             !.todo = call[p].todo \ {i},
             !.pc = IF call[p].todo \ {i} = {} THEN "approved" ELSE "drift"]
            \in Checks
      BY <3>1 DEF Checks
    <3>. QED
      BY <2>6, <3>1, <3>2, <3>3, <3>4
         DEF CheckDrift, TypeOK, ChecksHaveCatalog
  <2>7. ASSUME NEW p \in Processes, HandOver(p)
        PROVE  Inv'
    BY <2>7 DEF HandOver, TypeOK, ChecksHaveCatalog, NoCall
  <2>8. ASSUME NEW p \in Processes, Restart(p)
        PROVE  Inv'
    <3>1. [content |-> NoContent, at |-> Invalid] \in Caches
      BY DEF Caches
    <3>. QED
      BY <2>8, <3>1 DEF Restart, TypeOK, ChecksHaveCatalog, NoCall
  <2>9. CASE UNCHANGED vars
    BY <2>9 DEF vars, TypeOK, ChecksHaveCatalog
  <2>. QED
    BY <2>1, <2>2, <2>3, <2>4, <2>5, <2>6, <2>7, <2>8, <2>9 DEF Next
<1>. QED
  BY <1>1, <1>2, PTL DEF Spec

-----------------------------------------------------------------------------

(* A cart that passes the drift check is charged the prices it was quoted, *)
(* whatever is published or expires while the check runs.                  *)
THEOREM QuotedPrice == Spec => []ApprovedAtQuotedPrice
<1>1. Init => CheckedAtQuotedPrice
  BY DEF Init, CheckedAtQuotedPrice, NoCall
<1>2. TypeOK /\ CheckedAtQuotedPrice /\ [Next]_vars => CheckedAtQuotedPrice'
  <2>. SUFFICES ASSUME TypeOK, CheckedAtQuotedPrice, [Next]_vars
                PROVE  CheckedAtQuotedPrice'
    OBVIOUS
  <2>1. ASSUME NEW p \in Processes, CheckDrift(p)
        PROVE  CheckedAtQuotedPrice'
    <3>1. call[p] \in Checks
      BY <2>1, CheckTyped DEF CheckDrift
    <3>2. PICK i \in call[p].todo:
            call' = [call EXCEPT ![p] =
                       IF ~NoDrift(p, i) THEN NoCall
                       ELSE [call[p] EXCEPT
                               !.todo = call[p].todo \ {i},
                               !.pc = IF call[p].todo \ {i} = {}
                                      THEN "approved" ELSE "drift"]]
      BY <2>1 DEF CheckDrift
    <3>3. CASE ~NoDrift(p, i)
      BY <3>2, <3>3 DEF CheckedAtQuotedPrice, TypeOK, NoCall
    <3>4. CASE NoDrift(p, i)
      <4>1. call[p].seen[i].price = call[p].quote[i].price
        BY <3>4 DEF NoDrift
      <4>2. /\ call'[p].cart = call[p].cart
            /\ call'[p].todo = call[p].todo \ {i}
            /\ call'[p].seen = call[p].seen
            /\ call'[p].quote = call[p].quote
            /\ call'[p].pc = "approved" => call'[p].todo = {}
            /\ \A q \in Processes: q # p => call'[q] = call[q]
        BY <3>1, <3>2, <3>4 DEF TypeOK, Checks
      <4>3. call[p].pc = "drift"
        BY <2>1 DEF CheckDrift
      <4>. QED
        BY <4>1, <4>2, <4>3 DEF CheckedAtQuotedPrice
    <3>. QED
      BY <3>3, <3>4
  <2>2. ASSUME NEW p \in Processes, NEW cart \in SUBSET Items \ {{}},
               NEW quote \in Published, ResolveCart(p, cart, quote)
        PROVE  CheckedAtQuotedPrice'
    BY <2>2 DEF ResolveCart, CheckedAtQuotedPrice, TypeOK
  <2>3. ASSUME NEW p \in Processes, NEW v \in Versions, NEW c \in Contents,
               InsertVersion(p, v, c)
        PROVE  CheckedAtQuotedPrice'
    BY <2>3 DEF InsertVersion, CheckedAtQuotedPrice, TypeOK
  <2>4. ASSUME NEW p \in Processes, call' = [call EXCEPT ![p] = NoCall]
        PROVE  CheckedAtQuotedPrice'
    BY <2>4 DEF CheckedAtQuotedPrice, TypeOK, NoCall
  <2>5. CASE call' = call
    BY <2>5 DEF CheckedAtQuotedPrice
  <2>. QED
    BY <2>1, <2>2, <2>3, <2>4, <2>5
       DEF Next, Tick, GetManifest, VerifyVersion, HandOver, Restart, vars
<1>3. CheckedAtQuotedPrice => ApprovedAtQuotedPrice
  BY DEF CheckedAtQuotedPrice, ApprovedAtQuotedPrice
<1>. QED
  BY <1>1, <1>2, <1>3, TypeCorrect, PTL DEF Spec

-----------------------------------------------------------------------------

(* get_manifest keeps CacheWasCurrent: what it caches is the newest.       *)
LEMMA RememberCurrent ==
  ASSUME TypeOK, CacheWasCurrent, db # << >>,
         NEW p \in Processes, Remember(p), db' = db, clock' = clock
  PROVE  CacheWasCurrent'
<1>1. CASE Fresh(p)
  BY <1>1 DEF Remember, CacheWasCurrent, Invalid
<1>2. CASE ~Fresh(p)
  <2>1. /\ cache'[p] = [content |-> db[Len(db)].content, at |-> clock]
        /\ \A q \in Processes: q # p => cache'[q] = cache[q]
    BY <1>2 DEF Remember, Manifest, TypeOK
  <2>2. cache'[p].at <= clock' /\ Len(db') \in DOMAIN db'
    BY <2>1, NewestTyped, CatalogAssumption DEF TypeOK
  <2>. QED
    BY <2>1, <2>2 DEF CacheWasCurrent, Invalid
<1>. QED
  BY <1>1, <1>2

(* Every cache was current when it was filled.                             *)
THEOREM CacheCurrent == Spec => []CacheWasCurrent
<1>. USE CatalogAssumption
<1>1. Init => CacheWasCurrent
  BY DEF Init, CacheWasCurrent
<1>2. TypeOK /\ ChecksHaveCatalog /\ CacheWasCurrent /\ [Next]_vars
        => CacheWasCurrent'
  <2>. SUFFICES ASSUME TypeOK, ChecksHaveCatalog, CacheWasCurrent, [Next]_vars
                PROVE  CacheWasCurrent'
    OBVIOUS
  <2>1. ASSUME NEW p \in Processes, NEW v \in Versions, NEW c \in Contents,
               InsertVersion(p, v, c)
        PROVE  CacheWasCurrent'
    <3>. DEFINE row == [version |-> v, content |-> c, at |-> clock]
    <3>1. CASE db' = db
      BY <2>1, <3>1 DEF InsertVersion, CacheWasCurrent, Invalid
    <3>2. CASE db' = Append(db, row)
      <4>1. row \in Rows /\ row.at = clock
        BY DEF Rows, TypeOK
      <4>. HIDE DEF row
      <4>2. /\ Len(db') = Len(db) + 1
            /\ db'[Len(db) + 1] = row
            /\ \A k \in DOMAIN db: k \in DOMAIN db' /\ db'[k] = db[k]
            /\ \A k \in DOMAIN db: k \in 1..Len(db)
            /\ Len(db) \in Nat
        BY <3>2, <4>1, RowTyped, RowInserted
      <4>3. ASSUME NEW q \in Processes, cache'[q].at # Invalid'
            PROVE  /\ cache'[q].at <= clock'
                   /\ \E k \in DOMAIN db':
                        /\ db'[k].content = cache'[q].content
                        /\ k = Len(db') \/ cache'[q].at <= db'[k + 1].at
        <5>1. cache' = cache /\ cache[q].at # Invalid
          BY <2>1, <4>3 DEF InsertVersion, Invalid
        <5>2. PICK k \in DOMAIN db:
                /\ db[k].content = cache[q].content
                /\ k = Len(db) \/ cache[q].at <= db[k + 1].at
          BY <5>1 DEF CacheWasCurrent
        <5>3. cache[q].at <= clock
          BY <5>1 DEF CacheWasCurrent
        <5>4. k + 1 = Len(db) + 1 \/ k + 1 \in DOMAIN db
          BY RowTyped
        <5>. QED
          BY <2>1, <4>1, <4>2, <5>1, <5>2, <5>3, <5>4 DEF InsertVersion
      <4>. QED
        BY <4>3 DEF CacheWasCurrent
    <3>. QED
      BY <2>1, <3>1, <3>2 DEF InsertVersion
  <2>2. ASSUME NEW p \in Processes, Remember(p), db # << >>, db' = db,
               clock' = clock
        PROVE  CacheWasCurrent'
    BY <2>2, RememberCurrent
  <2>3. ASSUME NEW p \in Processes, NEW held \in Caches, held.at = Invalid,
               cache' = [cache EXCEPT ![p] = held], db' = db, clock' = clock
        PROVE  CacheWasCurrent'
    BY <2>3 DEF CacheWasCurrent, TypeOK, Invalid
  <2>4. ASSUME cache' = cache, db' = db, clock' = clock \/ clock' = clock + 1
        PROVE  CacheWasCurrent'
    BY <2>4 DEF CacheWasCurrent, Invalid, TypeOK, Caches
  <2>5. ASSUME NEW p \in Processes, VerifyVersion(p)
        PROVE  CacheWasCurrent'
    <3>1. [cache[p] EXCEPT !.at = Invalid] \in Caches
      BY DEF TypeOK, Caches
    <3>. QED
      BY <2>3, <2>4, <2>5, <3>1 DEF VerifyVersion, TypeOK, Caches
  <2>6. ASSUME NEW p \in Processes, Restart(p)
        PROVE  CacheWasCurrent'
    <3>1. [content |-> NoContent, at |-> Invalid] \in Caches
      BY DEF Caches
    <3>. QED
      BY <2>3, <2>6, <3>1 DEF Restart
  <2>7. ASSUME NEW p \in Processes, CheckDrift(p)
        PROVE  CacheWasCurrent'
    BY <2>2, <2>7 DEF CheckDrift, ChecksHaveCatalog
  <2>. QED
    BY <2>1, <2>2, <2>4, <2>5, <2>6, <2>7
       DEF Next, Tick, GetManifest, ResolveCart, HandOver, vars
<1>. QED
  BY <1>1, <1>2, TypeCorrect, PTL DEF Spec

(* A quote is approved only while it is current, or has been superseded    *)
(* for less than the lifetime of a cache.                                  *)
THEOREM BoundedStaleness == Spec => StalenessIsBounded
<1>. USE CatalogAssumption
<1>. DEFINE Approves(p) == call[p].pc # "approved" /\ call'[p].pc = "approved"
<1>1. TypeOK /\ ChecksHaveCatalog /\ CacheWasCurrent /\ [Next]_vars
        => [\A p \in Processes: Approves(p) => Recent(call[p].quote)]_vars
  <2>. SUFFICES ASSUME TypeOK, ChecksHaveCatalog, CacheWasCurrent, [Next]_vars,
                       NEW p \in Processes, Approves(p)
                PROVE  Recent(call[p].quote)
    OBVIOUS
  <2>1. CheckDrift(p)
    <3>1. \A q \in Processes:
            call' = [call EXCEPT ![q] = NoCall] => ~Approves(p)
      BY DEF TypeOK, NoCall
    <3>2. \A q \in Processes: CheckDrift(q) => q = p
      BY DEF CheckDrift, TypeOK
    <3>3. \A q \in Processes, v \in Versions, c \in Contents:
            ~InsertVersion(q, v, c)
      BY DEF InsertVersion, TypeOK
    <3>4. \A q \in Processes, cart \in SUBSET Items \ {{}}, quote \in Published:
            ~ResolveCart(q, cart, quote)
      BY DEF ResolveCart, TypeOK
    <3>. QED
      BY <3>1, <3>2, <3>3, <3>4
         DEF Next, Tick, GetManifest, VerifyVersion, HandOver, Restart, vars
  <2>2. db # << >> /\ call[p] \in Checks
    BY <2>1, CheckTyped DEF CheckDrift, ChecksHaveCatalog
  <2>3. Manifest(p) = call[p].quote
    BY <2>1 DEF CheckDrift, NoDrift, NoCall, TypeOK
  <2>4. CASE ~Fresh(p)
    BY <2>2, <2>3, <2>4, NewestTyped DEF Manifest, Recent
  <2>5. CASE Fresh(p)
    <3>1. cache[p].content = call[p].quote /\ cache[p].at # Invalid
      BY <2>3, <2>5, FreshTyped DEF Manifest
    <3>2. PICK k \in DOMAIN db:
            /\ db[k].content = cache[p].content
            /\ k = Len(db) \/ cache[p].at <= db[k + 1].at
      BY <3>1 DEF CacheWasCurrent
    <3>3. CASE k = Len(db)
      BY <3>1, <3>2, <3>3 DEF Recent
    <3>4. CASE k # Len(db)
      <4>1. k + 1 \in DOMAIN db /\ db[k + 1].at \in Nat
        BY <3>4, RowTyped DEF Rows
      <4>2. clock - db[k + 1].at < TTL
        BY <2>5, <3>2, <3>4, <4>1, FreshTyped DEF Fresh, TypeOK
      <4>. QED
        BY <3>1, <3>2, <4>2 DEF Recent
    <3>. QED
      BY <3>3, <3>4
  <2>. QED
    BY <2>4, <2>5
<1>. QED
  BY <1>1, TypeCorrect, CacheCurrent, PTL DEF Spec, StalenessIsBounded

-----------------------------------------------------------------------------

(* What README.md:57 promises of availability holds where no other process *)
(* publishes.                                                              *)
OneProcess == \A p, q \in Processes: p = q

Newest == db[Len(db)].content

(* The version a process is seeding is in the table.                       *)
Seeded(p) ==
  \E k \in DOMAIN db:
    db[k].version = call[p].version /\ db[k].content = call[p].content

(* In one process a valid cache holds the newest version, except while the *)
(* process seeds another, which it ends by invalidating the cache; a check *)
(* has seen the newest version, and approves a quote of that one only.     *)
SteadyCatalog ==
  \A p \in Processes:
    /\ cache[p].at # Invalid
         => cache[p].content = Newest \/ (call[p].pc = "verify" /\ Seeded(p))
    /\ call[p].pc \in {"drift", "approved"}
         => /\ call[p].seen = Newest
            /\ \A i \in call[p].cart: call[p].seen[i].available
    /\ call[p].pc = "approved" => call[p].quote = call[p].seen

LEMMA ManifestIsNewest ==
  ASSUME TypeOK, SteadyCatalog, NEW p \in Processes, call[p].pc # "verify"
  PROVE  Manifest(p) = Newest
BY FreshTyped DEF SteadyCatalog, Manifest, Newest

(* A step that reads the manifest leaves the newest version in the cache.  *)
LEMMA NewestRemembered ==
  ASSUME TypeOK, SteadyCatalog, NEW p \in Processes, call[p].pc # "verify", Remember(p)
  PROVE  cache'[p].at # Invalid => cache'[p].content = Newest
BY ManifestIsNewest DEF SteadyCatalog, Remember, TypeOK

LEMMA SteadyStep ==
  ASSUME OneProcess, TypeOK, ChecksHaveCatalog, SteadyCatalog, [Next]_vars
  PROVE  SteadyCatalog'
<1>. SUFFICES ASSUME NEW p \in Processes
              PROVE  /\ cache'[p].at # Invalid
                          => \/ cache'[p].content = Newest'
                             \/ call'[p].pc = "verify" /\ Seeded(p)'
                     /\ call'[p].pc \in {"drift", "approved"}
                          => /\ call'[p].seen = Newest'
                             /\ \A i \in call'[p].cart: call'[p].seen[i].available
                     /\ call'[p].pc = "approved" => call'[p].quote = call'[p].seen
  BY DEF SteadyCatalog, Invalid
<1>0. /\ cache \in [Processes -> Caches]
      /\ call \in [Processes -> Seeding \cup Checks \cup {NoCall}]
      /\ \A q \in Processes: q = p
  BY DEF TypeOK, OneProcess
<1>1. CASE GetManifest(p)
  <2>1. call[p].pc # "verify" /\ UNCHANGED <<db, call>>
    BY <1>1 DEF GetManifest, NoCall
  <2>2. cache'[p].at # Invalid => cache'[p].content = Newest
    BY <1>1, <2>1, NewestRemembered DEF GetManifest
  <2>. QED
    BY <2>1, <2>2 DEF SteadyCatalog, Newest
<1>2. ASSUME NEW v \in Versions, NEW c \in Contents, InsertVersion(p, v, c)
      PROVE  /\ cache'[p].at # Invalid
                  => cache'[p].content = Newest' \/ Seeded(p)'
             /\ call'[p].pc = "verify"
  <2>1. call'[p] = [pc |-> "verify", version |-> v, content |-> c] /\ cache' = cache
    BY <1>0, <1>2 DEF InsertVersion
  <2>2. CASE db' = db
    BY <1>2, <2>1, <2>2 DEF InsertVersion, SteadyCatalog, NoCall, Newest
  <2>3. CASE db' = Append(db, [version |-> v, content |-> c, at |-> clock])
    <3>1. PICK row \in Rows: row = [version |-> v, content |-> c, at |-> clock]
      BY DEF Rows, TypeOK
    <3>2. /\ Len(db) + 1 \in DOMAIN db' /\ db'[Len(db) + 1] = row
      BY <2>3, <3>1, RowInserted, RowTyped
    <3>3. Seeded(p)'
      BY <2>1, <3>1, <3>2 DEF Seeded
    <3>. QED
      BY <2>1, <3>3
  <2>. QED
    BY <1>2, <2>2, <2>3 DEF InsertVersion
<1>3. CASE VerifyVersion(p)
  <2>1. call'[p].pc = "none" /\ db' = db
    BY <1>0, <1>3 DEF VerifyVersion, NoCall
  <2>2. CASE Seeded(p)
    <3>1. cache' = [cache EXCEPT ![p].at = Invalid]
      BY <1>3, <2>2 DEF VerifyVersion, Seeded
    <3>2. cache'[p].at = Invalid
      BY <1>0, <3>1 DEF Caches
    <3>. QED
      BY <2>1, <3>2
  <2>3. CASE ~Seeded(p)
    <3>1. cache' = cache
      BY <1>3, <2>3 DEF VerifyVersion, Seeded
    <3>. QED
      BY <2>1, <2>3, <3>1 DEF SteadyCatalog, Newest
  <2>. QED
    BY <2>2, <2>3
<1>4. ASSUME NEW cart \in SUBSET Items \ {{}}, NEW quote \in Published,
             ResolveCart(p, cart, quote)
      PROVE  /\ cache'[p].at # Invalid => cache'[p].content = Newest'
             /\ call'[p].pc \in {"drift", "approved"}
                  => /\ call'[p].pc = "drift"
                     /\ call'[p].seen = Newest'
                     /\ \A i \in call'[p].cart: call'[p].seen[i].available
  <2>1. call[p] = NoCall /\ db' = db
    BY <1>4 DEF ResolveCart
  <2>2. cache'[p].at # Invalid => cache'[p].content = Newest'
    BY <1>4, <2>1, NewestRemembered DEF ResolveCart, NoCall, Newest
  <2>3. Manifest(p) = Newest'
    BY <2>1, ManifestIsNewest DEF NoCall, Newest
  <2>4. CASE call' = call
    BY <2>1, <2>2, <2>4 DEF NoCall
  <2>5. CASE /\ \A i \in cart: Manifest(p)[i].available
             /\ call' = [call EXCEPT ![p] =
                           [pc |-> "drift", cart |-> cart, todo |-> cart,
                            seen |-> Manifest(p), quote |-> quote]]
    <3>1. /\ call'[p].pc = "drift" /\ call'[p].seen = Manifest(p)
          /\ call'[p].cart = cart
      BY <1>0, <2>5
    <3>. QED
      BY <2>2, <2>3, <2>5, <3>1
  <2>. QED
    BY <1>4, <2>4, <2>5 DEF ResolveCart
<1>5. CASE CheckDrift(p)
  <2>1. /\ call[p] \in Checks /\ call[p].pc = "drift" /\ db' = db
        /\ call[p].seen = Newest /\ \A i \in call[p].cart: call[p].seen[i].available
    BY <1>5, CheckTyped DEF CheckDrift, SteadyCatalog
  <2>2. cache'[p].at # Invalid => cache'[p].content = Newest'
    BY <1>5, <2>1, NewestRemembered DEF CheckDrift, Newest
  <2>3. PICK i \in call[p].todo:
          call' = [call EXCEPT ![p] =
                     IF ~NoDrift(p, i) THEN NoCall
                     ELSE [call[p] EXCEPT
                             !.todo = call[p].todo \ {i},
                             !.pc = IF call[p].todo \ {i} = {}
                                    THEN "approved" ELSE "drift"]]
    BY <1>5 DEF CheckDrift
  <2>4. CASE ~NoDrift(p, i)
    <3>1. call'[p].pc = "none"
      BY <1>0, <2>3, <2>4 DEF NoCall
    <3>. QED
      BY <2>2, <3>1
  <2>5. CASE NoDrift(p, i)
    <3>1. call[p].quote = call[p].seen
      BY <2>1, <2>5, ManifestIsNewest DEF NoDrift
    <3>2. /\ call'[p].seen = call[p].seen /\ call'[p].quote = call[p].quote
          /\ call'[p].cart = call[p].cart
      BY <1>0, <2>1, <2>3, <2>5 DEF Checks
    <3>3. Newest' = Newest
      BY <2>1 DEF Newest
    <3>. QED
      BY <2>1, <2>2, <3>1, <3>2, <3>3
  <2>. QED
    BY <2>4, <2>5
<1>6. CASE HandOver(p) \/ Restart(p)
  <2>1. call'[p].pc = "none" /\ db' = db
    BY <1>0, <1>6 DEF HandOver, Restart, NoCall
  <2>2. CASE HandOver(p)
    BY <2>1, <2>2 DEF HandOver, SteadyCatalog, Newest
  <2>3. CASE Restart(p)
    <3>1. cache'[p].at = Invalid
      BY <1>0, <2>3 DEF Restart
    <3>. QED
      BY <2>1, <3>1
  <2>. QED
    BY <1>6, <2>2, <2>3
<1>7. CASE UNCHANGED <<db, cache, call>>
  BY <1>7 DEF SteadyCatalog, Newest, Seeded
<1>8. CASE \E v \in Versions, c \in Contents: InsertVersion(p, v, c)
  BY <1>2, <1>8
<1>9. CASE \E cart \in SUBSET Items \ {{}}, quote \in Published:
             ResolveCart(p, cart, quote)
  BY <1>4, <1>9
<1>. QED
  BY <1>0, <1>1, <1>3, <1>5, <1>6, <1>7, <1>8, <1>9 DEF Next, Tick, vars

(* In one process an approved cart is available in the catalog it was      *)
(* approved against, although the checks of check_spend read the manifest  *)
(* several times: whatever expires or is restarted, they read the same     *)
(* version.  Two processes break it, as catalog_available shows.           *)
THEOREM AvailableInOneProcess ==
  ASSUME OneProcess
  PROVE  Spec => []ApprovedIsAvailable
<1>1. Init => SteadyCatalog
  <2>1. ASSUME Init, NEW p \in Processes
        PROVE  cache[p].at = Invalid /\ call[p].pc = "none"
    <3>1. cache[p] = [content |-> NoContent, at |-> Invalid] /\ call[p] = NoCall
      BY <2>1 DEF Init
    <3>. QED
      BY <3>1 DEF NoCall
  <2>. QED
    BY <2>1 DEF SteadyCatalog
<1>2. TypeOK /\ ChecksHaveCatalog /\ SteadyCatalog /\ [Next]_vars => SteadyCatalog'
  BY SteadyStep
<1>3. SteadyCatalog => ApprovedIsAvailable
  BY DEF SteadyCatalog, ApprovedIsAvailable
<1>. QED
  BY <1>1, <1>2, <1>3, TypeCorrect, PTL DEF Spec
=============================================================================
