------------------------------- MODULE Catalog -------------------------------
(***************************************************************************)
(* The versioned catalog of catalog/service.py: immutable versions in the  *)
(* database, a manifest cached by every process for TTL, and the checks of *)
(* check_spend that hold a cart against a quoted catalog hash.             *)
(*                                                                         *)
(* check_spend reads the manifest once for availability and prices, and    *)
(* again for every item of the drift check; the cache may expire, and      *)
(* another process publish a version, between any two of these reads.      *)
(* A process runs one call at a time.                                      *)
(***************************************************************************)
EXTENDS Integers, Sequences

CONSTANTS
  Processes,   \* application processes; each has a cache of its own
  Versions,    \* version names
  Items,       \* item ids
  Contents,    \* what a version may hold: an offer, or Missing, per item
  TTL,         \* _CACHE_TTL_SECONDS
  MaxTime      \* bound on the clock

Offers == [price: Nat, available: BOOLEAN]
(* An item a version does not list, and _cached_manifest = None.           *)
Missing == [price |-> 0, available |-> FALSE]
NoContent == [i \in Items |-> Missing]

ASSUME CatalogAssumption ==
  /\ Contents \subseteq [Items -> Offers] \ {NoContent}
  /\ TTL \in Nat \ {0}
  /\ MaxTime \in Nat

VARIABLES
  db,      \* rows of catalog_versions, in the order of created_at
  cache,   \* cache[p]: _cached_manifest and _cache_timestamp of process p
  call,    \* call[p]: what process p is running
  clock

vars == <<db, cache, call, clock>>

-----------------------------------------------------------------------------

(* The hash of a version stands for its content: SHA-256 is taken to be    *)
(* free of collisions.                                                     *)
Rows == [version: Versions, content: Contents, at: 0..MaxTime]
Published == {db[k].content: k \in DOMAIN db}

Invalid == 0 - TTL   \* a timestamp that is always too old

Caches == [content: Contents \cup {NoContent}, at: {Invalid} \cup 0..MaxTime]

(* A check holds the manifest it resolved the cart with (seen) and the     *)
(* items whose drift is still to be checked.                               *)
Seeding == [pc: {"verify"}, version: Versions, content: Contents]
Checks == [pc: {"drift", "approved"}, cart: SUBSET Items, todo: SUBSET Items,
           seen: Contents, quote: Contents]
NoCall == [pc |-> "none"]

Init ==
  /\ db = << >>
  /\ cache = [p \in Processes |-> [content |-> NoContent, at |-> Invalid]]
  /\ call = [p \in Processes |-> NoCall]
  /\ clock = 0

-----------------------------------------------------------------------------

(* get_manifest: the cached one while it is fresh, else the newest version *)
(* in the database, which is cached again.                                 *)
Fresh(p) == cache[p].content # NoContent /\ clock - cache[p].at < TTL

Manifest(p) == IF Fresh(p) THEN cache[p].content ELSE db[Len(db)].content

RemembersExpiry(p) ==   \* mutant: the expiry is stored, not the time read
  cache' = IF Fresh(p) THEN cache
           ELSE [cache EXCEPT ![p] = [content |-> Manifest(p), at |-> clock + TTL]]

RenewsOnUse(p) ==   \* mutant: the timestamp is renewed by every read
  cache' = [cache EXCEPT ![p] = [content |-> Manifest(p), at |-> clock]]

Remember(p) ==
  cache' = IF Fresh(p) THEN cache
           ELSE [cache EXCEPT ![p] = [content |-> Manifest(p), at |-> clock]]

(* GET /catalog, and every other reader: the process fills its cache.      *)
GetManifest(p) ==
  /\ call[p] = NoCall
  /\ db # << >> /\ ~Fresh(p)
  /\ Remember(p)
  /\ UNCHANGED <<db, call, clock>>

(* seed_catalog, first transaction: INSERT ... ON CONFLICT (version) DO    *)
(* NOTHING.  Another version with the same hash is a unique violation: the *)
(* call fails and changes nothing.                                         *)
InsertVersion(p, v, c) ==
  /\ call[p] = NoCall
  /\ IF \E k \in DOMAIN db: db[k].version = v THEN UNCHANGED db
     ELSE /\ c \notin Published
          /\ db' = Append(db, [version |-> v, content |-> c, at |-> clock])
  /\ call' = [call EXCEPT ![p] = [pc |-> "verify", version |-> v, content |-> c]]
  /\ UNCHANGED <<cache, clock>>

(* The version must hold what was asked for, else the call raises without  *)
(* touching the cache.                                                     *)
VerifyVersion(p) ==
  /\ call[p].pc = "verify"
  /\ cache' = IF \E k \in DOMAIN db: /\ db[k].version = call[p].version
                                     /\ db[k].content = call[p].content
              THEN [cache EXCEPT ![p].at = Invalid]
              ELSE cache
  /\ call' = [call EXCEPT ![p] = NoCall]
  /\ UNCHANGED <<db, clock>>

(* Check 2 and the prices of check 4.  A cart with an item that is missing *)
(* or unavailable is rejected at once.                                     *)
ResolveCart(p, cart, quote) ==
  LET seen == Manifest(p) IN
  /\ call[p] = NoCall
  /\ db # << >>
  /\ IF \A i \in cart: seen[i].available
     THEN call' = [call EXCEPT ![p] =
                     [pc |-> "drift", cart |-> cart, todo |-> cart,
                      seen |-> seen, quote |-> quote]]
     ELSE UNCHANGED call
  /\ Remember(p)
  /\ UNCHANGED <<db, clock>>

(* Check 3 for one item: check_price_drift reads the manifest again, and   *)
(* compares its price with the resolved one and its hash with the quote.   *)
NoDriftByPrice(p, i) ==   \* mutant: the hash is not compared
  LET now == Manifest(p) IN
  /\ now[i] # Missing
  /\ now[i].price = call[p].seen[i].price

NoDrift(p, i) ==
  LET now == Manifest(p) IN
  /\ now[i] # Missing
  /\ now[i].price = call[p].seen[i].price
  /\ now = call[p].quote

CheckDrift(p) ==
  /\ call[p].pc = "drift"
  /\ \E i \in call[p].todo:
       LET rest == call[p].todo \ {i} IN
       call' = [call EXCEPT ![p] =
                  IF ~NoDrift(p, i) THEN NoCall
                  ELSE [call[p] EXCEPT
                          !.todo = rest,
                          !.pc = IF rest = {} THEN "approved" ELSE "drift"]]
  /\ Remember(p)
  /\ UNCHANGED <<db, clock>>

(* The guardrail goes on to the ceiling and the ledger with the total of   *)
(* the resolved prices.                                                    *)
HandOver(p) ==
  /\ call[p].pc = "approved"
  /\ call' = [call EXCEPT ![p] = NoCall]
  /\ UNCHANGED <<db, cache, clock>>

Restart(p) ==
  /\ cache' = [cache EXCEPT ![p] = [content |-> NoContent, at |-> Invalid]]
  /\ call' = [call EXCEPT ![p] = NoCall]
  /\ UNCHANGED <<db, clock>>

Tick ==
  /\ clock < MaxTime
  /\ clock' = clock + 1
  /\ UNCHANGED <<db, cache, call>>

Next ==
  \/ Tick
  \/ \E p \in Processes:
       \/ GetManifest(p)
       \/ \E v \in Versions, c \in Contents: InsertVersion(p, v, c)
       \/ VerifyVersion(p)
       \/ \E cart \in SUBSET Items \ {{}}, quote \in Published:
            ResolveCart(p, cart, quote)
       \/ CheckDrift(p)
       \/ HandOver(p)
       \/ Restart(p)

Spec == Init /\ [][Next]_vars

-----------------------------------------------------------------------------

(* The types of the four variables.                                        *)
TypeOK ==
  /\ db \in Seq(Rows)
  /\ cache \in [Processes -> Caches]
  /\ call \in [Processes -> Seeding \cup Checks \cup {NoCall}]
  /\ clock \in 0..MaxTime

(* A cart that passes the drift check is charged the prices of the very    *)
(* catalog the customer was quoted, whatever is published or expires while *)
(* the check runs.                                                         *)
ApprovedAtQuotedPrice ==
  \A p \in Processes: call[p].pc = "approved" =>
    \A i \in call[p].cart: call[p].seen[i].price = call[p].quote[i].price

(* A quote passes only while it is current, or has been superseded for     *)
(* less than the time a process may cache a manifest.                      *)
Recent(quote) ==
  \E k \in DOMAIN db:
    /\ db[k].content = quote
    /\ k = Len(db) \/ clock - db[k + 1].at < TTL

StalenessIsBounded ==
  [][\A p \in Processes:
       call[p].pc # "approved" /\ call'[p].pc = "approved"
         => Recent(call[p].quote)]_vars

(* README.md:57 "All pricing and availability are resolved                 *)
(* deterministically against an immutable catalog manifest": an approved   *)
(* cart is available in the catalog it was approved against.               *)
ApprovedIsAvailable ==
  \A p \in Processes: call[p].pc = "approved" =>
    \A i \in call[p].cart: call[p].quote[i].available
=============================================================================
