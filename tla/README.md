# A verification project for the commerce agent

This directory holds TLA+ models of the application in `src/`, the TLC runs
that check them on small instances, and TLAPS proofs of the main results.
Paths below are relative to the repository root.

- [The system](#the-system)
- [The modules](#the-modules)
- [The runs](#the-runs)
- [What TLC refutes](#what-tlc-refutes)
- [Fairness](#fairness)
- [The proofs](#the-proofs)
- [Modelling choices](#modelling-choices)
- [What is not modelled](#what-is-not-modelled)
- [Plan](#plan)

Commands, in this directory:

    tlc -config MCGuardrail.cfg MCGuardrail     # any run: <cfg> <MC module>
    tlapm PaymentProofs.tla                     # any module of proofs

`PROJECT.json` lists the components, the runs, the lines of the source behind
every definition, the hazards the properties are aimed at, the findings, and
for every property a mutant: a small bug in the code that breaks it.

## The system

A customer (in a conversation, or through another agent) asks for items. The
request becomes a *spend intent*, which the **guardrail** accepts or rejects.
An acceptance charges the session's budget and issues a signed *capability
token*. The **payment dispatch** consumes the token and creates an order at
the gateway (Razorpay). What happens to the order afterwards reaches the
application as **webhook** events, and through **reconciliation**, which an
operator triggers. All state is in one PostgreSQL database, except what each
process keeps in memory: a cached catalog, request times, stream tickets and
the positions of event streams.

| Component | State | Operations | Talks to |
|---|---|---|---|
| Guardrail (`src/guardrail/service.py`) | none of its own | `check_spend` | catalog, ledger, freeze rule, tokens, audit |
| Budget ledger (`src/guardrail/ledger.py`) | `budget_ledger` | `init_session_budget`, `atomic_spend`, `freeze_session`, `get_session_state` | database |
| Freeze rule, HTTP limiter (`src/security/rate_limiter.py`) | request times in memory | `check_and_freeze_if_needed`, `HTTPRateLimiter` | ledger |
| Capability tokens (`src/security/tokens.py`) | `capability_tokens` | issue, verify, consume | database |
| Payment state machine (`src/payment/state_machine.py`) | `payment_records` | `transition_payment_state` | database, audit |
| Dispatch (`src/payment/service.py`) | `payment_records`, `capability_tokens` | `dispatch_payment` | tokens, gateway, state machine |
| Reconciliation (`src/payment/reconciliation.py`) | `payment_records`, `dead_letter_queue` | `reconcile_payment`, `reconcile_all_pending`, `reconcile_stale`, `_dead_letter` | gateway, state machine |
| Webhooks (`src/webhook/`) | `webhook_events` | receive, process, recover | state machine |
| Catalog (`src/catalog/service.py`) | `catalog_versions`, manifest cache of each process | `seed_catalog`, `get_manifest`, `check_price_drift` | database |
| Upsell (`src/upsell/service.py`) | none; an offer is not stored | make and accept an offer | guardrail, ledger, catalog |
| Checkout, agent protocol (`src/checkout/`, `src/agent_protocol/`) | none | parse or take items, call the guardrail, hand out the token, dispatch | guardrail, dispatch |
| Campaign (`src/campaign/`) | `campaign_sessions` | drive simulated sessions and save what they report | guardrail, upsell, ledger |
| Audit (`src/audit/`) | `audit_log` | append, event stream | database |
| Operators (`src/security/auth.py`) | stream tickets in memory, signed bearer tokens | log in, issue and redeem tickets | HTTP limiter, event stream |
| Payment workflow (`src/payment/workflow.py`) | none | retry with backoff (no caller) | dispatch |

What makes it hard to test:

- **Interleaving.** Each function opens a database transaction of its own, so
  a handler is a chain of transactions. Several processes share the database;
  a budget, a record or an event row can change between any two links.
- **Loss.** A process that dies between two transactions leaves its work half
  done; nothing but retries by the caller, sweeps and recovery picks it up.
- **The gateway.** `order.create` may succeed while its answer is lost, events
  arrive late, repeatedly, out of order or never, a customer pays more than
  once on an order after a failed attempt.
- **Stale reads.** The status of a record is read in one transaction and
  overwritten in another; a manifest is cached for a minute; recovery works on
  a snapshot; an offer is made on a reading of the budget that is old by the
  time the offer is accepted.
- **Memory.** Request times, stream tickets and stream cursors live in one
  process and go with it, while bearer tokens and rows survive.

What would make each part correct, stated informally:

- *Guardrail*: never charge more than the budget; never authorise a rupee
  twice; never charge a frozen session; freeze after repeated rejections.
- *Catalog*: a cart is charged the prices it was quoted, and a superseded
  quote is honoured only for as long as a cache may hold it.
- *Dispatch*: no order without a record and a consumed token; ids on record
  are real and never change.
- *State machine*: statuses move along `LEGAL_TRANSITIONS`; final means final.
- *Reconciliation*: the record follows the gateway; nothing stays `PENDING`;
  what is dead-lettered is queued, and not before the limit of attempts.
- *Webhooks*: an event takes effect once, and only on the record it matches;
  every recorded event settles; the record claims nothing the gateway does not
  have.
- *Purchases* (checkout, agents, upsell, dispatch): what is ordered at the
  gateway for a session is backed, token by token, by what the guardrail
  authorised, and stays within the session's budget.
- *Campaign*: what a simulated session reports was authorised, each purchase
  once, and is no more than its budget.
- *HTTP limiter*: no stretch as long as the window holds more requests than
  were allowed, wherever it starts.
- *Stream tickets*: a ticket opens one stream, within its lifetime, and only a
  restart can take that from its holder.
- *Event stream*: every row committed after the start is emitted, once.

## The modules

| Module | Models | Extends |
|---|---|---|
| `SpendAuthority` | the abstract promise of the guardrail: slices taken out of a limit, authorisations for distinct slices | - |
| `Guardrail` | `check_spend`, the ledger, the freeze rule, token issue | - |
| `SliceSums` | a lemma: amounts of disjoint slices below a limit add up to at most the limit | - |
| `GuardrailProofs` | theorems about `Guardrail` | `Guardrail`, `SliceSums` |
| `Catalog` | versions, caches, seeding, availability and drift checks | - |
| `CatalogProofs` | theorems about `Catalog` | `Catalog` |
| `PaymentLedger` | `payment_records` and `transition_payment_state` | - |
| `Gateway` | Razorpay's orders, payments and events (external) | `PaymentLedger` |
| `Dispatch` | `dispatch_payment` and token consumption | `Gateway` |
| `Reconciliation` | single and batch reconciliation, dead-lettering | `Gateway` |
| `Webhook` | receipt, processing, marking and recovery of events | `Gateway` |
| `OrderDesk` | the abstract promise of the payment side: a token is burnt, then recorded, then ordered, each once and for good | - |
| `PaymentLife` | the abstract promise to whoever reads the status of a payment: it moves along a table, and claims what there are grounds for | - |
| `PaymentSystem` | the payment side as a whole, and its properties | `Dispatch`, `Reconciliation`, `Webhook` |
| `PaymentProofs` | theorems about `PaymentSystem` | `PaymentSystem` |
| `ProcessProofs` | theorems about `PaymentSystem` as long as handlers keep apart, and in one process | `PaymentProofs` |
| `HandlerProofs` | theorems about what its handlers decided on some transactions ago | `ProcessProofs` |
| `Commerce` | the handlers around `check_spend` (checkout, agents, upsell, campaign) and the dispatch of tokens, on top of `OrderDesk` | `Guardrail` |
| `CommerceProofs` | theorems about `Commerce` | `Commerce`, `GuardrailProofs` |
| `RateWindow` | one bucket of the sliding-window limiter, and the clock | - |
| `AuditStream` | ids and commits of audit rows, cursors of event streams | - |
| `OperatorConsole` | login behind the limiter, stream tickets, the streams they open, restarts | `RateWindow`, `AuditStream` |
| `ConsoleProofs` | theorems about `OperatorConsole` | `OperatorConsole` |
| `MCGuardrail`, `MCCatalog`, `MCPaymentSystem`, `MCCommerce`, `MCOperatorConsole` | symmetry and small data for TLC | the above |

How they compose. `PaymentSystem` is the union of `Dispatch`, `Reconciliation`
and `Webhook` over one ledger and one gateway; `OperatorConsole` that of the
limiter, the tickets and the streams over one clock and one process memory.
`Commerce` contains every step of `Guardrail`, and takes the payment side by
its promise: `OrderDesk` is the seam. `PaymentSystem` is shown to implement it
(`IsOrderDesk`, `KeepsTheDesk`), and `Commerce` takes its actions for what a
buyer's dispatch does, so that nothing is left to show on that side. One module
with all of the steps of both sides would be out of TLC's reach and say nothing
more about either.

One action is one database transaction or one gateway call; local computation
belongs to the action before or after it. A *worker* runs one handler at a
time (`job[w]`), and `pc` names the point the handler has reached.

**Guardrail.** `CheckFreeze` is the arrival of an intent with check 1,
`RejectCart` and `CheckCeiling` are checks 2 to 5, `ReadSessionState` and
`InitSessionBudget` open the budget, `SpendAccepted`, `SpendRefused` and
`CountRejection` are the two UPDATEs of `atomic_spend`, `RecheckFreeze` and
`FreezeSession` the freeze after a refusal, `IssueToken` and `IssueFails` the
insertion of the token (the table's CHECK refuses an amount of zero), `LogPass`
and `LogReject` the audit row and the answer. `Crash` ends a call anywhere.

**Commerce.** `front[w]` is the handler that runs around the call of
`check_spend` in `job[w]`, and its `stage` the place it has reached.
`BeginCheckout` and `BeginAgentPurchase` are `process_checkout` and the agent
endpoints, which hand the token out (`HandOut`); `BeginUpsell` is
`accept_upsell`, which charges and hands out nothing (`AnswerUpsell`).
`OpenCampaignSession` to `SaveResult` are one session of `run_campaign`:
budget, cart, offer, second pass through the guardrail, row. The tokens of its
two passes (`kept`, `added`) stay with the row as history.
`LoseHandler` is the loss of the process at any of these points, inside
`check_spend` or between two calls. `Burn`, `RecordPayment` and `PlaceOrder`
are a buyer's dispatch, first or retried, one link at a time: the actions of
`OrderDesk` together with the session and amount of the token.

**Catalog.** `InsertVersion` and `VerifyVersion` are the two transactions of
`seed_catalog`; `Manifest` and `Remember` are `get_manifest`, which
`ResolveCart` calls once for a cart and `CheckDrift` again for each item.

**PaymentLedger.** `txn[w]` is the `transition_payment_state` call of worker
`w`: `RejectCall`, `Reaffirm`, `RefuseTransition` and `AllowTransition` are
the outcomes of its read, `Backfill` and `WriteStatus` its second transaction.
The other modules start a call with `Call` and continue when it is `Finished`.

**Reconciliation.** `BeginBatch` reads the ids of a batch once; `BeginSweep`
is `reconcile_all_pending` and `BeginStaleSweep` is `reconcile_stale`, which
selects the same rows because its threshold is negated twice. `CountAttempt`,
`Inspect`, `FetchUnusable`/`FetchOrder`, `EnqueueDeadLetter` and `NextRow` are
`reconcile_payment` and its loop.

**RateWindow, AuditStream, OperatorConsole.** `Admit` and `Refuse` are the two
outcomes of `check`, the removal of old timestamps included. `Login`,
`MintTicket`, `PopTicket` and the two `Subscribe...` actions are the four
requests of an operator. `InsertRow` and `EndTransaction` are any component's
transaction on the log (a rolled back one leaves a gap in the ids); `Poll` and
`Emit` are the generator of a stream; `Restart` loses what is in memory.

**PaymentSystem** adds nothing but the composition: `Arrive` (the routes),
`Continue(w)` (the steps of the handlers), `Environment` (the gateway, the
customer and token expiry) and `Crash`.

## The runs

| Run | Checks | Instance | States |
|---|---|---|---|
| `guardrail` | `TypeOK`, `SpentWithinBudget`, `TokensAreSlices`, `PendingSlices`, `FreezeLag`, `FrozenIsNeverCharged`, `IsSpendAuthority`, `StreakFreezes` (liveness) | 2 calls, 1 session, 2 tokens, totals 0 to 2, limits 1 and 2, a freeze at 2 | 306 000 |
| `catalog` | `TypeOK`, `ApprovedAtQuotedPrice`, `StalenessIsBounded` | 2 processes, 2 versions, 4 contents, 2 items, clock to 3 | 792 000 |
| `commerce` | `CommerceTypeOK`, `OrdersAreBacked`, `OrdersWithinBudget`, `ResultsWithinBudget`, `ResultsAreAuthorised` | 2 workers with losses, 1 session, 3 tokens, totals 0 and 1, limits 1 and 3, offers up to 1, no campaign starts once a result is saved | 1 179 000 |
| `console` | `TypeOK`, `WithinRate`, `NothingSkipped`, `TicketsOpenOneStream`, `EveryRowArrives` (liveness) | window 2, limits 1 and 2, clock to 2, 1 writer, 1 stream, batches of 2, 3 rows, 2 tickets | 533 000 |
| `payment_pool` | `TypeOK`, `LedgerBeforeGateway`, `ClaimsAreBacked`, `IdsAreReal`, `DeadLetterIsQueued`, `QueuedAfterAllAttempts`, `ProcessedEventsMatch`, `IdsWriteOnce`, `IsOrderDesk` | 2 workers with losses, 1 record, 1 payment, 3 kinds of events that match or not | 1 383 000 |
| `payment_process` | `IsPaymentLife`, `StatusChangesAreLegal`, `ProcessedStaysProcessed`, `EventsSettle`, `NeverSilentlyDropped`, `PaidOrdersSettle` (the last three liveness) | 1 worker with losses, 1 record, 2 payments per order, 2 kinds of events that match or not, 2 attempts, 2 recoveries, simulation enabled | 117 000 |
| `payment_batch` | `NeverSilentlyDropped`, `PaidOrdersSettle` (liveness) | 1 worker with losses, 2 records, 1 attempt | 199 000 |

What they show, beyond the names:

- `guardrail`: two overlapping calls, each of which may be lost at any point,
  together with an operator who sets budgets at any time, stay within the
  budget; a lost call wastes its slice and never returns it as somebody
  else's. The run also checks the refinement of `SpendAuthority`, and that a
  session which has reached the limit of refusals ends up frozen although the
  freeze is a separate transaction that may be lost. Until it is, only the
  calls that had already read "not frozen" go on refusing: `FreezeLag` bounds
  the refusals beyond the limit by the number of calls at a time.
- `catalog`: with caches that expire, processes that restart and versions
  published between any two reads, an approved cart has the prices of the
  catalog it was quoted, and that catalog was replaced less than one cache
  lifetime ago.
- `commerce`: whatever a buyer retries, an agent states, an add-on charges a
  second time or a process loses half way, the orders at the gateway stand
  for distinct authorisations and add up to no more than the budget. A
  simulated session runs beside another handler of the same
  session (a checkout, an agent, an add-on, the same campaign started twice),
  which may spend what the offer was made on before it is accepted. The second
  pass then refuses it, and the session reports the cart alone; what it reports
  is always the amount of its cart's token and at least the amount of its
  add-on's. It reports no more than the budget, although `run_campaign` counts
  the price it offered and not the price that was charged, which may be lower:
  the offer is the ceiling of the second pass, and what remained when it was
  made is part of the budget.
- `console`: timestamps forgotten at the edge of the window never let a
  request too many through; a ticket that is popped when it is tried, swept
  when another is minted and lost by a restart opens one stream; the cursor
  of a stream passes over rolled back ids and full batches without skipping
  or repeating a row.
- `payment_pool`: with two workers, the races of dispatch, sweeps (the stale
  one included), webhook and recovery on one record never make the ledger
  claim a payment the gateway does not have, and none of them queues a record
  before the limit of attempts; the payment side keeps the promise of
  `OrderDesk`. Events that were validated on arrival and are marked
  transactions later, or are recovered, beside whatever the other worker does
  to the record, are `PROCESSED` only on the record they match. What the races *can* do is under "What TLC refutes".
- `payment_process`: in one process the state machine's promise holds, also
  after losses; it is the promise `CapturedIsFinal` refutes for two processes,
  and `LegalInOneProcess` proves it for any number of records. `IsPaymentLife`
  says more: read and write, in two transactions and with whatever happens at
  the gateway in between, look like one step of a record that moves along the
  table and makes no claim without grounds. Recovery settles every recorded
  event, and sweeps leave nothing `PENDING` and no paid record
  `CREATED`, whatever was lost before. A record whose dispatch is lost after
  its token was consumed is the case the sweeps are there for: no retry can
  bring it back once the token expired.
- `payment_batch`: the same of sweeps alone, when a batch holds two records
  and the first of them may fail or be lost.

Why the bounds are enough. The guardrail's steps touch one session each, and
two overlapping calls already meet every intermediate state of each other; a
limit of 2 with totals up to 2 lets two charges fit exactly, or just not. The
`commerce` run has two workers: handlers of one process do not interleave, and
two processes are what makes an offer stale. A limit of 3 leaves 2 after a cart
of 1, which `UpsellOfferRequest` refuses here; a purchase beside it leaves 1,
so that an offer is made, and one more purchase makes it too large. A limit of
1 is used up by the cart. Three tokens are the cart, the add-on and the other
handler's purchase, ordered side by side; the ledger can be charged again when
they are used up, by calls that are lost before they issue one. A second run of
a campaign under its id opens before the first one saves its row; a row is read
by nobody, so that opening after it makes no difference. Totals of 1 never
charge less than was offered: that `ResultsWithinBudget` holds then too is left
to the theorem. Two state constraints keep the run small. With `PaidAtRest`,
buyers pay when no handler runs: no handler reads what a payment changes, a
payment reads tokens alone, which never change, and a handler can be lost
anywhere, so that whatever is ordered beside handlers can be ordered after
them. With `EmptyCartsAlone`, an empty cart is checked when no other handler
runs; the overlaps of empty carts are in `guardrail`. There is no liveness in
the run. Two versions and four contents give a catalog that changed a price,
only an availability, or lost an item. One record is enough for the races on a
record (workers share nothing else); two are used where a batch is what
matters. Two payments per order are the least that a failed one followed by a
successful one needs. A window of 2 with a clock that reaches 2 has requests at
its edge and beyond it; three rows are more than one batch. `attempts`,
`processing_attempts` and `streak` stop at the limit they are compared with,
and no comparison can tell. The proofs need none of these bounds.

The payment runs set `CHECK_DEADLOCK FALSE`: when the token has expired
before a record exists and no handler runs, the payment side has nothing left
to do. The `console` run sets it because the log and the clock are bounded.

## What TLC refutes

Each of these runs checks one sentence of the repository and finds a
counterexample in what the code does.

| Run | Sentence | What happens |
|---|---|---|
| `guardrail_streak` | README.md:135 "Auto-freezes session on >= 5 consecutive rejections" | only refusals by the ledger count; rejections by the ceiling, the catalog or the drift check do not |
| `catalog_available` | README.md:57 "All pricing and availability are resolved deterministically against an immutable catalog manifest" | the cache expires between the availability check and the drift check, and the new version withdraws the item |
| `payment_regress` | state_machine.py:33 "Terminal state - no regressions allowed" | two overlapping transitions: the UPDATE has no condition on the status that was read |
| `payment_timeout` | service.py:436 "never infer failure from our own timeout" | a lost answer to `order.create` makes the record `FAILED` |
| `payment_late_success` | reconciliation.py:7 "Correct: update our ledger to match Razorpay's state" | a failed payment makes the record `FAILED`; the capture of the next payment on that order is refused for ever |

`payment_regress` and `catalog_available` need two processes on one database:
within one, handlers have no `await` between their transactions and run one
after the other. That they need two is proved: `CapturedFinalInOneProcess` and
`AvailableInOneProcess` state the two sentences for one process. For the first
the cause is pinned down further: `SerialCapturesAreFinal` shows, for any
number of processes, that a capture is lost only when two transitions of one
record overlap. The other three runs need only one process.

Smaller things met while modelling, which no run keeps:

- `check_and_freeze_if_needed` reads the rejection counter in one transaction
  and freezes in another, so a session can be frozen although a concurrent
  acceptance has just reset the counter (rate_limiter.py:80).
- `reconciliation_attempts` counts every comparison, successful ones and the
  dispatch included, so a record may be dead-lettered after a single failed
  one, where reconciliation.py:8 says "after N failed attempts". What does
  hold is that no record is queued before N attempts of any kind
  (`QueuedAfterAllAttempts`).
- `_dead_letter` writes the queue row before it asks for the transition, so a
  `CAPTURED` record, which refuses it, is queued for manual review
  (reconciliation.py:357).
- `discover_stale_pending` says "older than" a threshold, and the threshold is
  negated twice, so a record whose dispatch is in flight is stale too
  (reconciliation.py:318-320).
- The token of an accepted add-on is not returned: its amount is charged to
  the budget and nobody can order it (upsell/service.py:177).
- `agent_payment` answers "SETTLED" when the order has only been created.
- A campaign whose session has more than 10,000,000 paise left ends with the
  validation error of `UpsellOfferRequest`, after the cart was charged
  (`OfferRequestFails`).
- The stream promises complete payloads to operators, and the comparison
  `auth_user == "operator"` is false for the holder of a ticket
  (audit/router.py:65).

## Fairness

Safety runs assume none, and let processes be lost at any step.

- `Guardrail!FairSpec`: a call that was started goes on (`WF` of `Continue`),
  which is the runtime's scheduling as long as the process lives; processes
  are lost only finitely often (`<>[][NextWithoutCrash]_vars`), without any
  restriction before; and customers do not give a session up (`SF` of
  `AnyIntent`). The last is needed: after a loss between a refusal and the
  freeze that follows it, nothing but the next intent looks at the session.
- `PaymentSystem!FairSpec`: handlers go on, and processes are lost only
  finitely often (`<>[][NextWithoutCrash]_vars`): with a loss in every sweep
  no sweep would ever end. Crashes before that are unrestricted.
- `SweptSpec` adds that operators keep calling `/payment/reconcile-all`,
  `OperatedSpec` that they keep calling `/webhook/recover` too. The repository
  schedules neither; its documents describe both as operator actions, so the
  liveness results say what repeated calls achieve. A worker may be busy
  whenever they call, hence strong fairness. The gateway, the customer and
  the delivery of events are not assumed to be fair.
- `OperatorConsole!FairSpec`: an open stream polls and emits (`WF` of
  `Serve`); its generator polls every two seconds. Restarts and disconnections
  are unrestricted, and `EveryRowArrives` allows for them.
- `PaymentSystem!DiligentSpec`, of the violation run `payment_late_success`
  only, assumes more: every event is delivered and every record reconciled
  one by one again and again. The counterexample survives all of it.

## The proofs

All hold for every value of the constants that satisfies the modules' named
assumptions (`GuardrailAssumption`, `CatalogAssumption`, `LedgerAssumption`,
`WebhookAssumption`, `DispatchAssumption`, `CommerceAssumption`,
`RateAssumption`, `StreamAssumption`, `ConsoleAssumption`): any sets of
sessions, calls, tokens, totals and ceilings, of processes, versions, items and
contents, of payments and events, of streams and tickets.

`SliceSums`: what disjoint slices are worth in money.

- `SlicesFitTheLimit`: the amounts of a set of disjoint slices below a limit
  add up to no more than the limit. A sum over a set is defined by recursion
  on finite sets (`MapThenSumSet`), and the library's induction on them cannot
  be instantiated here. The proof goes around it: the number of paise a set of
  slices covers satisfies the same recursion (`OneMoreSlice`, `SumCountsPaise`),
  and at most one function does (`RecursionIsUnique`), since a smallest set on
  which two of them differed would lose an element and still be one. That
  there are finitely many slices is proved too (`SlicesAreFinite`), not assumed.

`GuardrailProofs`:

- `TypeCorrect`: `TypeOK` is inductive by itself.
- `Safety`: `Spec => []Safe`, where `Safe` is `SpentWithinBudget`,
  `TokensAreSlices` and `PendingSlices`. `TokensAreSlices` alone is not
  inductive: the token a call is about to insert must not overlap any other.
  That is what `PendingSlices` says of calls that have charged the ledger and
  not issued their token. The history field `base`, the amount spent before
  the charge, names the slice; `SpendAccepted` takes `[spent, spent + total)`,
  which lies above every slice handed out before because each of those ends
  at or below `spent`. `NoDoubleAuthorisation` and `PendingChargesApart` state
  the two parts by name.
- `TokensFitTheBudget`: the tokens of a session add up to no more than its
  budget, from `Safety` and `SlicesFitTheLimit`.
- `FrozenSafety`: no step charges a frozen session. The condition of the
  charge is in the UPDATE itself, so that the freeze check made earlier in
  the call does not matter.
- `FreezeIsPrompt`: `FreezeLag`, for finitely many calls at a time, from the
  invariant `LagBounded`: the refusals counted so far and the calls that may
  still count one (`Counting`) are together fewer than the limit plus the
  number of calls. A call joins them only by reading a counter below the
  limit, when even all calls together fit; counting takes one from the one
  side to the other; a loss, an acceptance and a freeze only help.
- `Refinement`: `Spec => IsSpendAuthority`. The opening of a budget maps to
  `Open`, the charge to `Take`, the freeze to `Block`, the token to `Grant`,
  every other step, losses included, to a stutter. The step to `Grant` uses
  `Safe`.

`CatalogProofs`:

- `TypeCorrect`: `TypeOK`, together with `ChecksHaveCatalog` (a check in
  progress has found a catalog), which is what makes `get_manifest`'s newest
  row exist.
- `QuotedPrice`: `ApprovedAtQuotedPrice`, from the invariant
  `CheckedAtQuotedPrice`: the items that are no longer in `todo` have the
  quoted price. It is the loop invariant of check 3.
- `CacheCurrent`: `CacheWasCurrent`, the version that superseded a cached
  manifest is not older than the cache's timestamp.
- `BoundedStaleness`: `StalenessIsBounded`, from `CacheCurrent` and the test
  of the timestamp.
- `AvailableInOneProcess`: `ApprovedIsAvailable` when there is one process,
  from the invariant `SteadyCatalog`: seeding and checking are its own, one after the other, so that whichever
  manifest the drift check reads, from a cache or from the table, has the
  content the cart was resolved against.

`PaymentProofs` (the longest):

- `Invariance`: `Spec => []Inv`, with `Inv` the conjunction of `TypeOK`,
  `WorkersFit`, `RecordFits` and `EventFits`. A handler decides on what it read
  some transactions ago, and other workers write in between. What saves it is
  that every fact a running call or handler rests on (a consumed token, an
  order, a captured payment, an id, a row of the queue) is never taken back:
  that is `Grows`, proved once for all steps (`StepGrows`). `CallFits` and
  `JobFits` then say of each kind of call, and each point of each handler,
  which of these facts it rests on, and `RecordFits` which of them a status
  claims.
- From it `PaymentTypes`, `LedgerFirst`, `BackedClaims`, `RealIds` and
  `QueuedDeadLetters`, for any number of workers, records, payments and losses.
- `IdsStay`: ids once written stay, also when transitions overlap, because the
  backfill has its condition in the UPDATE, which the status has not.
- `KeepsTheDesk`: `Spec => IsOrderDesk`. `OneTableAtATime` shows that no step
  touches two of tokens, records and orders in a way the promise can see;
  `TokensBurn`, `RecordsAppear` and `OrdersAppear` give the three steps.

`ProcessProofs`. What two processes can break holds as long as they keep out of
each other's way, and the theorems say what that means. Each has the form
`Spec => ([]Apart => Promise)`, for any number of workers, and a corollary under
the hypothesis `OneProcess` (there is one worker), where `Apart` is trivial.
`NoOverlap` says that no two workers are both between the read and the write of
a transition of one record; `payment_regress` ends in a state that breaks it.
`NoSharedEvent` says that no two handlers hold one event.

- `SerialWritesAreLegal`, `LegalInOneProcess`: `StatusChangesAreLegal`, from
  `StillLegal`: a transition that was allowed by the read is still legal when
  it is written, because nobody wrote the status in between.
- `SerialCapturesAreFinal`, `CapturedFinalInOneProcess`: `CapturedIsFinal`.
- `SerialWritesLeadTheLife`, `PaymentLifeInOneProcess`: `IsPaymentLife`. The
  first transaction of a dispatch maps to `Open`, the write of a status to
  `Move`, a capture or authorisation at the gateway and a row of the queue to
  `Learn`. A step that adds grounds writes no status (`RecordsOrGrounds`),
  grounds are never lost (`GroundsGrow`), and the claim of a written status has
  grounds by `Invariance`.
- `ApartHandlersProcessOnce`, `ProcessedOnce`: `ProcessedStaysProcessed`, from
  `FreshEvents`: the events a handler still has to mark differ from one another
  and none is processed, which is what a recovery's old snapshot could
  otherwise be wrong about.

`HandlerProofs`, for any number of workers and without any such hypothesis:

- `HistoryInvariance`: the inductive invariant `HistoryInv`. `HandlersRest`
  says what a handler at a given point decided on (the attempts it counted, the
  match it found), `RecordsKeep` that no step takes this from a record: the
  count of attempts does not fall, and the order of a record stays its own.
- `QueueWaitsForAttempts`: `QueuedAfterAllAttempts`. A stale reading of the
  count can only be too low, so that overlapping sweeps err on the safe side.
- `ProcessedMatches`: `ProcessedEventsMatch`.

`CommerceProofs`:

- `GuardedJourney`: every step of `Commerce` is a step of `Guardrail` or leaves
  its variables alone. `JourneyWithinBudget` carries the guardrail's `Safety`
  over to the composition through it, and `JourneyIsSpendAuthority` its
  refinement.
- `JourneyTypes`, which includes that a worker is inside `check_spend` only on
  behalf of a handler; otherwise a loss could leave half of the pair behind.
- `BackedOrders`: an order is for the session and amount of a token that was
  issued, and no token has two.
- `OrdersFitTheBudget`: `OrdersWithinBudget`, the end of the line from the
  budget to the gateway. Each order has a token of its own, each token a slice
  of its own, and `SlicesFitTheLimit` adds the slices up.
- `ResultsCovered`: `ResultsWithinBudget`, from the invariant `Baskets`: what a
  simulated session has made so far, plus the offer it is about to accept, was
  within the budget when it was read (`ChargesCovered`), and an opened budget
  neither shrinks nor disappears (`LedgerGrows`).
- `ResultsAuthorised`: `ResultsAreAuthorised`. `Authorised` follows a handler
  from call to call: a call that passed left its token with the handler, the
  call for an add-on states the offer as its ceiling, so that beyond the
  comparison (`BeyondCeiling`) its total is at most the offer, and basket and
  tokens agree from then on. `TokensApart` says that a token is with one
  handler or in one row: ids are fresh when they are issued (`OwnHoldings`).

`ConsoleProofs`:

- `RateHolds`: from `RateInv`, whatever was forgotten lies outside every window
  that ends now or later.
- `StreamsComplete`: from `AuditInv`. `NewestIsOpen` says that an open row is
  the newest, so that nothing can commit behind a cursor; it rests on
  `StreamAssumption`, one writing transaction at a time.
- `OneStreamPerTicket`: from `TicketInv`, which ties the tickets in memory to
  the history of minting, use and loss.
- `ConsoleTypes`: the type invariant.

Every safety property of a run that passes is thereby proved, those that two
processes can break under the hypotheses named above. Only model-checked is
liveness (`StreakFreezes`, `EventsSettle`,
`NeverSilentlyDropped`, `PaidOrdersSettle`, `EveryRowArrives`), which is beyond
the proof system's reach. No module has a recursive operator of its own.

## Modelling choices

- Operators with the comment `mutant` are not part of the model: each is the
  definition that follows it with a plausible bug, kept to show that the
  property it belongs to can fail.
- `atomic_spend` runs two UPDATEs in one READ COMMITTED transaction. A refused
  first UPDATE locks nothing, so `SpendRefused` and `CountRejection` are
  separate steps; an accepted one is a single step.
- Prices and totals are small numbers, hashes are the content they stand for,
  signatures are taken as decided, ids are never drawn twice.
- Requests that are refused before they change anything, and repeated
  deliveries of a recorded event, are not steps.
- A database error other than the loss of the process is left out.
- `Crash` drops one handler. Losing a process with several of them is several
  such steps.
- A sweep and a recovery go through their snapshot in any order, where the
  code has one; everything shown holds for its order.
- `FetchUnusable` covers an unreachable gateway, an unknown (simulated) order
  and a differing amount: all take the same branch.
- `Guardrail` lets the catalog checks end either way, and `Catalog` the
  ceiling and ledger checks; what one hands to the other is the total of the
  resolved prices.
- In `Catalog` a process runs one call at a time, because the handlers do not
  `await` between the reads; a version's position in `db` is its `created_at`.
- `streak` and `base` in `Guardrail` are history: no guard looks at them. So
  are `admitted`, `issued`, `lost`, `uses` and a stream's `got` in the console.
- `Commerce` leaves what a message says, which items a cart holds and which
  candidate is offered to the totals and prices its handlers may come up with.
  A campaign reads what remains of the budget twice in a row; what remains only
  shrinks, so that the second reading is the bound, and the two are one step.
- A buyer's dispatch in `Commerce` is the three things `OrderDesk` promises of
  it; its statuses, failures and expiry are in `PaymentSystem`.
- One transaction at a time writes the audit log: handlers have no `await`
  inside a transaction and the application runs as one process. With a second
  one, a row could commit behind a stream's cursor.
- The clock of the console only goes forward. The limit is a parameter of the
  endpoint's dependency, so that every request brings its own; in the test
  environment the limiter is off, which is not modelled.

## What is not modelled

- Language-model parsing, the dashboard, HTTP headers, logging,
  configuration, password and signature checks: no protocol state, or
  cryptography.
- The payment workflow (`payment/workflow.py`): `execute_with_retry` and
  `classify_error` have no caller outside their file, so that no behaviour of
  the program runs through them.
- Refund events and events without an id, which touch no payment record.
- Report statistics and acceptance probabilities of campaigns, queries and
  sanitizing of the audit log, discovery documents of the agent protocol: they
  only read.
- Connection handling and migrations: the transactions are the steps of the
  models, and the tables their state.

## Plan

Done: `SpendAuthority`, `Guardrail`; `Catalog`; `PaymentLedger`, `Gateway`,
`Dispatch`, `Reconciliation` with the stale sweep, `Webhook`, `PaymentSystem`;
`OrderDesk`, `PaymentLife`, `Commerce`; `RateWindow`, `AuditStream`,
`OperatorConsole`; and the proofs of all their safety properties.

Left, in this order:

1. Safety halves of the liveness properties as theorems: that a sweep which
   reaches a record leaves it counted or settled, so that `NeverSilentlyDropped`
   rests on fairness alone.
2. `AuditStream` with two writers and a weaker promise, for a deployment of
   more than one process.
