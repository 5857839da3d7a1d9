------------------------------ MODULE Commerce ------------------------------
(***************************************************************************)
(* The journey of a purchase across the components: the handlers that call *)
(* the guardrail (checkout/service.py, agent_protocol/router.py,           *)
(* upsell/service.py and the simulated customers of                        *)
(* campaign/orchestrator.py), and the dispatch of the tokens they return.  *)
(*                                                                         *)
(* Every step of check_spend is a step of Guardrail.  The payment side is  *)
(* taken by its promise: what buyers' dispatches do to tokens, records and *)
(* orders are the actions of OrderDesk, which PaymentSystem is shown to    *)
(* implement.                                                              *)
(***************************************************************************)
EXTENDS Guardrail, FiniteSets, FiniteSetsExt

CONSTANTS
  MaxOfferBudget,   \* largest remaining_budget_paise an offer request states
  MaxResults        \* bound on the rows of campaign_sessions

ASSUME CommerceAssumption ==
  /\ MaxOfferBudget \in Nat \ {0}
  /\ MaxResults \in Nat

VARIABLES
  front,      \* front[w]: the handler around the call of check_spend in job[w]
  held,       \* tokens that were returned to a buyer
  burnt,      \* tokens consumed by a dispatch
  recorded,   \* tokens with a payment record
  orders,     \* orders at the gateway
  results     \* rows of campaign_sessions

deskVars == <<burnt, recorded, orders>>
commerceVars == <<ledger, tokens, job, streak, front, held, deskVars, results>>

Kinds == {"checkout", "agent", "upsell", "campaign"}
Stages == {"opened", "call", "look", "offer", "again", "save"}

(* cap: the ceiling the handler is going to state; basket and addon: the   *)
(* revenue a simulated session has made so far, and the part of it that is *)
(* an add-on's; kept and added: the token check_spend issued for the cart, *)
(* and for the add-on.                                                     *)
Fronts == [kind: Kinds, stage: Stages, session: Sessions, agent: BOOLEAN,
           cap: Nat, basket: Nat, addon: Nat,
           kept: SUBSET Tokens, added: SUBSET Tokens]

NoFront == [kind |-> "none"]

Handler(kind, stage, s, agent, cap) ==
  [kind |-> kind, stage |-> stage, session |-> s, agent |-> agent, cap |-> cap,
   basket |-> 0, addon |-> 0, kept |-> {}, added |-> {}]

In(w, kind, stage) ==
  front[w] # NoFront /\ front[w].kind = kind /\ front[w].stage = stage

Enter(w, handler) == front[w] = NoFront /\ front' = [front EXCEPT ![w] = handler]
Leave(w) == front' = [front EXCEPT ![w] = NoFront]
Stage(w, label) == front' = [front EXCEPT ![w].stage = label]

CommerceInit ==
  /\ Init
  /\ front = [w \in Workers |-> NoFront]
  /\ held = {}
  /\ burnt = {} /\ recorded = {} /\ orders = {}
  /\ results = {}

-----------------------------------------------------------------------------

(* process_checkout: the message has been parsed, every item was found in  *)
(* the catalog, and check_spend is called with the buyer's ceiling.  POST  *)
(* /guardrail/check calls it with any cart, an empty one included.         *)
BeginCheckout(w, s, total, ceiling) ==
  /\ Enter(w, Handler("checkout", "call", s, FALSE, 0))
  /\ CheckFreeze(w, s, total, ceiling)
  /\ UNCHANGED <<held, deskVars, results>>

(* agent_checkout and agent_authorize: the items are stated, not parsed,   *)
(* and at least one is.                                                    *)
BeginAgentPurchase(w, s, total, ceiling) ==
  /\ total > 0
  /\ Enter(w, Handler("agent", "call", s, FALSE, 0))
  /\ CheckFreeze(w, s, total, ceiling)
  /\ UNCHANGED <<held, deskVars, results>>

(* accept_upsell: the buyer shows a token of the session, used or not, and *)
(* an offer, which nothing compares with the offers made.  The cart is one *)
(* item at today's price, and the price in the offer is the ceiling.       *)
BeginUpsell(w, k, total, price) ==
  /\ Enter(w, Handler("upsell", "call", k.session, FALSE, 0))
  /\ k.id \in held
  /\ CheckFreeze(w, k.session, total, price)
  /\ UNCHANGED <<held, deskVars, results>>

KeepToken(w, t) ==
  /\ IssueToken(w, t)
  /\ front' = [front EXCEPT ![w] =
                 IF @.stage = "again" THEN [@ EXCEPT !.added = {t}]
                 ELSE [@ EXCEPT !.kept = {t}]]
  /\ UNCHANGED <<held, deskVars, results>>

(* Checkout and the agent endpoints return the token; UpsellResponse has   *)
(* no field for it.                                                        *)
HandOut(w) ==
  /\ LogPass(w)
  /\ held' = held \cup front[w].kept
  /\ Leave(w)
  /\ UNCHANGED <<deskVars, results>>

AnswerCheckout(w) == In(w, "checkout", "call") /\ HandOut(w)
AnswerAgent(w) == In(w, "agent", "call") /\ HandOut(w)

AnswerUpsell(w) ==
  /\ In(w, "upsell", "call")
  /\ LogPass(w)
  /\ Leave(w)
  /\ UNCHANGED <<held, deskVars, results>>

AnswerReject(w) ==
  /\ \E kind \in Kinds \ {"campaign"}: In(w, kind, "call")
  /\ LogReject(w)
  /\ Leave(w)
  /\ UNCHANGED <<held, deskVars, results>>

-----------------------------------------------------------------------------

(* A simulated session of run_campaign: its budget row is opened in a      *)
(* transaction of its own, with no effect on a row that is there already.  *)
OpenCampaignSession(w, s, budget, agent) ==
  /\ Cardinality(results) < MaxResults
  /\ Enter(w, Handler("campaign", "opened", s, agent, budget))
  /\ OpenBudget(s, budget)
  /\ UNCHANGED <<tokens, job, streak, held, deskVars, results>>

BeginCampaignCart(w, total) ==
  /\ In(w, "campaign", "opened")
  /\ total > 0
  /\ CheckFreeze(w, front[w].session, total, front[w].cap)
  /\ front' = [front EXCEPT ![w].stage = "call", ![w].cap = 0]
  /\ UNCHANGED <<held, deskVars, results>>

(* The cart was accepted: its total is the basket.  Sessions of the agent  *)
(* group go on to the add-on.                                              *)
CampaignCartPasses(w) ==
  /\ In(w, "campaign", "call")
  /\ LogPass(w)
  /\ front' = [front EXCEPT ![w].stage = IF front[w].agent THEN "look" ELSE "save",
                            ![w].basket = job[w].total]
  /\ UNCHANGED <<held, deskVars, results>>

Remaining(s) == ledger[s].budget - ledger[s].spent

(* generate_offer finds a candidate within what remains of the budget and  *)
(* the simulated customer accepts it.  What remains is read twice, by the  *)
(* session and by generate_offer; it only shrinks, so that the second      *)
(* reading is the bound on the price, and the two are one step.            *)
MakeOfferOfBudget(w, price) ==   \* mutant: the budget instead of what remains of it
  LET s == front[w].session IN
  /\ In(w, "campaign", "look")
  /\ ~ledger[s].frozen
  /\ price > 0 /\ price <= ledger[s].budget
  /\ front' = [front EXCEPT ![w].stage = "offer", ![w].cap = price]
  /\ UNCHANGED <<vars, held, deskVars, results>>

MakeOffer(w, price) ==
  LET s == front[w].session IN
  /\ In(w, "campaign", "look")
  /\ ~ledger[s].frozen
  /\ Remaining(s) <= MaxOfferBudget
  /\ price > 0 /\ price <= Remaining(s)
  /\ front' = [front EXCEPT ![w].stage = "offer", ![w].cap = price]
  /\ UNCHANGED <<vars, held, deskVars, results>>

(* Add-ons are switched off, nothing remains, there is no candidate, or    *)
(* the customer declines.                                                  *)
NoUpsell(w) ==
  /\ In(w, "campaign", "look")
  /\ Remaining(front[w].session) <= MaxOfferBudget
  /\ Stage(w, "save")
  /\ UNCHANGED <<vars, held, deskVars, results>>

(* UpsellOfferRequest refuses so large a budget: the whole campaign ends,  *)
(* after the session's cart has been charged.                              *)
OfferRequestFails(w) ==
  /\ In(w, "campaign", "look")
  /\ Remaining(front[w].session) > MaxOfferBudget
  /\ Leave(w)
  /\ UNCHANGED <<vars, held, deskVars, results>>

AcceptOffer(w, total) ==
  /\ In(w, "campaign", "offer")
  /\ total > 0
  /\ CheckFreeze(w, front[w].session, total, front[w].cap)
  /\ Stage(w, "again")
  /\ UNCHANGED <<held, deskVars, results>>

(* The token has expired since the cart was accepted: no second call.      *)
OfferLapses(w) ==
  /\ In(w, "campaign", "offer")
  /\ Stage(w, "save")
  /\ UNCHANGED <<vars, held, deskVars, results>>

(* The basket grows by the price offered, not by the price charged.        *)
AddOnPasses(w) ==
  /\ In(w, "campaign", "again")
  /\ LogPass(w)
  /\ front' = [front EXCEPT ![w].stage = "save", ![w].addon = front[w].cap,
                            ![w].basket = front[w].basket + front[w].cap]
  /\ UNCHANGED <<held, deskVars, results>>

RejectedAddOnCounts(w) ==   \* mutant: the offer counts without asking "accepted"
  /\ In(w, "campaign", "call") \/ In(w, "campaign", "again")
  /\ LogReject(w)
  /\ front' = [front EXCEPT ![w].stage = "save", ![w].addon = front[w].cap,
                            ![w].basket = front[w].basket + front[w].cap]
  /\ UNCHANGED <<held, deskVars, results>>

CampaignRejected(w) ==
  /\ In(w, "campaign", "call") \/ In(w, "campaign", "again")
  /\ LogReject(w)
  /\ Stage(w, "save")
  /\ UNCHANGED <<held, deskVars, results>>

(* A row of campaign_sessions; the tokens in it are history.               *)
Result(handler) ==
  [session |-> handler.session, basket |-> handler.basket,
   addon |-> handler.addon, kept |-> handler.kept, added |-> handler.added]

SaveResult(w) ==
  /\ In(w, "campaign", "save")
  /\ results' = results \cup {Result(front[w])}
  /\ Leave(w)
  /\ UNCHANGED <<vars, held, deskVars>>

(* The Monte Carlo trials run the same sessions and save nothing.          *)
DropResult(w) ==
  /\ In(w, "campaign", "save")
  /\ Leave(w)
  /\ UNCHANGED <<vars, held, deskVars, results>>

-----------------------------------------------------------------------------

(* A buyer (POST /payment/dispatch, POST /agent/payment) shows a token of  *)
(* its session and an amount, which must be the amount authorised.         *)
CoversTheAmount(k, amount) == amount <= k.amount + 1   \* mutant: one paisa over is let through

Authorises(k, amount) == amount = k.amount

Ordered == {o.token: o \in orders}

Desk == INSTANCE OrderDesk WITH ordered <- Ordered

Burn(k, amount) ==
  /\ k.id \in held
  /\ Authorises(k, amount)
  /\ UNCHANGED <<vars, front, held, orders, results>>
  /\ Desk!Burn(k.id)

(* The token was consumed, by this call or by one that is being retried.   *)
RecordPayment(k, amount) ==
  /\ Authorises(k, amount)
  /\ UNCHANGED <<vars, front, held, orders, results>>
  /\ Desk!Record(k.id)

(* The receipt is made of the token, so that the gateway creates one order *)
(* however often the dispatch is retried.                                  *)
PlaceOrderAgain(k, amount) ==   \* mutant: the receipt is new on every call
  /\ k.id \in recorded
  /\ Authorises(k, amount)
  /\ \E copy \in 1..2:
       orders' = orders \cup {[token |-> k.id, session |-> k.session,
                               amount |-> amount, copy |-> copy]}
  /\ UNCHANGED <<vars, front, held, burnt, recorded, results>>

PlaceOrder(k, amount) ==
  /\ Authorises(k, amount)
  /\ orders' = orders \cup {[token |-> k.id, session |-> k.session,
                             amount |-> amount]}
  /\ UNCHANGED <<vars, front, held, results>>
  /\ Desk!Order(k.id)

-----------------------------------------------------------------------------

(* The steps inside check_spend that the handler has no part in.           *)
InsideCall(w) ==
  /\ \/ RejectCart(w)
     \/ CheckCeiling(w)
     \/ ReadSessionState(w)
     \/ InitSessionBudget(w)
     \/ SpendAccepted(w)
     \/ SpendRefused(w)
     \/ CountRejection(w)
     \/ RecheckFreeze(w)
     \/ FreezeSession(w)
  /\ UNCHANGED <<front, held, deskVars, results>>

(* The insertion of the token is refused: the handler ends with an error.  *)
CallFails(w) ==
  /\ IssueFails(w)
  /\ Leave(w)
  /\ UNCHANGED <<held, deskVars, results>>

(* The process is lost, inside check_spend or between two calls.           *)
LoseFrontOnly(w) ==   \* mutant: the handler is cancelled, its check_spend runs on
  /\ front[w] # NoFront
  /\ Leave(w)
  /\ UNCHANGED <<vars, held, deskVars, results>>

LoseHandler(w) ==
  /\ front[w] # NoFront
  /\ IF job[w] = NoCall THEN UNCHANGED vars ELSE Crash(w)
  /\ Leave(w)
  /\ UNCHANGED <<held, deskVars, results>>

Guarded(w) ==
  \/ InsideCall(w)
  \/ CallFails(w)
  \/ \E t \in Tokens: KeepToken(w, t)
  \/ AnswerCheckout(w)
  \/ AnswerAgent(w)
  \/ AnswerUpsell(w)
  \/ AnswerReject(w)

Buy(w) ==
  \/ \E s \in Sessions, total \in Totals, ceiling \in Ceilings:
       \/ BeginCheckout(w, s, total, ceiling)
       \/ BeginAgentPurchase(w, s, total, ceiling)
  \/ \E k \in tokens, total \in Totals, price \in Ceilings:
       BeginUpsell(w, k, total, price)

Campaign(w) ==
  \/ \E s \in Sessions, budget \in Ceilings, agent \in BOOLEAN:
       OpenCampaignSession(w, s, budget, agent)
  \/ \E total \in Totals: BeginCampaignCart(w, total) \/ AcceptOffer(w, total)
  \/ \E price \in Ceilings: MakeOffer(w, price)
  \/ CampaignCartPasses(w)
  \/ NoUpsell(w)
  \/ OfferRequestFails(w)
  \/ OfferLapses(w)
  \/ AddOnPasses(w)
  \/ CampaignRejected(w)
  \/ SaveResult(w)
  \/ DropResult(w)

Pay(k, amount) == Burn(k, amount) \/ RecordPayment(k, amount) \/ PlaceOrder(k, amount)

CommerceNext ==
  \/ \E w \in Workers: Buy(w) \/ Guarded(w) \/ Campaign(w) \/ LoseHandler(w)
  \/ \E k \in tokens, amount \in Totals: Pay(k, amount)

CommerceSpec == CommerceInit /\ [][CommerceNext]_commerceVars

-----------------------------------------------------------------------------

(* The types of the variables Commerce adds to Guardrail's; a worker is in *)
(* check_spend only on behalf of a handler.                                *)
CommerceTypeOK ==
  /\ TypeOK
  /\ front \in [Workers -> Fronts \cup {NoFront}]
  /\ \A w \in Workers: job[w] # NoCall =>
       front[w] # NoFront /\ front[w].stage \in {"call", "again"}
  /\ held \subseteq Tokens
  /\ burnt \subseteq Tokens /\ recorded \subseteq Tokens
  /\ \A o \in orders: o.token \in Tokens /\ o.session \in Sessions /\ o.amount \in Nat
  /\ results \subseteq [session: Sessions, basket: Nat, addon: Nat,
                        kept: SUBSET Tokens, added: SUBSET Tokens]

(* Every order at the gateway is for the session and the exact amount of a *)
(* token the guardrail issued, and no token has two, whatever was retried, *)
(* lost or answered twice on the way.                                      *)
OrdersAreBacked ==
  /\ \A o \in orders: \E k \in tokens:
       k.id = o.token /\ k.session = o.session /\ k.amount = o.amount
  /\ \A o, p \in orders: o.token = p.token => o = p

(* End to end: what is ordered at the gateway for a session stays within   *)
(* its budget, over checkouts, agents, add-ons and retried dispatches.     *)
OrdersWithinBudget ==
  \A s \in Sessions:
    MapThenSumSet(LAMBDA o: o.amount, {o \in orders: o.session = s})
      <= ledger[s].budget

(* No simulated session reports more revenue than its budget, although it  *)
(* counts the price offered, not the price charged, and other handlers may *)
(* spend of the same budget between the offer and its acceptance.          *)
ResultsWithinBudget ==
  \A row \in results: row.basket <= ledger[row.session].budget

IsAuthorisation(ids, s, k) == ids = {k.id} /\ k.session = s

(* What a simulated session reports was authorised, the cart to the paisa  *)
(* and the add-on for no more than the price reported, each by a token     *)
(* that no other session has: an offer that no longer fits the budget when *)
(* it is accepted is not counted, and no purchase is counted twice.        *)
ResultsAreAuthorised ==
  /\ \A row \in results:
       /\ row.basket > 0 => \E k \in tokens:
            /\ IsAuthorisation(row.kept, row.session, k)
            /\ k.amount + row.addon = row.basket
       /\ row.addon > 0 => \E k \in tokens:
            /\ IsAuthorisation(row.added, row.session, k)
            /\ k.amount <= row.addon
       /\ row.kept \cap row.added = {}
  /\ \A row, other \in results: row # other =>
       (row.kept \cup row.added) \cap (other.kept \cup other.added) = {}
=============================================================================
