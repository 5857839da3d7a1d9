--------------------------- MODULE CommerceProofs ---------------------------
(***************************************************************************)
(* Proofs about Commerce, for any number of handlers at a time: it takes   *)
(* only steps of Guardrail on the guardrail's state, so that the theorems  *)
(* of GuardrailProofs hold of it; every order is backed by a token; and    *)
(* what a simulated session reports was authorised and fits its budget.    *)
(***************************************************************************)
EXTENDS Commerce, GuardrailProofs

(* The type invariant, and that a handler which is about to call the       *)
(* guardrail holds one of the ceilings.                                    *)
Typed ==
  /\ CommerceTypeOK
  /\ \A w \in Workers:
       front[w] # NoFront /\ front[w].stage \in {"opened", "offer"}
         => front[w].cap \in Ceilings

(* A handler at a named stage has typed fields.                            *)
LEMMA HandlerTyped ==
  ASSUME Typed, NEW w \in Workers, front[w] # NoFront
  PROVE  /\ front[w] \in Fronts
         /\ front[w].session \in Sessions /\ front[w].kind \in Kinds
         /\ front[w].stage \in Stages
         /\ front[w].cap \in Nat /\ front[w].basket \in Nat /\ front[w].addon \in Nat
         /\ front[w].kept \in SUBSET Tokens /\ front[w].added \in SUBSET Tokens
BY DEF Typed, CommerceTypeOK, Fronts

(* Every handler reaches the guardrail's state through its own steps.      *)
LEMMA JourneyStep == Typed /\ [CommerceNext]_commerceVars => [Next]_vars
<1>. SUFFICES ASSUME Typed, [CommerceNext]_commerceVars
              PROVE  [Next]_vars
  OBVIOUS
<1>. TypeOK
  BY DEF Typed, CommerceTypeOK
<1>1. ASSUME NEW w \in Workers, Buy(w)
      PROVE  [Next]_vars
  <2>1. ASSUME NEW s \in Sessions, NEW total \in Totals, NEW ceiling \in Ceilings,
               \/ BeginCheckout(w, s, total, ceiling)
               \/ BeginAgentPurchase(w, s, total, ceiling)
        PROVE  [Next]_vars
    BY <2>1 DEF BeginCheckout, BeginAgentPurchase, Next, Arrive
  <2>2. ASSUME NEW k \in tokens, NEW total \in Totals, NEW price \in Ceilings,
               BeginUpsell(w, k, total, price)
        PROVE  [Next]_vars
    <3>1. k.session \in Sessions
      BY DEF TypeOK, TokenRows
    <3>. QED
      BY <2>2, <3>1 DEF BeginUpsell, Next, Arrive
  <2>. QED
    BY <1>1, <2>1, <2>2 DEF Buy
<1>2. ASSUME NEW w \in Workers, Guarded(w)
      PROVE  [Next]_vars
  BY <1>2 DEF Guarded, InsideCall, CallFails, KeepToken, HandOut, AnswerCheckout,
              AnswerAgent, AnswerUpsell, AnswerReject, Next, Continue
<1>3. ASSUME NEW w \in Workers, Campaign(w)
      PROVE  [Next]_vars
  <2>1. ASSUME NEW s \in Sessions, NEW budget \in Ceilings, NEW agent \in BOOLEAN,
               OpenCampaignSession(w, s, budget, agent)
        PROVE  [Next]_vars
    BY <2>1 DEF OpenCampaignSession, Next, Arrive, InitSession
  <2>2. ASSUME NEW total \in Totals, BeginCampaignCart(w, total) \/ AcceptOffer(w, total)
        PROVE  [Next]_vars
    <3>1. front[w].session \in Sessions /\ front[w].cap \in Ceilings
      BY <2>2, HandlerTyped DEF BeginCampaignCart, AcceptOffer, In, Typed
    <3>2. CheckFreeze(w, front[w].session, total, front[w].cap)
      BY <2>2 DEF BeginCampaignCart, AcceptOffer
    <3>. QED
      BY <3>1, <3>2 DEF Next, Arrive
  <2>3. CASE \/ CampaignCartPasses(w) \/ AddOnPasses(w) \/ CampaignRejected(w)
    BY <2>3 DEF CampaignCartPasses, AddOnPasses, CampaignRejected, Next, Continue
  <2>4. CASE \/ \E price \in Ceilings: MakeOffer(w, price)
             \/ NoUpsell(w) \/ OfferRequestFails(w) \/ OfferLapses(w)
             \/ SaveResult(w) \/ DropResult(w)
    BY <2>4 DEF MakeOffer, NoUpsell, OfferRequestFails, OfferLapses, SaveResult,
                DropResult
  <2>. QED
    BY <1>3, <2>1, <2>2, <2>3, <2>4 DEF Campaign
<1>4. ASSUME NEW w \in Workers, LoseHandler(w)
      PROVE  [Next]_vars
  BY <1>4 DEF LoseHandler, Next
<1>5. ASSUME NEW k \in tokens, NEW amount \in Totals, Pay(k, amount)
      PROVE  [Next]_vars
  BY <1>5 DEF Pay, Burn, RecordPayment, PlaceOrder
<1>6. CASE UNCHANGED commerceVars
  BY <1>6 DEF commerceVars, vars
<1>. QED
  BY <1>1, <1>2, <1>3, <1>4, <1>5, <1>6 DEF CommerceNext

-----------------------------------------------------------------------------

(* The part of Typed that is about handlers.                               *)
HandlersOK ==
  /\ front \in [Workers -> Fronts \cup {NoFront}]
  /\ \A w \in Workers: job[w] # NoCall =>
       front[w] # NoFront /\ front[w].stage \in {"call", "again"}
  /\ \A w \in Workers:
       front[w] # NoFront /\ front[w].stage \in {"opened", "offer"}
         => front[w].cap \in Ceilings

(* A step of one worker that leaves it with the given handler and call.    *)
LEMMA WorkerMoved ==
  ASSUME Typed, NEW w \in Workers, NEW handler \in Fronts \cup {NoFront}, NEW call,
         front' = [front EXCEPT ![w] = handler],
         job' = [job EXCEPT ![w] = call],
         handler # NoFront /\ handler.stage \in {"opened", "offer"}
           => handler.cap \in Ceilings,
         call # NoCall => handler # NoFront /\ handler.stage \in {"call", "again"}
  PROVE  HandlersOK'
BY DEF Typed, CommerceTypeOK, TypeOK, HandlersOK

(* A step of one worker inside its call.                                   *)
LEMMA CallContinues ==
  ASSUME Typed, NEW w \in Workers, job[w] # NoCall, NEW call,
         UNCHANGED front, job' = [job EXCEPT ![w] = call]
  PROVE  HandlersOK'
BY DEF Typed, CommerceTypeOK, TypeOK, HandlersOK

(* Where a worker stands in its call says that it is in one.               *)
LEMMA InCall ==
  ASSUME NEW w \in Workers, job[w].pc \in Steps
  PROVE  job[w] # NoCall
BY DEF NoCall, Steps

LEMMA HandlersStep == Typed /\ [CommerceNext]_commerceVars => HandlersOK'
<1>. SUFFICES ASSUME Typed, [CommerceNext]_commerceVars
              PROVE  HandlersOK'
  OBVIOUS
<1>. /\ front \in [Workers -> Fronts \cup {NoFront}]
     /\ job \in [Workers -> Calls \cup {NoCall}]
  BY DEF Typed, CommerceTypeOK, TypeOK
<1>1. ASSUME NEW w \in Workers, NEW s \in Sessions, NEW total, NEW ceiling,
             NEW kind \in Kinds,
             Enter(w, Handler(kind, "call", s, FALSE, 0)),
             CheckFreeze(w, s, total, ceiling)
      PROVE  HandlersOK'
  <2>. DEFINE handler == Handler(kind, "call", s, FALSE, 0)
              call == [pc |-> FreezeVerdict(s, "cart"), session |-> s,
                       total |-> total, ceiling |-> ceiling, base |-> 0]
  <2>1. handler \in Fronts /\ handler.stage = "call" /\ handler # NoFront
    BY DEF Handler, Fronts, Stages, Kinds, NoFront
  <2>2. front' = [front EXCEPT ![w] = handler] /\ job' = [job EXCEPT ![w] = call]
    BY <1>1 DEF Enter, CheckFreeze
  <2>. HIDE DEF handler, call
  <2>. QED
    BY <2>1, <2>2, WorkerMoved
<1>2. ASSUME NEW w \in Workers, Buy(w)
      PROVE  HandlersOK'
  <2>1. \A k \in tokens: k.session \in Sessions
    BY DEF Typed, CommerceTypeOK, TypeOK, TokenRows
  <2>. QED
    BY <1>1, <1>2, <2>1 DEF Buy, BeginCheckout, BeginAgentPurchase, BeginUpsell, Kinds
<1>3. ASSUME NEW w \in Workers, InsideCall(w)
      PROVE  HandlersOK'
  <2>1. job[w].pc \in Steps /\ UNCHANGED front
    BY <1>3 DEF InsideCall, RejectCart, CheckCeiling, ReadSessionState, Steps,
                InitSessionBudget, SpendAccepted, SpendRefused, CountRejection,
                RecheckFreeze, FreezeSession
  <2>2. PICK call: job' = [job EXCEPT ![w] = call]
    BY <1>3 DEF InsideCall, RejectCart, CheckCeiling, ReadSessionState, Goto,
                InitSessionBudget, SpendAccepted, SpendRefused, CountRejection,
                RecheckFreeze, FreezeSession
  <2>. QED
    BY <2>1, <2>2, InCall, CallContinues
<1>4. ASSUME NEW w \in Workers, Leave(w), job' = [job EXCEPT ![w] = NoCall]
      PROVE  HandlersOK'
  BY <1>4, WorkerMoved DEF Leave
<1>5. ASSUME NEW w \in Workers, NEW t \in Tokens, KeepToken(w, t)
      PROVE  HandlersOK'
  <2>. DEFINE call == [job[w] EXCEPT !.pc = "pass"]
  <2>1. job[w] # NoCall
    BY <1>5, InCall DEF KeepToken, IssueToken, Steps
  <2>2. front[w] \in Fronts /\ front[w].stage \in {"call", "again"}
    BY <2>1 DEF Typed, CommerceTypeOK
  <2>3. PICK handler \in {[front[w] EXCEPT !.kept = {t}], [front[w] EXCEPT !.added = {t}]}:
          front' = [front EXCEPT ![w] = handler]
    BY <1>5 DEF KeepToken
  <2>4. handler \in Fronts /\ handler.stage = front[w].stage
    BY <2>2 DEF Fronts
  <2>5. handler # NoFront
    BY <2>4 DEF Fronts, NoFront
  <2>6. job' = [job EXCEPT ![w] = call]
    BY <1>5 DEF KeepToken, IssueToken, Goto
  <2>. HIDE DEF call
  <2>. QED
    BY <2>2, <2>3, <2>4, <2>5, <2>6, WorkerMoved
<1>6. ASSUME NEW w \in Workers, UNCHANGED job, job[w] = NoCall,
             NEW handler \in Fronts \cup {NoFront},
             front' = [front EXCEPT ![w] = handler],
             handler # NoFront /\ handler.stage \in {"opened", "offer"}
               => handler.cap \in Ceilings
      PROVE  HandlersOK'
  <2>1. job' = [job EXCEPT ![w] = NoCall]
    BY <1>6
  <2>. QED
    BY <1>6, <2>1, WorkerMoved
<1>7. ASSUME NEW w \in Workers, Campaign(w)
      PROVE  HandlersOK'
  <2>1. ASSUME NEW s \in Sessions, NEW budget \in Ceilings, NEW agent \in BOOLEAN,
               OpenCampaignSession(w, s, budget, agent)
        PROVE  HandlersOK'
    <3>. DEFINE handler == Handler("campaign", "opened", s, agent, budget)
    <3>1. handler \in Fronts /\ handler.cap \in Ceilings
      BY GuardrailAssumption DEF Handler, Fronts, Stages, Kinds
    <3>2. job[w] = NoCall /\ UNCHANGED job /\ front' = [front EXCEPT ![w] = handler]
      BY <2>1 DEF OpenCampaignSession, Enter, Typed, CommerceTypeOK
    <3>. HIDE DEF handler
    <3>. QED
      BY <3>1, <3>2, <1>6
  <2>2. ASSUME front[w] # NoFront
        PROVE  /\ front[w] \in Fronts
               /\ \A label \in Stages:
                    /\ [front[w] EXCEPT !.stage = label] \in Fronts
                    /\ [front[w] EXCEPT !.stage = label].stage = label
                    /\ \A cap \in Nat:
                         /\ [front[w] EXCEPT !.stage = label, !.cap = cap] \in Fronts
                         /\ [front[w] EXCEPT !.stage = label, !.cap = cap].stage = label
                         /\ [front[w] EXCEPT !.stage = label, !.cap = cap].cap = cap
                    /\ \A basket \in Nat:
                         /\ [front[w] EXCEPT !.stage = label, !.basket = basket] \in Fronts
                         /\ [front[w] EXCEPT !.stage = label, !.basket = basket].stage
                              = label
    BY <2>2 DEF Fronts
  <2>3. \A handler \in Fronts: handler # NoFront
    BY DEF Fronts, NoFront
  <2>4. ASSUME NEW total \in Totals, BeginCampaignCart(w, total)
        PROVE  HandlersOK'
    <3>. DEFINE handler == [front[w] EXCEPT !.stage = "call", !.cap = 0]
    <3>0. front[w] # NoFront /\ "call" \in Stages
      BY <2>4 DEF BeginCampaignCart, In, Stages
    <3>1. handler \in Fronts /\ handler.stage = "call"
      BY <3>0, HandlerTyped DEF Fronts
    <3>2. PICK call: job' = [job EXCEPT ![w] = call]
      BY <2>4 DEF BeginCampaignCart, CheckFreeze
    <3>3. front' = [front EXCEPT ![w] = handler]
      BY <2>4 DEF BeginCampaignCart
    <3>. HIDE DEF handler
    <3>. QED
      BY <2>3, <3>1, <3>2, <3>3, WorkerMoved
  <2>5. ASSUME NEW total \in Totals, AcceptOffer(w, total)
        PROVE  HandlersOK'
    <3>. DEFINE handler == [front[w] EXCEPT !.stage = "again"]
    <3>1. handler \in Fronts /\ handler.stage = "again"
      BY <2>2, <2>5 DEF AcceptOffer, In, Stages
    <3>2. PICK call: job' = [job EXCEPT ![w] = call]
      BY <2>5 DEF AcceptOffer, CheckFreeze
    <3>3. front' = [front EXCEPT ![w] = handler]
      BY <2>5 DEF AcceptOffer, Stage
    <3>. HIDE DEF handler
    <3>. QED
      BY <2>3, <3>1, <3>2, <3>3, WorkerMoved
  <2>6. CASE CampaignCartPasses(w)
    <3>. DEFINE label == IF front[w].agent THEN "look" ELSE "save"
                handler == [front[w] EXCEPT !.stage = label, !.basket = job[w].total]
    <3>1. job[w].total \in Nat
      BY <2>6, CallTyped DEF CampaignCartPasses, LogPass, Steps, Typed, CommerceTypeOK
    <3>2. label \in Stages \ {"opened", "offer"}
      BY DEF Stages
    <3>3. job' = [job EXCEPT ![w] = NoCall] /\ front' = [front EXCEPT ![w] = handler]
      BY <2>6 DEF CampaignCartPasses, LogPass
    <3>. HIDE DEF label
    <3>4. handler \in Fronts /\ handler.stage = label
      BY <2>2, <2>6, <3>1, <3>2 DEF CampaignCartPasses, In
    <3>. HIDE DEF handler
    <3>. QED
      BY <3>2, <3>3, <3>4, WorkerMoved
  <2>11. CASE AddOnPasses(w)
    <3>. DEFINE handler == [front[w] EXCEPT !.stage = "save", !.addon = front[w].cap,
                                            !.basket = front[w].basket + front[w].cap]
    <3>0. /\ front[w] \in Fronts /\ "save" \in Stages
          /\ front[w].cap \in Nat /\ front[w].basket + front[w].cap \in Nat
      BY <2>11, HandlerTyped DEF AddOnPasses, In, Stages
    <3>1. handler \in Fronts /\ handler.stage = "save"
      BY <3>0 DEF Fronts
    <3>2. job' = [job EXCEPT ![w] = NoCall] /\ front' = [front EXCEPT ![w] = handler]
      BY <2>11 DEF AddOnPasses, LogPass
    <3>. HIDE DEF handler
    <3>. QED
      BY <3>1, <3>2, WorkerMoved
  <2>7. CASE CampaignRejected(w)
    <3>. DEFINE handler == [front[w] EXCEPT !.stage = "save"]
    <3>1. handler \in Fronts /\ handler.stage = "save"
      BY <2>2, <2>7 DEF CampaignRejected, In, Stages
    <3>2. job' = [job EXCEPT ![w] = NoCall] /\ front' = [front EXCEPT ![w] = handler]
      BY <2>7 DEF CampaignRejected, LogReject, Stage
    <3>. HIDE DEF handler
    <3>. QED
      BY <3>1, <3>2, WorkerMoved
  <2>8. ASSUME NEW price \in Ceilings, MakeOffer(w, price)
        PROVE  HandlersOK'
    <3>. DEFINE handler == [front[w] EXCEPT !.stage = "offer", !.cap = price]
    <3>1. handler \in Fronts /\ handler.cap = price
      BY <2>2, <2>8, GuardrailAssumption DEF MakeOffer, In, Stages
    <3>2. job[w] = NoCall /\ UNCHANGED job /\ front' = [front EXCEPT ![w] = handler]
      BY <2>8 DEF MakeOffer, In, Typed, CommerceTypeOK, vars
    <3>. HIDE DEF handler
    <3>. QED
      BY <3>1, <3>2, <1>6
  <2>9. CASE NoUpsell(w) \/ OfferLapses(w)
    <3>. DEFINE handler == [front[w] EXCEPT !.stage = "save"]
    <3>1. handler \in Fronts /\ handler.stage = "save"
      BY <2>2, <2>9 DEF NoUpsell, OfferLapses, In, Stages
    <3>2. job[w] = NoCall /\ UNCHANGED job /\ front' = [front EXCEPT ![w] = handler]
      BY <2>9 DEF NoUpsell, OfferLapses, In, Stage, Typed, CommerceTypeOK, vars
    <3>. HIDE DEF handler
    <3>. QED
      BY <3>1, <3>2, <1>6
  <2>10. CASE OfferRequestFails(w) \/ SaveResult(w) \/ DropResult(w)
    <3>1. job[w] = NoCall /\ UNCHANGED job /\ front' = [front EXCEPT ![w] = NoFront]
      BY <2>10 DEF OfferRequestFails, SaveResult, DropResult, Leave, In, Typed,
                   CommerceTypeOK, vars
    <3>. QED
      BY <3>1, <1>6
  <2>. QED
    BY <1>7, <2>1, <2>4, <2>5, <2>6, <2>7, <2>8, <2>9, <2>10,
       <2>11 DEF Campaign
<1>8. ASSUME NEW w \in Workers, LoseHandler(w)
      PROVE  HandlersOK'
  <2>1. job' = [job EXCEPT ![w] = NoCall] /\ Leave(w)
    BY <1>8 DEF LoseHandler, Crash, vars
  <2>. QED
    BY <2>1, <1>4
<1>9. ASSUME NEW w \in Workers,
             \/ CallFails(w) \/ AnswerCheckout(w) \/ AnswerAgent(w)
             \/ AnswerUpsell(w) \/ AnswerReject(w)
      PROVE  HandlersOK'
  BY <1>4, <1>9 DEF CallFails, IssueFails, HandOut, AnswerCheckout, AnswerAgent,
       AnswerUpsell, AnswerReject,
                    LogPass, LogReject
<1>10. ASSUME NEW w \in Workers, Guarded(w)
       PROVE  HandlersOK'
  BY <1>3, <1>5, <1>9, <1>10 DEF Guarded
<1>11. CASE UNCHANGED <<job, front>>
  BY <1>11 DEF Typed, CommerceTypeOK, HandlersOK
<1>12. ASSUME NEW k \in tokens, NEW amount \in Totals, Pay(k, amount)
       PROVE  UNCHANGED <<job, front>>
  BY <1>12 DEF Pay, Burn, RecordPayment, PlaceOrder, vars
<1>. QED
  BY <1>2, <1>7, <1>8, <1>10, <1>11, <1>12 DEF CommerceNext, commerceVars

(* Everything but the payment side leaves the desk alone; only the end of  *)
(* a simulated session adds a result; only a checkout hands out a token.   *)
LEMMA OnlyPayMovesTheDesk ==
  ASSUME [CommerceNext]_commerceVars
  PROVE  \/ UNCHANGED deskVars
         \/ \E k \in tokens, amount \in Totals: Pay(k, amount)
BY DEF CommerceNext, commerceVars, Buy, BeginCheckout, BeginAgentPurchase,
       BeginUpsell, Guarded,
       InsideCall, CallFails, KeepToken, HandOut, AnswerCheckout, AnswerAgent,
       AnswerUpsell, AnswerReject,
       Campaign, OpenCampaignSession, BeginCampaignCart, AcceptOffer, MakeOffer,
       CampaignCartPasses, NoUpsell, OfferRequestFails, OfferLapses, AddOnPasses,
       CampaignRejected, SaveResult, DropResult, LoseHandler

LEMMA OnlySaveAddsResults ==
  ASSUME [CommerceNext]_commerceVars
  PROVE  UNCHANGED results \/ \E w \in Workers: SaveResult(w)
BY DEF CommerceNext, commerceVars, Buy, BeginCheckout, BeginAgentPurchase,
       BeginUpsell, Guarded,
       InsideCall, CallFails, KeepToken, HandOut, AnswerCheckout, AnswerAgent,
       AnswerUpsell, AnswerReject,
       Campaign, OpenCampaignSession, BeginCampaignCart, AcceptOffer, MakeOffer,
       CampaignCartPasses, NoUpsell, OfferRequestFails, OfferLapses, AddOnPasses,
       CampaignRejected, DropResult, LoseHandler, Pay, Burn, RecordPayment, PlaceOrder

LEMMA OnlyCheckoutHandsOut ==
  ASSUME [CommerceNext]_commerceVars
  PROVE  UNCHANGED held \/ \E w \in Workers: AnswerCheckout(w) \/ AnswerAgent(w)
BY DEF CommerceNext, commerceVars, Buy, BeginCheckout, BeginAgentPurchase,
       BeginUpsell, Guarded,
       InsideCall, CallFails, KeepToken, AnswerUpsell, AnswerReject,
       Campaign, OpenCampaignSession, BeginCampaignCart, AcceptOffer, MakeOffer,
       CampaignCartPasses, NoUpsell, OfferRequestFails, OfferLapses, AddOnPasses,
       CampaignRejected, SaveResult, DropResult, LoseHandler, Pay, Burn,
       RecordPayment, PlaceOrder

ResultRows == [session: Sessions, basket: Nat, addon: Nat,
               kept: SUBSET Tokens, added: SUBSET Tokens]

(* The handlers, what they hold and what they leave behind stay typed, and *)
(* only a handler that is waiting for check_spend is inside it.            *)
LEMMA TypedStep == Typed /\ [CommerceNext]_commerceVars => Typed'
<1>. SUFFICES ASSUME Typed, [CommerceNext]_commerceVars
              PROVE  Typed'
  OBVIOUS
<1>1. TypeOK'
  BY JourneyStep, TypeStep DEF Typed, CommerceTypeOK
<1>2. HandlersOK'
  BY HandlersStep
<1>3. /\ held \subseteq Tokens /\ burnt \subseteq Tokens /\ recorded \subseteq Tokens
      /\ \A o \in orders: o.token \in Tokens /\ o.session \in Sessions /\ o.amount \in Nat
      /\ results \subseteq ResultRows
      /\ \A k \in tokens: k.id \in Tokens /\ k.session \in Sessions
      /\ Totals \subseteq Nat
  BY GuardrailAssumption DEF Typed, CommerceTypeOK, TypeOK, TokenRows, ResultRows
<1>4. held' \subseteq Tokens
  <2>1. ASSUME NEW w \in Workers, AnswerCheckout(w) \/ AnswerAgent(w)
        PROVE  held' \subseteq Tokens
    BY <2>1, <1>3, HandlerTyped DEF HandOut, AnswerCheckout, AnswerAgent, In
  <2>2. CASE UNCHANGED held
    BY <2>2, <1>3
  <2>. QED
    BY <2>1, <2>2, OnlyCheckoutHandsOut
<1>5. /\ burnt' \subseteq Tokens /\ recorded' \subseteq Tokens
      /\ \A o \in orders': o.token \in Tokens /\ o.session \in Sessions /\ o.amount \in Nat
  <2>1. ASSUME NEW k \in tokens, NEW amount \in Totals, Pay(k, amount)
        PROVE  /\ burnt' \subseteq Tokens /\ recorded' \subseteq Tokens
               /\ \A o \in orders': /\ o.token \in Tokens /\ o.session \in Sessions
                                   /\ o.amount \in Nat
    BY <2>1, <1>3
       DEF Pay, Burn, RecordPayment, PlaceOrder, Desk!Burn, Desk!Record, Desk!Order
  <2>2. CASE UNCHANGED deskVars
    BY <2>2, <1>3 DEF deskVars
  <2>. QED
    BY <2>1, <2>2, OnlyPayMovesTheDesk
<1>6. results' \subseteq ResultRows
  <2>1. ASSUME NEW w \in Workers, SaveResult(w)
        PROVE  results' \subseteq ResultRows
    <3>1. Result(front[w]) \in ResultRows
      BY <2>1, HandlerTyped DEF SaveResult, In, Result, ResultRows
    <3>. QED
      BY <2>1, <3>1, <1>3 DEF SaveResult
  <2>2. CASE UNCHANGED results
    BY <2>2, <1>3
  <2>. QED
    BY <2>1, <2>2, OnlySaveAddsResults
<1>. QED
  BY <1>1, <1>2, <1>4, <1>5, <1>6 DEF Typed, CommerceTypeOK, HandlersOK, ResultRows

LEMMA JourneyStarts == CommerceInit => Init /\ Typed
<1>. SUFFICES ASSUME CommerceInit
              PROVE  Init /\ Typed
  OBVIOUS
<1>1. Init /\ TypeOK
  BY GuardrailAssumption DEF CommerceInit, Init, TypeOK, NoRow, Rows
<1>. QED
  BY <1>1 DEF CommerceInit, Init, Typed, CommerceTypeOK

(* Checkout, agents, add-ons, campaigns and losses run the guardrail as    *)
(* Guardrail specifies it: what is proved there holds of the whole journey.*)
THEOREM GuardedJourney == CommerceSpec => Spec
BY JourneyStarts, JourneyStep, TypedStep, PTL DEF CommerceSpec, Spec

(* The types of the journey, for any workers, tokens and ceilings.         *)
THEOREM JourneyTypes == CommerceSpec => []CommerceTypeOK
<1>1. Typed => CommerceTypeOK
  BY DEF Typed
<1>. QED
  BY <1>1, JourneyStarts, TypedStep, PTL DEF CommerceSpec

(* No session is overspent on the journey.                                 *)
THEOREM JourneyWithinBudget == CommerceSpec => [](SpentWithinBudget /\ TokensAreSlices)
BY GuardedJourney, Safety, PTL

(* The whole journey keeps the promise of a spending authority, and leaves *)
(* a frozen session uncharged: checkouts, agents, add-ons and campaigns    *)
(* reach the ledger through check_spend only.                              *)
THEOREM JourneyIsSpendAuthority ==
  CommerceSpec => IsSpendAuthority /\ FrozenIsNeverCharged
BY GuardedJourney, Refinement, FrozenSafety, PTL

-----------------------------------------------------------------------------

(* Tokens are only added.                                                  *)
LEMMA TokensStay == [Next]_vars => tokens \subseteq tokens'
BY DEF Next, Arrive, Continue, InitSession, CheckFreeze, RejectCart, CheckCeiling,
       ReadSessionState, InitSessionBudget, SpendAccepted, SpendRefused,
       CountRejection, RecheckFreeze, FreezeSession, IssueToken, IssueFails,
       LogPass, LogReject, Crash, vars

(* Every order is for the session and the amount of an issued token, and   *)
(* no token has two orders, for any number of retries and losses.          *)
THEOREM BackedOrders == CommerceSpec => []OrdersAreBacked
<1>1. CommerceInit => OrdersAreBacked
  BY DEF CommerceInit, OrdersAreBacked
<1>2. Typed /\ OrdersAreBacked /\ [CommerceNext]_commerceVars => OrdersAreBacked'
  <2>. SUFFICES ASSUME Typed, OrdersAreBacked, [CommerceNext]_commerceVars
                PROVE  OrdersAreBacked'
    OBVIOUS
  <2>1. tokens \subseteq tokens'
    BY JourneyStep, TokensStay
  <2>2. ASSUME NEW k \in tokens, NEW amount \in Totals, PlaceOrder(k, amount)
        PROVE  OrdersAreBacked'
    <3>. DEFINE new == [token |-> k.id, session |-> k.session, amount |-> amount]
    <3>1. orders' = orders \cup {new} /\ amount = k.amount
      BY <2>2 DEF PlaceOrder, Authorises
    <3>2. \A o \in orders: o.token # new.token
      BY <2>2 DEF PlaceOrder, Desk!Order, Ordered
    <3>. QED
      BY <2>1, <3>1, <3>2 DEF OrdersAreBacked
  <2>3. CASE UNCHANGED orders
    BY <2>1, <2>3 DEF OrdersAreBacked
  <2>. QED
    BY <2>2, <2>3, OnlyPayMovesTheDesk DEF Pay, Burn, RecordPayment, deskVars
<1>. QED
  BY <1>1, <1>2, JourneyStarts, TypedStep, PTL DEF CommerceSpec

(* End to end, in paise: what is ordered at the gateway for a session adds *)
(* up to no more than its budget, over checkouts, agents, add-ons, retried *)
(* dispatches and losses.  An order stands for the slice of its token, and *)
(* two orders of a session stand for two tokens.                           *)
THEOREM OrdersFitTheBudget == CommerceSpec => []OrdersWithinBudget
<1>1. Typed /\ SpentWithinBudget /\ TokensAreSlices /\ OrdersAreBacked
        => OrdersWithinBudget
  <2>. SUFFICES ASSUME Typed, SpentWithinBudget, TokensAreSlices, OrdersAreBacked,
                       NEW s \in Sessions,
                       NEW placed, placed = {o \in orders: o.session = s}
                PROVE  SumOfAmounts(placed) <= ledger[s].budget
    BY DEF OrdersWithinBudget, SumOfAmounts
  <2>. DEFINE Backs(k, o) == /\ k \in tokens /\ k.id = o.token
                             /\ k.session = o.session /\ k.amount = o.amount
              token == [o \in placed |-> CHOOSE k \in tokens: Backs(k, o)]
              base == [o \in placed |-> token[o].base]
  <2>1. /\ ledger[s].spent \in Nat /\ ledger[s].budget \in Nat
        /\ ledger[s].spent <= ledger[s].budget
    BY DEF Typed, CommerceTypeOK, TypeOK, Rows, SpentWithinBudget
  <2>2. \A o \in placed: Backs(token[o], o)
    BY DEF OrdersAreBacked
  <2>3. \A o \in placed: /\ token[o] \in tokens /\ token[o].session = s
                         /\ token[o].id = o.token /\ token[o].amount = o.amount
    BY <2>2
  <2>4. \A o, p \in placed: o # p => token[o] # token[p]
    BY <2>3 DEF OrdersAreBacked
  <2>. HIDE DEF token
  <2>5. \A k \in tokens: k.base \in Nat /\ k.amount \in Nat
    BY DEF Typed, CommerceTypeOK, TypeOK, TokenRows
  <2>6. AreSlices(placed, base, ledger[s].spent)
    <3>1. base \in [placed -> Nat]
      BY <2>3, <2>5
    <3>2. ASSUME NEW o \in placed
          PROVE  o.amount \in Nat \ {0} /\ base[o] + o.amount <= ledger[s].spent
      BY <2>3, <2>5 DEF TokensAreSlices
    <3>3. ASSUME NEW o \in placed, NEW p \in placed, o # p
          PROVE  base[o] + o.amount <= base[p] \/ base[p] + p.amount <= base[o]
      BY <3>3, <2>3, <2>4 DEF TokensAreSlices, Apart
    <3>. QED
      BY <3>1, <3>2, <3>3 DEF AreSlices
  <2>7. SumOfAmounts(placed) <= ledger[s].spent /\ SumOfAmounts(placed) \in Nat
    BY <2>1, <2>6, SlicesFitTheLimit, SumOfSlicesTyped
  <2>. QED
    BY <2>1, <2>7
<1>. QED
  BY <1>1, JourneyStarts, TypedStep, JourneyWithinBudget, BackedOrders, PTL
     DEF CommerceSpec

-----------------------------------------------------------------------------

(* Balances and budgets never shrink.                                      *)
LEMMA LedgerGrows ==
  ASSUME TypeOK, [Next]_vars
  PROVE  \A s \in Sessions: /\ ledger[s].spent <= ledger'[s].spent
                            /\ ledger[s].budget <= ledger'[s].budget
<1>. USE GuardrailAssumption
<1>1. ASSUME NEW s \in Sessions, NEW budget \in Ceilings, OpenBudget(s, budget)
      PROVE  \A r \in Sessions: /\ ledger[r].spent <= ledger'[r].spent
                                /\ ledger[r].budget <= ledger'[r].budget
  <2>1. CASE ledger[s].exists
    BY <1>1, <2>1 DEF OpenBudget, TypeOK, Rows
  <2>2. CASE ~ledger[s].exists
    <3>1. ledger'[s].spent = 0 /\ ledger'[s].budget = budget
          /\ \A r \in Sessions: r # s => ledger'[r] = ledger[r]
      BY <1>1, <2>2 DEF OpenBudget, NoRow, TypeOK
    <3>2. ledger[s].spent = 0 /\ ledger[s].budget = 0 /\ budget \in Nat
      BY <2>2 DEF TypeOK, NoRow
    <3>. QED
      BY <3>1, <3>2 DEF TypeOK, Rows
  <2>. QED
    BY <2>1, <2>2
<1>2. ASSUME NEW w \in Workers, InitSessionBudget(w)
      PROVE  \E s \in Sessions, budget \in Ceilings: OpenBudget(s, budget)
  BY <1>2, CallTyped DEF InitSessionBudget, Steps, Calls
<1>3. ASSUME NEW w \in Workers, SpendAccepted(w)
      PROVE  \A r \in Sessions: /\ ledger[r].spent <= ledger'[r].spent
                                /\ ledger[r].budget <= ledger'[r].budget
  <2>. DEFINE s == job[w].session
  <2>1. s \in Sessions /\ job[w].total \in Nat /\ ledger[s] \in Rows
    BY <1>3, CallTyped DEF SpendAccepted, Steps
  <2>2. /\ ledger'[s].spent = ledger[s].spent + job[w].total
        /\ ledger'[s].budget = ledger[s].budget
        /\ \A r \in Sessions: r # s => ledger'[r] = ledger[r]
    BY <1>3, <2>1 DEF SpendAccepted, TypeOK, Rows
  <2>. QED
    BY <2>1, <2>2 DEF TypeOK, Rows
<1>4. ASSUME NEW w \in Workers, CountRejection(w) \/ FreezeSession(w)
      PROVE  \A r \in Sessions: /\ ledger'[r].spent = ledger[r].spent
                                /\ ledger'[r].budget = ledger[r].budget
  BY <1>4 DEF CountRejection, FreezeSession, TypeOK, Rows
<1>5. CASE UNCHANGED ledger
  BY <1>5 DEF TypeOK, Rows
<1>. QED
  BY <1>1, <1>2, <1>3, <1>4, <1>5
     DEF Next, Arrive, Continue, InitSession, CheckFreeze, RejectCart, CheckCeiling,
         ReadSessionState, SpendRefused, RecheckFreeze, IssueToken, IssueFails,
         LogPass, LogReject, Crash, vars, TypeOK, Rows

(* A call whose charge was accepted is covered by what its session spent.  *)
Covered(w) ==
  job[w].pc \in {"issue", "pass"} => job[w].total <= ledger[job[w].session].spent

LEMMA ChargesCovered == Spec => [](\A w \in Workers: Covered(w))
<1>1. Init => \A w \in Workers: Covered(w)
  BY DEF Init, Covered, NoCall
<1>2. TypeOK /\ TypeOK' /\ [Next]_vars /\ (\A w \in Workers: Covered(w))
        => (\A w \in Workers: Covered(w))'
  <2>. SUFFICES ASSUME TypeOK, TypeOK', [Next]_vars, \A w \in Workers: Covered(w),
                       NEW u \in Workers, job'[u].pc \in {"issue", "pass"}
                PROVE  job'[u].total <= ledger'[job'[u].session].spent
    BY DEF Covered
  <2>0. /\ job'[u] \in Calls /\ job'[u].session \in Sessions /\ job'[u].total \in Nat
        /\ \A r \in Sessions: ledger[r].spent \in Nat /\ ledger'[r].spent \in Nat
    <3>1. job'[u] # NoCall
      BY DEF NoCall
    <3>2. job'[u] \in Calls
      BY <3>1 DEF TypeOK
    <3>3. \A r \in Sessions: ledger[r] \in Rows /\ ledger'[r] \in Rows
      BY DEF TypeOK
    <3>. QED
      BY <3>2, <3>3, GuardrailAssumption DEF Calls, Rows
  <2>1. CASE job'[u] = job[u]
    BY <2>0, <2>1, LedgerGrows DEF Covered
  <2>2. CASE SpendAccepted(u)
    <3>. DEFINE s == job[u].session
    <3>1. s \in Sessions /\ job[u].total \in Nat /\ ledger[s] \in Rows /\ job[u] \in Calls
      BY <2>2, CallTyped DEF SpendAccepted, Steps
    <3>2. ledger'[s].spent = ledger[s].spent + job[u].total
      BY <2>2, <3>1 DEF SpendAccepted, TypeOK, Rows
    <3>3. job'[u].session = s /\ job'[u].total = job[u].total
      BY <2>2, <3>1 DEF SpendAccepted, TypeOK, Calls
    <3>. QED
      BY <3>1, <3>2, <3>3 DEF Rows
  <2>3. ASSUME NEW t \in Tokens, IssueToken(u, t)
        PROVE  job'[u].total <= ledger'[job'[u].session].spent
    <3>1. job[u].pc = "issue" /\ job[u] \in Calls /\ ledger' = ledger
      BY <2>3, CallTyped DEF IssueToken, Steps
    <3>2. job'[u].session = job[u].session /\ job'[u].total = job[u].total
      BY <2>3, <3>1 DEF IssueToken, Goto, TypeOK, Calls
    <3>. QED
      BY <3>1, <3>2 DEF Covered
  <2>4. ASSUME NEW w \in Workers, Continue(w) \/ Crash(w), w # u
        PROVE  job'[u] = job[u]
    BY <2>4 DEF Continue, RejectCart, CheckCeiling, ReadSessionState, InitSessionBudget,
                SpendAccepted, SpendRefused, CountRejection, RecheckFreeze,
                FreezeSession, IssueToken, IssueFails, LogPass, LogReject, Crash, Goto,
                TypeOK
  <2>5. ASSUME NEW label, Goto(u, label), job[u] \in Calls
        PROVE  job'[u].pc = label
    BY <2>5 DEF Goto, TypeOK, Calls
  <2>6. ASSUME RejectCart(u) \/ CheckCeiling(u) \/ ReadSessionState(u)
                 \/ InitSessionBudget(u) \/ SpendRefused(u) \/ CountRejection(u)
                 \/ RecheckFreeze(u) \/ FreezeSession(u)
        PROVE  FALSE
    <3>1. job[u] \in Calls
      BY <2>6, CallTyped DEF RejectCart, CheckCeiling, ReadSessionState, Steps,
              InitSessionBudget, SpendRefused, CountRejection, RecheckFreeze,
              FreezeSession
    <3>. QED
      BY <2>5, <2>6, <3>1
         DEF RejectCart, CheckCeiling, ReadSessionState, InitSessionBudget,
             SpendRefused, CountRejection, RecheckFreeze, FreezeSession, FreezeVerdict
  <2>7. ASSUME IssueFails(u) \/ LogPass(u) \/ LogReject(u) \/ Crash(u)
        PROVE  FALSE
    BY <2>7 DEF IssueFails, LogPass, LogReject, Crash, NoCall, TypeOK
  <2>8. ASSUME NEW w \in Workers, NEW s \in Sessions, NEW total \in Totals,
               NEW ceiling \in Ceilings, CheckFreeze(w, s, total, ceiling)
        PROVE  job'[u] = job[u]
    BY <2>8 DEF CheckFreeze, FreezeVerdict, TypeOK
  <2>. QED
    BY <2>1, <2>2, <2>3, <2>4, <2>6, <2>7, <2>8
       DEF Next, Arrive, Continue, InitSession, vars
<1>. QED
  BY <1>1, <1>2, TypeCorrect, PTL DEF Spec

(* The basket of a handler against the ledger: what a simulated session    *)
(* has been charged covers its basket until it holds an offer, and the     *)
(* budget covers the basket with the offer; its call is for its session.   *)
BasketOK(w) ==
  front[w] # NoFront =>
    /\ front[w].stage \in {"opened", "call"} => front[w].basket = 0
    /\ front[w].stage = "look"
         => front[w].basket <= ledger[front[w].session].spent
    /\ front[w].stage \in {"offer", "again"}
         => front[w].basket + front[w].cap <= ledger[front[w].session].budget
    /\ front[w].stage = "save"
         => front[w].basket <= ledger[front[w].session].budget
    /\ front[w].kind = "campaign" /\ job[w] # NoCall
         => job[w].session = front[w].session

Baskets == ResultsWithinBudget /\ \A w \in Workers: BasketOK(w)

LEMMA BasketKept ==
  ASSUME Typed, TypeOK', NEW w \in Workers, BasketOK(w),
         front'[w] = front[w],
         job'[w] # NoCall => job[w] # NoCall /\ job'[w].session = job[w].session,
         \A s \in Sessions: /\ ledger[s].spent <= ledger'[s].spent
                            /\ ledger[s].budget <= ledger'[s].budget
  PROVE  BasketOK(w)'
<1>1. \A s \in Sessions: /\ ledger[s].spent \in Nat /\ ledger'[s].spent \in Nat
                         /\ ledger[s].budget \in Nat /\ ledger'[s].budget \in Nat
  BY DEF Typed, CommerceTypeOK, TypeOK, Rows
<1>2. front[w] # NoFront
        => /\ front[w].session \in Sessions
           /\ front[w].basket \in Nat /\ front[w].cap \in Nat
  BY HandlerTyped
<1>. QED
  BY <1>1, <1>2 DEF BasketOK

(* A step of check_spend keeps the call's session.                         *)
LEMMA CallKeepsSession ==
  ASSUME TypeOK, NEW w \in Workers, InsideCall(w) \/ \E t \in Tokens: IssueToken(w, t)
  PROVE  job[w] # NoCall /\ job'[w].session = job[w].session
<1>1. job[w].pc \in Steps
  BY DEF InsideCall, RejectCart, CheckCeiling, ReadSessionState, Steps,
         InitSessionBudget, SpendAccepted, SpendRefused, CountRejection,
         RecheckFreeze, FreezeSession, IssueToken
<1>2. job[w] # NoCall /\ job[w] \in Calls
  BY <1>1, CallTyped
<1>3. ASSUME NEW label, Goto(w, label)
      PROVE  job'[w].session = job[w].session
  BY <1>2, <1>3 DEF Goto, TypeOK, Calls
<1>4. ASSUME SpendAccepted(w)
      PROVE  job'[w].session = job[w].session
  BY <1>2, <1>4 DEF SpendAccepted, TypeOK, Calls
<1>. QED
  BY <1>2, <1>3, <1>4
     DEF InsideCall, RejectCart, CheckCeiling, ReadSessionState,
         InitSessionBudget, SpendRefused, CountRejection,
         RecheckFreeze, FreezeSession, IssueToken

(* Only the worker that acts changes its handler and its call.             *)
LEMMA OthersStay ==
  ASSUME Typed, NEW w \in Workers, NEW u \in Workers, u # w,
         Buy(w) \/ Guarded(w) \/ Campaign(w) \/ LoseHandler(w)
  PROVE  front'[u] = front[u] /\ job'[u] = job[u]
<1>. /\ front \in [Workers -> Fronts \cup {NoFront}]
     /\ job \in [Workers -> Calls \cup {NoCall}]
  BY DEF Typed, CommerceTypeOK, TypeOK
<1>1. CASE Buy(w)
  BY <1>1 DEF Buy, BeginCheckout, BeginAgentPurchase, BeginUpsell, CheckFreeze, Enter
<1>2. CASE Guarded(w)
  BY <1>2 DEF Guarded, InsideCall, CallFails, KeepToken, HandOut, AnswerCheckout,
              AnswerAgent, AnswerUpsell,
              AnswerReject, Leave, Goto, RejectCart, CheckCeiling, ReadSessionState,
              InitSessionBudget, SpendAccepted, SpendRefused, CountRejection,
              RecheckFreeze, FreezeSession, IssueToken, IssueFails, LogPass, LogReject
<1>3. CASE Campaign(w)
  BY <1>3 DEF Campaign, OpenCampaignSession, BeginCampaignCart, AcceptOffer, MakeOffer,
              CampaignCartPasses, NoUpsell, OfferRequestFails, OfferLapses, AddOnPasses,
              CampaignRejected, SaveResult, DropResult, CheckFreeze, LogPass,
              LogReject, Enter, Leave, Stage, vars
<1>4. CASE LoseHandler(w)
  BY <1>4 DEF LoseHandler, Crash, Leave, vars
<1>. QED
  BY <1>1, <1>2, <1>3, <1>4

(* The worker that acts keeps its own basket covered.                      *)
LEMMA OwnBasketKept ==
  ASSUME Typed, Typed', [CommerceNext]_commerceVars, NEW w \in Workers, BasketOK(w),
         SpentWithinBudget, Covered(w),
         Buy(w) \/ Guarded(w) \/ Campaign(w) \/ LoseHandler(w)
  PROVE  BasketOK(w)'
<1>0. /\ TypeOK /\ TypeOK'
      /\ front \in [Workers -> Fronts \cup {NoFront}]
      /\ job \in [Workers -> Calls \cup {NoCall}]
  BY DEF Typed, CommerceTypeOK, TypeOK
<1>1. \A s \in Sessions: /\ ledger[s].spent <= ledger'[s].spent
                         /\ ledger[s].budget <= ledger'[s].budget
  BY <1>0, JourneyStep, LedgerGrows
<1>2. \A s \in Sessions: /\ ledger[s].spent \in Nat /\ ledger'[s].spent \in Nat
                         /\ ledger[s].budget \in Nat /\ ledger'[s].budget \in Nat
                         /\ ledger[s].spent <= ledger[s].budget
  BY <1>0 DEF TypeOK, Rows, SpentWithinBudget
<1>3. ASSUME front' = [front EXCEPT ![w] = NoFront]
      PROVE  BasketOK(w)'
  BY <1>0, <1>3 DEF BasketOK
<1>4. ASSUME NEW s, NEW kind \in {"checkout", "agent", "upsell"},
             Enter(w, Handler(kind, "call", s, FALSE, 0))
      PROVE  BasketOK(w)'
  BY <1>0, <1>4 DEF Enter, Handler, BasketOK
<1>5. CASE Buy(w)
  BY <1>4, <1>5 DEF Buy, BeginCheckout, BeginAgentPurchase, BeginUpsell
<1>6. CASE InsideCall(w)
  <2>1. front'[w] = front[w]
    BY <1>6 DEF InsideCall
  <2>. QED
    BY <1>0, <1>1, <1>6, <2>1, CallKeepsSession, BasketKept
<1>7. ASSUME NEW t \in Tokens, KeepToken(w, t)
      PROVE  BasketOK(w)'
  <2>1. /\ job[w] # NoCall /\ job'[w].session = job[w].session /\ ledger' = ledger
    BY <1>0, <1>7, CallKeepsSession DEF KeepToken, IssueToken
  <2>2. front[w] # NoFront /\ front[w] \in Fronts
    BY <2>1, HandlerTyped DEF Typed, CommerceTypeOK
  <2>3. /\ front'[w].stage = front[w].stage /\ front'[w].basket = front[w].basket
        /\ front'[w].cap = front[w].cap /\ front'[w].session = front[w].session
        /\ front'[w].kind = front[w].kind
    BY <1>0, <1>7, <2>2 DEF KeepToken, Fronts
  <2>. QED
    BY <2>1, <2>2, <2>3 DEF BasketOK
<1>8. CASE Guarded(w)
  BY <1>3, <1>6, <1>7, <1>8 DEF Guarded, CallFails, HandOut, AnswerCheckout, AnswerAgent,
                               AnswerUpsell,
                               AnswerReject, Leave
<1>9. ASSUME front[w] # NoFront
      PROVE  /\ front[w] \in Fronts
             /\ front[w].session \in Sessions
             /\ front[w].cap \in Nat /\ front[w].basket \in Nat
  BY <1>9, HandlerTyped
<1>10. ASSUME NEW s \in Sessions, NEW budget \in Ceilings, NEW agent \in BOOLEAN,
              OpenCampaignSession(w, s, budget, agent)
       PROVE  BasketOK(w)'
  <2>1. front'[w] = Handler("campaign", "opened", s, agent, budget)
    BY <1>0, <1>10 DEF OpenCampaignSession, Enter
  <2>2. job'[w] = NoCall
    BY <1>10 DEF OpenCampaignSession, Enter, Typed, CommerceTypeOK
  <2>. QED
    BY <2>1, <2>2 DEF BasketOK, Handler
<1>11. ASSUME NEW total \in Totals, BeginCampaignCart(w, total)
       PROVE  BasketOK(w)'
  <2>1. front[w] # NoFront /\ front[w].stage = "opened"
    BY <1>11 DEF BeginCampaignCart, In
  <2>2. front'[w] = [front[w] EXCEPT !.stage = "call", !.cap = 0]
    BY <1>0, <1>11 DEF BeginCampaignCart
  <2>3. job'[w].session = front[w].session
    BY <1>0, <1>11 DEF BeginCampaignCart, CheckFreeze
  <2>4. /\ front'[w].stage = "call" /\ front'[w].basket = front[w].basket
        /\ front'[w].session = front[w].session
    BY <1>9, <2>1, <2>2 DEF Fronts
  <2>. QED
    BY <2>1, <2>3, <2>4 DEF BasketOK
<1>12. ASSUME NEW total \in Totals, AcceptOffer(w, total)
       PROVE  BasketOK(w)'
  <2>1. front[w] # NoFront /\ front[w].stage = "offer"
    BY <1>12 DEF AcceptOffer, In
  <2>2. front'[w] = [front[w] EXCEPT !.stage = "again"]
    BY <1>0, <1>12 DEF AcceptOffer, Stage
  <2>3. job'[w].session = front[w].session /\ ledger' = ledger
    BY <1>0, <1>12 DEF AcceptOffer, CheckFreeze
  <2>4. /\ front'[w].stage = "again" /\ front'[w].basket = front[w].basket
        /\ front'[w].session = front[w].session /\ front'[w].cap = front[w].cap
    BY <1>9, <2>1, <2>2 DEF Fronts
  <2>. QED
    BY <2>1, <2>3, <2>4 DEF BasketOK
<1>13. CASE CampaignCartPasses(w)
  <2>1. /\ front[w] # NoFront /\ front[w].kind = "campaign"
        /\ job[w].pc = "pass" /\ job'[w] = NoCall /\ ledger' = ledger
    BY <1>0, <1>13 DEF CampaignCartPasses, In, LogPass
  <2>2. job[w] # NoCall /\ job[w].total \in Nat
    BY <1>0, <2>1, InCall, CallTyped DEF Steps
  <2>3. job[w].total <= ledger[front[w].session].spent
    BY <2>1, <2>2 DEF Covered, BasketOK
  <2>4. PICK label \in {"look", "save"}:
          front'[w] = [front[w] EXCEPT !.stage = label, !.basket = job[w].total]
    BY <1>0, <1>13 DEF CampaignCartPasses
  <2>5. /\ front'[w].stage = label /\ front'[w].basket = job[w].total
        /\ front'[w].session = front[w].session
    BY <1>9, <2>1, <2>4 DEF Fronts
  <2>6. job[w].total <= ledger[front[w].session].budget
    BY <1>2, <1>9, <2>1, <2>2, <2>3
  <2>. QED
    BY <2>1, <2>3, <2>5, <2>6 DEF BasketOK
<1>14. ASSUME NEW price \in Ceilings, MakeOffer(w, price)
       PROVE  BasketOK(w)'
  <2>1. front[w] # NoFront /\ front[w].stage = "look" /\ ledger' = ledger /\ job' = job
    BY <1>14 DEF MakeOffer, In, vars
  <2>2. front'[w] = [front[w] EXCEPT !.stage = "offer", !.cap = price]
    BY <1>0, <1>14 DEF MakeOffer
  <2>3. /\ front'[w].stage = "offer" /\ front'[w].basket = front[w].basket
        /\ front'[w].session = front[w].session /\ front'[w].cap = price
    BY <1>9, <2>1, <2>2 DEF Fronts
  <2>4. front[w].basket <= ledger[front[w].session].spent
    BY <2>1 DEF BasketOK
  <2>5. price <= ledger[front[w].session].budget - ledger[front[w].session].spent
    BY <1>14 DEF MakeOffer, Remaining
  <2>6. price \in Nat
    BY GuardrailAssumption
  <2>7. front[w].basket + price <= ledger[front[w].session].budget
    BY <1>2, <1>9, <2>1, <2>4, <2>5, <2>6
  <2>8. job'[w] = NoCall
    BY <2>1 DEF Typed, CommerceTypeOK
  <2>. QED
    BY <2>1, <2>3, <2>7, <2>8 DEF BasketOK
<1>15. CASE NoUpsell(w)
  <2>1. front[w] # NoFront /\ front[w].stage = "look" /\ ledger' = ledger /\ job' = job
    BY <1>15 DEF NoUpsell, In, vars
  <2>2. front'[w] = [front[w] EXCEPT !.stage = "save"]
    BY <1>0, <1>15 DEF NoUpsell, Stage
  <2>3. /\ front'[w].stage = "save" /\ front'[w].basket = front[w].basket
        /\ front'[w].session = front[w].session
    BY <1>9, <2>1, <2>2 DEF Fronts
  <2>4. front[w].basket <= ledger[front[w].session].budget
    BY <1>2, <1>9, <2>1 DEF BasketOK
  <2>5. job'[w] = NoCall
    BY <2>1 DEF Typed, CommerceTypeOK
  <2>. QED
    BY <2>1, <2>3, <2>4, <2>5 DEF BasketOK
<1>16. CASE AddOnPasses(w)
  <2>1. /\ front[w] # NoFront /\ front[w].stage = "again"
        /\ ledger' = ledger /\ job'[w] = NoCall
    BY <1>0, <1>16 DEF AddOnPasses, In, LogPass
  <2>2. front'[w] = [front[w] EXCEPT !.stage = "save", !.addon = front[w].cap,
                                     !.basket = front[w].basket + front[w].cap]
    BY <1>0, <1>16 DEF AddOnPasses
  <2>3. /\ front'[w].stage = "save"
        /\ front'[w].basket = front[w].basket + front[w].cap
        /\ front'[w].session = front[w].session
    BY <1>9, <2>1, <2>2 DEF Fronts
  <2>. QED
    BY <2>1, <2>3 DEF BasketOK
<1>17. CASE CampaignRejected(w)
  <2>1. /\ front[w] # NoFront /\ front[w].stage \in {"call", "again"}
        /\ ledger' = ledger /\ job'[w] = NoCall
    BY <1>0, <1>17 DEF CampaignRejected, In, LogReject
  <2>2. front'[w] = [front[w] EXCEPT !.stage = "save"]
    BY <1>0, <1>17 DEF CampaignRejected, Stage
  <2>3. /\ front'[w].stage = "save" /\ front'[w].basket = front[w].basket
        /\ front'[w].session = front[w].session
    BY <1>9, <2>1, <2>2 DEF Fronts
  <2>4. front[w].basket <= ledger[front[w].session].budget
    BY <1>2, <1>9, <2>1 DEF BasketOK
  <2>. QED
    BY <2>1, <2>3, <2>4 DEF BasketOK
<1>18. CASE OfferLapses(w)
  <2>1. front[w] # NoFront /\ front[w].stage = "offer" /\ ledger' = ledger /\ job' = job
    BY <1>18 DEF OfferLapses, In, vars
  <2>2. front'[w] = [front[w] EXCEPT !.stage = "save"]
    BY <1>0, <1>18 DEF OfferLapses, Stage
  <2>3. /\ front'[w].stage = "save" /\ front'[w].basket = front[w].basket
        /\ front'[w].session = front[w].session
    BY <1>9, <2>1, <2>2 DEF Fronts
  <2>4. front[w].basket <= ledger[front[w].session].budget
    BY <1>2, <1>9, <2>1 DEF BasketOK
  <2>5. job'[w] = NoCall
    BY <2>1 DEF Typed, CommerceTypeOK
  <2>. QED
    BY <2>1, <2>3, <2>4, <2>5 DEF BasketOK
<1>19. CASE Campaign(w)
  BY <1>3, <1>10, <1>11, <1>12, <1>13, <1>14, <1>15, <1>16, <1>17, <1>19, <1>18
     DEF Campaign, OfferRequestFails, SaveResult, DropResult, Leave
<1>20. CASE LoseHandler(w)
  BY <1>3, <1>20 DEF LoseHandler, Leave
<1>. QED
  BY <1>5, <1>8, <1>19, <1>20

LEMMA BasketsStep ==
  Typed /\ Typed' /\ [CommerceNext]_commerceVars /\ Baskets
    /\ SpentWithinBudget /\ (\A w \in Workers: Covered(w))
      => Baskets'
<1>. SUFFICES ASSUME Typed, Typed', [CommerceNext]_commerceVars, Baskets,
                     SpentWithinBudget, \A w \in Workers: Covered(w)
              PROVE  Baskets'
  OBVIOUS
<1>0. TypeOK /\ TypeOK'
  BY DEF Typed, CommerceTypeOK
<1>1. \A s \in Sessions: /\ ledger[s].spent <= ledger'[s].spent
                         /\ ledger[s].budget <= ledger'[s].budget
  BY <1>0, JourneyStep, LedgerGrows
<1>2. ASSUME NEW u \in Workers
      PROVE  BasketOK(u)'
  <2>1. CASE Buy(u) \/ Guarded(u) \/ Campaign(u) \/ LoseHandler(u)
    BY <2>1, OwnBasketKept DEF Baskets
  <2>2. ASSUME front'[u] = front[u] /\ job'[u] = job[u]
        PROVE  BasketOK(u)'
    BY <1>0, <1>1, <2>2, BasketKept DEF Baskets
  <2>3. ASSUME NEW w \in Workers, w # u,
               Buy(w) \/ Guarded(w) \/ Campaign(w) \/ LoseHandler(w)
        PROVE  BasketOK(u)'
    BY <2>2, <2>3, OthersStay
  <2>4. ASSUME NEW k \in tokens, NEW amount \in Totals, Pay(k, amount)
        PROVE  BasketOK(u)'
    BY <2>2, <2>4 DEF Pay, Burn, RecordPayment, PlaceOrder, vars
  <2>5. CASE UNCHANGED commerceVars
    BY <2>2, <2>5 DEF commerceVars
  <2>. QED
    BY <2>1, <2>3, <2>4, <2>5 DEF CommerceNext
<1>3. ResultsWithinBudget'
  <2>1. \A s \in Sessions: ledger[s].budget \in Nat /\ ledger'[s].budget \in Nat
    BY <1>0 DEF TypeOK, Rows
  <2>2. \A row \in results: row.basket <= ledger'[row.session].budget
    <3>. SUFFICES ASSUME NEW row \in results
                  PROVE  row.basket <= ledger'[row.session].budget
      OBVIOUS
    <3>1. /\ row.session \in Sessions /\ row.basket \in Nat
          /\ row.basket <= ledger[row.session].budget
      BY DEF Typed, CommerceTypeOK, Baskets, ResultsWithinBudget
    <3>. QED
      BY <1>1, <2>1, <3>1
  <2>3. ASSUME NEW w \in Workers, SaveResult(w)
        PROVE  \A row \in results': row.basket <= ledger'[row.session].budget
    <3>1. front[w] # NoFront /\ front[w].stage = "save" /\ ledger' = ledger
      BY <2>3 DEF SaveResult, In, vars
    <3>2. front[w].basket <= ledger[front[w].session].budget
      BY <3>1 DEF Baskets, BasketOK
    <3>. DEFINE new == Result(front[w])
    <3>3. results' = results \cup {new}
      BY <2>3 DEF SaveResult
    <3>4. new.basket <= ledger'[new.session].budget
      BY <3>1, <3>2 DEF Result
    <3>. HIDE DEF new
    <3>. QED
      BY <2>2, <3>3, <3>4
  <2>4. CASE UNCHANGED results
    BY <2>2, <2>4 DEF ResultsWithinBudget
  <2>. QED
    BY <2>2, <2>3, <2>4, OnlySaveAddsResults DEF ResultsWithinBudget
<1>. QED
  BY <1>2, <1>3 DEF Baskets

-----------------------------------------------------------------------------

LEMMA BasketsHold == CommerceSpec => []Baskets
<1>1. CommerceInit => Baskets
  BY DEF CommerceInit, Baskets, BasketOK, ResultsWithinBudget
<1>2. CommerceSpec => []Typed
  BY JourneyStarts, TypedStep, PTL DEF CommerceSpec
<1>3. CommerceSpec => []SpentWithinBudget
  BY GuardedJourney, Safety, PTL
<1>4. CommerceSpec => [](\A w \in Workers: Covered(w))
  BY GuardedJourney, ChargesCovered, PTL
<1>. QED
  BY <1>1, <1>2, <1>3, <1>4, BasketsStep, PTL DEF CommerceSpec

(* A campaign never reports more revenue for a session than its budget,    *)
(* for any number of concurrent handlers: the offer is covered when it is  *)
(* made, and what it is measured against never shrinks.                    *)
THEOREM ResultsCovered == CommerceSpec => []ResultsWithinBudget
<1>1. Baskets => ResultsWithinBudget
  BY DEF Baskets
<1>. QED
  BY <1>1, BasketsHold, PTL

-----------------------------------------------------------------------------

(* The steps of a call behind the comparison with the ceiling.             *)
BeyondCeiling == {"state", "init", "spend", "issue", "pass"}

(* The simulated session's cart was accepted.                              *)
HasCart(handler) ==
  \/ handler.stage \in {"look", "offer", "again"}
  \/ handler.stage = "save" /\ handler.basket > 0

(* What a handler counts has been authorised: a call that passed left its  *)
(* token with the handler, the call for an add-on states the price offered *)
(* as its ceiling, and the basket is the amount of the cart's token and    *)
(* the price of the add-on.                                                *)
Authorised(w) ==
  front[w] # NoFront =>
    /\ front[w].stage # "save" => front[w].addon = 0
    /\ front[w].stage = "call" /\ job[w].pc = "pass" =>
         \E k \in tokens: /\ IsAuthorisation(front[w].kept, job[w].session, k)
                          /\ k.amount = job[w].total
    /\ front[w].stage = "again" /\ job[w] # NoCall =>
         /\ job[w].ceiling = front[w].cap
         /\ job[w].pc \in BeyondCeiling => job[w].total <= job[w].ceiling
         /\ job[w].pc = "pass" =>
              \E k \in tokens: /\ IsAuthorisation(front[w].added, job[w].session, k)
                               /\ k.amount = job[w].total
    /\ HasCart(front[w]) =>
         \E k \in tokens: /\ IsAuthorisation(front[w].kept, front[w].session, k)
                          /\ k.amount + front[w].addon = front[w].basket
    /\ front[w].stage = "save" /\ front[w].addon > 0 =>
         \E k \in tokens: /\ IsAuthorisation(front[w].added, front[w].session, k)
                          /\ k.amount <= front[w].addon

(* A handler that does not move stays authorised: tokens are only added.   *)
LEMMA StaysAuthorised ==
  ASSUME NEW w \in Workers, Authorised(w), tokens \subseteq tokens',
         front'[w] = front[w],
         job'[w] = job[w]
  PROVE  Authorised(w)'
BY DEF Authorised, HasCart, IsAuthorisation

(* A step inside check_spend keeps what the call is about, and only a      *)
(* total within the ceiling gets beyond the comparison.                    *)
LEMMA CallKeepsTotal ==
  ASSUME TypeOK, NEW w \in Workers, InsideCall(w)
  PROVE  /\ job[w] # NoCall
         /\ job'[w].total = job[w].total /\ job'[w].ceiling = job[w].ceiling
         /\ job'[w].pc # "pass"
         /\ job'[w].pc \in BeyondCeiling
              => job[w].pc \in BeyondCeiling \/ job[w].total <= job[w].ceiling
<1>1. job[w].pc \in Steps
  BY DEF InsideCall, RejectCart, CheckCeiling, ReadSessionState, Steps,
         InitSessionBudget, SpendAccepted, SpendRefused, CountRejection,
         RecheckFreeze, FreezeSession
<1>2. /\ job[w] # NoCall /\ job[w] \in Calls
      /\ job[w].total \in Nat /\ job[w].ceiling \in Nat
  BY <1>1, CallTyped, GuardrailAssumption DEF Calls
<1>3. ASSUME NEW label, Goto(w, label)
      PROVE  /\ job'[w].total = job[w].total /\ job'[w].ceiling = job[w].ceiling
             /\ job'[w].pc = label
  BY <1>2, <1>3 DEF Goto, TypeOK, Calls
<1>4. CASE SpendAccepted(w)
  <2>1. job[w].pc = "spend" /\ job'[w] = [job[w] EXCEPT !.pc = "issue",
                                          !.base = ledger[job[w].session].spent]
    BY <1>4 DEF SpendAccepted, TypeOK
  <2>. QED
    BY <1>2, <2>1 DEF Calls, BeyondCeiling
<1>5. CASE RejectCart(w) \/ FreezeSession(w)
  BY <1>2, <1>3, <1>5 DEF RejectCart, FreezeSession, BeyondCeiling
<1>6. CASE CheckCeiling(w)
  BY <1>2, <1>3, <1>6 DEF CheckCeiling, BeyondCeiling
<1>7. CASE ReadSessionState(w) \/ InitSessionBudget(w)
  BY <1>2, <1>3, <1>7 DEF ReadSessionState, InitSessionBudget, BeyondCeiling
<1>8. CASE SpendRefused(w) \/ CountRejection(w)
  BY <1>2, <1>3, <1>8 DEF SpendRefused, CountRejection, BeyondCeiling
<1>9. CASE RecheckFreeze(w)
  BY <1>2, <1>3, <1>9 DEF RecheckFreeze, FreezeVerdict, BeyondCeiling
<1>. QED
  BY <1>4, <1>5, <1>6, <1>7, <1>8, <1>9 DEF InsideCall

(* A check that has just begun has not passed.                             *)
LEMMA CallBegins ==
  ASSUME TypeOK, NEW w \in Workers, NEW s, NEW total, NEW ceiling,
         CheckFreeze(w, s, total, ceiling)
  PROVE  /\ job'[w].session = s /\ job'[w].ceiling = ceiling
         /\ job'[w].pc \notin BeyondCeiling
         /\ tokens' = tokens
BY DEF CheckFreeze, FreezeVerdict, BeyondCeiling, TypeOK

(* The token that is issued is an authorisation of the call's total.       *)
LEMMA TokenAuthorises ==
  ASSUME TypeOK, NEW w \in Workers, NEW t \in Tokens, IssueToken(w, t)
  PROVE  /\ job[w] # NoCall /\ job[w].pc = "issue"
         /\ job'[w].total = job[w].total /\ job'[w].ceiling = job[w].ceiling
         /\ job'[w].pc = "pass"
         /\ \E k \in tokens': /\ IsAuthorisation({t}, job'[w].session, k)
                              /\ k.amount = job'[w].total
<1>1. job[w].pc = "issue" /\ job[w] \in Calls /\ job[w] # NoCall
  BY CallTyped DEF IssueToken, Steps
<1>2. job'[w] = [job[w] EXCEPT !.pc = "pass"]
  BY DEF IssueToken, Goto, TypeOK
<1>3. /\ job'[w].total = job[w].total /\ job'[w].ceiling = job[w].ceiling
      /\ job'[w].session = job[w].session /\ job'[w].pc = "pass"
  BY <1>1, <1>2 DEF Calls
<1>4. [id |-> t, session |-> job[w].session, amount |-> job[w].total,
       base |-> job[w].base] \in tokens'
  BY DEF IssueToken
<1>. QED
  BY <1>1, <1>3, <1>4 DEF IsAuthorisation

(* The worker that acts stays authorised.                                  *)
LEMMA OwnAuthorised ==
  ASSUME Typed, Typed', [CommerceNext]_commerceVars, NEW w \in Workers,
         Authorised(w), BasketOK(w),
         Buy(w) \/ Guarded(w) \/ Campaign(w) \/ LoseHandler(w)
  PROVE  Authorised(w)'
<1>0. /\ TypeOK
      /\ front \in [Workers -> Fronts \cup {NoFront}]
      /\ tokens \subseteq tokens'
  BY JourneyStep, TokensStay DEF Typed, CommerceTypeOK
<1>1. ASSUME Leave(w)
      PROVE  Authorised(w)'
  BY <1>0, <1>1 DEF Leave, Authorised, HasCart
<1>2. ASSUME NEW s, NEW total, NEW ceiling, NEW kind \in Kinds,
             Enter(w, Handler(kind, "call", s, FALSE, 0)),
             CheckFreeze(w, s, total, ceiling)
      PROVE  Authorised(w)'
  <2>1. front'[w] = Handler(kind, "call", s, FALSE, 0)
    BY <1>0, <1>2 DEF Enter
  <2>2. job'[w].pc # "pass"
    BY <1>0, <1>2, CallBegins DEF BeyondCeiling
  <2>. QED
    BY <2>1, <2>2 DEF Authorised, HasCart, Handler
<1>3. CASE Buy(w)
  BY <1>2, <1>3 DEF Buy, BeginCheckout, BeginAgentPurchase, BeginUpsell, Kinds
<1>4. CASE InsideCall(w)
  <2>1. front'[w] = front[w]
    BY <1>4 DEF InsideCall
  <2>2. /\ job[w] # NoCall /\ front[w].stage \in {"call", "again"}
        /\ job'[w].total = job[w].total /\ job'[w].ceiling = job[w].ceiling
        /\ job'[w].pc # "pass"
        /\ job'[w].pc \in BeyondCeiling
             => job[w].pc \in BeyondCeiling \/ job[w].total <= job[w].ceiling
    BY <1>0, <1>4, CallKeepsTotal DEF Typed, CommerceTypeOK
  <2>. QED
    BY <1>0, <2>1, <2>2 DEF Authorised, HasCart, IsAuthorisation
<1>5. ASSUME NEW t \in Tokens, KeepToken(w, t)
      PROVE  Authorised(w)'
  <2>1. IssueToken(w, t)
    BY <1>5 DEF KeepToken
  <2>2. job[w] # NoCall /\ front[w] \in Fronts /\ front[w].stage \in {"call", "again"}
    BY <1>0, <2>1, TokenAuthorises DEF Typed, CommerceTypeOK
  <2>3. CASE front[w].stage = "call"
    <3>1. front'[w] = [front[w] EXCEPT !.kept = {t}]
      BY <1>0, <1>5, <2>3 DEF KeepToken
    <3>2. /\ front'[w].stage = "call" /\ front'[w].kept = {t}
          /\ front'[w].addon = front[w].addon
      BY <2>2, <2>3, <3>1 DEF Fronts
    <3>3. front[w] # NoFront /\ front[w].addon = 0
      BY <2>2, <2>3 DEF Authorised, HasCart, Typed, CommerceTypeOK
    <3>. QED
      BY <1>0, <2>1, <3>2, <3>3, TokenAuthorises DEF Authorised, HasCart
  <2>4. CASE front[w].stage = "again"
    <3>1. front'[w] = [front[w] EXCEPT !.added = {t}]
      BY <1>0, <1>5, <2>4 DEF KeepToken
    <3>2. /\ front'[w].stage = "again" /\ front'[w].added = {t}
          /\ front'[w].addon = front[w].addon /\ front'[w].cap = front[w].cap
          /\ front'[w].kept = front[w].kept /\ front'[w].session = front[w].session
          /\ front'[w].basket = front[w].basket
      BY <2>2, <2>4, <3>1 DEF Fronts
    <3>3. front[w] # NoFront
      BY <2>2 DEF Typed, CommerceTypeOK
    <3>4. /\ job[w].pc = "issue" /\ job'[w].pc = "pass"
          /\ job'[w].total = job[w].total /\ job'[w].ceiling = job[w].ceiling
          /\ \E k \in tokens': /\ IsAuthorisation({t}, job'[w].session, k)
                               /\ k.amount = job'[w].total
      BY <1>0, <2>1, TokenAuthorises
    <3>5. /\ front[w].addon = 0
          /\ job[w].ceiling = front[w].cap /\ job[w].total <= job[w].ceiling
          /\ \E k \in tokens: /\ IsAuthorisation(front[w].kept, front[w].session, k)
                              /\ k.amount + front[w].addon = front[w].basket
      BY <2>2, <2>4, <3>3, <3>4 DEF Authorised, HasCart, BeyondCeiling
    <3>. QED
      BY <1>0, <3>2, <3>4, <3>5 DEF Authorised, HasCart, IsAuthorisation
  <2>. QED
    BY <2>2, <2>3, <2>4
<1>6. CASE Guarded(w)
  BY <1>1, <1>4, <1>5, <1>6 DEF Guarded, CallFails, HandOut, AnswerCheckout,
                               AnswerAgent, AnswerUpsell, AnswerReject
<1>7. ASSUME front[w] # NoFront
      PROVE  /\ front[w] \in Fronts
             /\ front[w].cap \in Nat /\ front[w].basket \in Nat
             /\ front[w].addon \in Nat
  BY <1>7, HandlerTyped
<1>8. ASSUME NEW s \in Sessions, NEW budget \in Ceilings, NEW agent \in BOOLEAN,
             OpenCampaignSession(w, s, budget, agent)
      PROVE  Authorised(w)'
  <2>1. front'[w] = Handler("campaign", "opened", s, agent, budget)
    BY <1>0, <1>8 DEF OpenCampaignSession, Enter
  <2>. QED
    BY <2>1 DEF Authorised, HasCart, Handler
<1>9. ASSUME NEW total \in Totals, BeginCampaignCart(w, total)
      PROVE  Authorised(w)'
  <2>1. front[w] # NoFront /\ front[w].stage = "opened"
    BY <1>9 DEF BeginCampaignCart, In
  <2>2. front'[w] = [front[w] EXCEPT !.stage = "call", !.cap = 0]
    BY <1>0, <1>9 DEF BeginCampaignCart
  <2>3. front'[w].stage = "call" /\ front'[w].addon = front[w].addon
    BY <1>7, <2>1, <2>2 DEF Fronts
  <2>4. job'[w].pc # "pass"
    BY <1>0, <1>9, CallBegins DEF BeginCampaignCart, BeyondCeiling
  <2>. QED
    BY <2>1, <2>3, <2>4 DEF Authorised, HasCart
<1>10. ASSUME NEW total \in Totals, AcceptOffer(w, total)
       PROVE  Authorised(w)'
  <2>1. front[w] # NoFront /\ front[w].stage = "offer"
    BY <1>10 DEF AcceptOffer, In
  <2>2. front'[w] = [front[w] EXCEPT !.stage = "again"]
    BY <1>0, <1>10 DEF AcceptOffer, Stage
  <2>3. /\ front'[w].stage = "again" /\ front'[w].basket = front[w].basket
        /\ front'[w].session = front[w].session /\ front'[w].cap = front[w].cap
        /\ front'[w].kept = front[w].kept /\ front'[w].addon = front[w].addon
    BY <1>7, <2>1, <2>2 DEF Fronts
  <2>4. /\ job'[w].ceiling = front[w].cap /\ job'[w].pc \notin BeyondCeiling
        /\ job'[w].pc # "pass"
    BY <1>0, <1>10, CallBegins DEF AcceptOffer, BeyondCeiling
  <2>. QED
    BY <1>0, <2>1, <2>3, <2>4 DEF Authorised, HasCart, IsAuthorisation
<1>11. CASE CampaignCartPasses(w)
  <2>1. /\ front[w] # NoFront /\ front[w].stage = "call" /\ front[w].kind = "campaign"
        /\ job[w].pc = "pass"
    BY <1>11 DEF CampaignCartPasses, In, LogPass
  <2>2. PICK label \in {"look", "save"}:
          front'[w] = [front[w] EXCEPT !.stage = label, !.basket = job[w].total]
    BY <1>0, <1>11 DEF CampaignCartPasses
  <2>3. /\ front'[w].stage = label /\ front'[w].basket = job[w].total
        /\ front'[w].session = front[w].session
        /\ front'[w].kept = front[w].kept /\ front'[w].addon = front[w].addon
    BY <1>7, <2>1, <2>2 DEF Fronts
  <2>4. job[w].session = front[w].session /\ job[w].total \in Nat
    BY <1>0, <2>1, InCall, CallTyped DEF BasketOK, Steps
  <2>5. front[w].addon = 0
    BY <2>1 DEF Authorised, HasCart
  <2>6. PICK k \in tokens: /\ IsAuthorisation(front[w].kept, front[w].session, k)
                           /\ k.amount = job[w].total
    BY <2>1, <2>4 DEF Authorised, HasCart
  <2>7. k \in tokens' /\ k.amount + front'[w].addon = front'[w].basket
    BY <1>0, <2>3, <2>4, <2>5, <2>6
  <2>. QED
    BY <2>3, <2>5, <2>6, <2>7 DEF Authorised, HasCart, IsAuthorisation
<1>12. ASSUME NEW price \in Ceilings, MakeOffer(w, price)
       PROVE  Authorised(w)'
  <2>1. front[w] # NoFront /\ front[w].stage = "look"
    BY <1>12 DEF MakeOffer, In
  <2>2. front'[w] = [front[w] EXCEPT !.stage = "offer", !.cap = price]
    BY <1>0, <1>12 DEF MakeOffer
  <2>3. /\ front'[w].stage = "offer" /\ front'[w].basket = front[w].basket
        /\ front'[w].session = front[w].session
        /\ front'[w].kept = front[w].kept /\ front'[w].addon = front[w].addon
    BY <1>7, <2>1, <2>2 DEF Fronts
  <2>. QED
    BY <1>0, <2>1, <2>3 DEF Authorised, HasCart, IsAuthorisation
<1>13. ASSUME front[w] # NoFront, front'[w] = [front[w] EXCEPT !.stage = "save"],
              front[w].stage # "save", HasCart(front[w]) \/ front[w].basket = 0
       PROVE  Authorised(w)'
  <2>1. /\ front'[w].stage = "save" /\ front'[w].basket = front[w].basket
        /\ front'[w].session = front[w].session
        /\ front'[w].kept = front[w].kept /\ front'[w].addon = front[w].addon
    BY <1>7, <1>13 DEF Fronts
  <2>2. front[w].addon = 0
    BY <1>13 DEF Authorised
  <2>3. front[w].basket > 0 =>
          \E k \in tokens: /\ IsAuthorisation(front[w].kept, front[w].session, k)
                           /\ k.amount + front[w].addon = front[w].basket
    BY <1>13 DEF Authorised
  <2>. QED
    BY <1>0, <2>1, <2>2, <2>3 DEF Authorised, HasCart, IsAuthorisation
<1>14. CASE AddOnPasses(w)
  <2>1. /\ front[w] # NoFront /\ front[w].stage = "again" /\ front[w].kind = "campaign"
        /\ job[w].pc = "pass" /\ job[w] # NoCall
    BY <1>14, InCall DEF AddOnPasses, In, LogPass, Steps
  <2>2. front'[w] = [front[w] EXCEPT !.stage = "save", !.addon = front[w].cap,
                                     !.basket = front[w].basket + front[w].cap]
    BY <1>0, <1>14 DEF AddOnPasses
  <2>3. /\ front'[w].stage = "save" /\ front'[w].addon = front[w].cap
        /\ front'[w].basket = front[w].basket + front[w].cap
        /\ front'[w].session = front[w].session
        /\ front'[w].kept = front[w].kept /\ front'[w].added = front[w].added
    BY <1>7, <2>1, <2>2 DEF Fronts
  <2>4. job[w].session = front[w].session /\ job[w].ceiling = front[w].cap
        /\ job[w].total <= job[w].ceiling
    BY <2>1 DEF Authorised, HasCart, BasketOK, BeyondCeiling
  <2>5. PICK k \in tokens: /\ IsAuthorisation(front[w].added, front[w].session, k)
                           /\ k.amount = job[w].total
    BY <2>1, <2>4 DEF Authorised, HasCart
  <2>6. PICK c \in tokens: /\ IsAuthorisation(front[w].kept, front[w].session, c)
                           /\ c.amount + front[w].addon = front[w].basket
    BY <2>1 DEF Authorised, HasCart
  <2>7. front[w].addon = 0 /\ c.amount \in Nat
    BY <1>0, <2>1, <2>6 DEF Authorised, HasCart, TypeOK, TokenRows
  <2>8. /\ k \in tokens' /\ k.amount <= front'[w].addon
        /\ c \in tokens' /\ c.amount + front'[w].addon = front'[w].basket
    BY <1>0, <1>7, <2>1, <2>3, <2>4, <2>5, <2>6, <2>7
  <2>. QED
    BY <2>3, <2>5, <2>6, <2>8 DEF Authorised, HasCart, IsAuthorisation
<1>15. CASE NoUpsell(w) \/ OfferLapses(w) \/ CampaignRejected(w)
  <2>1. front[w] # NoFront /\ front'[w] = [front[w] EXCEPT !.stage = "save"]
    BY <1>0, <1>15 DEF NoUpsell, OfferLapses, CampaignRejected, In, Stage
  <2>2. front[w].stage \in {"look", "offer", "again", "call"}
    BY <1>15 DEF NoUpsell, OfferLapses, CampaignRejected, In
  <2>3. HasCart(front[w]) \/ front[w].basket = 0
    BY <2>1, <2>2 DEF BasketOK, HasCart
  <2>. QED
    BY <1>13, <2>1, <2>2, <2>3
<1>16. CASE Campaign(w)
  BY <1>1, <1>8, <1>9, <1>10, <1>11, <1>12, <1>14, <1>15, <1>16
     DEF Campaign, OfferRequestFails, SaveResult, DropResult
<1>17. CASE LoseHandler(w)
  BY <1>1, <1>17 DEF LoseHandler
<1>. QED
  BY <1>3, <1>6, <1>16, <1>17

(* What the rows of campaign_sessions count has been authorised.           *)
RowsAuthorised ==
  \A row \in results:
    /\ row.basket > 0 => \E k \in tokens:
         /\ IsAuthorisation(row.kept, row.session, k)
         /\ k.amount + row.addon = row.basket
    /\ row.addon > 0 => \E k \in tokens:
         /\ IsAuthorisation(row.added, row.session, k)
         /\ k.amount <= row.addon

AllAuthorised == RowsAuthorised /\ \A w \in Workers: Authorised(w)

LEMMA AuthorisedStep ==
  Typed /\ Typed' /\ [CommerceNext]_commerceVars /\ Baskets /\ AllAuthorised
    => AllAuthorised'
<1>. SUFFICES ASSUME Typed, Typed', [CommerceNext]_commerceVars, Baskets, AllAuthorised
              PROVE  AllAuthorised'
  OBVIOUS
<1>0. tokens \subseteq tokens'
  BY JourneyStep, TokensStay
<1>1. ASSUME NEW u \in Workers
      PROVE  Authorised(u)'
  <2>1. CASE Buy(u) \/ Guarded(u) \/ Campaign(u) \/ LoseHandler(u)
    BY <2>1, OwnAuthorised DEF Baskets, AllAuthorised
  <2>2. ASSUME front'[u] = front[u] /\ job'[u] = job[u]
        PROVE  Authorised(u)'
    BY <1>0, <2>2, StaysAuthorised DEF AllAuthorised
  <2>3. ASSUME NEW w \in Workers, w # u,
               Buy(w) \/ Guarded(w) \/ Campaign(w) \/ LoseHandler(w)
        PROVE  Authorised(u)'
    BY <2>2, <2>3, OthersStay
  <2>4. ASSUME NEW k \in tokens, NEW amount \in Totals, Pay(k, amount)
        PROVE  Authorised(u)'
    BY <2>2, <2>4 DEF Pay, Burn, RecordPayment, PlaceOrder, vars
  <2>5. CASE UNCHANGED commerceVars
    BY <2>2, <2>5 DEF commerceVars
  <2>. QED
    BY <2>1, <2>3, <2>4, <2>5 DEF CommerceNext
<1>2. RowsAuthorised'
  <2>1. CASE UNCHANGED results
    BY <1>0, <2>1 DEF AllAuthorised, RowsAuthorised, IsAuthorisation
  <2>2. ASSUME NEW w \in Workers, SaveResult(w)
        PROVE  RowsAuthorised'
    <3>. DEFINE new == Result(front[w])
    <3>1. front[w] # NoFront /\ front[w].stage = "save"
      BY <2>2 DEF SaveResult, In
    <3>2. results' = results \cup {new}
      BY <2>2 DEF SaveResult
    <3>3. /\ new.basket > 0 => \E k \in tokens:
               /\ IsAuthorisation(new.kept, new.session, k)
               /\ k.amount + new.addon = new.basket
          /\ new.addon > 0 => \E k \in tokens:
               /\ IsAuthorisation(new.added, new.session, k)
               /\ k.amount <= new.addon
      BY <3>1 DEF AllAuthorised, Authorised, HasCart, Result
    <3>. HIDE DEF new
    <3>. QED
      BY <1>0, <3>2, <3>3 DEF AllAuthorised, RowsAuthorised, IsAuthorisation
  <2>. QED
    BY <2>1, <2>2, OnlySaveAddsResults
<1>. QED
  BY <1>1, <1>2 DEF AllAuthorised

-----------------------------------------------------------------------------

Issued == {k.id: k \in tokens}

Holds(w) == IF front[w] = NoFront THEN {} ELSE front[w].kept \cup front[w].added

Reports(row) == row.kept \cup row.added

(* A token is with one handler or in one row, for the cart or the add-on.  *)
TokensApart ==
  /\ \A w \in Workers:
       /\ Holds(w) \subseteq Issued
       /\ front[w] # NoFront => front[w].kept \cap front[w].added = {}
       /\ \A u \in Workers: w # u => Holds(w) \cap Holds(u) = {}
       /\ \A row \in results: Holds(w) \cap Reports(row) = {}
  /\ \A row \in results:
       /\ Reports(row) \subseteq Issued
       /\ row.kept \cap row.added = {}
       /\ \A other \in results: row # other => Reports(row) \cap Reports(other) = {}

(* A handler's tokens change by the one it is issued, and with its end.    *)
LEMMA OwnTokens ==
  ASSUME Typed, NEW w \in Workers,
         Buy(w) \/ Guarded(w) \/ Campaign(w) \/ LoseHandler(w)
  PROVE  \/ front'[w] = NoFront
         \/ front'[w].kept = {} /\ front'[w].added = {}
         \/ /\ front[w] # NoFront
            /\ front'[w].kept = front[w].kept /\ front'[w].added = front[w].added
         \/ \E t \in Tokens:
              /\ front[w] # NoFront /\ IssueToken(w, t)
              /\ \/ front'[w].kept = {t} /\ front'[w].added = front[w].added
                 \/ front'[w].kept = front[w].kept /\ front'[w].added = {t}
<1>0. /\ TypeOK
      /\ front \in [Workers -> Fronts \cup {NoFront}]
      /\ front[w] # NoFront => front[w] \in Fronts
  BY DEF Typed, CommerceTypeOK
<1>1. ASSUME NEW kind, NEW stage, NEW s, NEW agent, NEW cap,
             Enter(w, Handler(kind, stage, s, agent, cap))
      PROVE  front'[w].kept = {} /\ front'[w].added = {}
  BY <1>0, <1>1 DEF Enter, Handler
<1>2. CASE Leave(w)
  BY <1>0, <1>2 DEF Leave
<1>3. CASE Buy(w)
  BY <1>1, <1>3 DEF Buy, BeginCheckout, BeginAgentPurchase, BeginUpsell
<1>4. ASSUME NEW t \in Tokens, KeepToken(w, t)
      PROVE  /\ front[w] # NoFront /\ IssueToken(w, t)
             /\ \/ front'[w].kept = {t} /\ front'[w].added = front[w].added
                \/ front'[w].kept = front[w].kept /\ front'[w].added = {t}
  <2>1. IssueToken(w, t)
    BY <1>4 DEF KeepToken
  <2>2. front[w] # NoFront
    BY <1>0, <2>1, TokenAuthorises DEF Typed, CommerceTypeOK
  <2>3. \/ front'[w] = [front[w] EXCEPT !.kept = {t}]
        \/ front'[w] = [front[w] EXCEPT !.added = {t}]
    BY <1>0, <1>4 DEF KeepToken
  <2>. QED
    BY <1>0, <2>1, <2>2, <2>3 DEF Fronts
<1>5. ASSUME InsideCall(w)
      PROVE  front[w] # NoFront /\ front'[w] = front[w]
  BY <1>0, <1>5, CallKeepsTotal DEF InsideCall, Typed, CommerceTypeOK
<1>6. CASE Guarded(w)
  BY <1>2, <1>4, <1>5, <1>6 DEF Guarded, CallFails, HandOut, AnswerCheckout,
                               AnswerAgent, AnswerUpsell, AnswerReject
<1>7. ASSUME front[w] # NoFront, NEW stage, NEW cap, NEW basket, NEW addon,
             \/ front'[w] = [front[w] EXCEPT !.stage = stage]
             \/ front'[w] = [front[w] EXCEPT !.stage = stage, !.cap = cap]
             \/ front'[w] = [front[w] EXCEPT !.stage = stage, !.basket = basket]
             \/ front'[w] = [front[w] EXCEPT !.stage = stage, !.addon = addon,
                                             !.basket = basket]
      PROVE  front'[w].kept = front[w].kept /\ front'[w].added = front[w].added
  BY <1>0, <1>7 DEF Fronts
<1>8. CASE \/ \E total \in Totals: BeginCampaignCart(w, total) \/ AcceptOffer(w, total)
           \/ \E price \in Ceilings: MakeOffer(w, price)
           \/ CampaignCartPasses(w) \/ NoUpsell(w) \/ OfferLapses(w)
           \/ AddOnPasses(w) \/ CampaignRejected(w)
  <2>1. front[w] # NoFront
    BY <1>8 DEF BeginCampaignCart, AcceptOffer, MakeOffer, CampaignCartPasses, NoUpsell,
                OfferLapses, AddOnPasses, CampaignRejected, In
  <2>2. CASE \/ \E total \in Totals: AcceptOffer(w, total)
             \/ NoUpsell(w) \/ OfferLapses(w) \/ CampaignRejected(w)
    BY <1>0, <1>7, <2>1, <2>2
       DEF AcceptOffer, NoUpsell, OfferLapses, CampaignRejected, Stage
  <2>3. CASE \E total \in Totals: BeginCampaignCart(w, total)
    BY <1>0, <1>7, <2>1, <2>3 DEF BeginCampaignCart
  <2>4. CASE \E price \in Ceilings: MakeOffer(w, price)
    BY <1>0, <1>7, <2>1, <2>4 DEF MakeOffer
  <2>5. CASE CampaignCartPasses(w)
    <3>. DEFINE label == IF front[w].agent THEN "look" ELSE "save"
                basket == job[w].total
    <3>1. front'[w] = [front[w] EXCEPT !.stage = label, !.basket = basket]
      BY <1>0, <2>5 DEF CampaignCartPasses
    <3>. HIDE DEF label, basket
    <3>. QED
      BY <1>7, <2>1, <3>1
  <2>6. CASE AddOnPasses(w)
    <3>. DEFINE addon == front[w].cap
                basket == front[w].basket + front[w].cap
    <3>1. front'[w] = [front[w] EXCEPT !.stage = "save", !.addon = addon,
                                       !.basket = basket]
      BY <1>0, <2>6 DEF AddOnPasses
    <3>. HIDE DEF addon, basket
    <3>. QED
      BY <1>7, <2>1, <3>1
  <2>. QED
    BY <1>8, <2>2, <2>3, <2>4, <2>5, <2>6
<1>9. CASE Campaign(w)
  BY <1>1, <1>2, <1>8, <1>9
     DEF Campaign, OpenCampaignSession, OfferRequestFails, SaveResult, DropResult
<1>10. CASE LoseHandler(w)
  BY <1>2, <1>10 DEF LoseHandler
<1>. QED
  BY <1>3, <1>6, <1>9, <1>10

(* What the handler that acts holds, it held before, or has been issued    *)
(* under an id that nobody had.                                            *)
LEMMA OwnHoldings ==
  ASSUME Typed, NEW w \in Workers, TokensApart,
         Buy(w) \/ Guarded(w) \/ Campaign(w) \/ LoseHandler(w)
  PROVE  /\ front'[w] # NoFront => front'[w].kept \cap front'[w].added = {}
         /\ \E gained \in SUBSET Tokens:
              /\ gained \cap Issued = {} /\ gained \subseteq Issued'
              /\ Holds(w)' \subseteq Holds(w) \cup gained
<1>0. ASSUME Holds(w)' \subseteq Holds(w)
      PROVE  \E gained \in SUBSET Tokens:
               /\ gained \cap Issued = {} /\ gained \subseteq Issued'
               /\ Holds(w)' \subseteq Holds(w) \cup gained
  <2>. WITNESS {} \in SUBSET Tokens
  <2>. QED
    BY <1>0
<1>1. CASE front'[w] = NoFront
  BY <1>0, <1>1 DEF Holds
<1>2. CASE front'[w].kept = {} /\ front'[w].added = {}
  BY <1>0, <1>2 DEF Holds
<1>3. CASE /\ front[w] # NoFront
           /\ front'[w].kept = front[w].kept /\ front'[w].added = front[w].added
  <2>1. Holds(w)' \subseteq Holds(w)
    BY <1>3 DEF Holds
  <2>2. front'[w].kept \cap front'[w].added = {}
    BY <1>3 DEF TokensApart
  <2>. QED
    BY <1>0, <2>1, <2>2
<1>4. ASSUME NEW t \in Tokens, front[w] # NoFront, IssueToken(w, t),
             \/ front'[w].kept = {t} /\ front'[w].added = front[w].added
             \/ front'[w].kept = front[w].kept /\ front'[w].added = {t}
      PROVE  /\ front'[w].kept \cap front'[w].added = {}
             /\ \E gained \in SUBSET Tokens:
                  /\ gained \cap Issued = {} /\ gained \subseteq Issued'
                  /\ Holds(w)' \subseteq Holds(w) \cup gained
  <2>1. t \notin Issued
    BY <1>4 DEF IssueToken, Issued
  <2>2. t \in Issued'
    <3>. DEFINE new == [id |-> t, session |-> job[w].session,
                        amount |-> job[w].total, base |-> job[w].base]
    <3>1. new \in tokens' /\ new.id = t
      BY <1>4 DEF IssueToken
    <3>. QED
      BY <3>1 DEF Issued
  <2>3. front[w].kept \subseteq Issued /\ front[w].added \subseteq Issued
    BY <1>4 DEF TokensApart, Holds
  <2>4. front'[w].kept \cap front'[w].added = {}
    BY <1>4, <2>1, <2>3
  <2>5. Holds(w)' \subseteq Holds(w) \cup {t}
    BY <1>4 DEF Holds
  <2>. QED
    BY <2>1, <2>2, <2>4, <2>5
<1>. QED
  BY <1>1, <1>2, <1>3, <1>4, OwnTokens

LEMMA ApartStep ==
  Typed /\ [CommerceNext]_commerceVars /\ TokensApart => TokensApart'
<1>. SUFFICES ASSUME Typed, [CommerceNext]_commerceVars, TokensApart
              PROVE  TokensApart'
  OBVIOUS
<1>0. Issued \subseteq Issued'
  BY JourneyStep, TokensStay DEF Issued
<1>1. ASSUME NEW w \in Workers, Buy(w) \/ Guarded(w) \/ Campaign(w) \/ LoseHandler(w)
      PROVE  \A u \in Workers \ {w}:
               /\ Holds(u)' = Holds(u)
               /\ front'[u] # NoFront => front'[u].kept \cap front'[u].added = {}
  BY <1>1, OthersStay DEF Holds, TokensApart
<1>2. ASSUME NEW w \in Workers, UNCHANGED results,
             Buy(w) \/ Guarded(w) \/ Campaign(w) \/ LoseHandler(w)
      PROVE  TokensApart'
  <2>1. PICK gained \in SUBSET Tokens:
          /\ gained \cap Issued = {} /\ gained \subseteq Issued'
          /\ Holds(w)' \subseteq Holds(w) \cup gained
    BY <1>2, OwnHoldings
  <2>2. front'[w] # NoFront => front'[w].kept \cap front'[w].added = {}
    BY <1>2, OwnHoldings
  <2>3. \A u \in Workers: /\ Holds(u) \subseteq Issued
                          /\ \A v \in Workers: u # v => Holds(u) \cap Holds(v) = {}
                          /\ \A row \in results: Holds(u) \cap Reports(row) = {}
    BY DEF TokensApart
  <2>4. \A row \in results: Reports(row) \subseteq Issued
    BY DEF TokensApart
  <2>5. ASSUME NEW u \in Workers
        PROVE  /\ Holds(u)' \subseteq Issued'
               /\ front'[u] # NoFront => front'[u].kept \cap front'[u].added = {}
               /\ \A row \in results: Holds(u)' \cap Reports(row) = {}
    <3>1. CASE u = w
      BY <1>0, <2>1, <2>2, <2>3, <2>4, <3>1
    <3>2. CASE u # w
      BY <1>0, <1>1, <1>2, <2>3, <3>2
    <3>. QED
      BY <3>1, <3>2
  <2>6. ASSUME NEW u \in Workers, NEW v \in Workers, u # v
        PROVE  Holds(u)' \cap Holds(v)' = {}
    <3>1. CASE u = w
      <4>1. Holds(v)' = Holds(v)
        BY <1>1, <1>2, <2>6, <3>1
      <4>. QED
        BY <2>1, <2>3, <2>6, <3>1, <4>1
    <3>2. CASE v = w
      <4>1. Holds(u)' = Holds(u)
        BY <1>1, <1>2, <2>6, <3>2
      <4>. QED
        BY <2>1, <2>3, <2>6, <3>2, <4>1
    <3>3. CASE u # w /\ v # w
      <4>1. Holds(u)' = Holds(u) /\ Holds(v)' = Holds(v)
        BY <1>1, <1>2, <3>3
      <4>. QED
        BY <2>3, <2>6, <4>1
    <3>. QED
      BY <3>1, <3>2, <3>3
  <2>7. \A row \in results: Reports(row) \subseteq Issued'
    BY <1>0, <2>4
  <2>. QED
    BY <1>2, <2>5, <2>6, <2>7 DEF TokensApart, Reports
<1>3. ASSUME NEW w \in Workers, SaveResult(w)
      PROVE  TokensApart'
  <2>. DEFINE new == Result(front[w])
  <2>1. /\ front[w] # NoFront /\ results' = results \cup {new}
        /\ Holds(w)' = {} /\ tokens' = tokens
    BY <1>3 DEF SaveResult, In, Leave, Holds, Typed, CommerceTypeOK, vars
  <2>2. Reports(new) = Holds(w) /\ new.kept \cap new.added = {}
    BY <2>1 DEF Result, Reports, Holds, TokensApart
  <2>. HIDE DEF new
  <2>3. \A u \in Workers: /\ Holds(u)' \subseteq Holds(u)
                          /\ front'[u] # NoFront
                               => front'[u].kept \cap front'[u].added = {}
    <3>1. Campaign(w) /\ front'[w] = NoFront
      BY <1>3 DEF Campaign, SaveResult, Leave, Typed, CommerceTypeOK
    <3>. QED
      BY <1>1, <2>1, <3>1
  <2>4. \A u \in Workers: u # w => Holds(u) \cap Reports(new) = {}
    BY <2>2 DEF TokensApart
  <2>5. \A row \in results: Reports(row) \cap Reports(new) = {}
    BY <2>2 DEF TokensApart
  <2>6. Reports(new) \subseteq Issued
    BY <2>2 DEF TokensApart
  <2>7. ASSUME NEW u \in Workers
        PROVE  /\ Holds(u)' \subseteq Issued'
               /\ \A v \in Workers: u # v => Holds(u)' \cap Holds(v)' = {}
               /\ \A row \in results': Holds(u)' \cap Reports(row) = {}
    <3>1. Holds(u) \subseteq Issued
      BY DEF TokensApart
    <3>2. \A v \in Workers: u # v => Holds(u) \cap Holds(v) = {}
      BY DEF TokensApart
    <3>3. \A row \in results: Holds(u) \cap Reports(row) = {}
      BY DEF TokensApart
    <3>. QED
      BY <1>0, <2>1, <2>3, <2>4, <3>1, <3>2, <3>3
  <2>8. ASSUME NEW row \in results'
        PROVE  /\ Reports(row) \subseteq Issued'
               /\ row.kept \cap row.added = {}
               /\ \A other \in results': row # other => Reports(row) \cap Reports(other) = {}
    BY <1>0, <2>1, <2>2, <2>5, <2>6 DEF TokensApart
  <2>. QED
    BY <2>3, <2>7, <2>8 DEF TokensApart, Reports
<1>4. CASE UNCHANGED <<tokens, front, results>>
  BY <1>4 DEF TokensApart, Holds, Reports, Issued
<1>5. ASSUME NEW k \in tokens, NEW amount \in Totals, Pay(k, amount)
      PROVE  UNCHANGED <<tokens, front, results>>
  BY <1>5 DEF Pay, Burn, RecordPayment, PlaceOrder, vars
<1>. QED
  BY <1>2, <1>3, <1>4, <1>5, OnlySaveAddsResults DEF CommerceNext, commerceVars, vars

(* What simulated sessions report was authorised, for any number of        *)
(* concurrent handlers: a cart or an add-on that was refused is not        *)
(* counted, an add-on is charged at most the price that is reported, and   *)
(* no token stands behind two purchases.                                   *)
THEOREM ResultsAuthorised == CommerceSpec => []ResultsAreAuthorised
<1>1. CommerceInit => AllAuthorised /\ TokensApart
  BY DEF CommerceInit, AllAuthorised, RowsAuthorised, Authorised, TokensApart, Holds
<1>2. CommerceSpec => []Typed
  BY JourneyStarts, TypedStep, PTL DEF CommerceSpec
<1>3. AllAuthorised /\ TokensApart => ResultsAreAuthorised
  BY DEF AllAuthorised, RowsAuthorised, TokensApart, Reports, ResultsAreAuthorised
<1>. QED
  BY <1>1, <1>2, <1>3, BasketsHold, AuthorisedStep, ApartStep, PTL DEF CommerceSpec
=============================================================================
