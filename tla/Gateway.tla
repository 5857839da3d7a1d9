------------------------------- MODULE Gateway -------------------------------
(***************************************************************************)
(* The payment gateway (Razorpay), as the code uses it: an order per       *)
(* receipt, payments made on the order by the customer, and a webhook      *)
(* event for each thing that happens.  The gateway is the source of truth  *)
(* the ledger is measured against.  It is not part of the repository.      *)
(***************************************************************************)
EXTENDS PaymentLedger

CONSTANTS
  EventKinds,   \* webhook subscriptions modelled: subset of AllEventKinds
  Fidelity      \* whether an event's amount and currency match: {TRUE} or BOOLEAN

VARIABLES
  order,   \* order[t]: status of the order with t's receipt
  pay,     \* pay[t][p]: status of the p-th payment made on that order
  sent     \* events sent so far; each may arrive late, repeatedly or never

gatewayVars == <<order, pay, sent>>

AllEventKinds == {"payment.authorized", "payment.captured", "payment.failed",
                  "order.paid"}

ASSUME GatewayAssumption ==
  /\ EventKinds \subseteq AllEventKinds
  /\ Fidelity \subseteq BOOLEAN /\ Fidelity # {}

OrderStatuses == {"none", "created", "attempted", "paid"}
PayStatuses == {"none", "failed", "authorized", "captured"}

Events == [kind: EventKinds, rec: Tokens, pid: PayIds, matches: Fidelity]

Send(kinds, t, p, matches) ==
  sent' = sent \cup {[kind |-> k, rec |-> t, pid |-> p, matches |-> matches]:
                       k \in kinds \cap EventKinds}

InitGateway ==
  /\ order = [t \in Tokens |-> "none"]
  /\ pay = [t \in Tokens |-> [p \in PayIds |-> "none"]]
  /\ sent = {}

Payable(t) == order[t] \in {"created", "attempted"}

FailPayment(t, p, matches) ==
  /\ Payable(t)
  /\ pay[t][p] = "none"
  /\ pay' = [pay EXCEPT ![t][p] = "failed"]
  /\ order' = [order EXCEPT ![t] = "attempted"]
  /\ Send({"payment.failed"}, t, p, matches)

AuthorizePayment(t, p, matches) ==
  /\ Payable(t)
  /\ pay[t][p] = "none"
  /\ pay' = [pay EXCEPT ![t][p] = "authorized"]
  /\ order' = [order EXCEPT ![t] = "attempted"]
  /\ Send({"payment.authorized"}, t, p, matches)

(* payment_capture = 1: the gateway captures what it authorised.           *)
CapturePayment(t, p, matches) ==
  /\ Payable(t)
  /\ pay[t][p] = "authorized"
  /\ pay' = [pay EXCEPT ![t][p] = "captured"]
  /\ order' = [order EXCEPT ![t] = "paid"]
  /\ Send({"payment.captured", "order.paid"}, t, p, matches)

GatewayStep ==
  /\ \E t \in Tokens, p \in PayIds, matches \in Fidelity:
       \/ FailPayment(t, p, matches)
       \/ AuthorizePayment(t, p, matches)
       \/ CapturePayment(t, p, matches)
  /\ UNCHANGED ledgerVars
=============================================================================
