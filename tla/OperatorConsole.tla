--------------------------- MODULE OperatorConsole ---------------------------
(***************************************************************************)
(* The way to the live audit stream: the rate-limited login, the stream    *)
(* tickets of security/auth.py and the streams they open.  Tickets, the    *)
(* request history and the streams live in the memory of one process and   *)
(* go with it; the bearer token is signed and outlives it.                 *)
(***************************************************************************)
EXTENDS RateWindow, AuditStream

CONSTANTS
  Tickets,     \* ticket ids (random, so never drawn twice)
  LoginTTL,    \* lifetime of a bearer token, 12 hours
  TicketTTL    \* lifetime of a stream ticket, 30 seconds

ASSUME ConsoleAssumption == LoginTTL \in Nat \ {0} /\ TicketTTL \in Nat

VARIABLES
  bearer,    \* when the operator's bearer token expires, 0 if there is none
  tickets,   \* _stream_tickets: the tickets with their expiry
  issued,    \* history: when a ticket was minted, -1 if it was not
  lost,      \* history: tickets that were in the memory of a lost process
  uses       \* history: how many streams a ticket has opened, up to 2

ticketVars == <<bearer, tickets, issued, lost, uses>>
vars == <<now, rateVars, auditVars, ticketVars>>

TicketRows == [id: Tickets, expiry: Nat]
Never == -1

Init ==
  /\ InitRate
  /\ InitAudit
  /\ bearer = 0
  /\ tickets = {}
  /\ issued = [t \in Tickets |-> Never]
  /\ lost = {}
  /\ uses = [t \in Tickets |-> 0]

-----------------------------------------------------------------------------

(* POST /auth/token passes the limiter before the password is looked at.   *)
Login(limit) ==
  /\ Admit(limit)
  /\ bearer' = now + LoginTTL
  /\ UNCHANGED <<now, auditVars, tickets, issued, lost, uses>>

LoginFails(limit) ==
  /\ Admit(limit)
  /\ UNCHANGED <<now, auditVars, ticketVars>>

LoginThrottled(limit) ==
  /\ Refuse(limit)
  /\ UNCHANGED <<now, auditVars, ticketVars>>

LoggedIn == now < bearer

(* POST /auth/stream-ticket: expired tickets are removed on the way.       *)
MintTicket(t) ==
  /\ LoggedIn
  /\ issued[t] = Never
  /\ tickets' = {k \in tickets: k.expiry >= now}
                  \cup {[id |-> t, expiry |-> now + TicketTTL]}
  /\ issued' = [issued EXCEPT ![t] = now]
  /\ UNCHANGED <<now, rateVars, auditVars, bearer, lost, uses>>

(* validate_and_consume_stream_ticket: the ticket goes, valid or not.      *)
ReadTicket(t) ==   \* mutant: get where the code has pop
  UNCHANGED tickets

PopTicket(t) ==
  tickets' = {k \in tickets: k.id # t}

Valid(t) == \E k \in tickets: k.id = t /\ k.expiry >= now

(* GET /audit/stream with a ticket.  One that is not valid goes as well,   *)
(* and the stream opens for a public observer.                             *)
SubscribeWithTicket(s, t) ==
  /\ OpenStream(s)
  /\ PopTicket(t)
  /\ uses' = IF Valid(t) /\ uses[t] < 2 THEN [uses EXCEPT ![t] = uses[t] + 1]
             ELSE uses
  /\ UNCHANGED <<now, rateVars, bearer, issued, lost>>

(* GET /audit/stream with a bearer token, or with nothing.                 *)
SubscribeWithoutTicket(s) ==
  /\ OpenStream(s)
  /\ UNCHANGED <<now, rateVars, ticketVars>>

Restart ==
  /\ ForgetRequests
  /\ CloseAll
  /\ lost' = lost \cup {k.id: k \in tickets}
  /\ tickets' = {}
  /\ UNCHANGED <<now, bearer, issued, uses>>

-----------------------------------------------------------------------------

Operator ==
  \/ \E limit \in Limits: Login(limit) \/ LoginFails(limit) \/ LoginThrottled(limit)
  \/ \E t \in Tickets: MintTicket(t)

Subscribe(s) ==
  \/ \E t \in Tickets: SubscribeWithTicket(s, t)
  \/ SubscribeWithoutTicket(s)

Serve(s) == (Poll(s) \/ Emit(s)) /\ UNCHANGED <<now, rateVars, ticketVars>>

Logging ==
  /\ \E w \in Writers:
       \/ InsertRow(w)
       \/ \E state \in {"committed", "gone"}: EndTransaction(w, state)
  /\ UNCHANGED <<now, rateVars, ticketVars>>

Next ==
  \/ Operator
  \/ Logging
  \/ \E s \in Streams:
       \/ Subscribe(s)
       \/ Serve(s)
       \/ CloseStream(s) /\ UNCHANGED <<now, rateVars, ticketVars>>
  \/ Tick /\ UNCHANGED <<rateVars, auditVars, ticketVars>>
  \/ Restart

Spec == Init /\ [][Next]_vars

(* An open stream polls every two seconds and emits what it has read.      *)
FairSpec == Spec /\ \A s \in Streams: WF_vars(Serve(s))

-----------------------------------------------------------------------------

(* The types of the clock, the window, the log, the streams, the tickets.  *)
TypeOK ==
  /\ RateTypeOK
  /\ AuditTypeOK
  /\ bearer \in Nat
  /\ tickets \subseteq TicketRows
  /\ issued \in [Tickets -> Nat \cup {Never}]
  /\ lost \subseteq Tickets
  /\ uses \in [Tickets -> 0..2]

(* A ticket that was minted opens one stream, within its lifetime, and     *)
(* only a restart can take that from its holder: the tickets the process   *)
(* would accept are exactly those minted, unused, not lost and in time,    *)
(* whatever other tickets were swept or refused meanwhile.                 *)
TicketsOpenOneStream ==
  \A t \in Tickets:
    /\ uses[t] <= 1
    /\ Valid(t) <=> /\ issued[t] # Never /\ now <= issued[t] + TicketTTL
                    /\ uses[t] = 0 /\ t \notin lost
=============================================================================
