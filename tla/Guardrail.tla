------------------------------ MODULE Guardrail ------------------------------
(***************************************************************************)
(* The spending guardrail: guardrail/service.py (check_spend), the budget  *)
(* ledger it writes (guardrail/ledger.py), the freeze rule                 *)
(* (security/rate_limiter.py) and the issue of capability tokens           *)
(* (security/tokens.py).                                                   *)
(*                                                                         *)
(* Every database transaction of check_spend is one step, so the calls of  *)
(* several workers interleave between transactions and a worker can be     *)
(* lost between any two.  One worker is one running call.                  *)
(***************************************************************************)
EXTENDS Integers, FiniteSets

CONSTANTS
  Sessions,       \* session ids
  Workers,        \* calls of check_spend that can run at the same time
  Tokens,         \* token ids (uuid4, so never drawn twice)
  Totals,         \* cart totals in paise; 0 is the total of an empty cart
  Ceilings,       \* stated ceilings and operator-set budgets, in paise
  MaxRejections   \* settings.max_consecutive_rejections

ASSUME GuardrailAssumption ==
  /\ Totals \subseteq Nat
  /\ Ceilings \subseteq Nat \ {0}
  /\ MaxRejections \in Nat \ {0}

VARIABLES
  ledger,   \* ledger[s] is the budget_ledger row of session s
  tokens,   \* rows of capability_tokens, each with the slice it stands for
  job,      \* job[w] is the call of check_spend that worker w is running
  streak    \* history: REJECT decisions of s since its last PASS, capped

vars == <<ledger, tokens, job, streak>>

-----------------------------------------------------------------------------

(* A row that is absent has exists = FALSE; its other columns are zero.    *)
Rows == [exists: BOOLEAN, budget: Nat, spent: Nat, rejections: Nat,
         frozen: BOOLEAN]

NoRow == [exists |-> FALSE, budget |-> 0, spent |-> 0, rejections |-> 0,
          frozen |-> FALSE]

(* The charge behind a token moved spent_paise from base to base + amount: *)
(* base is a history field, which lets "no rupee is authorised twice" be   *)
(* said without a sum.                                                     *)
TokenRows == [id: Tokens, session: Sessions, amount: Nat, base: Nat]

Steps == {"cart", "state", "init", "spend", "count", "recheck", "freeze",
          "issue", "pass", "reject"}

Calls == [pc: Steps, session: Sessions, total: Totals, ceiling: Ceilings,
          base: Nat]

NoCall == [pc |-> "none"]

Goto(w, label) == job' = [job EXCEPT ![w].pc = label]

(* What check_and_freeze_if_needed makes of the row it reads: a frozen     *)
(* session is rejected, a session over the limit goes on to be frozen, any *)
(* other (also one without a row) continues at the label given.            *)
FreezeVerdictTooLate(s, otherwise) ==   \* mutant: > where the code has >=
  IF ledger[s].frozen THEN "reject"
  ELSE IF ledger[s].rejections > MaxRejections THEN "freeze"
  ELSE otherwise

FreezeVerdict(s, otherwise) ==
  IF ledger[s].frozen THEN "reject"
  ELSE IF ledger[s].rejections >= MaxRejections THEN "freeze"
  ELSE otherwise

-----------------------------------------------------------------------------

Init ==
  /\ ledger = [s \in Sessions |-> NoRow]
  /\ tokens = {}
  /\ job = [w \in Workers |-> NoCall]
  /\ streak = [s \in Sessions |-> 0]

(* INSERT INTO budget_ledger ... ON CONFLICT (session_id) DO NOTHING.      *)
OpenBudgetUpsert(s, budget) ==   \* mutant: ON CONFLICT DO UPDATE
  ledger' = [ledger EXCEPT ![s].exists = TRUE, ![s].budget = budget]

OpenBudgetNoInsert(s, budget) ==   \* mutant: the row is not marked present
  ledger' = [ledger EXCEPT ![s].budget = budget]

OpenBudget(s, budget) ==
  ledger' = IF ledger[s].exists THEN ledger
            ELSE [ledger EXCEPT ![s] = [NoRow EXCEPT !.exists = TRUE,
                                                     !.budget = budget]]

(* An operator (or a campaign session) sets a budget before any intent.    *)
InitSession(s, budget) ==
  /\ OpenBudget(s, budget)
  /\ UNCHANGED <<tokens, job, streak>>

(* An intent arrives and check 1 reads the freeze state.                   *)
CheckFreeze(w, s, total, ceiling) ==
  /\ job[w] = NoCall
  /\ job' = [job EXCEPT ![w] = [pc |-> FreezeVerdict(s, "cart"), session |-> s,
                                total |-> total, ceiling |-> ceiling,
                                base |-> 0]]
  /\ UNCHANGED <<ledger, tokens, streak>>

(* Checks 2 and 3: an item is unknown or unavailable, or the catalog moved *)
(* since the quote.  The catalog is not modelled here: either may happen.  *)
RejectCart(w) ==
  /\ job[w].pc = "cart"
  /\ Goto(w, "reject")
  /\ UNCHANGED <<ledger, tokens, streak>>

(* Check 5 compares the total with the ceiling the customer stated.        *)
CheckCeiling(w) ==
  /\ job[w].pc = "cart"
  /\ Goto(w, IF job[w].total > job[w].ceiling THEN "reject" ELSE "state")
  /\ UNCHANGED <<ledger, tokens, streak>>

(* Check 6 looks for a budget row, and opens one if there is none.         *)
ReadSessionState(w) ==
  /\ job[w].pc = "state"
  /\ Goto(w, IF ledger[job[w].session].exists THEN "spend" ELSE "init")
  /\ UNCHANGED <<ledger, tokens, streak>>

InitSessionBudget(w) ==
  /\ job[w].pc = "init"
  /\ OpenBudget(job[w].session, job[w].ceiling)
  /\ Goto(w, "spend")
  /\ UNCHANGED <<tokens, streak>>

(* The WHERE clause of the conditional UPDATE of atomic_spend.             *)
CanSpendFrozen(s, total) ==   \* mutant: is_frozen is not looked at
  /\ ledger[s].exists
  /\ ledger[s].spent + total <= ledger[s].budget

CanSpendOneMore(s, total) ==   \* mutant: spent + total - 1 <= budget
  /\ ledger[s].exists
  /\ ~ledger[s].frozen
  /\ ledger[s].spent + total <= ledger[s].budget + 1

CanSpend(s, total) ==
  /\ ledger[s].exists
  /\ ~ledger[s].frozen
  /\ ledger[s].spent + total <= ledger[s].budget

SpendAcceptedOverwrites(w) ==   \* mutant: SET spent_paise = total
  LET s == job[w].session  total == job[w].total IN
  /\ job[w].pc = "spend"
  /\ CanSpend(s, total)
  /\ ledger' = [ledger EXCEPT ![s] = [@ EXCEPT !.spent = total, !.rejections = 0]]
  /\ job' = [job EXCEPT ![w] = [@ EXCEPT !.pc = "issue",
                                         !.base = ledger[s].spent]]
  /\ UNCHANGED <<tokens, streak>>

SpendAccepted(w) ==
  LET s == job[w].session  total == job[w].total IN
  /\ job[w].pc = "spend"
  /\ CanSpend(s, total)
  /\ ledger' = [ledger EXCEPT ![s] = [@ EXCEPT !.spent = ledger[s].spent + total,
                                               !.rejections = 0]]
  /\ job' = [job EXCEPT ![w] = [@ EXCEPT !.pc = "issue",
                                         !.base = ledger[s].spent]]
  /\ UNCHANGED <<tokens, streak>>

(* The UPDATE matched no row.  The transaction is READ COMMITTED and has   *)
(* locked nothing, so other transactions commit before its second UPDATE.  *)
SpendRefused(w) ==
  /\ job[w].pc = "spend"
  /\ ~CanSpend(job[w].session, job[w].total)
  /\ Goto(w, "count")
  /\ UNCHANGED <<ledger, tokens, streak>>

CountRejection(w) ==
  LET s == job[w].session IN
  /\ job[w].pc = "count"
  /\ ledger' = IF ledger[s].exists /\ ~ledger[s].frozen
               THEN [ledger EXCEPT ![s].rejections = @ + 1]
               ELSE ledger
  /\ Goto(w, "recheck")
  /\ UNCHANGED <<tokens, streak>>

(* check_and_freeze_if_needed again, after the refusal.                    *)
RecheckFreeze(w) ==
  /\ job[w].pc = "recheck"
  /\ Goto(w, FreezeVerdict(job[w].session, "reject"))
  /\ UNCHANGED <<ledger, tokens, streak>>

FreezeSession(w) ==
  /\ job[w].pc = "freeze"
  /\ ledger' = IF ledger[job[w].session].exists
               THEN [ledger EXCEPT ![job[w].session].frozen = TRUE]
               ELSE ledger
  /\ Goto(w, "reject")
  /\ UNCHANGED <<tokens, streak>>

(* INSERT INTO capability_tokens; the row needs a positive amount.         *)
IssueTokenTwice(w, t) ==   \* mutant: a second token for the same charge
  /\ job[w].pc \in {"issue", "pass"}
  /\ job[w].total > 0
  /\ \A row \in tokens: row.id # t
  /\ tokens' = tokens \cup {[id |-> t, session |-> job[w].session,
                             amount |-> job[w].total, base |-> job[w].base]}
  /\ Goto(w, "pass")
  /\ UNCHANGED <<ledger, streak>>

IssueToken(w, t) ==
  /\ job[w].pc = "issue"
  /\ job[w].total > 0
  /\ \A row \in tokens: row.id # t
  /\ tokens' = tokens \cup {[id |-> t, session |-> job[w].session,
                             amount |-> job[w].total, base |-> job[w].base]}
  /\ Goto(w, "pass")
  /\ UNCHANGED <<ledger, streak>>

(* An empty cart violates CHECK (authorized_amount_paise > 0): the call    *)
(* ends with an error, after the ledger has reset the rejection counter.   *)
IssueFails(w) ==
  /\ job[w].pc = "issue"
  /\ job[w].total = 0
  /\ job' = [job EXCEPT ![w] = NoCall]
  /\ UNCHANGED <<ledger, tokens, streak>>

(* _log_decision, then the decision is returned.                           *)
LogPass(w) ==
  /\ job[w].pc = "pass"
  /\ streak' = [streak EXCEPT ![job[w].session] = 0]
  /\ job' = [job EXCEPT ![w] = NoCall]
  /\ UNCHANGED <<ledger, tokens>>

LogReject(w) ==
  /\ job[w].pc = "reject"
  /\ streak' = [streak EXCEPT ![job[w].session] =
                  IF @ < MaxRejections THEN @ + 1 ELSE @]
  /\ job' = [job EXCEPT ![w] = NoCall]
  /\ UNCHANGED <<ledger, tokens>>

(* The process is lost between two transactions; nothing resumes the call. *)
Crash(w) ==
  /\ job[w] # NoCall
  /\ job' = [job EXCEPT ![w] = NoCall]
  /\ UNCHANGED <<ledger, tokens, streak>>

-----------------------------------------------------------------------------

(* What a running call does next, without crashing.                        *)
Continue(w) ==
  \/ RejectCart(w)
  \/ CheckCeiling(w)
  \/ ReadSessionState(w)
  \/ InitSessionBudget(w)
  \/ SpendAccepted(w)
  \/ SpendRefused(w)
  \/ CountRejection(w)
  \/ RecheckFreeze(w)
  \/ FreezeSession(w)
  \/ \E t \in Tokens: IssueToken(w, t)
  \/ IssueFails(w)
  \/ LogPass(w)
  \/ LogReject(w)

Arrive ==
  \/ \E s \in Sessions, budget \in Ceilings: InitSession(s, budget)
  \/ \E w \in Workers, s \in Sessions, total \in Totals, ceiling \in Ceilings:
       CheckFreeze(w, s, total, ceiling)

Next == Arrive \/ \E w \in Workers: Continue(w) \/ Crash(w)

Spec == Init /\ [][Next]_vars

(* Processes may be lost, but not for ever; a call that was started keeps  *)
(* running as long as its process lives; and customers do not give a       *)
(* session up (nothing else would look at it again after a loss between    *)
(* the rejection and the freeze).                                          *)
NextWithoutCrash == Arrive \/ \E w \in Workers: Continue(w)

AnyIntent(s) ==
  \E w \in Workers, total \in Totals, ceiling \in Ceilings:
    CheckFreeze(w, s, total, ceiling)

FairSpec ==
  /\ Spec
  /\ <>[][NextWithoutCrash]_vars
  /\ \A w \in Workers: WF_vars(Continue(w))
  /\ \A s \in Sessions: SF_vars(AnyIntent(s))

-----------------------------------------------------------------------------

(* The types of the four variables; the columns of an absent row are zero. *)
TypeOK ==
  /\ ledger \in [Sessions -> Rows]
  /\ \A s \in Sessions: ledger[s].exists \/ ledger[s] = NoRow
  /\ tokens \in SUBSET TokenRows
  /\ job \in [Workers -> Calls \cup {NoCall}]
  /\ streak \in [Sessions -> 0..MaxRejections]

(* However the calls interleave and crash, no session has spent more than  *)
(* its budget (the "critical invariant" of guardrail/ledger.py).           *)
SpentWithinBudget == \A s \in Sessions: ledger[s].spent <= ledger[s].budget

(* The slice a charge took out of the session's budget, as half-open range.*)
Apart(base1, amount1, base2, amount2) ==
  base1 + amount1 <= base2 \/ base2 + amount2 <= base1

(* No rupee is authorised twice: the tokens of a session stand for         *)
(* disjoint, non-empty slices of what the ledger has charged.  With        *)
(* SpentWithinBudget it bounds the sum of all tokens of a session by its   *)
(* budget.                                                                 *)
TokensAreSlices ==
  /\ \A k \in tokens: k.amount > 0 /\ k.base + k.amount <= ledger[k.session].spent
  /\ \A j, k \in tokens:
       j # k /\ j.session = k.session
         => Apart(j.base, j.amount, k.base, k.amount)

(* A charge whose token is still to be issued holds a slice that no token  *)
(* and no other such charge holds, whatever commits in between.            *)
Charged(w) == job[w].pc = "issue"

PendingSlices ==
  \A w \in Workers: Charged(w) =>
    /\ job[w].base + job[w].total <= ledger[job[w].session].spent
    /\ \A k \in tokens: k.session = job[w].session
         => Apart(k.base, k.amount, job[w].base, job[w].total)
    /\ \A v \in Workers: v # w /\ Charged(v) /\ job[v].session = job[w].session
         => Apart(job[v].base, job[v].total, job[w].base, job[w].total)

(* Calls that read "not frozen" before the limit was reached keep counting *)
(* after it: a session is refused more often than the limit allows, but    *)
(* only by the calls that were running, whatever is lost on the way.       *)
FreezeLag ==
  \A s \in Sessions:
    ledger[s].rejections < MaxRejections + Cardinality(Workers)

(* The row of the ledger seen as an abstract spending authority.           *)
Authority == INSTANCE SpendAuthority WITH
  Amounts <- Totals,
  Limits <- Ceilings,
  limit <- [s \in Sessions |-> ledger[s].budget],
  taken <- [s \in Sessions |-> ledger[s].spent],
  blocked <- {s \in Sessions: ledger[s].frozen},
  granted <- tokens

(* The steps of check_spend, its interleavings and its crashes implement   *)
(* the promise of SpendAuthority.                                          *)
IsSpendAuthority == Authority!Spec

(* Nothing is charged to a session once it is frozen, also not by a call   *)
(* that passed the freeze check before the freeze.                         *)
FrozenIsNeverCharged ==
  [][\A s \in Sessions: ledger[s].frozen => ledger'[s].spent = ledger[s].spent]_vars

(* A session that reaches the limit of consecutive ledger rejections is    *)
(* frozen, unless a concurrent call of it is accepted first: also when the *)
(* call that reached the limit is lost before it could freeze the session. *)
StreakFreezes ==
  \A s \in Sessions:
    ledger[s].rejections >= MaxRejections
      ~> ledger[s].frozen \/ ledger[s].rejections < MaxRejections

(* README.md:135 "Auto-freezes session on >= 5 consecutive rejections":    *)
(* a session with a budget whose last MaxRejections decisions were all     *)
(* REJECT is frozen.                                                       *)
RejectionsFreeze ==
  \A s \in Sessions:
    ledger[s].exists /\ streak[s] = MaxRejections => ledger[s].frozen
=============================================================================
