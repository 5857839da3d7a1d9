--------------------------- MODULE GuardrailProofs ---------------------------
(***************************************************************************)
(* Proofs about Guardrail, for every set of sessions, workers and tokens,  *)
(* every set of totals and ceilings and every rejection limit.             *)
(***************************************************************************)
EXTENDS Guardrail, SliceSums

(* A worker that stands at a named step runs a call with typed fields.     *)
LEMMA CallTyped ==
  ASSUME TypeOK, NEW w \in Workers, job[w].pc \in Steps
  PROVE  /\ job[w] \in Calls
         /\ job[w] # NoCall
         /\ job[w].session \in Sessions
         /\ job[w].total \in Nat
         /\ job[w].base \in Nat
         /\ ledger[job[w].session] \in Rows
<1>1. NoCall.pc = "none"
  BY DEF NoCall
<1>2. job[w] \in Calls /\ job[w] # NoCall
  BY <1>1 DEF TypeOK, Steps
<1>. QED
  BY <1>2, GuardrailAssumption DEF TypeOK, Calls

(* Rows and calls stay typed under the two updates of SpendAccepted.        *)
LEMMA SpendTyped ==
  ASSUME NEW row \in Rows, NEW spent \in Nat
  PROVE  [row EXCEPT !.spent = spent, !.rejections = 0] \in Rows
BY DEF Rows

LEMMA ChargeTyped ==
  ASSUME NEW call \in Calls, NEW base \in Nat
  PROVE  [call EXCEPT !.pc = "issue", !.base = base] \in Calls
BY DEF Calls, Steps

(* A step that writes one row of the ledger, with a row that is there.     *)
LEMMA RowWritten ==
  ASSUME TypeOK, NEW s \in Sessions, NEW row \in Rows, row.exists,
         ledger' = [ledger EXCEPT ![s] = row]
  PROVE  /\ ledger' \in [Sessions -> Rows]
         /\ \A r \in Sessions: ledger'[r].exists \/ ledger'[r] = NoRow
BY DEF TypeOK

(* A step that moves one worker.                                           *)
LEMMA CallMoved ==
  ASSUME TypeOK, NEW w \in Workers, NEW call \in Calls \cup {NoCall},
         job' = [job EXCEPT ![w] = call]
  PROVE  job' \in [Workers -> Calls \cup {NoCall}]
BY DEF TypeOK

(* INSERT ... ON CONFLICT DO NOTHING keeps the ledger typed.               *)
LEMMA OpenTyped ==
  ASSUME TypeOK, NEW s \in Sessions, NEW budget \in Ceilings,
         OpenBudget(s, budget)
  PROVE  /\ ledger' \in [Sessions -> Rows]
         /\ \A r \in Sessions: ledger'[r].exists \/ ledger'[r] = NoRow
<1>. DEFINE row == [NoRow EXCEPT !.exists = TRUE, !.budget = budget]
<1>1. row \in Rows /\ row.exists
  BY GuardrailAssumption DEF NoRow, Rows
<1>2. CASE ledger[s].exists
  BY <1>2 DEF OpenBudget, TypeOK
<1>3. CASE ~ledger[s].exists
  <2>1. ledger' = [ledger EXCEPT ![s] = row]
    BY <1>3 DEF OpenBudget
  <2>. HIDE DEF row
  <2>. QED
    BY <1>1, <2>1, RowWritten
<1>. QED
  BY <1>2, <1>3

LEMMA GotoTyped ==
  ASSUME TypeOK, NEW w \in Workers, job[w].pc \in Steps,
         NEW label \in Steps, Goto(w, label)
  PROVE  job' \in [Workers -> Calls \cup {NoCall}]
<1>1. job[w] \in Calls
  BY CallTyped
<1>. QED
  BY <1>1 DEF Goto, TypeOK, Calls

(* Every step keeps the four variables within their types: the type        *)
(* invariant is inductive by itself.                                       *)
LEMMA TypeStep == TypeOK /\ [Next]_vars => TypeOK'
<1>. USE GuardrailAssumption
<1>. SUFFICES ASSUME TypeOK, [Next]_vars
              PROVE  TypeOK'
  OBVIOUS
<1>1. ASSUME NEW s \in Sessions, NEW budget \in Ceilings, InitSession(s, budget)
      PROVE  TypeOK'
  BY <1>1, OpenTyped DEF InitSession, TypeOK
<1>2. ASSUME NEW w \in Workers, NEW s \in Sessions, NEW total \in Totals,
             NEW ceiling \in Ceilings, CheckFreeze(w, s, total, ceiling)
      PROVE  TypeOK'
  <2>1. FreezeVerdict(s, "cart") \in Steps
    BY DEF FreezeVerdict, Steps
  <2>. QED
    BY <1>2, <2>1 DEF CheckFreeze, TypeOK, Calls
<1>3. ASSUME NEW w \in Workers, Continue(w)
      PROVE  TypeOK'
  <2>1. CASE RejectCart(w)
    BY <2>1, GotoTyped DEF RejectCart, TypeOK, Steps
  <2>2. CASE CheckCeiling(w)
    BY <2>2, GotoTyped DEF CheckCeiling, TypeOK, Steps
  <2>3. CASE ReadSessionState(w)
    BY <2>3, GotoTyped DEF ReadSessionState, TypeOK, Steps
  <2>4. CASE InitSessionBudget(w)
    <3>1. job[w] \in Calls
      BY <2>4, CallTyped DEF InitSessionBudget, Steps
    <3>. QED
      BY <2>4, <3>1, GotoTyped, OpenTyped
         DEF InitSessionBudget, TypeOK, Steps, Calls
  <2>5. CASE SpendAccepted(w)
    <3>. DEFINE s == job[w].session
                row == [ledger[s] EXCEPT !.spent = ledger[s].spent + job[w].total,
                                         !.rejections = 0]
                call == [job[w] EXCEPT !.pc = "issue",
                                       !.base = ledger[s].spent]
    <3>1. /\ job[w] \in Calls /\ s \in Sessions /\ ledger[s] \in Rows
          /\ ledger[s].spent \in Nat /\ ledger[s].spent + job[w].total \in Nat
      BY <2>5, CallTyped DEF SpendAccepted, Rows, Steps
    <3>2. row \in Rows /\ row.exists
      BY <2>5, <3>1, SpendTyped DEF SpendAccepted, CanSpend, Rows
    <3>3. call \in Calls
      BY <3>1, ChargeTyped
    <3>4. /\ ledger' = [ledger EXCEPT ![s] = row]
          /\ job' = [job EXCEPT ![w] = call]
          /\ UNCHANGED <<tokens, streak>>
      BY <2>5 DEF SpendAccepted
    <3>. HIDE DEF s, row, call
    <3>. QED
      BY <3>1, <3>2, <3>3, <3>4, RowWritten, CallMoved DEF TypeOK
  <2>6. CASE SpendRefused(w)
    BY <2>6, GotoTyped DEF SpendRefused, TypeOK, Steps
  <2>7. CASE CountRejection(w)
    <3>. DEFINE s == job[w].session
                row == [ledger[s] EXCEPT !.rejections = ledger[s].rejections + 1]
    <3>1. s \in Sessions /\ ledger[s] \in Rows
      BY <2>7, CallTyped DEF CountRejection, Steps
    <3>2. CASE ledger[s].exists /\ ~ledger[s].frozen
      <4>1. row \in Rows /\ row.exists
        BY <3>1, <3>2 DEF Rows
      <4>2. ledger' = [ledger EXCEPT ![s] = row]
        BY <2>7, <3>2 DEF CountRejection
      <4>. HIDE DEF s, row
      <4>. QED
        BY <2>7, <3>1, <4>1, <4>2, RowWritten, GotoTyped
           DEF CountRejection, TypeOK, Steps
    <3>3. CASE ~(ledger[s].exists /\ ~ledger[s].frozen)
      BY <2>7, <3>3, GotoTyped DEF CountRejection, TypeOK, Steps
    <3>. QED
      BY <3>2, <3>3
  <2>8. CASE RecheckFreeze(w)
    BY <2>8, GotoTyped DEF RecheckFreeze, FreezeVerdict, TypeOK, Steps
  <2>9. CASE FreezeSession(w)
    <3>. DEFINE s == job[w].session
                row == [ledger[s] EXCEPT !.frozen = TRUE]
    <3>1. s \in Sessions /\ ledger[s] \in Rows
      BY <2>9, CallTyped DEF FreezeSession, Steps
    <3>2. CASE ledger[s].exists
      <4>1. row \in Rows /\ row.exists
        BY <3>1, <3>2 DEF Rows
      <4>2. ledger' = [ledger EXCEPT ![s] = row]
        BY <2>9, <3>2 DEF FreezeSession
      <4>. HIDE DEF s, row
      <4>. QED
        BY <2>9, <3>1, <4>1, <4>2, RowWritten, GotoTyped
           DEF FreezeSession, TypeOK, Steps
    <3>3. CASE ~ledger[s].exists
      BY <2>9, <3>3, GotoTyped DEF FreezeSession, TypeOK, Steps
    <3>. QED
      BY <3>2, <3>3
  <2>10. ASSUME NEW t \in Tokens, IssueToken(w, t)
         PROVE  TypeOK'
    <3>1. job[w].session \in Sessions /\ job[w].total \in Nat /\ job[w].base \in Nat
      BY <2>10, CallTyped DEF IssueToken, Steps
    <3>. QED
      BY <2>10, <3>1, GotoTyped DEF IssueToken, TypeOK, TokenRows, Steps
  <2>11. CASE IssueFails(w)
    BY <2>11 DEF IssueFails, TypeOK
  <2>12. CASE LogPass(w)
    BY <2>12, CallTyped, GuardrailAssumption DEF LogPass, TypeOK, Steps
  <2>13. CASE LogReject(w)
    <3>1. job[w].session \in Sessions
      BY <2>13, CallTyped DEF LogReject, Steps
    <3>2. streak' \in [Sessions -> 0..MaxRejections]
      BY <2>13, <3>1, GuardrailAssumption DEF LogReject, TypeOK
    <3>. QED
      BY <2>13, <3>2 DEF LogReject, TypeOK
  <2>. QED
    BY <1>3, <2>1, <2>2, <2>3, <2>4, <2>5, <2>6, <2>7, <2>8, <2>9, <2>10,
       <2>11, <2>12, <2>13 DEF Continue
<1>4. ASSUME NEW w \in Workers, Crash(w)
      PROVE  TypeOK'
  BY <1>4 DEF Crash, TypeOK
<1>5. CASE UNCHANGED vars
  BY <1>5 DEF vars, TypeOK
<1>. QED
  BY <1>1, <1>2, <1>3, <1>4, <1>5 DEF Next, Arrive

(* check_spend keeps ledger, tokens, calls and streaks within their types. *)
THEOREM TypeCorrect == Spec => []TypeOK
<1>1. Init => TypeOK
  BY GuardrailAssumption DEF Init, TypeOK, NoRow, Rows
<1>. QED
  BY <1>1, TypeStep, PTL DEF Spec

-----------------------------------------------------------------------------

(* The three parts of the inductive invariant that talk about money;       *)
(* TypeOK is its fourth.                                                   *)
Safe == SpentWithinBudget /\ TokensAreSlices /\ PendingSlices

(* A step that charges nothing, issues nothing and lets no worker reach    *)
(* the label "issue" keeps them.                                           *)
LEMMA QuietStep ==
  ASSUME Safe, tokens' = tokens, tokens \in SUBSET TokenRows,
         job \in [Workers -> Calls \cup {NoCall}],
         \A s \in Sessions: /\ ledger'[s].spent = ledger[s].spent
                            /\ ledger[s].spent <= ledger'[s].budget,
         \A v \in Workers: Charged(v)' => Charged(v) /\ job'[v] = job[v]
  PROVE  Safe'
<1>1. SpentWithinBudget'
  BY DEF SpentWithinBudget
<1>2. TokensAreSlices'
  BY DEF Safe, TokensAreSlices, TokenRows
<1>3. \A v \in Workers: Charged(v) => job[v].session \in Sessions
  BY DEF Charged, NoCall, Calls
<1>4. PendingSlices'
  BY <1>3 DEF Safe, PendingSlices
<1>. QED
  BY <1>1, <1>2, <1>4 DEF Safe

(* Sending a worker anywhere but to "issue" charges nobody.                *)
LEMMA GotoCharges ==
  ASSUME TypeOK, NEW w \in Workers, NEW label, label # "issue", Goto(w, label),
         job[w].pc \in Steps
  PROVE  \A v \in Workers: Charged(v)' => Charged(v) /\ job'[v] = job[v]
<1>1. job[w] \in Calls
  BY CallTyped
<1>. QED
  BY <1>1 DEF Goto, TypeOK, Charged, Calls

LEMMA EndCharges ==
  ASSUME TypeOK, NEW w \in Workers, job' = [job EXCEPT ![w] = NoCall]
  PROVE  \A v \in Workers: Charged(v)' => Charged(v) /\ job'[v] = job[v]
BY DEF TypeOK, Charged, NoCall

(* Opening a budget changes no balance.                                    *)
LEMMA OpenQuiet ==
  ASSUME TypeOK, SpentWithinBudget, NEW s \in Sessions, NEW budget \in Ceilings,
         OpenBudget(s, budget)
  PROVE  \A r \in Sessions: /\ ledger'[r].spent = ledger[r].spent
                            /\ ledger[r].spent <= ledger'[r].budget
<1>1. CASE ledger[s].exists
  BY <1>1 DEF OpenBudget, SpentWithinBudget
<1>2. CASE ~ledger[s].exists
  <2>1. ledger[s].spent = 0 /\ budget \in Nat
    BY <1>2, GuardrailAssumption DEF TypeOK, NoRow
  <2>2. /\ ledger'[s].spent = 0
        /\ ledger'[s].budget = budget
        /\ \A r \in Sessions: r # s => ledger'[r] = ledger[r]
    BY <1>2 DEF OpenBudget, NoRow, TypeOK
  <2>. QED
    BY <2>1, <2>2 DEF SpentWithinBudget
<1>. QED
  BY <1>1, <1>2

(* A new slice starts where everything taken so far ends.                  *)
LEMMA SpendSafe ==
  ASSUME TypeOK, TypeOK', Safe, NEW w \in Workers, SpendAccepted(w)
  PROVE  Safe'
<1>. DEFINE s == job[w].session
<1>1. /\ s \in Sessions /\ ledger[s] \in Rows /\ job[w].total \in Nat
      /\ job[w] \in Calls
  BY CallTyped DEF SpendAccepted, Steps
<1>2. /\ ledger'[s].spent = ledger[s].spent + job[w].total
      /\ ledger'[s].budget = ledger[s].budget
      /\ \A r \in Sessions: r # s => ledger'[r] = ledger[r]
      /\ tokens' = tokens
  BY <1>1 DEF SpendAccepted, TypeOK, Rows
<1>3. /\ job'[w].session = s /\ job'[w].total = job[w].total
      /\ job'[w].base = ledger[s].spent
      /\ \A v \in Workers: v # w => job'[v] = job[v]
  BY <1>1 DEF SpendAccepted, TypeOK, Calls
<1>4. ledger[s].spent + job[w].total <= ledger[s].budget
  BY DEF SpendAccepted, CanSpend
<1>5. \A r \in Sessions: /\ ledger[r].spent \in Nat
                         /\ ledger'[r].spent \in Nat
                         /\ ledger[r].spent <= ledger'[r].spent
  BY <1>1, <1>2 DEF TypeOK, Rows
<1>. HIDE DEF s
<1>6. SpentWithinBudget'
  BY <1>2, <1>4 DEF Safe, SpentWithinBudget
<1>7. \A k \in tokens: /\ k.session \in Sessions
                       /\ k.base \in Nat /\ k.amount \in Nat
                       /\ k.base + k.amount <= ledger[k.session].spent
  BY DEF Safe, TokensAreSlices, TypeOK, TokenRows
<1>8. TokensAreSlices'
  BY <1>2, <1>5, <1>7 DEF Safe, TokensAreSlices
<1>9. \A v \in Workers: v # w /\ Charged(v)
        => /\ job[v].session \in Sessions
           /\ job[v].base \in Nat /\ job[v].total \in Nat
           /\ job[v].base + job[v].total <= ledger[job[v].session].spent
  BY CallTyped DEF Safe, PendingSlices, Charged, Steps
<1>10. PendingSlices'
  <2>. SUFFICES ASSUME NEW v \in Workers, Charged(v)'
       PROVE
         /\ job'[v].base + job'[v].total <= ledger'[job'[v].session].spent
         /\ \A k \in tokens: k.session = job'[v].session
              => Apart(k.base, k.amount, job'[v].base, job'[v].total)
         /\ \A u \in Workers: u # v /\ Charged(u)' /\ job'[u].session = job'[v].session
              => Apart(job'[u].base, job'[u].total, job'[v].base, job'[v].total)
    BY <1>2 DEF PendingSlices
  <2>1. CASE v = w
    BY <2>1, <1>1, <1>2, <1>3, <1>5, <1>7, <1>9 DEF Apart, Charged
  <2>2. CASE v # w
    <3>1. Charged(v) /\ job'[v] = job[v]
      BY <2>2, <1>3 DEF Charged
    <3>2. \A k \in tokens: k.session = job[v].session
            => Apart(k.base, k.amount, job[v].base, job[v].total)
      BY <3>1 DEF Safe, PendingSlices
    <3>3. \A u \in Workers: u # v /\ u # w /\ Charged(u) /\ job[u].session = job[v].session
            => Apart(job[u].base, job[u].total, job[v].base, job[v].total)
      BY <3>1 DEF Safe, PendingSlices
    <3>4. job[v].session = s
            => Apart(job'[w].base, job'[w].total, job[v].base, job[v].total)
      BY <2>2, <3>1, <1>1, <1>3, <1>9 DEF Apart
    <3>5. job[v].base + job[v].total <= ledger'[job[v].session].spent
      BY <2>2, <3>1, <1>5, <1>9
    <3>6. ASSUME NEW u \in Workers, u # v, Charged(u)',
                 job'[u].session = job'[v].session
          PROVE  Apart(job'[u].base, job'[u].total, job'[v].base, job'[v].total)
      <4>1. CASE u = w
        BY <4>1, <3>1, <3>4, <3>6, <1>3
      <4>2. CASE u # w
        BY <4>2, <3>1, <3>3, <3>6, <1>3 DEF Charged
      <4>. QED
        BY <4>1, <4>2
    <3>. QED
      BY <3>1, <3>2, <3>5, <3>6
  <2>. QED
    BY <2>1, <2>2
<1>. QED
  BY <1>6, <1>8, <1>10 DEF Safe

(* A token takes over the slice of the call that issues it.                *)
LEMMA IssueSafe ==
  ASSUME TypeOK, Safe, NEW w \in Workers, NEW t \in Tokens, IssueToken(w, t)
  PROVE  Safe'
<1>. DEFINE new == [id |-> t, session |-> job[w].session,
                    amount |-> job[w].total, base |-> job[w].base]
<1>1. /\ job[w] \in Calls /\ job[w].session \in Sessions
      /\ job[w].total \in Nat /\ job[w].base \in Nat /\ job[w].total > 0
      /\ Charged(w)
  BY CallTyped DEF IssueToken, Steps, Charged
<1>2. ledger' = ledger /\ tokens' = tokens \cup {new}
  BY DEF IssueToken
<1>3. /\ ~Charged(w)'
      /\ \A v \in Workers: v # w => job'[v] = job[v] /\ (Charged(v)' <=> Charged(v))
  BY <1>1 DEF IssueToken, Goto, TypeOK, Calls, Charged
<1>4. /\ new.session = job[w].session /\ new.amount = job[w].total
      /\ new.base = job[w].base
  OBVIOUS
<1>. HIDE DEF new
<1>5. SpentWithinBudget'
  BY <1>2 DEF Safe, SpentWithinBudget
<1>6. /\ new.amount > 0
      /\ new.base + new.amount <= ledger[new.session].spent
      /\ \A k \in tokens: k.session = new.session
           => Apart(k.base, k.amount, new.base, new.amount)
  BY <1>1, <1>4 DEF Safe, PendingSlices
<1>7. \A k \in tokens: k.base \in Nat /\ k.amount \in Nat
  BY DEF TypeOK, TokenRows
<1>8. TokensAreSlices'
  <2>1. \A k \in tokens': k.amount > 0 /\ k.base + k.amount <= ledger'[k.session].spent
    BY <1>2, <1>6 DEF Safe, TokensAreSlices
  <2>2. ASSUME NEW j \in tokens', NEW k \in tokens', j # k, j.session = k.session
        PROVE  Apart(j.base, j.amount, k.base, k.amount)
    <3>1. CASE j \in tokens /\ k \in tokens
      BY <3>1, <2>2 DEF Safe, TokensAreSlices
    <3>2. CASE j \in tokens /\ k = new
      BY <3>2, <2>2, <1>6
    <3>3. CASE j = new /\ k \in tokens
      BY <3>3, <2>2, <1>6 DEF Apart
    <3>. QED
      BY <3>1, <3>2, <3>3, <2>2, <1>2
  <2>. QED
    BY <2>1, <2>2 DEF TokensAreSlices
<1>9. PendingSlices'
  <2>1. \A v \in Workers: v # w /\ Charged(v) /\ job[v].session = new.session
          => Apart(new.base, new.amount, job[v].base, job[v].total)
    BY <1>1, <1>4 DEF Safe, PendingSlices
  <2>. QED
    BY <1>2, <1>3, <2>1 DEF Safe, PendingSlices
<1>. QED
  BY <1>5, <1>8, <1>9 DEF Safe

(* Whatever the interleaving and the crashes: no session is overspent, no  *)
(* rupee of a budget is authorised twice, and a charge whose token is not  *)
(* issued yet keeps its slice for itself.                                  *)
THEOREM Safety == Spec => [](SpentWithinBudget /\ TokensAreSlices /\ PendingSlices)
<1>1. Init => Safe
  BY DEF Init, Safe, SpentWithinBudget, TokensAreSlices, PendingSlices,
         Charged, NoCall, NoRow
<1>2. TypeOK /\ TypeOK' /\ Safe /\ [Next]_vars => Safe'
  <2>. SUFFICES ASSUME TypeOK, TypeOK', Safe, [Next]_vars
                PROVE  Safe'
    OBVIOUS
  <2>. /\ job \in [Workers -> Calls \cup {NoCall}]
       /\ tokens \in SUBSET TokenRows
       /\ SpentWithinBudget
    BY DEF TypeOK, Safe
  <2>1. ASSUME NEW s \in Sessions, NEW budget \in Ceilings, InitSession(s, budget)
        PROVE  Safe'
    BY <2>1, OpenQuiet, QuietStep DEF InitSession, Charged
  <2>2. ASSUME NEW w \in Workers, NEW s \in Sessions, NEW total \in Totals,
               NEW ceiling \in Ceilings, CheckFreeze(w, s, total, ceiling)
        PROVE  Safe'
    <3>1. FreezeVerdict(s, "cart") # "issue"
      BY DEF FreezeVerdict
    <3>2. \A v \in Workers: Charged(v)' => Charged(v) /\ job'[v] = job[v]
      BY <2>2, <3>1 DEF CheckFreeze, Charged, TypeOK
    <3>. QED
      BY <2>2, <3>2, QuietStep DEF CheckFreeze, SpentWithinBudget
  <2>3. ASSUME NEW w \in Workers, Continue(w)
        PROVE  Safe'
    <3>1. CASE RejectCart(w)
      BY <3>1, GotoCharges, QuietStep DEF RejectCart, Steps, SpentWithinBudget
    <3>2. CASE CheckCeiling(w)
      BY <3>2, GotoCharges, QuietStep DEF CheckCeiling, Steps, SpentWithinBudget
    <3>3. CASE ReadSessionState(w)
      BY <3>3, GotoCharges, QuietStep DEF ReadSessionState, Steps, SpentWithinBudget
    <3>4. CASE InitSessionBudget(w)
      <4>1. job[w].session \in Sessions /\ job[w].ceiling \in Ceilings
        BY <3>4, CallTyped DEF InitSessionBudget, Steps, Calls
      <4>. QED
        BY <3>4, <4>1, GotoCharges, OpenQuiet, QuietStep DEF InitSessionBudget, Steps
    <3>5. CASE SpendAccepted(w)
      BY <3>5, SpendSafe
    <3>6. CASE SpendRefused(w)
      BY <3>6, GotoCharges, QuietStep DEF SpendRefused, Steps, SpentWithinBudget
    <3>7. CASE CountRejection(w)
      <4>1. \A r \in Sessions: /\ ledger'[r].spent = ledger[r].spent
                               /\ ledger[r].spent <= ledger'[r].budget
        BY <3>7 DEF CountRejection, TypeOK, Rows, SpentWithinBudget
      <4>. QED
        BY <3>7, <4>1, GotoCharges, QuietStep DEF CountRejection, Steps
    <3>8. CASE RecheckFreeze(w)
      BY <3>8, GotoCharges, QuietStep
         DEF RecheckFreeze, FreezeVerdict, Steps, SpentWithinBudget
    <3>9. CASE FreezeSession(w)
      <4>1. \A r \in Sessions: /\ ledger'[r].spent = ledger[r].spent
                               /\ ledger[r].spent <= ledger'[r].budget
        BY <3>9 DEF FreezeSession, TypeOK, Rows, SpentWithinBudget
      <4>. QED
        BY <3>9, <4>1, GotoCharges, QuietStep DEF FreezeSession, Steps
    <3>10. ASSUME NEW t \in Tokens, IssueToken(w, t)
           PROVE  Safe'
      BY <3>10, IssueSafe
    <3>11. CASE IssueFails(w)
      BY <3>11, EndCharges, QuietStep DEF IssueFails, SpentWithinBudget
    <3>12. CASE LogPass(w)
      BY <3>12, EndCharges, QuietStep DEF LogPass, SpentWithinBudget
    <3>13. CASE LogReject(w)
      BY <3>13, EndCharges, QuietStep DEF LogReject, SpentWithinBudget
    <3>. QED
      BY <2>3, <3>1, <3>2, <3>3, <3>4, <3>5, <3>6, <3>7, <3>8, <3>9, <3>10,
         <3>11, <3>12, <3>13 DEF Continue
  <2>4. ASSUME NEW w \in Workers, Crash(w)
        PROVE  Safe'
    BY <2>4, EndCharges, QuietStep DEF Crash, SpentWithinBudget
  <2>5. CASE UNCHANGED vars
    BY <2>5, QuietStep DEF vars, SpentWithinBudget, Charged
  <2>. QED
    BY <2>1, <2>2, <2>3, <2>4, <2>5 DEF Next, Arrive
<1>. QED
  BY <1>1, <1>2, TypeCorrect, PTL DEF Spec, Safe

(* The tokens of a session stand for disjoint slices of what it spent.     *)
THEOREM NoDoubleAuthorisation == Spec => []TokensAreSlices
BY Safety, PTL

(* A charge that waits for its token shares its slice with no other.       *)
THEOREM PendingChargesApart == Spec => []PendingSlices
BY Safety, PTL

(* What the slices are worth in paise: the tokens of a session add up to   *)
(* no more than what the ledger has charged, and so to no more than its    *)
(* budget (atomic_spend, issue_token), over every interleaving and loss.   *)
AuthorisedWithinBudget ==
  \A s \in Sessions:
    /\ SumOfAmounts({k \in tokens: k.session = s}) <= ledger[s].spent
    /\ SumOfAmounts({k \in tokens: k.session = s}) <= ledger[s].budget

THEOREM TokensFitTheBudget == Spec => []AuthorisedWithinBudget
<1>1. TypeOK /\ SpentWithinBudget /\ TokensAreSlices => AuthorisedWithinBudget
  <2>. SUFFICES ASSUME TypeOK, SpentWithinBudget, TokensAreSlices, NEW s \in Sessions,
                       NEW issued, issued = {k \in tokens: k.session = s}
                PROVE  /\ SumOfAmounts(issued) <= ledger[s].spent
                       /\ SumOfAmounts(issued) <= ledger[s].budget
    BY DEF AuthorisedWithinBudget
  <2>. DEFINE base == [k \in issued |-> k.base]
  <2>1. /\ ledger[s].spent \in Nat /\ ledger[s].budget \in Nat
        /\ ledger[s].spent <= ledger[s].budget
    BY DEF TypeOK, Rows, SpentWithinBudget
  <2>2. \A k \in issued: k.base \in Nat /\ k.amount \in Nat
    BY DEF TypeOK, TokenRows
  <2>3. AreSlices(issued, base, ledger[s].spent)
    BY <2>2 DEF AreSlices, TokensAreSlices, Apart
  <2>4. SumOfAmounts(issued) <= ledger[s].spent
    BY <2>1, <2>3, SlicesFitTheLimit
  <2>5. SumOfAmounts(issued) \in Nat
    BY <2>1, <2>3, SumOfSlicesTyped
  <2>. QED
    BY <2>1, <2>4, <2>5
<1>. QED
  BY <1>1, TypeCorrect, Safety, PTL

-----------------------------------------------------------------------------

(* Once frozen, a session is never charged again: the conditional UPDATE   *)
(* looks at the frozen column itself, whatever a call read before.         *)
THEOREM FrozenSafety == Spec => FrozenIsNeverCharged
<1>1. TypeOK /\ [Next]_vars
        => [\A s \in Sessions: ledger[s].frozen => ledger'[s].spent = ledger[s].spent]_vars
  <2>. SUFFICES ASSUME TypeOK, Next, NEW s \in Sessions, ledger[s].frozen
                PROVE  ledger'[s].spent = ledger[s].spent
    OBVIOUS
  <2>1. ASSUME NEW r \in Sessions, NEW budget \in Ceilings, OpenBudget(r, budget)
        PROVE  ledger'[s].spent = ledger[s].spent
    BY <2>1 DEF OpenBudget, TypeOK, NoRow
  <2>2. ASSUME NEW w \in Workers, SpendAccepted(w)
        PROVE  ledger'[s].spent = ledger[s].spent
    <3>1. job[w].session # s
      BY <2>2 DEF SpendAccepted, CanSpend
    <3>. QED
      BY <2>2, <3>1 DEF SpendAccepted, TypeOK
  <2>3. ASSUME NEW w \in Workers, CountRejection(w)
        PROVE  ledger'[s].spent = ledger[s].spent
    BY <2>3 DEF CountRejection, TypeOK, Rows
  <2>4. ASSUME NEW w \in Workers, FreezeSession(w)
        PROVE  ledger'[s].spent = ledger[s].spent
    BY <2>4 DEF FreezeSession, TypeOK, Rows
  <2>5. ASSUME NEW w \in Workers, InitSessionBudget(w)
        PROVE  ledger'[s].spent = ledger[s].spent
    <3>1. job[w].session \in Sessions /\ job[w].ceiling \in Ceilings
      BY <2>5, CallTyped DEF InitSessionBudget, Steps, Calls
    <3>. QED
      BY <2>5, <3>1, <2>1 DEF InitSessionBudget
  <2>. QED
    BY <2>1, <2>2, <2>3, <2>4, <2>5
       DEF Next, Arrive, Continue, InitSession, CheckFreeze, RejectCart,
           CheckCeiling, ReadSessionState, SpendRefused, RecheckFreeze,
           IssueToken, IssueFails, LogPass, LogReject, Crash
<1>. QED
  BY <1>1, TypeCorrect, PTL DEF Spec, FrozenIsNeverCharged

-----------------------------------------------------------------------------

(* Writing one row shows in the abstract view as a change at that session. *)
LEMMA OpenRefines ==
  ASSUME TypeOK, NEW s \in Sessions, NEW budget \in Ceilings,
         OpenBudget(s, budget), tokens' = tokens
  PROVE  [Authority!Next]_(Authority!vars)
<1>1. CASE ledger[s].exists
  BY <1>1 DEF OpenBudget, Authority!vars
<1>2. CASE ~ledger[s].exists
  <2>1. ledger[s] = NoRow
    BY <1>2 DEF TypeOK
  <2>2. /\ ledger'[s].budget = budget /\ ledger'[s].spent = 0 /\ ~ledger'[s].frozen
        /\ \A r \in Sessions: r # s => ledger'[r] = ledger[r]
    BY <1>2 DEF OpenBudget, TypeOK, NoRow
  <2>3. [r \in Sessions |-> ledger'[r].budget]
          = [[r \in Sessions |-> ledger[r].budget] EXCEPT ![s] = budget]
    BY <2>2
  <2>4. [r \in Sessions |-> ledger'[r].spent] = [r \in Sessions |-> ledger[r].spent]
    BY <2>1, <2>2 DEF NoRow
  <2>5. {r \in Sessions: ledger'[r].frozen} = {r \in Sessions: ledger[r].frozen}
    BY <2>1, <2>2 DEF NoRow
  <2>6. Authority!Open(s, budget)
    BY <2>1, <2>3, <2>4, <2>5 DEF Authority!Open, NoRow
  <2>. QED
    BY <2>6 DEF Authority!Next
<1>. QED
  BY <1>1, <1>2

(* check_spend, with its interleavings and its crashes, implements the     *)
(* abstract spending authority.                                            *)
THEOREM Refinement == Spec => IsSpendAuthority
<1>1. Init => Authority!Init
  BY DEF Init, Authority!Init, NoRow
<1>2. TypeOK /\ Safe /\ [Next]_vars => [Authority!Next]_(Authority!vars)
  <2>. SUFFICES ASSUME TypeOK, Safe, [Next]_vars
                PROVE  [Authority!Next]_(Authority!vars)
    OBVIOUS
  <2>1. ASSUME NEW w \in Workers, SpendAccepted(w)
        PROVE  [Authority!Next]_(Authority!vars)
    <3>0. PICK s \in Sessions, amount \in Totals:
             s = job[w].session /\ amount = job[w].total
      BY <2>1, CallTyped DEF SpendAccepted, Steps, Calls
    <3>1. ledger[s] \in Rows
      BY DEF TypeOK
    <3>2. /\ ledger'[s].spent = ledger[s].spent + amount
          /\ ledger'[s].budget = ledger[s].budget
          /\ ledger'[s].frozen = ledger[s].frozen
          /\ \A r \in Sessions: r # s => ledger'[r] = ledger[r]
          /\ tokens' = tokens
      BY <2>1, <3>0, <3>1 DEF SpendAccepted, TypeOK, Rows
    <3>3. ~ledger[s].frozen /\ ledger[s].spent + amount <= ledger[s].budget
      BY <2>1, <3>0 DEF SpendAccepted, CanSpend
    <3>4. [r \in Sessions |-> ledger'[r].spent]
            = [[r \in Sessions |-> ledger[r].spent]
                 EXCEPT ![s] = ledger[s].spent + amount]
      BY <3>1, <3>2
    <3>5. [r \in Sessions |-> ledger'[r].budget] = [r \in Sessions |-> ledger[r].budget]
      BY <3>2
    <3>6. {r \in Sessions: ledger'[r].frozen} = {r \in Sessions: ledger[r].frozen}
      BY <3>2
    <3>7. Authority!Take(s, amount)
      BY <3>1, <3>2, <3>3, <3>4, <3>5, <3>6 DEF Authority!Take
    <3>. QED
      BY <3>1, <3>7 DEF Authority!Next
  <2>2. ASSUME NEW w \in Workers, FreezeSession(w)
        PROVE  [Authority!Next]_(Authority!vars)
    <3>0. PICK s \in Sessions: s = job[w].session
      BY <2>2, CallTyped DEF FreezeSession, Steps, Calls
    <3>1. s \in Sessions /\ ledger[s] \in Rows
      BY <3>0 DEF TypeOK
    <3>2. CASE ledger[s].exists
      <4>1. /\ ledger'[s].spent = ledger[s].spent
            /\ ledger'[s].budget = ledger[s].budget
            /\ ledger'[s].frozen = TRUE
            /\ \A r \in Sessions: r # s => ledger'[r] = ledger[r]
            /\ tokens' = tokens
        BY <2>2, <3>0, <3>1, <3>2 DEF FreezeSession, TypeOK, Rows
      <4>2. {r \in Sessions: ledger'[r].frozen}
              = {r \in Sessions: ledger[r].frozen} \cup {s}
        BY <3>1, <4>1
      <4>3. [r \in Sessions |-> ledger'[r].spent] = [r \in Sessions |-> ledger[r].spent]
        BY <4>1
      <4>4. [r \in Sessions |-> ledger'[r].budget] = [r \in Sessions |-> ledger[r].budget]
        BY <4>1
      <4>5. Authority!Block(s)
        BY <4>1, <4>2, <4>3, <4>4 DEF Authority!Block
      <4>. QED
        BY <3>1, <4>5 DEF Authority!Next
    <3>3. CASE ~ledger[s].exists
      BY <2>2, <3>0, <3>3 DEF FreezeSession, Authority!vars
    <3>. QED
      BY <3>2, <3>3
  <2>3. ASSUME NEW w \in Workers, CountRejection(w)
        PROVE  [Authority!Next]_(Authority!vars)
    <3>1. \A r \in Sessions: /\ ledger'[r].spent = ledger[r].spent
                             /\ ledger'[r].budget = ledger[r].budget
                             /\ ledger'[r].frozen = ledger[r].frozen
      BY <2>3 DEF CountRejection, TypeOK, Rows
    <3>. QED
      BY <2>3, <3>1 DEF CountRejection, Authority!vars
  <2>4. ASSUME NEW w \in Workers, NEW t \in Tokens, IssueToken(w, t)
        PROVE  [Authority!Next]_(Authority!vars)
    <3>. DEFINE s == job[w].session
    <3>1. /\ s \in Sessions /\ job[w].total \in Totals /\ job[w].base \in Nat
          /\ job[w].total \in Nat /\ Charged(w) /\ ledger[s] \in Rows
      BY <2>4, CallTyped DEF IssueToken, Steps, Calls, Charged
    <3>2. /\ job[w].base + job[w].total <= ledger[s].spent
          /\ \A k \in tokens: k.session = s
               => Apart(k.base, k.amount, job[w].base, job[w].total)
      BY <3>1 DEF Safe, PendingSlices
    <3>3. job[w].base \in 0..ledger[s].budget
      BY <3>1, <3>2 DEF Safe, SpentWithinBudget, Rows
    <3>4. Authority!Grant(t, s, job[w].total, job[w].base)
      BY <2>4, <3>1, <3>2
         DEF IssueToken, Authority!Grant, Authority!Disjoint, Apart
    <3>. QED
      BY <3>1, <3>3, <3>4 DEF Authority!Next
  <2>5. ASSUME NEW w \in Workers, InitSessionBudget(w)
        PROVE  [Authority!Next]_(Authority!vars)
    <3>1. job[w].session \in Sessions /\ job[w].ceiling \in Ceilings
      BY <2>5, CallTyped DEF InitSessionBudget, Steps, Calls
    <3>. QED
      BY <2>5, <3>1, OpenRefines DEF InitSessionBudget
  <2>6. ASSUME NEW s \in Sessions, NEW budget \in Ceilings, InitSession(s, budget)
        PROVE  [Authority!Next]_(Authority!vars)
    BY <2>6, OpenRefines DEF InitSession
  <2>7. ASSUME ledger' = ledger, tokens' = tokens
        PROVE  [Authority!Next]_(Authority!vars)
    BY <2>7 DEF Authority!vars
  <2>. QED
    BY <2>1, <2>2, <2>3, <2>4, <2>5, <2>6, <2>7
       DEF Next, Arrive, Continue, CheckFreeze, RejectCart,
           CheckCeiling, ReadSessionState, SpendRefused, RecheckFreeze,
           IssueFails, LogPass, LogReject, Crash, vars
<1>. QED
  BY <1>1, <1>2, TypeCorrect, Safety, PTL
     DEF Spec, IsSpendAuthority, Authority!Spec, Safe

-----------------------------------------------------------------------------

(* The calls of session s that have read "not frozen" and may still count  *)
(* a rejection.                                                            *)
CountingSteps == {"cart", "state", "init", "spend", "count"}

Counting(s) ==
  {w \in Workers: job[w].pc \in CountingSteps /\ job[w].session = s}

(* Each of them can add one rejection.  A call joins them only while the   *)
(* counter is below the limit, when even all workers together fit.         *)
LagBounded ==
  \A s \in Sessions:
    ledger[s].rejections + Cardinality(Counting(s))
      <= MaxRejections - 1 + Cardinality(Workers)

LEMMA CountingFinite ==
  ASSUME IsFiniteSet(Workers), NEW s
  PROVE  /\ IsFiniteSet(Counting(s)) /\ IsFiniteSet(Counting(s)')
         /\ Cardinality(Workers) \in Nat
         /\ Cardinality(Counting(s)) \in 0..Cardinality(Workers)
         /\ Cardinality(Counting(s)') \in 0..Cardinality(Workers)
<1>1. Counting(s) \in SUBSET Workers /\ Counting(s)' \in SUBSET Workers
  BY DEF Counting
<1>2. /\ IsFiniteSet(Counting(s)) /\ IsFiniteSet(Counting(s)')
      /\ Cardinality(Counting(s)) <= Cardinality(Workers)
      /\ Cardinality(Counting(s)') <= Cardinality(Workers)
  BY <1>1, FS_Subset
<1>3. /\ Cardinality(Workers) \in Nat /\ Cardinality(Counting(s)) \in Nat
      /\ Cardinality(Counting(s)') \in Nat
  BY <1>2, FS_CardinalityType
<1>. QED
  BY <1>2, <1>3

(* A session that no call joins and whose counter does not rise.           *)
LEMMA LagKept ==
  ASSUME IsFiniteSet(Workers), TypeOK, TypeOK', LagBounded, NEW s \in Sessions,
         Counting(s)' \subseteq Counting(s),
         ledger'[s].rejections <= ledger[s].rejections
  PROVE  ledger'[s].rejections + Cardinality(Counting(s)')
           <= MaxRejections - 1 + Cardinality(Workers)
<1>1. Cardinality(Counting(s)') <= Cardinality(Counting(s))
  BY CountingFinite, FS_Subset
<1>2. ledger[s].rejections \in Nat /\ ledger'[s].rejections \in Nat
  BY DEF TypeOK, Rows
<1>3. ledger[s].rejections + Cardinality(Counting(s))
        <= MaxRejections - 1 + Cardinality(Workers)
  BY DEF LagBounded
<1>. QED
  BY <1>1, <1>2, <1>3, CountingFinite, GuardrailAssumption

(* Going on from a counting step, or to another one, joins nobody.         *)
LEMMA GotoJoins ==
  ASSUME TypeOK, NEW w \in Workers, NEW label, Goto(w, label),
         job[w].pc \in Steps,
         job[w].pc \in CountingSteps \/ label \notin CountingSteps
  PROVE  \A s \in Sessions: Counting(s)' \subseteq Counting(s)
<1>1. job[w] \in Calls
  BY CallTyped
<1>2. /\ job'[w].pc = label /\ job'[w].session = job[w].session
      /\ \A v \in Workers: v # w => job'[v] = job[v]
  BY <1>1 DEF Goto, TypeOK, Calls
<1>. QED
  BY <1>2 DEF Counting

LEMMA EndJoins ==
  ASSUME TypeOK, NEW w \in Workers, job' = [job EXCEPT ![w] = NoCall]
  PROVE  \A s \in Sessions: Counting(s)' \subseteq Counting(s)
<1>1. /\ job'[w].pc \notin CountingSteps
      /\ \A v \in Workers: v # w => job'[v] = job[v]
  BY DEF TypeOK, NoCall, CountingSteps
<1>. QED
  BY <1>1 DEF Counting

(* A new call joins the counting calls of its session only below the limit.*)
LEMMA CheckFreezeLag ==
  ASSUME IsFiniteSet(Workers), TypeOK, TypeOK', LagBounded,
         NEW w \in Workers, NEW r \in Sessions, NEW total \in Totals,
         NEW ceiling \in Ceilings, CheckFreeze(w, r, total, ceiling)
  PROVE  LagBounded'
<1>. SUFFICES ASSUME NEW s \in Sessions
              PROVE  ledger'[s].rejections + Cardinality(Counting(s)')
                       <= MaxRejections - 1 + Cardinality(Workers)
  BY DEF LagBounded
<1>1. /\ job'[w].pc = FreezeVerdict(r, "cart") /\ job'[w].session = r
      /\ \A v \in Workers: v # w => job'[v] = job[v]
      /\ ledger' = ledger
  BY DEF CheckFreeze, TypeOK
<1>2. ledger[s].rejections \in Nat
  BY DEF TypeOK, Rows
<1>3. CASE s = r /\ FreezeVerdict(r, "cart") = "cart"
  <2>1. ~(ledger[s].rejections >= MaxRejections)
    BY <1>3 DEF FreezeVerdict
  <2>. QED
    BY <1>1, <1>2, <2>1, CountingFinite, GuardrailAssumption
<1>4. CASE s # r \/ FreezeVerdict(r, "cart") # "cart"
  <2>1. FreezeVerdict(r, "cart") # "cart"
          => FreezeVerdict(r, "cart") \notin CountingSteps
    BY DEF FreezeVerdict, CountingSteps
  <2>2. Counting(s)' \subseteq Counting(s)
    BY <1>1, <1>4, <2>1 DEF Counting
  <2>. QED
    BY <1>1, <1>2, <2>2, LagKept
<1>. QED
  BY <1>3, <1>4

(* A call that counts its rejection is no longer one that may.             *)
LEMMA CountLag ==
  ASSUME IsFiniteSet(Workers), TypeOK, TypeOK', LagBounded,
         NEW w \in Workers, CountRejection(w)
  PROVE  LagBounded'
<1>. SUFFICES ASSUME NEW s \in Sessions
              PROVE  ledger'[s].rejections + Cardinality(Counting(s)')
                       <= MaxRejections - 1 + Cardinality(Workers)
  BY DEF LagBounded
<1>1. /\ Goto(w, "recheck") /\ job[w].pc = "count"
      /\ job[w] \in Calls /\ job[w].session \in Sessions
  BY CallTyped DEF CountRejection, Steps
<1>2. Counting(s)' \subseteq Counting(s)
  BY <1>1, GotoJoins DEF CountingSteps, Steps
<1>3. ledger[s] \in Rows /\ ledger[s].rejections \in Nat
  BY DEF TypeOK, Rows
<1>4. CASE s # job[w].session
  <2>1. ledger'[s] = ledger[s]
    BY <1>1, <1>4 DEF CountRejection, TypeOK
  <2>. QED
    BY <1>2, <1>3, <2>1, LagKept
<1>5. CASE s = job[w].session
  <2>1. ledger'[s].rejections \in {ledger[s].rejections, ledger[s].rejections + 1}
    BY <1>3, <1>5 DEF CountRejection, TypeOK, Rows
  <2>2. w \in Counting(s)
    BY <1>1, <1>5 DEF Counting, CountingSteps
  <2>3. w \notin Counting(s)'
    BY <1>1 DEF Goto, TypeOK, Counting, CountingSteps, Calls
  <2>4. Counting(s)' \in SUBSET (Counting(s) \ {w})
    BY <1>2, <2>3
  <2>5. /\ IsFiniteSet(Counting(s) \ {w})
        /\ Cardinality(Counting(s) \ {w}) = Cardinality(Counting(s)) - 1
    BY <2>2, CountingFinite, FS_RemoveElement
  <2>6. Cardinality(Counting(s)') <= Cardinality(Counting(s)) - 1
    BY <2>4, <2>5, FS_Subset
  <2>7. ledger[s].rejections + Cardinality(Counting(s))
          <= MaxRejections - 1 + Cardinality(Workers)
    BY DEF LagBounded
  <2>. QED
    BY <1>3, <2>1, <2>6, <2>7, CountingFinite, GuardrailAssumption
<1>. QED
  BY <1>4, <1>5

LEMMA LagStep ==
  ASSUME IsFiniteSet(Workers), TypeOK, TypeOK', LagBounded, [Next]_vars
  PROVE  LagBounded'
<1>1. ASSUME \A s \in Sessions: /\ Counting(s)' \subseteq Counting(s)
                                /\ ledger'[s].rejections <= ledger[s].rejections
      PROVE  LagBounded'
  BY <1>1, LagKept DEF LagBounded
<1>2. \A s \in Sessions: ledger[s] \in Rows /\ ledger[s].rejections \in Nat
  BY DEF TypeOK, Rows
<1>3. ASSUME ledger' = ledger,
             \A s \in Sessions: Counting(s)' \subseteq Counting(s)
      PROVE  LagBounded'
  <2>1. \A s \in Sessions: ledger'[s].rejections <= ledger[s].rejections
    BY <1>2, <1>3
  <2>. QED
    BY <1>1, <1>3, <2>1
<1>4. ASSUME NEW r \in Sessions, NEW budget \in Ceilings, OpenBudget(r, budget)
      PROVE  \A s \in Sessions: ledger'[s].rejections <= ledger[s].rejections
  <2>1. \A s \in Sessions: ledger'[s].rejections = ledger[s].rejections
    BY <1>4 DEF OpenBudget, TypeOK, NoRow
  <2>. QED
    BY <1>2, <2>1
<1>5. ASSUME NEW s \in Sessions, NEW budget \in Ceilings, InitSession(s, budget)
      PROVE  LagBounded'
  BY <1>1, <1>4, <1>5 DEF InitSession, Counting
<1>6. ASSUME NEW w \in Workers, Continue(w)
      PROVE  LagBounded'
  <2>1. CASE RejectCart(w)
    BY <1>3, <2>1, GotoJoins DEF RejectCart, Steps, CountingSteps
  <2>2. CASE CheckCeiling(w)
    BY <1>3, <2>2, GotoJoins DEF CheckCeiling, Steps, CountingSteps
  <2>3. CASE ReadSessionState(w)
    BY <1>3, <2>3, GotoJoins DEF ReadSessionState, Steps, CountingSteps
  <2>4. CASE InitSessionBudget(w)
    <3>1. /\ job[w].session \in Sessions /\ job[w].ceiling \in Ceilings
          /\ \A s \in Sessions: Counting(s)' \subseteq Counting(s)
      BY <2>4, CallTyped, GotoJoins
         DEF InitSessionBudget, Steps, Calls, CountingSteps
    <3>. QED
      BY <1>1, <1>4, <2>4, <3>1 DEF InitSessionBudget
  <2>5. CASE SpendAccepted(w)
    <3>1. /\ job[w] \in Calls /\ job[w].session \in Sessions
      BY <2>5, CallTyped DEF SpendAccepted, Steps
    <3>2. /\ job'[w].pc = "issue"
          /\ \A v \in Workers: v # w => job'[v] = job[v]
      BY <2>5, <3>1 DEF SpendAccepted, TypeOK, Calls
    <3>3. \A s \in Sessions: Counting(s)' \subseteq Counting(s)
      BY <3>2 DEF Counting, CountingSteps
    <3>4. \A s \in Sessions: ledger'[s].rejections \in {0, ledger[s].rejections}
      BY <1>2, <2>5, <3>1 DEF SpendAccepted, TypeOK, Rows
    <3>. QED
      BY <1>1, <1>2, <3>3, <3>4
  <2>6. CASE SpendRefused(w)
    BY <1>3, <2>6, GotoJoins DEF SpendRefused, Steps, CountingSteps
  <2>7. CASE CountRejection(w)
    BY <2>7, CountLag
  <2>8. CASE RecheckFreeze(w)
    BY <1>3, <2>8, GotoJoins
       DEF RecheckFreeze, FreezeVerdict, Steps, CountingSteps
  <2>9. CASE FreezeSession(w)
    <3>1. job[w].session \in Sessions
      BY <2>9, CallTyped DEF FreezeSession, Steps
    <3>2. \A s \in Sessions: ledger'[s].rejections = ledger[s].rejections
      BY <1>2, <2>9, <3>1 DEF FreezeSession, TypeOK, Rows
    <3>. QED
      BY <1>1, <1>2, <2>9, <3>2, GotoJoins
         DEF FreezeSession, Steps, CountingSteps
  <2>10. ASSUME NEW t \in Tokens, IssueToken(w, t)
         PROVE  LagBounded'
    BY <1>3, <2>10, GotoJoins DEF IssueToken, Steps, CountingSteps
  <2>11. CASE IssueFails(w)
    BY <1>3, <2>11, EndJoins DEF IssueFails
  <2>12. CASE LogPass(w)
    BY <1>3, <2>12, EndJoins DEF LogPass
  <2>13. CASE LogReject(w)
    BY <1>3, <2>13, EndJoins DEF LogReject
  <2>. QED
    BY <1>6, <2>1, <2>2, <2>3, <2>4, <2>5, <2>6, <2>7, <2>8, <2>9, <2>10,
       <2>11, <2>12, <2>13 DEF Continue
<1>7. ASSUME NEW w \in Workers, Crash(w)
      PROVE  LagBounded'
  BY <1>3, <1>7, EndJoins DEF Crash
<1>8. CASE UNCHANGED vars
  BY <1>3, <1>8 DEF vars, Counting
<1>. QED
  BY <1>5, <1>6, <1>7, <1>8, CheckFreezeLag DEF Next, Arrive

(* With finitely many calls at a time the freeze comes at most that many   *)
(* rejections late, minus one: whatever the limit, and however many of the *)
(* calls are lost between the rejection and the freeze.                    *)
THEOREM FreezeIsPrompt ==
  ASSUME IsFiniteSet(Workers)
  PROVE  Spec => []FreezeLag
<1>1. Init => LagBounded
  <2>. SUFFICES ASSUME Init, NEW s \in Sessions
                PROVE  ledger[s].rejections + Cardinality(Counting(s))
                         <= MaxRejections - 1 + Cardinality(Workers)
    BY DEF LagBounded
  <2>1. ledger[s].rejections = 0
    BY DEF Init, NoRow
  <2>. QED
    BY <2>1, CountingFinite, GuardrailAssumption
<1>2. TypeOK /\ LagBounded => FreezeLag
  <2>. SUFFICES ASSUME TypeOK, LagBounded, NEW s \in Sessions
                PROVE  ledger[s].rejections < MaxRejections + Cardinality(Workers)
    BY DEF FreezeLag
  <2>1. ledger[s].rejections \in Nat
    BY DEF TypeOK, Rows
  <2>2. ledger[s].rejections + Cardinality(Counting(s))
          <= MaxRejections - 1 + Cardinality(Workers)
    BY DEF LagBounded
  <2>. QED
    BY <2>1, <2>2, CountingFinite, GuardrailAssumption
<1>3. TypeOK /\ TypeOK' /\ LagBounded /\ [Next]_vars => LagBounded'
  BY LagStep
<1>. QED
  BY <1>1, <1>2, <1>3, TypeCorrect, PTL DEF Spec
=============================================================================
