------------------------------ MODULE SliceSums ------------------------------
(***************************************************************************)
(* Sums over sets of slices.  A charge of the guardrail moves spent_paise  *)
(* from base to base + amount (guardrail/ledger.py, atomic_spend), and the *)
(* invariants of Guardrail say that the charges of a session stand for     *)
(* disjoint slices of what it has spent.  This module proves what that is  *)
(* worth in paise: the amounts add up to no more than the limit the slices *)
(* lie below.                                                              *)
(*                                                                         *)
(* A sum is defined by recursion on finite sets, and an induction over it  *)
(* is out of the provers' reach.  The proof avoids both: it exhibits the   *)
(* function that counts the paise a set of slices covers, shows that it    *)
(* satisfies the recursion, and that no other function does, because a     *)
(* smallest set on which two of them differed could lose an element.       *)
(***************************************************************************)
EXTENDS FiniteSetsExt, FiniteSetTheorems, TLAPS

(* The sum of the amounts of a set of tokens or orders.                    *)
SumOfAmounts(S) == MapThenSumSet(LAMBDA o: o.amount, S)

(* base[o] is where the slice of o begins: the slices are not empty, end   *)
(* at the limit, and no two overlap.                                       *)
AreSlices(S, base, limit) ==
  /\ base \in [S -> Nat]
  /\ \A o \in S: o.amount \in Nat \ {0} /\ base[o] + o.amount <= limit
  /\ \A a, b \in S: a # b => \/ base[a] + a.amount <= base[b]
                             \/ base[b] + b.amount <= base[a]

(* The paise that a slice, and that a set of slices, stands for.           *)
Paise(o, base) == base[o]..(base[o] + o.amount - 1)
PaiseOf(s, base) == UNION {Paise(o, base): o \in s}

(* The recursion over the subsets of S that a sum is the value of.         *)
Recurs(g, S) ==
  g = [s \in SUBSET S |->
         IF s = {} THEN 0
         ELSE LET x == CHOOSE x \in s: TRUE IN x.amount + g[s \ {x}]]

(* At most one function satisfies the recursion.  Were there two, take a   *)
(* smallest subset on which they differ: without the element the recursion *)
(* chooses they agree, and so they do with it.                             *)
LEMMA RecursionIsUnique ==
  ASSUME NEW S, IsFiniteSet(S), NEW g, NEW h, Recurs(g, S), Recurs(h, S)
  PROVE  g = h
<1>. DEFINE differ == {s \in SUBSET S: g[s] # h[s]}
<1>1. ASSUME differ # {}
      PROVE  FALSE
  <2>1. IsWellFoundedOn(StrictSubsetOrdering(S), SUBSET S)
    BY FS_StrictSubsetOrderingWellFounded, FS_FiniteSubsetsOfFinite
  <2>2. differ \subseteq SUBSET S
    OBVIOUS
  <2>. HIDE DEF differ
  <2>3. PICK s \in differ: \A t \in differ: <<t, s>> \notin StrictSubsetOrdering(S)
    BY <1>1, <2>1, <2>2, WFMin
  <2>. USE DEF differ
  <2>4. s # {}
    BY <2>3 DEF Recurs
  <2>5. PICK x: x = (CHOOSE y \in s: TRUE)
    OBVIOUS
  <2>6. x \in s
    BY <2>4, <2>5
  <2>7. s \ {x} \in SUBSET S /\ s \ {x} \subseteq s /\ s \ {x} # s
    BY <2>3, <2>6
  <2>8. <<s \ {x}, s>> \in StrictSubsetOrdering(S)
    BY <2>3, <2>7 DEF StrictSubsetOrdering
  <2>9. g[s \ {x}] = h[s \ {x}]
    BY <2>3, <2>7, <2>8
  <2>10. g[s] = x.amount + g[s \ {x}] /\ h[s] = x.amount + h[s \ {x}]
    BY <2>3, <2>4, <2>5 DEF Recurs
  <2>. QED
    BY <2>3, <2>9, <2>10
<1>2. \A s \in SUBSET S: g[s] = h[s]
  BY <1>1
<1>. QED
  BY <1>2 DEF Recurs

(* So a function that satisfies the recursion is the sum.                  *)
LEMMA SumIsRecursion ==
  ASSUME NEW S, IsFiniteSet(S), NEW g, Recurs(g, S)
  PROVE  SumOfAmounts(S) = g[S]
<1>1. \A h: Recurs(h, S) => h = g
  BY RecursionIsUnique
<1>. QED
  BY <1>1 DEF SumOfAmounts, Recurs, MapThenSumSet, MapThenFoldSet

-----------------------------------------------------------------------------

(* A slice covers as many paise as its amount, all below the limit.        *)
LEMMA CellsFacts ==
  ASSUME NEW S, NEW base, NEW limit \in Nat, AreSlices(S, base, limit), NEW x \in S
  PROVE  /\ IsFiniteSet(Paise(x, base))
         /\ Cardinality(Paise(x, base)) = x.amount
         /\ Paise(x, base) \subseteq 0..(limit - 1)
<1>1. base[x] \in Nat /\ x.amount \in Nat \ {0} /\ base[x] + x.amount <= limit
  BY DEF AreSlices
<1>. DEFINE low == base[x]
            high == base[x] + x.amount - 1
<1>2. /\ low \in Int /\ high \in Int /\ low <= high
      /\ high - low + 1 = x.amount /\ 0 <= low /\ high <= limit - 1
  BY <1>1
<1>3. Paise(x, base) = low..high
  BY DEF Paise
<1>. HIDE DEF low, high
<1>4. /\ IsFiniteSet(low..high)
      /\ Cardinality(low..high) = IF low > high THEN 0 ELSE high - low + 1
  BY <1>2, FS_Interval
<1>5. ~ (low > high)
  BY <1>2
<1>6. low..high \subseteq 0..(limit - 1)
  BY <1>2
<1>. QED
  BY <1>2, <1>3, <1>4, <1>5, <1>6

(* A set of slices covers finitely many paise, at most the limit.          *)
LEMMA CoveredFacts ==
  ASSUME NEW S, NEW base, NEW limit \in Nat, AreSlices(S, base, limit),
         NEW s \in SUBSET S
  PROVE  /\ IsFiniteSet(PaiseOf(s, base))
         /\ Cardinality(PaiseOf(s, base)) \in Nat
         /\ Cardinality(PaiseOf(s, base)) <= limit
<1>1. PaiseOf(s, base) \subseteq 0..(limit - 1)
  BY CellsFacts DEF PaiseOf
<1>2. IsFiniteSet(0..(limit - 1)) /\ Cardinality(0..(limit - 1)) = limit
  BY FS_Interval
<1>. QED
  BY <1>1, <1>2, FS_Subset, FS_CardinalityType

(* The cardinality of a union of disjoint sets.                            *)
LEMMA DisjointUnion ==
  ASSUME NEW T, IsFiniteSet(T), NEW U, IsFiniteSet(U), T \cap U = {}
  PROVE  Cardinality(T \cup U) = Cardinality(T) + Cardinality(U)
<1>1. Cardinality(T \cup U) = Cardinality(T) + Cardinality(U) - Cardinality({})
  BY FS_Union
<1>2. Cardinality(T) \in Nat /\ Cardinality(U) \in Nat
  BY FS_CardinalityType
<1>. QED
  BY <1>1, <1>2, FS_EmptySet

(* Every slice of a set covers its amount of paise that the others do not. *)
LEMMA OneMoreSlice ==
  ASSUME NEW S, NEW base, NEW limit \in Nat, AreSlices(S, base, limit),
         NEW s \in SUBSET S, NEW x \in s
  PROVE  Cardinality(PaiseOf(s, base)) = x.amount + Cardinality(PaiseOf(s \ {x}, base))
<1>1. PaiseOf(s, base) = Paise(x, base) \cup PaiseOf(s \ {x}, base)
  BY DEF PaiseOf
<1>2. Paise(x, base) \cap PaiseOf(s \ {x}, base) = {}
  <2>1. ASSUME NEW y \in s \ {x}, NEW i \in Paise(x, base) \cap Paise(y, base)
        PROVE  FALSE
    <3>1. /\ base[x] \in Nat /\ x.amount \in Nat /\ base[y] \in Nat /\ y.amount \in Nat
          /\ base[x] + x.amount <= base[y] \/ base[y] + y.amount <= base[x]
      BY <2>1 DEF AreSlices
    <3>. QED
      BY <2>1, <3>1 DEF Paise
  <2>. QED
    BY <2>1 DEF PaiseOf
<1>3. x \in S /\ s \ {x} \in SUBSET S
  OBVIOUS
<1>4. /\ IsFiniteSet(Paise(x, base)) /\ Cardinality(Paise(x, base)) = x.amount
      /\ IsFiniteSet(PaiseOf(s \ {x}, base))
      /\ Cardinality(PaiseOf(s \ {x}, base)) \in Nat
  BY <1>3, CellsFacts, CoveredFacts
<1>5. x.amount \in Nat
  BY <1>3 DEF AreSlices
<1>6. Cardinality(Paise(x, base) \cup PaiseOf(s \ {x}, base))
        = Cardinality(Paise(x, base)) + Cardinality(PaiseOf(s \ {x}, base))
  BY <1>2, <1>4, DisjointUnion
<1>. QED
  BY <1>1, <1>4, <1>6

(* There are finitely many slices: no two begin at the same paisa.         *)
LEMMA SlicesAreFinite ==
  ASSUME NEW S, NEW base, NEW limit \in Nat, AreSlices(S, base, limit)
  PROVE  IsFiniteSet(S)
<1>1. base \in Injection(S, 0..limit)
  <2>1. base \in [S -> 0..limit]
    BY DEF AreSlices
  <2>2. ASSUME NEW a \in S, NEW b \in S, base[a] = base[b]
        PROVE  a = b
    BY <2>2 DEF AreSlices
  <2>. QED
    BY <2>1, <2>2 DEF Injection, IsInjective
<1>2. IsFiniteSet(0..limit)
  BY FS_Interval
<1>. QED
  BY <1>1, <1>2, FS_Injection

-----------------------------------------------------------------------------

(* The sum of the amounts of slices is the number of paise they cover.     *)
LEMMA SumCountsPaise ==
  ASSUME NEW S, NEW base, NEW limit \in Nat, AreSlices(S, base, limit)
  PROVE  SumOfAmounts(S) = Cardinality(PaiseOf(S, base))
<1>. DEFINE covered == [s \in SUBSET S |-> Cardinality(PaiseOf(s, base))]
<1>1. Recurs(covered, S)
  <2>1. PaiseOf({}, base) = {}
    BY DEF PaiseOf
  <2>2. covered[{}] = 0
    BY <2>1, FS_EmptySet
  <2>3. ASSUME NEW s \in SUBSET S, s # {}, NEW x, x = (CHOOSE y \in s: TRUE)
        PROVE  covered[s] = x.amount + covered[s \ {x}]
    <3>1. x \in s /\ s \ {x} \in SUBSET S
      BY <2>3
    <3>. QED
      BY <3>1, OneMoreSlice
  <2>4. covered \in [SUBSET S -> Nat]
    BY CoveredFacts
  <2>. HIDE DEF covered
  <2>5. \A s \in SUBSET S:
          covered[s] = IF s = {} THEN 0
                       ELSE LET x == CHOOSE x \in s: TRUE
                            IN  x.amount + covered[s \ {x}]
    BY <2>2, <2>3
  <2>. QED
    BY <2>4, <2>5 DEF Recurs
<1>2. SumOfAmounts(S) = covered[S]
  BY <1>1, SlicesAreFinite, SumIsRecursion
<1>. QED
  BY <1>2

(* So it is a number, ...                                                  *)
LEMMA SumOfSlicesTyped ==
  ASSUME NEW S, NEW base, NEW limit \in Nat, AreSlices(S, base, limit)
  PROVE  SumOfAmounts(S) \in Nat
BY SumCountsPaise, CoveredFacts

(* ... and disjoint slices below a limit add up to at most the limit: what *)
(* the invariants about the slices of a charge (atomic_spend) say about    *)
(* sums of money.                                                          *)
THEOREM SlicesFitTheLimit ==
  ASSUME NEW S, NEW base, NEW limit \in Nat, AreSlices(S, base, limit)
  PROVE  SumOfAmounts(S) <= limit
BY SumCountsPaise, CoveredFacts
=============================================================================
