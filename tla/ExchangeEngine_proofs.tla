----------------------- MODULE ExchangeEngine_proofs -----------------------
(***************************************************************************)
(* Proofs about the matching engine, for any accounts, prices, quantities  *)
(* and number of orders: numbers and sums; netting; accounts and levels;   *)
(* the matching loop; orders, sweeps, cancellations and funding, each      *)
(* against the inductive invariant; what follows from it; and the book as  *)
(* its users see it: the engine implements PriceTimeBook, and nothing in   *)
(* its own book crosses.                                                   *)
(***************************************************************************)
EXTENDS EngineBook, FiniteSetTheorems, SequenceTheorems, WellFoundedInduction, TLAPS

-----------------------------------------------------------------------------
(* Numbers and sums.                                                       *)

LEMMA LeastNumber ==
  ASSUME NEW T \in SUBSET Nat, T # {}
  PROVE  \E n \in T : \A m \in T : n <= m
<1> DEFINE R == OpToRel(<, Nat)
<1>1. IsWellFoundedOn(R, Nat)
  BY NatLessThanWellFounded
<1>2. \A x, y \in Nat : <<x, y>> \in R <=> x < y
  BY DEF OpToRel
<1> HIDE DEF R
<1>3. PICK n \in T : \A y \in T : ~ (<<y, n>> \in R)
  BY <1>1, WFMin
<1>4. \A y \in T : ~(y < n)
  BY <1>2, <1>3
<1> QED BY <1>4

\* Induction on the natural numbers, for a property that a set collects.
LEMMA SetInduction ==
  ASSUME NEW T \in SUBSET Nat, 0 \in T, \A n \in T : n + 1 \in T
  PROVE  T = Nat
<1> SUFFICES ASSUME T # Nat PROVE FALSE
  OBVIOUS
<1>1. PICK n \in Nat \ T : \A m \in Nat \ T : n <= m
  <2>1. Nat \ T \in SUBSET Nat /\ Nat \ T # {}
    OBVIOUS
  <2> QED BY <2>1, LeastNumber
<1>2. n - 1 \in Nat /\ n - 1 \notin Nat \ T
  BY <1>1
<1> QED BY <1>2

Pick(S) == CHOOSE x \in S : TRUE

\* g sums f up over every subset of S, taking its elements as the fold takes them.
Adds(g, f, S) == g = [s \in SUBSET S |-> IF s = {} THEN 0 ELSE f[Pick(s)] + g[s \ {Pick(s)}]]

LEMMA PickIn == ASSUME NEW S, S # {} PROVE Pick(S) \in S
BY DEF Pick

UpTo(S, n) == {s \in SUBSET S : Cardinality(s) <= n}
AddsUpTo(g, f, S, n) ==
  g = [s \in UpTo(S, n) |-> IF s = {} THEN 0 ELSE f[Pick(s)] + g[s \ {Pick(s)}]]

LEMMA AddsExists ==
  ASSUME NEW S, IsFiniteSet(S), NEW f
  PROVE  \E g : Adds(g, f, S)
<1> DEFINE P(n) == \E g : AddsUpTo(g, f, S, n)
           N == {n \in Nat : P(n)}
<1>1. P(0)
  <2>1. \A s \in UpTo(S, 0) : s = {}
    BY FS_EmptySet, FS_Subset, FS_CardinalityType DEF UpTo
  <2>2. AddsUpTo([s \in UpTo(S, 0) |-> 0], f, S, 0)
    BY <2>1 DEF AddsUpTo
  <2> QED BY <2>2
<1>2. ASSUME NEW n \in Nat, P(n) PROVE P(n+1)
  <2>1. PICK g : AddsUpTo(g, f, S, n)
    BY <1>2
  <2> DEFINE body(h, s) == IF s = {} THEN 0 ELSE f[Pick(s)] + h[s \ {Pick(s)}]
             h == [s \in UpTo(S, n + 1) |-> body(g, s)]
  <2>2. \A s \in UpTo(S, n) : g[s] = body(g, s)
    BY <2>1 DEF AddsUpTo
  <2>3. \A s \in UpTo(S, n) : s \in UpTo(S, n + 1)
    BY FS_Subset, FS_CardinalityType DEF UpTo
  <2>4. \A s \in UpTo(S, n) : h[s] = g[s]
    BY <2>2, <2>3
  <2>5. ASSUME NEW s \in UpTo(S, n + 1), s # {} PROVE s \ {Pick(s)} \in UpTo(S, n)
    <3>1. s \in SUBSET S /\ IsFiniteSet(s) /\ Cardinality(s) \in Nat /\ Cardinality(s) <= n + 1
      BY FS_Subset, FS_CardinalityType DEF UpTo
    <3>2. Cardinality(s \ {Pick(s)}) = Cardinality(s) - 1
      BY <3>1, <2>5, PickIn, FS_RemoveElement
    <3> QED BY <3>1, <3>2 DEF UpTo
  <2>6. \A s \in UpTo(S, n + 1) : body(g, s) = body(h, s)
    BY <2>4, <2>5
  <2>7. h = [s \in UpTo(S, n + 1) |-> body(h, s)]
    BY <2>6
  <2>8. AddsUpTo(h, f, S, n + 1)
    BY <2>7 DEF AddsUpTo
  <2> QED BY <2>8
<1>3. N = Nat
  <2>1. N \in SUBSET Nat /\ 0 \in N
    BY <1>1
  <2>2. ASSUME NEW n \in N PROVE n + 1 \in N
    BY <1>2
  <2> HIDE DEF N
  <2> QED BY <2>1, <2>2, SetInduction
<1>4. UpTo(S, Cardinality(S)) = SUBSET S
  BY FS_Subset DEF UpTo
<1>5. Cardinality(S) \in N
  BY <1>3, FS_CardinalityType
<1>6. PICK g : AddsUpTo(g, f, S, Cardinality(S))
  BY <1>5
<1> QED BY <1>4, <1>6 DEF Adds, AddsUpTo

\* Induction on the subsets of a finite set.
LEMMA SubsetInduction ==
  ASSUME NEW S, IsFiniteSet(S), NEW F \in SUBSET (SUBSET S),
         \A T \in SUBSET S : (\A x \in T : T \ {x} \in F) => T \in F
  PROVE  F = SUBSET S
<1> DEFINE N == {n \in Nat : \A T \in SUBSET S : Cardinality(T) = n => T \in F}
<1>0. \A T \in SUBSET S : IsFiniteSet(T) /\ Cardinality(T) \in Nat
  BY FS_Subset, FS_CardinalityType
<1>1. 0 \in N
  <2> SUFFICES ASSUME NEW T \in SUBSET S, Cardinality(T) = 0 PROVE T \in F
    OBVIOUS
  <2>1. T = {}
    BY <1>0, FS_EmptySet
  <2> QED BY <2>1
<1>2. ASSUME NEW n \in N PROVE n + 1 \in N
  <2> SUFFICES ASSUME NEW T \in SUBSET S, Cardinality(T) = n + 1 PROVE T \in F
    OBVIOUS
  <2>1. \A x \in T : Cardinality(T \ {x}) = Cardinality(T) - 1
    BY <1>0, FS_RemoveElement
  <2>2. \A x \in T : T \ {x} \in SUBSET S /\ Cardinality(T \ {x}) = n
    BY <2>1
  <2>3. \A x \in T : T \ {x} \in F
    BY <2>2
  <2> QED BY <2>3
<1>3. N = Nat
  <2>1. N \in SUBSET Nat
    OBVIOUS
  <2> HIDE DEF N
  <2> QED BY <1>1, <1>2, <2>1, SetInduction
<1>4. \A T \in SUBSET S : Cardinality(T) \in N
  BY <1>0, <1>3
<1> QED BY <1>4

\* What is summed over T depends on f's values on T alone.
LEMMA AddsAgree ==
  ASSUME NEW S, IsFiniteSet(S), NEW T \in SUBSET S, NEW f, NEW e, \A x \in T : f[x] = e[x],
         NEW g, NEW h, Adds(g, f, S), Adds(h, e, T)
  PROVE  \A s \in SUBSET T : g[s] = h[s]
<1> DEFINE F == {s \in SUBSET T : g[s] = h[s]}
<1>1. IsFiniteSet(T) /\ F \in SUBSET (SUBSET T)
  BY FS_Subset
<1>2. ASSUME NEW s \in SUBSET T, \A x \in s : s \ {x} \in F PROVE s \in F
  <2>1. CASE s = {}
    BY <2>1 DEF Adds
  <2>2. CASE s # {}
    <3>1. Pick(s) \in s
      BY <2>2, PickIn
    <3>2. g[s \ {Pick(s)}] = h[s \ {Pick(s)}]
      BY <1>2, <3>1
    <3>3. g[s] = f[Pick(s)] + g[s \ {Pick(s)}]
      BY <2>2 DEF Adds
    <3>4. h[s] = e[Pick(s)] + h[s \ {Pick(s)}]
      BY <2>2 DEF Adds
    <3> QED BY <3>1, <3>2, <3>3, <3>4
  <2> QED BY <2>1, <2>2
<1>3. F = SUBSET T
  <2> HIDE DEF F
  <2> QED BY <1>1, <1>2, SubsetInduction
<1> QED BY <1>3

\* The community modules' sum is what any such g says.
LEMMA SumIs ==
  ASSUME NEW S, IsFiniteSet(S), NEW f, NEW g, Adds(g, f, S)
  PROVE  SumFunctionOnSet(f, S) = g[S]
<1> DEFINE Q(h) == h = [s \in SUBSET S |-> IF s = {} THEN 0 ELSE f[Pick(s)] + h[s \ {Pick(s)}]]
           it == CHOOSE h : Q(h)
<1>1. SumFunctionOnSet(f, S) = it[S]
  BY DEF SumFunctionOnSet, FoldFunctionOnSet, MapThenFoldSet, Pick
<1>2. Q(g)
  BY DEF Adds
<1> HIDE DEF Q
<1>3. Q(it)
  BY <1>2
<1> HIDE DEF it
<1>4. Adds(it, f, S)
  BY <1>3 DEF Q, Adds
<1>5. \A s \in SUBSET S : it[s] = g[s]
  BY <1>4, AddsAgree
<1> QED BY <1>1, <1>5

LEMMA SumPick ==
  ASSUME NEW S, IsFiniteSet(S), NEW f
  PROVE  /\ SumFunctionOnSet(f, {}) = 0
         /\ S # {} => SumFunctionOnSet(f, S) = f[Pick(S)] + SumFunctionOnSet(f, S \ {Pick(S)})
<1>1. IsFiniteSet({}) /\ {} \in SUBSET S
  BY FS_EmptySet
<1>2. PICK g : Adds(g, f, S)
  BY AddsExists
<1>3. PICK z : Adds(z, f, {})
  BY <1>1, AddsExists
<1>4. SumFunctionOnSet(f, {}) = 0
  <2>1. z[{}] = 0
    BY <1>3 DEF Adds
  <2> QED BY <1>1, <1>3, <2>1, SumIs
<1>5. ASSUME S # {} PROVE SumFunctionOnSet(f, S) = f[Pick(S)] + SumFunctionOnSet(f, S \ {Pick(S)})
  <2> DEFINE R == S \ {Pick(S)}
  <2>1. IsFiniteSet(R) /\ R \in SUBSET S
    BY FS_Subset
  <2>2. PICK h : Adds(h, f, R)
    BY <2>1, AddsExists
  <2>3. g[R] = h[R]
    BY <2>1, <2>2, <1>2, AddsAgree
  <2>4. g[S] = f[Pick(S)] + g[R]
    BY <1>2, <1>5 DEF Adds
  <2>5. SumFunctionOnSet(f, S) = g[S] /\ SumFunctionOnSet(f, R) = h[R]
    BY <1>2, <2>1, <2>2, SumIs
  <2> QED BY <2>3, <2>4, <2>5
<1> QED BY <1>4, <1>5

LEMMA SumSame ==
  ASSUME NEW S, IsFiniteSet(S), NEW f, NEW e, \A x \in S : f[x] = e[x]
  PROVE  SumFunctionOnSet(f, S) = SumFunctionOnSet(e, S)
<1>1. PICK g : Adds(g, f, S)
  BY AddsExists
<1>2. PICK h : Adds(h, e, S)
  BY AddsExists
<1>3. \A s \in SUBSET S : g[s] = h[s]
  BY <1>1, <1>2, AddsAgree
<1> QED BY <1>1, <1>2, <1>3, SumIs

LEMMA SumType ==
  ASSUME NEW S, IsFiniteSet(S), NEW f, \A x \in S : f[x] \in Int
  PROVE  SumFunctionOnSet(f, S) \in Int
<1> DEFINE F == {T \in SUBSET S : SumFunctionOnSet(f, T) \in Int}
<1>1. ASSUME NEW T \in SUBSET S, \A x \in T : T \ {x} \in F PROVE T \in F
  <2>1. IsFiniteSet(T)
    BY FS_Subset
  <2>2. CASE T = {}
    BY <2>1, <2>2, SumPick
  <2>3. CASE T # {}
    <3>1. Pick(T) \in T
      BY <2>3, PickIn
    <3>2. SumFunctionOnSet(f, T \ {Pick(T)}) \in Int /\ f[Pick(T)] \in Int
      BY <1>1, <3>1
    <3>3. SumFunctionOnSet(f, T) = f[Pick(T)] + SumFunctionOnSet(f, T \ {Pick(T)})
      BY <2>1, <2>3, SumPick
    <3> QED BY <3>2, <3>3
  <2> QED BY <2>2, <2>3
<1>2. F \in SUBSET (SUBSET S)
  OBVIOUS
<1>3. F = SUBSET S
  <2> HIDE DEF F
  <2> QED BY <1>1, <1>2, SubsetInduction
<1> QED BY <1>3

\* Whichever element is taken out, the sum is the element and the rest.
LEMMA SumRemove ==
  ASSUME NEW S, IsFiniteSet(S), NEW f, \A x \in S : f[x] \in Int
  PROVE  \A x \in S : SumFunctionOnSet(f, S) = f[x] + SumFunctionOnSet(f, S \ {x})
<1> DEFINE Sum(T) == SumFunctionOnSet(f, T)
           F == {T \in SUBSET S : \A x \in T : Sum(T) = f[x] + Sum(T \ {x})}
<1>0. \A T \in SUBSET S : IsFiniteSet(T) /\ Sum(T) \in Int
  <2>1. \A T \in SUBSET S : IsFiniteSet(T)
    BY FS_Subset
  <2> QED BY <2>1, SumType
<1>1. ASSUME NEW T \in SUBSET S, \A x \in T : T \ {x} \in F PROVE T \in F
  <2> SUFFICES ASSUME NEW x \in T PROVE Sum(T) = f[x] + Sum(T \ {x})
    OBVIOUS
  <2> DEFINE p == Pick(T)
             r == Sum((T \ {x}) \ {p})
  <2>1. p \in T
    BY PickIn
  <2>2. Sum(T) = f[p] + Sum(T \ {p})
    BY <1>0, SumPick
  <2> HIDE DEF Sum, p
  <2>3. CASE x # p
    <3>1. (T \ {x}) \ {p} = (T \ {p}) \ {x}
      OBVIOUS
    <3>2. Sum(T \ {x}) = f[p] + r
      BY <1>1, <2>1, <2>3
    <3>3. Sum(T \ {p}) = f[x] + r
      BY <1>1, <2>1, <2>3, <3>1
    <3>4. r \in Int /\ f[x] \in Int /\ f[p] \in Int
      BY <1>0, <2>1
    <3> QED BY <2>2, <3>2, <3>3, <3>4
  <2> QED BY <2>2, <2>3
<1>2. F \in SUBSET (SUBSET S)
  OBVIOUS
<1>3. F = SUBSET S
  <2> HIDE DEF F
  <2> QED BY <1>1, <1>2, SubsetInduction
<1> QED BY <1>3

\* One element more.
LEMMA SumAdd ==
  ASSUME NEW S, IsFiniteSet(S), NEW f, NEW x, x \notin S, \A y \in S \cup {x} : f[y] \in Int
  PROVE  SumFunctionOnSet(f, S \cup {x}) = f[x] + SumFunctionOnSet(f, S)
<1>1. IsFiniteSet(S \cup {x})
  BY FS_AddElement
<1>2. (S \cup {x}) \ {x} = S
  OBVIOUS
<1>3. SumFunctionOnSet(f, S \cup {x}) = f[x] + SumFunctionOnSet(f, (S \cup {x}) \ {x})
  BY <1>1, SumRemove
<1> QED BY <1>2, <1>3

\* Sums are linear.
LEMMA SumLinear ==
  ASSUME NEW S, IsFiniteSet(S), NEW f, NEW g, NEW h, NEW c \in Int,
         \A x \in S : f[x] \in Int /\ g[x] \in Int /\ h[x] = f[x] + c * g[x]
  PROVE  SumFunctionOnSet(h, S) = SumFunctionOnSet(f, S) + c * SumFunctionOnSet(g, S)
<1> DEFINE Sum(k, T) == SumFunctionOnSet(k, T)
           F == {T \in SUBSET S : Sum(h, T) = Sum(f, T) + c * Sum(g, T)}
<1>0. \A T \in SUBSET S : IsFiniteSet(T) /\ Sum(f, T) \in Int /\ Sum(g, T) \in Int
  <2>1. \A T \in SUBSET S : IsFiniteSet(T)
    BY FS_Subset
  <2> QED BY <2>1, SumType
<1>1. ASSUME NEW T \in SUBSET S, \A x \in T : T \ {x} \in F PROVE T \in F
  <2>1. CASE T = {}
    <3>1. Sum(h, T) = 0 /\ Sum(f, T) = 0 /\ Sum(g, T) = 0
      BY <1>0, <2>1, SumPick
    <3> QED BY <3>1
  <2>2. CASE T # {}
    <3> DEFINE p == Pick(T)
               R == T \ {p}
    <3>1. p \in T /\ R \in SUBSET S
      BY <2>2, PickIn
    <3>2. /\ Sum(h, T) = h[p] + Sum(h, R)
          /\ Sum(f, T) = f[p] + Sum(f, R)
          /\ Sum(g, T) = g[p] + Sum(g, R)
      BY <1>0, <2>2, SumPick
    <3>3. Sum(h, R) = Sum(f, R) + c * Sum(g, R)
      BY <1>1, <3>1
    <3>4. Sum(f, R) \in Int /\ Sum(g, R) \in Int /\ f[p] \in Int /\ g[p] \in Int /\ h[p] = f[p] + c * g[p]
      BY <1>0, <3>1
    <3> HIDE DEF Sum, p, R
    <3> DEFINE a == f[p]  b == g[p]  d == Sum(f, R)  e == Sum(g, R)
    <3>5. c * (b + e) = c * b + c * e /\ c * b \in Int /\ c * e \in Int
      BY <3>4
    <3>6. Sum(h, T) = (a + c * b) + (d + c * e) /\ Sum(f, T) + c * Sum(g, T) = (a + d) + c * (b + e)
      BY <3>2, <3>3, <3>4
    <3>7. Sum(h, T) = Sum(f, T) + c * Sum(g, T)
      BY <3>4, <3>5, <3>6
    <3> QED BY <3>7
  <2> QED BY <2>1, <2>2
<1>2. F \in SUBSET (SUBSET S)
  OBVIOUS
<1>3. F = SUBSET S
  <2> HIDE DEF F
  <2> QED BY <1>1, <1>2, SubsetInduction
<1> QED BY <1>3

\* A sum of what is positive is.
LEMMA SumPositive ==
  ASSUME NEW S, IsFiniteSet(S), NEW f, \A x \in S : f[x] \in Nat \ {0}
  PROVE  SumFunctionOnSet(f, S) \in Nat /\ (SumFunctionOnSet(f, S) = 0 <=> S = {})
<1> DEFINE Sum(T) == SumFunctionOnSet(f, T)
           F == {T \in SUBSET S : Sum(T) \in Nat /\ (Sum(T) = 0 <=> T = {})}
<1>1. ASSUME NEW T \in SUBSET S, \A x \in T : T \ {x} \in F PROVE T \in F
  <2>1. IsFiniteSet(T)
    BY FS_Subset
  <2>2. CASE T = {}
    BY <2>1, <2>2, SumPick
  <2>3. CASE T # {}
    <3>1. Pick(T) \in T
      BY <2>3, PickIn
    <3>2. Sum(T \ {Pick(T)}) \in Nat /\ f[Pick(T)] \in Nat \ {0}
      BY <1>1, <3>1
    <3>3. Sum(T) = f[Pick(T)] + Sum(T \ {Pick(T)})
      BY <2>1, <2>3, SumPick
    <3> QED BY <2>3, <3>2, <3>3
  <2> QED BY <2>2, <2>3
<1>2. F \in SUBSET (SUBSET S)
  OBVIOUS
<1>3. F = SUBSET S
  <2> HIDE DEF F
  <2> QED BY <1>1, <1>2, SubsetInduction
<1> QED BY <1>3

-----------------------------------------------------------------------------
(* Arithmetic.                                                             *)

LEMMA Division ==
  ASSUME NEW a \in Int, NEW b \in Nat \ {0}
  PROVE  a \div b \in Int /\ b * (a \div b) <= a /\ a < b * (a \div b) + b
OBVIOUS

LEMMA DivisionNat ==
  ASSUME NEW a \in Nat, NEW b \in Nat \ {0}
  PROVE  a \div b \in Nat
OBVIOUS

LEMMA DivisionIs ==
  ASSUME NEW a \in Int, NEW b \in Nat \ {0}, NEW k \in Int, b * k <= a, a < b * k + b
  PROVE  a \div b = k
OBVIOUS

LEMMA NearestType ==
  ASSUME NEW num \in Int, NEW den \in Nat \ {0}
  PROVE  NearestQuotient(num, den) \in Int /\ (num >= 0 => NearestQuotient(num, den) \in Nat)
BY Division, DivisionNat DEF NearestQuotient

LEMMA NearestExact ==
  ASSUME NEW k \in Int, NEW den \in Nat \ {0}
  PROVE  NearestQuotient(den * k, den) = k
<1>1. CASE k >= 0
  <2>1. den * k >= 0 /\ den * k \in Int
    BY <1>1
  <2>2. (2 * (den * k) + den) \div (2 * den) = k
    <3> DEFINE a == 2 * (den * k) + den
    <3>1. a \in Int /\ 2 * den \in Nat \ {0}
      OBVIOUS
    <3>2. (2 * den) * k = 2 * (den * k)
      OBVIOUS
    <3> QED BY <3>1, <3>2, DivisionIs
  <2> QED BY <2>1, <2>2 DEF NearestQuotient
<1>2. CASE k < 0
  <2>1. den * k < 0 /\ den * k \in Int
    BY <1>2
  <2>2. (den - 2 * (den * k)) \div (2 * den) = -k
    <3> DEFINE a == den - 2 * (den * k)
    <3>1. a \in Int /\ 2 * den \in Nat \ {0} /\ -k \in Int
      OBVIOUS
    <3>2. (2 * den) * (-k) = -(2 * (den * k))
      OBVIOUS
    <3> QED BY <3>1, <3>2, DivisionIs
  <2> QED BY <2>1, <2>2 DEF NearestQuotient
<1> QED BY <1>1, <1>2

\* What is rounded off is half of the divisor at most.
LEMMA NearestError ==
  ASSUME NEW num \in Int, NEW den \in Nat \ {0}
  PROVE  /\ 2 * (den * NearestQuotient(num, den)) - 2 * num <= den
         /\ 2 * num - 2 * (den * NearestQuotient(num, den)) <= den
<1>1. 2 * den \in Nat \ {0} /\ 2 * num + den \in Int /\ den - 2 * num \in Int
  OBVIOUS
<1>2. CASE num >= 0
  <2>1. PICK k \in Int : k = (2 * num + den) \div (2 * den)
    BY <1>1, Division
  <2>2. (2 * den) * k <= 2 * num + den /\ 2 * num + den < (2 * den) * k + 2 * den
    BY <1>1, <2>1, Division
  <2>3. (2 * den) * k = 2 * (den * k) /\ den * k \in Int
    OBVIOUS
  <2>4. NearestQuotient(num, den) = k
    BY <1>2, <2>1 DEF NearestQuotient
  <2> QED BY <2>2, <2>3, <2>4
<1>3. CASE num < 0
  <2>1. PICK k \in Int : k = (den - 2 * num) \div (2 * den)
    BY <1>1, Division
  <2>2. (2 * den) * k <= den - 2 * num /\ den - 2 * num < (2 * den) * k + 2 * den
    BY <1>1, <2>1, Division
  <2>3. (2 * den) * k = 2 * (den * k) /\ den * k \in Int /\ den * (-k) = -(den * k)
    OBVIOUS
  <2>4. NearestQuotient(num, den) = -k
    BY <1>3, <2>1 DEF NearestQuotient
  <2> QED BY <2>2, <2>3, <2>4
<1> QED BY <1>2, <1>3

LEMMA QuotientType ==
  ASSUME NEW num \in Int, NEW den \in Nat \ {0}
  PROVE  RoundedQuotient(num, den) \in Int /\ (num >= 0 => RoundedQuotient(num, den) \in Nat)
<1>1. Cent \in Nat \ {0} /\ Cent * den \in Nat \ {0}
  BY CentAssumption
<1>2. PICK k \in Int : k = NearestQuotient(num, Cent * den) /\ (num >= 0 => k \in Nat)
  BY <1>1, NearestType
<1>3. Cent * k \in Int /\ (k \in Nat => Cent * k \in Nat)
  BY <1>1
<1> QED BY <1>2, <1>3 DEF RoundedQuotient

-----------------------------------------------------------------------------
(* What is true of a store.                                                *)

\* What an account holds: long positive, short negative.
Signed(type, qty) == IF type = LONG THEN qty ELSE -qty

Exposure(s, u) ==
  IF u \in DOMAIN s.positions THEN Signed(s.positions[u].type, s.positions[u].qty) ELSE 0

\* What all accounts hold together.
Balance(s) == SumFunction([u \in ToSet(s.users) |-> Exposure(s, u)])

\* s has the fields of a store.
Shaped(s) ==
  s = [orderbook |-> s.orderbook, lastTradedPrice |-> s.lastTradedPrice, indexPrice |-> s.indexPrice,
       users |-> s.users, collateral |-> s.collateral, positions |-> s.positions]

Positions == [type : PositionTypes, qty : Nat \ {0}, margin : Int, averagePrice : Int, liquidationPrice : Int]
Balances == [available : Int, locked : Int]

\* Every account has its balances, and one position at most.
AccountsOK(s) ==
  /\ s.users \in Seq(Users) /\ IsInjective(s.users)
  /\ s.collateral \in [ToSet(s.users) -> Balances]
  /\ DOMAIN s.positions \subseteq ToSet(s.users)
  /\ s.positions \in [DOMAIN s.positions -> Positions]
  /\ s.lastTradedPrice \in LimitPrices \cup {SeedPrice}
  /\ s.indexPrice \in SpotPrices \cup {SeedPrice}

\* Orders of the accounts us, older than the order n: MaxOrders of them at most.
Orders(us, n) ==
  [orderId : (1..(n - 1)) \cap (1..MaxOrders), userId : us, qty : Quantities \cap (Nat \ {0}),
   filledQty : Nat, margin : Nat]

\* A list of orders with something left, in the order they arrived in.
Listed(orders, us, n) ==
  /\ orders \in Seq(Orders(us, n))
  /\ \A i, j \in DOMAIN orders : i < j => orders[i].orderId < orders[j].orderId
  /\ \A i \in DOMAIN orders : orders[i].filledQty < orders[i].qty

\* (A name of its own: the provers meet <<>> only where it is expanded.)
Empty(orders) == orders = <<>>

\* What they have left together.
LeftOf(S) == SumFunction([o \in S |-> Remaining(o)])

Level(offered, orders) == [availableQty |-> offered, openOrders |-> orders]

LevelOK(level, us, n) ==
  /\ level = Level(level.availableQty, level.openOrders)
  /\ Listed(level.openOrders, us, n) /\ level.openOrders # <<>>
  /\ level.availableQty = LeftOf(ToSet(level.openOrders))

SideOK(side, us, n) ==
  /\ IsFiniteSet(DOMAIN side) /\ DOMAIN side \subseteq LimitPrices
  /\ side = [p \in DOMAIN side |-> side[p]]
  /\ \A p \in DOMAIN side : LevelOK(side[p], us, n)

BookOK(s, n) ==
  /\ s.orderbook = [t \in PositionTypes |-> s.orderbook[t]]
  /\ \A t \in PositionTypes : SideOK(s.orderbook[t], ToSet(s.users), n)

\* The orders that rest at a price, and all that rest.
At(side, p) == IF p \in DOMAIN side THEN ToSet(side[p].openOrders) ELSE {}
All(s) == UNION {UNION {At(s.orderbook[t], p) : p \in DOMAIN s.orderbook[t]} : t \in PositionTypes}

\* An order rests in one place.
RestsOnce(s) ==
  \A t1, t2 \in PositionTypes : \A p1 \in DOMAIN s.orderbook[t1] : \A p2 \in DOMAIN s.orderbook[t2] :
    \A o1 \in At(s.orderbook[t1], p1) : \A o2 \in At(s.orderbook[t2], p2) :
      o1.orderId = o2.orderId => t1 = t2 /\ p1 = p2 /\ o1 = o2

\* One level of a side changes: `gone` leaves it, `more` comes to it.
SideMoves(old, new, price, gone, more) ==
  \A p : At(new, p) = IF p = price THEN (At(old, price) \ gone) \cup more ELSE At(old, p)

StoreOK(s, n) == Shaped(s) /\ AccountsOK(s) /\ BookOK(s, n) /\ RestsOnce(s)

-----------------------------------------------------------------------------
(* Netting.                                                                *)

\* s has the fields of a store, and who is in it with a position holds something.
PositionsOK(s) ==
  /\ Shaped(s)
  /\ \A u \in DOMAIN s.positions :
       s.positions[u].type \in PositionTypes /\ s.positions[u].qty \in Nat \ {0}

\* A trade adds its signed quantity to what its account holds, whether it
\* opens, adds to, shrinks, closes or turns around the position (createPosition).
THEOREM CreatePositionAddsExposure ==
  ASSUME NEW s, PositionsOK(s), NEW u, NEW type \in PositionTypes, NEW qty \in Nat \ {0},
         NEW margin \in Int, NEW price \in Int
  PROVE  Exposure(CreatePosition(s, u, type, qty, margin, price), u) =
           Exposure(s, u) + Signed(type, qty)
<1> DEFINE t == CreatePosition(s, u, type, qty, margin, price)
           old == s.positions[u]
<1>1. CASE u \notin DOMAIN s.positions
  <2>1. t.positions = [v \in DOMAIN s.positions \cup {u} |->
                         IF v = u THEN Position(type, qty, margin, price, type) ELSE s.positions[v]]
    BY <1>1 DEF CreatePosition, PositionsOK, Shaped
  <2>2. u \in DOMAIN t.positions /\ t.positions[u] = Position(type, qty, margin, price, type)
    BY <1>1, <2>1
  <2>3. QED
    BY <1>1, <2>2 DEF Exposure, Position, Signed
<1>2. CASE u \in DOMAIN s.positions /\ old.type = type
  <2>1. t.positions = [s.positions EXCEPT ![u] = Increased(@, qty, margin, price)]
    BY <1>2 DEF CreatePosition, PositionsOK, Shaped
  <2>2. u \in DOMAIN t.positions /\ t.positions[u] = Increased(old, qty, margin, price)
    BY <1>2, <2>1
  <2>3. t.positions[u].type = type /\ t.positions[u].qty = old.qty + qty
    BY <1>2, <2>2 DEF Increased, Position
  <2>4. QED
    BY <1>2, <2>2, <2>3 DEF Exposure, Signed, PositionsOK
<1>3. CASE u \in DOMAIN s.positions /\ old.type # type
  <2> DEFINE rest == old.qty - qty
  <2>1. t = Netted(s, u, type, qty, margin, price)
    BY <1>3 DEF CreatePosition
  <2>2. old.type \in PositionTypes /\ old.qty \in Nat \ {0}
    BY <1>3 DEF PositionsOK
  <2>3. CASE rest = 0
    <3>1. u \notin DOMAIN t.positions
      BY <2>1, <2>3 DEF Netted, PositionsOK, Shaped
    <3>2. QED
      BY <1>3, <2>2, <2>3, <3>1 DEF Exposure, Signed, PositionTypes, LONG, SHORT
  <2>4. CASE rest # 0
    <3>1. /\ u \in DOMAIN t.positions
          /\ t.positions[u].type = IF rest < 0 THEN type ELSE old.type
          /\ t.positions[u].qty = Abs(rest)
      BY <1>3, <2>1, <2>4 DEF Netted, PositionsOK, Shaped, Position
    <3>2. QED
      BY <1>3, <2>2, <2>4, <3>1 DEF Exposure, Signed, Abs, PositionTypes, LONG, SHORT
  <2>5. QED
    BY <2>3, <2>4
<1>4. QED
  BY <1>1, <1>2, <1>3

\* A trade of one account leaves the positions and the collateral of the others,
\* the book and the prices as they are.
THEOREM CreatePositionIsLocal ==
  ASSUME NEW s, PositionsOK(s), NEW u, NEW type \in PositionTypes, NEW qty \in Nat \ {0},
         NEW margin \in Int, NEW price \in Int, NEW v, v # u
  PROVE  LET t == CreatePosition(s, u, type, qty, margin, price)
         IN  /\ v \in DOMAIN t.positions <=> v \in DOMAIN s.positions
             /\ v \in DOMAIN s.positions => t.positions[v] = s.positions[v]
             /\ t.collateral[v] = s.collateral[v] \/ v \notin DOMAIN s.collateral
             /\ t.orderbook = s.orderbook
             /\ t.lastTradedPrice = s.lastTradedPrice /\ t.indexPrice = s.indexPrice
<1> DEFINE t == CreatePosition(s, u, type, qty, margin, price)
           old == s.positions[u]
<1>1. CASE u \notin DOMAIN s.positions
  <2>1. t.positions = [w \in DOMAIN s.positions \cup {u} |->
                         IF w = u THEN Position(type, qty, margin, price, type) ELSE s.positions[w]]
    BY <1>1 DEF CreatePosition, PositionsOK, Shaped
  <2>2. /\ t.collateral = s.collateral /\ t.orderbook = s.orderbook
        /\ t.lastTradedPrice = s.lastTradedPrice /\ t.indexPrice = s.indexPrice
    BY <1>1 DEF CreatePosition, PositionsOK, Shaped
  <2>3. QED
    BY <2>1, <2>2
<1>2. CASE u \in DOMAIN s.positions /\ old.type = type
  <2>1. /\ t.positions = [s.positions EXCEPT ![u] = Increased(@, qty, margin, price)]
        /\ t.collateral = s.collateral /\ t.orderbook = s.orderbook
        /\ t.lastTradedPrice = s.lastTradedPrice /\ t.indexPrice = s.indexPrice
    BY <1>2 DEF CreatePosition, PositionsOK, Shaped
  <2>2. QED
    BY <2>1
<1>3. CASE u \in DOMAIN s.positions /\ old.type # type
  <2>1. t = Netted(s, u, type, qty, margin, price)
    BY <1>3 DEF CreatePosition
  <2>2. /\ v \in DOMAIN t.positions <=> v \in DOMAIN s.positions
        /\ v \in DOMAIN s.positions => t.positions[v] = s.positions[v]
    BY <2>1 DEF Netted, PositionsOK, Shaped
  <2>3. t.collateral[v] = s.collateral[v] \/ v \notin DOMAIN s.collateral
    BY <2>1 DEF Netted, PositionsOK, Shaped
  <2>4. /\ t.orderbook = s.orderbook
        /\ t.lastTradedPrice = s.lastTradedPrice /\ t.indexPrice = s.indexPrice
    BY <2>1 DEF Netted, PositionsOK, Shaped
  <2>5. QED
    BY <2>2, <2>3, <2>4
<1>4. QED
  BY <1>1, <1>2, <1>3

LEMMA PricesPositive ==
  /\ \A p \in LimitPrices \cup {SeedPrice} : p \in Nat \ {0}
  /\ \A p \in SpotPrices \cup {SeedPrice} : p \in Nat \ {0}
BY EngineAssumption

LEMMA PositionType ==
  ASSUME NEW type \in PositionTypes, NEW qty \in Nat \ {0}, NEW margin \in Int, NEW price \in Int,
         NEW side \in PositionTypes
  PROVE  Position(type, qty, margin, price, side) \in Positions
<1>1. 100 * qty \in Nat \ {0} /\ MaxLossPercent * margin \in Int /\ 100 * qty * price \in Int
  BY DEF MaxLossPercent
<1>2. LiquidationPrice(margin, qty, side, price) \in Int
  BY <1>1, QuotientType DEF LiquidationPrice
<1> QED BY <1>2 DEF Position, Positions

LEMMA AverageType ==
  ASSUME NEW q \in Nat \ {0}, NEW p \in Int, NEW r \in Nat, NEW o \in Int
  PROVE  WeightedAveragePrice(q, p, r, o) \in Int
<1>1. q + r \in Nat \ {0} /\ q * p + r * o \in Int
  OBVIOUS
<1> QED BY <1>1, QuotientType DEF WeightedAveragePrice

LEMMA MarginType ==
  ASSUME NEW m \in Int, NEW q \in Nat \ {0}, NEW r \in Nat
  PROVE  RelativeMargin(m, q, r) \in Int /\ (m \in Nat => RelativeMargin(m, q, r) \in Nat)
<1>1. m * r \in Int /\ (m \in Nat => m * r >= 0)
  OBVIOUS
<1> QED BY <1>1, QuotientType DEF RelativeMargin

\* A margin that is rounded and not divided changes by half a hundredth at most.
LEMMA MarginWhole ==
  ASSUME NEW m \in Int, NEW q \in Nat \ {0}
  PROVE  2 * Abs(RelativeMargin(m, q, q) - m) <= Cent
<1>1. Cent \in Nat \ {0} /\ Cent * q \in Nat \ {0} /\ m * q \in Int
  BY CentAssumption
<1>2. PICK k \in Int : k = NearestQuotient(m * q, Cent * q)
  BY <1>1, NearestType
<1>3. RelativeMargin(m, q, q) = Cent * k
  BY <1>2 DEF RelativeMargin, RoundedQuotient
<1>4. /\ 2 * ((Cent * q) * k) - 2 * (m * q) <= Cent * q
      /\ 2 * (m * q) - 2 * ((Cent * q) * k) <= Cent * q
  BY <1>1, <1>2, NearestError
<1> DEFINE x == 2 * (Cent * k - m)
<1>5. x \in Int /\ Cent * k \in Int
  BY <1>1
<1>6. q * x = 2 * ((Cent * q) * k) - 2 * (m * q) /\ q * (-x) = 2 * (m * q) - 2 * ((Cent * q) * k)
  BY <1>1
<1> HIDE DEF x
<1>7. x <= Cent /\ -x <= Cent
  <2>1. ASSUME NEW y \in Int, q * y <= Cent * q PROVE y <= Cent
    <3> SUFFICES ASSUME y >= Cent + 1 PROVE FALSE
      BY <1>1
    <3>1. q * (y - Cent) >= q
      BY <1>1
    <3>2. q * (y - Cent) = q * y - Cent * q
      BY <1>1
    <3>3. q * y \in Int /\ Cent * q \in Int
      BY <1>1
    <3> QED BY <2>1, <3>1, <3>2, <3>3
  <2> QED BY <1>4, <1>5, <1>6, <2>1
<1> QED BY <1>1, <1>3, <1>5, <1>7 DEF Abs, x

\* Accounts stay accounts, and the book is none of netting's business.
LEMMA CreatePositionKeepsAccounts ==
  ASSUME NEW s, Shaped(s), AccountsOK(s), NEW u \in ToSet(s.users), NEW type \in PositionTypes,
         NEW qty \in Nat \ {0}, NEW margin \in Int, NEW price \in Int
  PROVE  LET t == CreatePosition(s, u, type, qty, margin, price)
         IN  /\ Shaped(t) /\ AccountsOK(t)
             /\ t.orderbook = s.orderbook /\ t.users = s.users
             /\ t.lastTradedPrice = s.lastTradedPrice /\ t.indexPrice = s.indexPrice
<1> DEFINE t == CreatePosition(s, u, type, qty, margin, price)
           old == s.positions[u]
<1> SUFFICES /\ Shaped(t) /\ AccountsOK(t)
             /\ t.orderbook = s.orderbook /\ t.users = s.users
             /\ t.lastTradedPrice = s.lastTradedPrice /\ t.indexPrice = s.indexPrice
  OBVIOUS
<1>0. /\ s.positions \in [DOMAIN s.positions -> Positions] /\ DOMAIN s.positions \subseteq ToSet(s.users)
      /\ s.collateral \in [ToSet(s.users) -> Balances]
  BY DEF AccountsOK
<1>1. ASSUME NEW collateral \in [ToSet(s.users) -> Balances], NEW D \in SUBSET ToSet(s.users),
             NEW positions \in [D -> Positions],
             t = [s EXCEPT !.collateral = collateral, !.positions = positions]
      PROVE  /\ Shaped(t) /\ AccountsOK(t)
             /\ t.orderbook = s.orderbook /\ t.users = s.users
             /\ t.lastTradedPrice = s.lastTradedPrice /\ t.indexPrice = s.indexPrice
  <2> HIDE DEF t
  <2>1. /\ t.orderbook = s.orderbook /\ t.users = s.users
        /\ t.lastTradedPrice = s.lastTradedPrice /\ t.indexPrice = s.indexPrice
        /\ t.collateral = collateral /\ t.positions = positions /\ Shaped(t)
    BY <1>1 DEF Shaped
  <2> QED BY <2>1 DEF AccountsOK
<1>2. CASE u \notin DOMAIN s.positions
  <2> DEFINE D == DOMAIN s.positions \cup {u}
             positions == [v \in D |-> IF v = u THEN Position(type, qty, margin, price, type) ELSE s.positions[v]]
  <2>1. positions \in [D -> Positions] /\ D \in SUBSET ToSet(s.users)
    BY <1>0, PositionType
  <2>2. t = [s EXCEPT !.positions = positions]
    BY <1>2 DEF CreatePosition, Shaped
  <2>3. t = [s EXCEPT !.collateral = s.collateral, !.positions = positions]
    BY <2>2 DEF Shaped
  <2> HIDE DEF t, D, positions
  <2> QED BY <1>0, <1>1, <2>1, <2>3
<1>3. CASE u \in DOMAIN s.positions /\ old.type = type
  <2> DEFINE positions == [s.positions EXCEPT ![u] = Increased(old, qty, margin, price)]
  <2>1. Increased(old, qty, margin, price) \in Positions
    <3>1. old \in Positions
      BY <1>0, <1>3
    <3>2. old.qty + qty \in Nat \ {0} /\ old.margin + margin \in Int /\ old.averagePrice \in Int
          /\ old.qty \in Nat \ {0}
      BY <3>1 DEF Positions
    <3>3. WeightedAveragePrice(old.qty, old.averagePrice, old.qty + qty, price) \in Int
      BY <3>2, AverageType
    <3> QED BY <1>3, <3>2, <3>3, PositionType DEF Increased
  <2>2. positions \in [DOMAIN s.positions -> Positions]
    BY <1>0, <2>1
  <2>3. t = [s EXCEPT !.positions = positions]
    BY <1>3 DEF CreatePosition, Shaped
  <2>4. t = [s EXCEPT !.collateral = s.collateral, !.positions = positions]
    BY <2>3 DEF Shaped
  <2> HIDE DEF t, positions
  <2> QED BY <1>0, <1>1, <2>2, <2>4
<1>4. CASE u \in DOMAIN s.positions /\ old.type # type
  <2> DEFINE rest == old.qty - qty
             left == Abs(rest)
             average == WeightedAveragePrice(old.qty, old.averagePrice, left, price)
             move == s.lastTradedPrice - average
             pnl == IF old.type = LONG THEN move * qty ELSE -(move * qty)
             needed == CASE rest = 0 -> old.margin
                         [] rest > 0 -> RelativeMargin(old.margin, old.qty, left)
                         [] rest < 0 -> RelativeMargin(margin, qty, left)
             netType == IF rest < 0 THEN type ELSE old.type
             c == s.collateral[u]
             collateral == [s.collateral EXCEPT ![u] = [available |-> c.available + pnl + needed,
                                                        locked    |-> c.locked - needed]]
  <2>1. old \in Positions
    BY <1>0, <1>4
  <2>2. /\ old.type \in PositionTypes /\ old.qty \in Nat \ {0} /\ old.margin \in Int /\ old.averagePrice \in Int
        /\ rest \in Int /\ left \in Nat /\ (rest # 0 => left \in Nat \ {0})
    BY <2>1 DEF Positions, Abs
  <2>3. average \in Int
    BY <2>2, AverageType
  <2>4. needed \in Int
    BY <2>2, MarginType
  <2>5. move \in Int /\ pnl \in Int
    <3>1. s.lastTradedPrice \in Int
      BY PricesPositive DEF AccountsOK
    <3>2. move \in Int
      BY <2>3, <3>1
    <3> QED BY <3>2
  <2>6. collateral \in [ToSet(s.users) -> Balances]
    <3>1. c \in Balances
      BY <1>0
    <3>2. c.available + pnl + needed \in Int /\ c.locked - needed \in Int
      <4>1. c.available \in Int /\ c.locked \in Int
        BY <3>1 DEF Balances
      <4> HIDE DEF pnl, needed, c
      <4> QED BY <2>4, <2>5, <4>1
    <3> QED BY <1>0, <3>2 DEF Balances
  <2>7. t = Netted(s, u, type, qty, margin, price)
    BY <1>4 DEF CreatePosition
  <2>8. CASE rest = 0
    <3> DEFINE D == DOMAIN s.positions \ {u}
               positions == [v \in D |-> s.positions[v]]
    <3>1. positions \in [D -> Positions] /\ D \in SUBSET ToSet(s.users)
      BY <1>0
    <3>2. t = [s EXCEPT !.collateral = collateral, !.positions = positions]
      BY <2>7, <2>8 DEF Netted, Shaped
    <3> HIDE DEF t, D, positions, collateral
    <3> QED BY <1>1, <2>6, <3>1, <3>2
  <2>9. CASE rest # 0
    <3> DEFINE p == Position(netType, left, needed, average, type)
               positions == [s.positions EXCEPT ![u] = p]
    <3>1. p \in Positions
      BY <2>2, <2>3, <2>4, <2>9, PositionType
    <3>2. positions \in [DOMAIN s.positions -> Positions]
      BY <1>0, <3>1
    <3>3. t = [s EXCEPT !.collateral = collateral, !.positions = positions]
      BY <2>7, <2>9 DEF Netted, Shaped
    <3> HIDE DEF t, positions, collateral
    <3> QED BY <1>0, <1>1, <2>6, <3>2, <3>3
  <2> QED BY <2>8, <2>9
<1> QED BY <1>2, <1>3, <1>4

-----------------------------------------------------------------------------
(* The book.                                                               *)

LEMMA LeftOfAdd ==
  ASSUME NEW S, IsFiniteSet(S), NEW x, x \notin S, \A o \in S \cup {x} : Remaining(o) \in Int
  PROVE  LeftOf(S) \in Int /\ LeftOf(S \cup {x}) = LeftOf(S) + Remaining(x)
<1> DEFINE f == [o \in S |-> Remaining(o)]
           g == [o \in S \cup {x} |-> Remaining(o)]
<1>1. LeftOf(S) = SumFunctionOnSet(f, S) /\ LeftOf(S \cup {x}) = SumFunctionOnSet(g, S \cup {x})
  BY DEF LeftOf, SumFunction
<1>2. SumFunctionOnSet(g, S) = SumFunctionOnSet(f, S)
  <2>1. \A o \in S : g[o] = f[o]
    OBVIOUS
  <2> HIDE DEF f, g
  <2> QED BY <2>1, SumSame
<1>3. /\ \A o \in S : f[o] \in Int
      /\ \A o \in S \cup {x} : g[o] \in Int
      /\ g[x] = Remaining(x)
  OBVIOUS
<1> HIDE DEF f, g
<1>4. SumFunctionOnSet(f, S) \in Int
  BY <1>3, SumType
<1>5. SumFunctionOnSet(g, S \cup {x}) = g[x] + SumFunctionOnSet(g, S)
  BY <1>3, SumAdd
<1> QED BY <1>1, <1>2, <1>3, <1>4, <1>5

LEMMA LeftOfPositive ==
  ASSUME NEW S, IsFiniteSet(S), \A o \in S : Remaining(o) \in Nat \ {0}
  PROVE  LeftOf(S) \in Nat /\ (LeftOf(S) = 0 <=> S = {})
<1> DEFINE f == [o \in S |-> Remaining(o)]
<1>1. LeftOf(S) = SumFunctionOnSet(f, S)
  BY DEF LeftOf, SumFunction
<1>2. \A o \in S : f[o] \in Nat \ {0}
  OBVIOUS
<1> HIDE DEF f
<1> QED BY <1>1, <1>2, SumPositive

LEMMA ListFacts ==
  ASSUME NEW us, NEW n \in Nat, NEW orders, Listed(orders, us, n)
  PROVE  /\ IsFiniteSet(ToSet(orders))
         /\ \A o \in ToSet(orders) : o \in Orders(us, n) /\ Remaining(o) \in Nat \ {0}
         /\ Len(orders) \in Nat /\ DOMAIN orders = 1..Len(orders)
<1>1. Len(orders) \in Nat /\ DOMAIN orders = 1..Len(orders)
  BY DEF Listed
<1>2. IsFiniteSet(ToSet(orders))
  <2>1. IsFiniteSet(DOMAIN orders)
    BY <1>1, FS_Interval
  <2> DEFINE R == {orders[i] : i \in DOMAIN orders}
  <2>2. IsFiniteSet(R)
    <3>1. orders \in Surjection(DOMAIN orders, R)
      BY <1>1 DEF Surjection, Listed
    <3> QED BY <2>1, <3>1, FS_Surjection
  <2> QED BY <2>2 DEF ToSet
<1>3. \A o \in ToSet(orders) : o \in Orders(us, n) /\ Remaining(o) \in Nat \ {0}
  <2> SUFFICES ASSUME NEW i \in DOMAIN orders
               PROVE  orders[i] \in Orders(us, n) /\ Remaining(orders[i]) \in Nat \ {0}
    BY DEF ToSet
  <2>1. orders[i] \in Orders(us, n) /\ orders[i].filledQty < orders[i].qty
    BY DEF Listed
  <2>2. orders[i].filledQty \in Nat /\ orders[i].qty \in Nat
    BY <2>1 DEF Orders
  <2> QED BY <2>1, <2>2 DEF Remaining
<1> QED BY <1>1, <1>2, <1>3

LEMMA ListOnce ==
  ASSUME NEW us, NEW n \in Nat, NEW orders, Listed(orders, us, n)
  PROVE  \A i, j \in DOMAIN orders : orders[i].orderId = orders[j].orderId => i = j
<1>1. DOMAIN orders \in SUBSET Nat /\ \A i \in DOMAIN orders : orders[i].orderId \in Nat
  <2>1. \A i \in DOMAIN orders : orders[i] \in Orders(us, n)
    BY DEF Listed
  <2>2. DOMAIN orders = 1..Len(orders)
    BY ListFacts
  <2> QED BY <2>1, <2>2 DEF Orders
<1>2. \A i, j \in DOMAIN orders : i < j => orders[i].orderId < orders[j].orderId
  BY DEF Listed
<1> QED BY <1>1, <1>2

LEMMA ListEmpty ==
  ASSUME NEW us, NEW n \in Nat, NEW orders, Listed(orders, us, n), ~Empty(orders)
  PROVE  ToSet(orders) # {}
<1>1. 1 \in DOMAIN orders
  BY DEF Listed, Empty
<1> QED BY <1>1 DEF ToSet

\* An order is taken out of a list.
LEMMA ListRemove ==
  ASSUME NEW us, NEW n \in Nat, NEW orders, Listed(orders, us, n), NEW i \in DOMAIN orders
  PROVE  /\ Listed(RemoveAt(orders, i), us, n)
         /\ ToSet(RemoveAt(orders, i)) = ToSet(orders) \ {orders[i]}
         /\ LeftOf(ToSet(RemoveAt(orders, i))) = LeftOf(ToSet(orders)) - Remaining(orders[i])
<1> DEFINE rest == RemoveAt(orders, i)
           at(j) == IF j < i THEN j ELSE j + 1
<1>1. orders \in Seq(Orders(us, n)) /\ i \in 1..Len(orders) /\ Len(orders) \in Nat
  BY DEF Listed
<1>2. /\ rest \in Seq(Orders(us, n)) /\ Len(rest) = Len(orders) - 1
      /\ \A j \in 1..(Len(orders) - 1) : rest[j] = orders[at(j)]
  <2> DEFINE a == SubSeq(orders, 1, i - 1)
             b == SubSeq(orders, i + 1, Len(orders))
  <2>1. a \in Seq(Orders(us, n)) /\ Len(a) = i - 1 /\ \A j \in 1..(i - 1) : a[j] = orders[j]
    BY <1>1
  <2>2. b \in Seq(Orders(us, n)) /\ Len(b) = Len(orders) - i
        /\ \A j \in 1..(Len(orders) - i) : b[j] = orders[i + j]
    BY <1>1
  <2>3. rest = a \o b
    BY DEF RemoveAt
  <2> HIDE DEF a, b, rest
  <2>4. rest \in Seq(Orders(us, n)) /\ Len(rest) = Len(orders) - 1
    BY <1>1, <2>1, <2>2, <2>3
  <2>5. \A j \in 1..(Len(orders) - 1) : rest[j] = IF j <= i - 1 THEN a[j] ELSE b[j - (i - 1)]
    <3>1. Len(a) + Len(b) = Len(orders) - 1
      BY <1>1, <2>1, <2>2
    <3>2. \A j \in 1..(Len(a) + Len(b)) : rest[j] = IF j <= Len(a) THEN a[j] ELSE b[j - Len(a)]
      BY <2>1, <2>2, <2>3, ConcatProperties
    <3> QED BY <2>1, <3>1, <3>2
  <2>6. ASSUME NEW j \in 1..(Len(orders) - 1) PROVE rest[j] = orders[at(j)]
    <3>1. CASE j < i
      BY <1>1, <2>1, <2>5, <3>1
    <3>2. CASE j >= i
      <4>1. j - (i - 1) \in 1..(Len(orders) - i) /\ i + (j - (i - 1)) = j + 1
        BY <1>1, <3>2
      <4> QED BY <1>1, <2>2, <2>5, <3>2, <4>1
    <3> QED BY <1>1, <3>1, <3>2
  <2> QED BY <2>4, <2>6
<1>3. DOMAIN rest = 1..(Len(orders) - 1) /\ DOMAIN orders = 1..Len(orders)
  BY <1>1, <1>2
<1> HIDE DEF rest
<1>4. \A j \in DOMAIN rest : at(j) \in DOMAIN orders /\ at(j) # i /\ rest[j] = orders[at(j)]
  BY <1>1, <1>2, <1>3
<1>5. \A j, k \in DOMAIN rest : j < k => at(j) < at(k)
  BY <1>1, <1>3
<1>6. Listed(rest, us, n)
  <2>1. ASSUME NEW j \in DOMAIN rest, NEW k \in DOMAIN rest, j < k PROVE rest[j].orderId < rest[k].orderId
    <3>1. at(j) < at(k) /\ at(j) \in DOMAIN orders /\ at(k) \in DOMAIN orders
      BY <1>4, <1>5, <2>1
    <3>2. rest[j] = orders[at(j)] /\ rest[k] = orders[at(k)]
      BY <1>4
    <3> HIDE DEF at
    <3> QED BY <3>1, <3>2 DEF Listed
  <2>2. \A j \in DOMAIN rest : rest[j].filledQty < rest[j].qty
    BY <1>4 DEF Listed
  <2> QED BY <1>2, <2>1, <2>2 DEF Listed
<1>7. ToSet(rest) = ToSet(orders) \ {orders[i]}
  <2>1. ASSUME NEW j \in DOMAIN orders, j # i PROVE orders[j] \in ToSet(rest)
    <3> DEFINE k == IF j < i THEN j ELSE j - 1
    <3>1. k \in DOMAIN rest /\ at(k) = j
      BY <1>1, <1>3, <2>1
    <3> QED BY <1>4, <3>1 DEF ToSet
  <2>2. \A j \in DOMAIN rest : rest[j] # orders[i]
    BY <1>4, ListOnce
  <2>3. \A j \in DOMAIN rest : rest[j] \in ToSet(orders)
    BY <1>4 DEF ToSet
  <2> QED BY <2>1, <2>2, <2>3 DEF ToSet
<1>8. LeftOf(ToSet(rest)) = LeftOf(ToSet(orders)) - Remaining(orders[i])
  <2> DEFINE S == ToSet(rest)  x == orders[i]
  <2>1. ToSet(orders) = S \cup {x} /\ x \notin S
    BY <1>7 DEF ToSet
  <2>2. IsFiniteSet(S) /\ \A o \in S \cup {x} : Remaining(o) \in Int
    BY <1>6, <2>1, ListFacts
  <2> HIDE DEF S, x
  <2>3. LeftOf(S) \in Int /\ LeftOf(S \cup {x}) = LeftOf(S) + Remaining(x) /\ Remaining(x) \in Int
    BY <2>1, <2>2, LeftOfAdd
  <2> QED BY <2>1, <2>3 DEF S, x
<1> QED BY <1>6, <1>7, <1>8 DEF rest

\* The first order of a list goes.
LEMMA ListTail ==
  ASSUME NEW us, NEW n \in Nat, NEW orders, Listed(orders, us, n), ~Empty(orders)
  PROVE  /\ 1 \in DOMAIN orders /\ Head(orders) = orders[1] /\ Head(orders) \in ToSet(orders)
         /\ Tail(orders) = RemoveAt(orders, 1)
         /\ Listed(Tail(orders), us, n) /\ ToSet(Tail(orders)) = ToSet(orders) \ {Head(orders)}
         /\ LeftOf(ToSet(Tail(orders))) = LeftOf(ToSet(orders)) - Remaining(Head(orders))
<1>1. orders \in Seq(Orders(us, n)) /\ Len(orders) \in Nat \ {0} /\ DOMAIN orders = 1..Len(orders)
  BY ListFacts, EmptySeq DEF Listed, Empty
<1>2. 1 \in DOMAIN orders /\ Head(orders) = orders[1] /\ Head(orders) \in ToSet(orders)
  BY <1>1 DEF ToSet
<1>3. Tail(orders) = RemoveAt(orders, 1)
  <2>1. Tail(orders) = SubSeq(orders, 2, Len(orders))
    BY <1>1, TailIsSubSeq
  <2>2. SubSeq(orders, 1, 0) = <<>> /\ SubSeq(orders, 2, Len(orders)) \in Seq(Orders(us, n))
    BY <1>1, SubSeqEmpty
  <2>3. <<>> \o SubSeq(orders, 2, Len(orders)) = SubSeq(orders, 2, Len(orders))
    BY <2>2, ConcatEmptySeq
  <2>4. 1 - 1 = 0 /\ 1 + 1 = 2
    OBVIOUS
  <2> QED BY <2>1, <2>2, <2>3, <2>4 DEF RemoveAt
<1>4. /\ Listed(RemoveAt(orders, 1), us, n) /\ ToSet(RemoveAt(orders, 1)) = ToSet(orders) \ {orders[1]}
      /\ LeftOf(ToSet(RemoveAt(orders, 1))) = LeftOf(ToSet(orders)) - Remaining(orders[1])
  BY <1>2, ListRemove
<1> QED BY <1>2, <1>3, <1>4

\* The first order of a list is replaced by what is left of it.
WithHead(x, orders) == <<x>> \o Tail(orders)

LEMMA ListHead ==
  ASSUME NEW us, NEW n \in Nat, NEW orders, Listed(orders, us, n), ~Empty(orders),
         NEW x \in Orders(us, n), x.orderId = Head(orders).orderId, x.filledQty < x.qty
  PROVE  /\ Listed(WithHead(x, orders), us, n) /\ ~Empty(WithHead(x, orders))
         /\ ToSet(WithHead(x, orders)) = (ToSet(orders) \ {Head(orders)}) \cup {x}
         /\ LeftOf(ToSet(WithHead(x, orders))) = LeftOf(ToSet(orders)) - Remaining(Head(orders)) + Remaining(x)
<1> DEFINE rest == Tail(orders)
           changed == <<x>> \o rest
<1>0. orders \in Seq(Orders(us, n)) /\ Len(orders) \in Nat \ {0} /\ DOMAIN orders = 1..Len(orders)
  BY ListFacts, EmptySeq DEF Listed, Empty
<1>1. /\ Listed(rest, us, n) /\ ToSet(rest) = ToSet(orders) \ {Head(orders)}
      /\ LeftOf(ToSet(rest)) = LeftOf(ToSet(orders)) - Remaining(Head(orders))
      /\ 1 \in DOMAIN orders /\ Head(orders) = orders[1]
  BY ListTail
<1>2. /\ rest \in Seq(Orders(us, n)) /\ Len(rest) = Len(orders) - 1
      /\ \A j \in 1..Len(rest) : rest[j] = orders[j + 1]
  BY <1>0, HeadTailProperties
<1>3. /\ changed \in Seq(Orders(us, n)) /\ Len(changed) = Len(orders) /\ changed[1] = x
      /\ \A j \in 2..Len(orders) : changed[j] = rest[j - 1]
  <2>1. <<x>> \in Seq(Orders(us, n)) /\ Len(<<x>>) = 1 /\ <<x>>[1] = x
    OBVIOUS
  <2>2. /\ changed \in Seq(Orders(us, n)) /\ Len(changed) = 1 + Len(rest)
        /\ \A i \in 1..(1 + Len(rest)) : changed[i] = IF i <= 1 THEN <<x>>[i] ELSE rest[i - 1]
    BY <1>2, <2>1, ConcatProperties
  <2> HIDE DEF changed, rest
  <2>3. PICK k \in Nat \ {0} : k = Len(orders) /\ Len(rest) = k - 1
    BY <1>0, <1>2
  <2>4. 1 + Len(rest) = k
    BY <2>3
  <2>5. \A i \in 1..k : changed[i] = IF i <= 1 THEN <<x>>[i] ELSE rest[i - 1]
    BY <2>2, <2>4
  <2>6. changed[1] = x
    BY <2>1, <2>5
  <2>7. \A j \in 2..k : changed[j] = rest[j - 1]
    BY <2>5
  <2> QED BY <2>2, <2>3, <2>4, <2>6, <2>7
<1> HIDE DEF changed, rest
<1>4. \A j \in 2..Len(orders) : changed[j] = orders[j]
  BY <1>0, <1>2, <1>3
<1>5. DOMAIN changed = 1..Len(orders) /\ ~Empty(changed)
  BY <1>0, <1>3 DEF Empty
<1>6. \A i \in DOMAIN changed : changed[i].orderId = orders[i].orderId /\ changed[i].filledQty < changed[i].qty
  <2>1. \A i \in DOMAIN orders : orders[i].filledQty < orders[i].qty
    BY DEF Listed
  <2>2. \A i \in 1..Len(orders) : i = 1 \/ i \in 2..Len(orders)
    BY <1>0
  <2> QED BY <1>0, <1>1, <1>3, <1>4, <1>5, <2>1, <2>2
<1>7. Listed(changed, us, n)
  <2>1. \A i, j \in DOMAIN changed : i < j => orders[i].orderId < orders[j].orderId
    BY <1>0, <1>5 DEF Listed
  <2> QED BY <1>3, <1>6, <2>1 DEF Listed
<1>8. ToSet(changed) = ToSet(rest) \cup {x}
  <2>1. DOMAIN rest = 1..(Len(orders) - 1)
    BY <1>2
  <2>2. \A i \in DOMAIN changed : changed[i] = x \/ \E j \in DOMAIN rest : changed[i] = rest[j]
    <3> SUFFICES ASSUME NEW i \in DOMAIN changed, i # 1
                 PROVE  i - 1 \in DOMAIN rest /\ changed[i] = rest[i - 1]
      BY <1>3
    <3> QED BY <1>0, <1>3, <1>5, <2>1
  <2>3. \A j \in DOMAIN rest : j + 1 \in DOMAIN changed /\ rest[j] = changed[j + 1]
    BY <1>0, <1>3, <1>5, <2>1
  <2>4. 1 \in DOMAIN changed /\ changed[1] = x
    BY <1>0, <1>3, <1>5
  <2> QED BY <2>2, <2>3, <2>4 DEF ToSet
<1>9. x \notin ToSet(rest)
  <2>1. \A j \in DOMAIN rest : j + 1 \in DOMAIN orders /\ rest[j] = orders[j + 1] /\ j + 1 # 1
    BY <1>0, <1>2
  <2>2. \A j \in DOMAIN rest : rest[j].orderId # x.orderId
    BY <1>1, <2>1, ListOnce
  <2> QED BY <2>2 DEF ToSet
<1>10. LeftOf(ToSet(changed)) = LeftOf(ToSet(rest)) + Remaining(x)
  <2> DEFINE S == ToSet(rest)
  <2>0. IsFiniteSet(S) /\ \A o \in S : Remaining(o) \in Nat \ {0}
    BY <1>1, ListFacts
  <2>1. IsFiniteSet(S) /\ \A o \in S : Remaining(o) \in Int
    BY <2>0
  <2>2. Remaining(x) \in Int
    BY DEF Orders, Remaining
  <2> HIDE DEF S
  <2>3. LeftOf(S \cup {x}) = LeftOf(S) + Remaining(x)
    BY <1>9, <2>1, <2>2, LeftOfAdd DEF S
  <2> QED BY <1>8, <2>3 DEF S
<1>11. /\ ToSet(changed) = (ToSet(orders) \ {Head(orders)}) \cup {x}
       /\ LeftOf(ToSet(changed)) = LeftOf(ToSet(orders)) - Remaining(Head(orders)) + Remaining(x)
  BY <1>1, <1>8, <1>10
<1> QED BY <1>5, <1>7, <1>11 DEF changed, rest, WithHead

\* An order that has just arrived is put behind a list.
LEMMA ListAppend ==
  ASSUME NEW us, NEW n \in Nat \ {0}, NEW orders, Listed(orders, us, n) \/ Empty(orders),
         NEW x \in Orders(us, n + 1), x.orderId = n, x.filledQty < x.qty
  PROVE  LET longer == Append(orders, x)
         IN  /\ Listed(longer, us, n + 1) /\ ~Empty(longer)
             /\ ToSet(longer) = ToSet(orders) \cup {x} /\ x \notin ToSet(orders)
             /\ LeftOf(ToSet(longer)) = LeftOf(ToSet(orders)) + Remaining(x)
<1> DEFINE longer == Append(orders, x)
<1>0. Listed(orders, us, n) /\ n \in Nat
  <2>1. CASE Empty(orders)
    BY <2>1 DEF Listed, Empty
  <2> QED BY <2>1
<1>1. /\ orders \in Seq(Orders(us, n + 1)) /\ Len(orders) \in Nat /\ DOMAIN orders = 1..Len(orders)
      /\ \A i \in DOMAIN orders : orders[i].orderId < n
  <2>1. orders \in Seq(Orders(us, n)) /\ Len(orders) \in Nat /\ DOMAIN orders = 1..Len(orders)
    BY <1>0, ListFacts DEF Listed
  <2>2. \A i \in DOMAIN orders : orders[i] \in Orders(us, n)
    BY <2>1
  <2>3. \A o \in Orders(us, n) : o \in Orders(us, n + 1) /\ o.orderId < n
    BY DEF Orders
  <2> QED BY <2>1, <2>2, <2>3, SeqMonotonic
<1>2. /\ longer \in Seq(Orders(us, n + 1)) /\ DOMAIN longer = 1..(Len(orders) + 1) /\ ~Empty(longer)
      /\ \A i \in 1..Len(orders) : longer[i] = orders[i]
      /\ longer[Len(orders) + 1] = x
  <2>1. Len(longer) = Len(orders) + 1 /\ longer \in Seq(Orders(us, n + 1))
    BY <1>1, AppendProperties
  <2> QED BY <1>1, <2>1, AppendProperties DEF Empty
<1> HIDE DEF longer
<1>3. DOMAIN longer = DOMAIN orders \cup {Len(orders) + 1} /\ Len(orders) + 1 \notin DOMAIN orders
  BY <1>1, <1>2
<1>4. Listed(longer, us, n + 1)
  <2>1. \A i \in DOMAIN orders : longer[i] = orders[i]
    BY <1>1, <1>2
  <2>2. ASSUME NEW i \in DOMAIN longer, NEW j \in DOMAIN longer, i < j
        PROVE  longer[i].orderId < longer[j].orderId
    <3>1. i \in DOMAIN orders
      BY <1>1, <1>2, <2>2
    <3>2. CASE j \in DOMAIN orders
      BY <1>0, <2>1, <2>2, <3>1, <3>2 DEF Listed
    <3>3. CASE j = Len(orders) + 1
      BY <1>1, <1>2, <2>1, <3>1, <3>3
    <3> QED BY <1>3, <3>2, <3>3
  <2>3. \A i \in DOMAIN longer : longer[i].filledQty < longer[i].qty
    BY <1>0, <1>2, <1>3, <2>1 DEF Listed
  <2> QED BY <1>2, <2>2, <2>3 DEF Listed
<1>5. ToSet(longer) = ToSet(orders) \cup {x} /\ x \notin ToSet(orders)
  <2>1. \A i \in DOMAIN orders : longer[i] = orders[i] /\ orders[i] # x
    BY <1>1, <1>2
  <2> QED BY <1>2, <1>3, <2>1 DEF ToSet
<1>6. LeftOf(ToSet(longer)) = LeftOf(ToSet(orders)) + Remaining(x)
  <2> DEFINE S == ToSet(orders)
  <2>0. IsFiniteSet(S) /\ \A o \in S : Remaining(o) \in Nat \ {0}
    BY <1>0, ListFacts
  <2>1. IsFiniteSet(S) /\ \A o \in S : Remaining(o) \in Int
    BY <2>0
  <2>2. Remaining(x) \in Int
    BY DEF Orders, Remaining
  <2> HIDE DEF S
  <2>3. LeftOf(S \cup {x}) = LeftOf(S) + Remaining(x)
    BY <1>5, <2>1, <2>2, LeftOfAdd DEF S
  <2> QED BY <1>5, <2>3 DEF S
<1> QED BY <1>2, <1>4, <1>5, <1>6 DEF longer

\* Time goes on, and accounts are created.
LEMMA SideLater ==
  ASSUME NEW us, NEW more, us \subseteq more, NEW n \in Nat, NEW k \in Nat, n <= k, NEW side, SideOK(side, us, n)
  PROVE  SideOK(side, more, k)
<1>1. \A o \in Orders(us, n) : o \in Orders(more, k)
  BY DEF Orders
<1>2. \A orders \in Seq(Orders(us, n)) : orders \in Seq(Orders(more, k))
  BY <1>1, SeqMonotonic
<1> QED BY <1>2 DEF SideOK, LevelOK, Listed

ListAt(side, p) == side[p].openOrders

\* The side with the orders of a price replaced, as every operation of the book leaves it.
Replaced(side, price, orders) ==
  IF Empty(orders)
    THEN [p \in DOMAIN side \ {price} |-> side[p]]
    ELSE [p \in DOMAIN side \cup {price} |->
            IF p = price THEN Level(LeftOf(ToSet(orders)), orders) ELSE side[p]]

WithoutLevel(side, price) == [p \in DOMAIN side \ {price} |-> side[p]]
WithLevel(side, price, offered, orders) == [side EXCEPT ![price] = Level(offered, orders)]

LEMMA LevelReplaced ==
  ASSUME NEW us, NEW n \in Nat, NEW side, SideOK(side, us, n), NEW price \in LimitPrices,
         NEW orders, Listed(orders, us, n)
  PROVE  /\ SideOK(Replaced(side, price, orders), us, n)
         /\ \A p : At(Replaced(side, price, orders), p) = IF p = price THEN ToSet(orders) ELSE At(side, p)
<1> DEFINE level == Level(LeftOf(ToSet(orders)), orders)
           after == Replaced(side, price, orders)
<1>1. CASE Empty(orders)
  <2>1. after = [p \in DOMAIN side \ {price} |-> side[p]]
    BY <1>1 DEF Replaced
  <2>2. IsFiniteSet(DOMAIN side \ {price}) /\ ToSet(orders) = {}
    <3>1. IsFiniteSet(DOMAIN side \ {price})
      BY FS_Difference DEF SideOK
    <3>2. ToSet(orders) = {}
      BY <1>1 DEF ToSet, Empty
    <3> QED BY <3>1, <3>2
  <2> HIDE DEF after
  <2>3. SideOK(after, us, n)
    BY <2>1, <2>2 DEF SideOK
  <2>4. \A p : At(after, p) = IF p = price THEN ToSet(orders) ELSE At(side, p)
    BY <2>1, <2>2 DEF At
  <2> QED BY <2>3, <2>4 DEF after
<1>2. CASE ~Empty(orders)
  <2>1. after = [p \in DOMAIN side \cup {price} |-> IF p = price THEN level ELSE side[p]]
    BY <1>2 DEF Replaced
  <2>2. LevelOK(level, us, n) /\ level.openOrders = orders
    BY <1>2 DEF Level, LevelOK, Empty
  <2>3. IsFiniteSet(DOMAIN side \cup {price})
    BY FS_AddElement DEF SideOK
  <2>4. \A p \in DOMAIN side : LevelOK(side[p], us, n) /\ p \in LimitPrices
    BY DEF SideOK
  <2> HIDE DEF level, after
  <2>5. SideOK(after, us, n)
    BY <2>1, <2>2, <2>3, <2>4 DEF SideOK
  <2>6. \A p : At(after, p) = IF p = price THEN ToSet(orders) ELSE At(side, p)
    BY <2>1, <2>2 DEF At
  <2> QED BY <2>5, <2>6 DEF after
<1> QED BY <1>1, <1>2

\* What is known of a level of a side, for short.
LevelKnown(side, price, us, n) ==
  /\ price \in LimitPrices /\ Listed(ListAt(side, price), us, n) /\ ~Empty(ListAt(side, price))
  /\ IsFiniteSet(At(side, price)) /\ At(side, price) = ToSet(ListAt(side, price))
  /\ \A o \in At(side, price) : o \in Orders(us, n) /\ Remaining(o) \in Nat \ {0}
  /\ side[price] = Level(LeftOf(At(side, price)), ListAt(side, price))
  /\ LeftOf(At(side, price)) \in Nat \ {0}
  /\ \A i \in DOMAIN ListAt(side, price) : ListAt(side, price)[i] \in At(side, price)
  /\ Head(ListAt(side, price)) \in At(side, price)

LEMMA LevelFacts ==
  ASSUME NEW us, NEW n \in Nat, NEW side, SideOK(side, us, n), NEW price \in DOMAIN side
  PROVE  LevelKnown(side, price, us, n)
<1> DEFINE orders == ListAt(side, price)
<1>1. /\ price \in LimitPrices /\ Listed(orders, us, n) /\ ~Empty(orders)
      /\ side[price].availableQty = LeftOf(ToSet(orders)) /\ At(side, price) = ToSet(orders)
      /\ side[price] = Level(LeftOf(ToSet(orders)), orders)
  BY DEF SideOK, LevelOK, At, ListAt, Empty
<1> HIDE DEF orders
<1>2. /\ IsFiniteSet(ToSet(orders)) /\ ToSet(orders) # {}
      /\ \A o \in ToSet(orders) : o \in Orders(us, n) /\ Remaining(o) \in Nat \ {0}
  <2>0. Listed(orders, us, n) /\ ~Empty(orders)
    BY <1>1
  <2>1. IsFiniteSet(ToSet(orders))
    BY <2>0, ListFacts
  <2>2. ToSet(orders) # {}
    BY <2>0, ListEmpty
  <2>3. \A o \in ToSet(orders) : o \in Orders(us, n) /\ Remaining(o) \in Nat \ {0}
    BY <2>0, ListFacts
  <2> QED BY <2>1, <2>2, <2>3
<1>3. LeftOf(ToSet(orders)) \in Nat \ {0}
  BY <1>2, LeftOfPositive
<1>4. \A i \in DOMAIN orders : orders[i] \in ToSet(orders)
  BY DEF ToSet
<1>5. Head(orders) \in ToSet(orders)
  <2>1. 1 \in DOMAIN orders /\ Head(orders) = orders[1]
    BY <1>1, ListTail
  <2> QED BY <1>4, <2>1
<1> QED BY <1>1, <1>2, <1>3, <1>4, <1>5 DEF LevelKnown, orders

\* A list has nothing left exactly when it is empty.
LEMMA ListLeft ==
  ASSUME NEW us, NEW n \in Nat, NEW orders, Listed(orders, us, n)
  PROVE  LeftOf(ToSet(orders)) \in Nat /\ (LeftOf(ToSet(orders)) = 0 <=> Empty(orders))
<1>1. IsFiniteSet(ToSet(orders)) /\ \A o \in ToSet(orders) : Remaining(o) \in Nat \ {0}
  BY ListFacts
<1>2. LeftOf(ToSet(orders)) \in Nat /\ (LeftOf(ToSet(orders)) = 0 <=> ToSet(orders) = {})
  BY <1>1, LeftOfPositive
<1>3. Empty(orders) => ToSet(orders) = {}
  BY DEF ToSet, Empty
<1>4. ~Empty(orders) => ToSet(orders) # {}
  BY ListEmpty
<1> QED BY <1>2, <1>3, <1>4

\* What a list has left is a sum that a double holds (EngineAssumption): each of
\* its orders is one of MaxOrders, and MaxOrders times its quantity is exact.
LEMMA ListBound ==
  ASSUME NEW us, NEW n \in Nat, NEW orders, Listed(orders, us, n)
  PROVE  InDoubles(LeftOf(ToSet(orders))) = LeftOf(ToSet(orders))
<1> DEFINE S == ToSet(orders)
           f == [o \in S |-> Remaining(o)]
<1>1. IsFiniteSet(S) /\ \A o \in S : o \in Orders(us, n) /\ Remaining(o) \in Nat \ {0}
  BY ListFacts
<1>2. MaxOrders \in Nat /\ ExactUpTo \in Nat /\ \A q \in Quantities : MaxOrders * q <= ExactUpTo
  BY EngineAssumption
<1>3. ASSUME NEW o \in S PROVE MaxOrders * f[o] <= ExactUpTo
  <2>1. o.qty \in Quantities /\ o.qty \in Nat /\ o.filledQty \in Nat /\ f[o] = o.qty - o.filledQty /\ f[o] \in Nat
    BY <1>1 DEF Orders, Remaining
  <2> HIDE DEF f
  <2>2. MaxOrders * f[o] <= MaxOrders * o.qty
    BY <1>2, <2>1
  <2>3. MaxOrders * f[o] \in Int /\ MaxOrders * o.qty \in Int /\ MaxOrders * o.qty <= ExactUpTo
    BY <1>2, <2>1
  <2> QED BY <1>2, <2>2, <2>3
<1>4. LeftOf(S) = SumFunctionOnSet(f, S) /\ \A o \in S : f[o] \in Nat \ {0}
  BY <1>1 DEF LeftOf, SumFunction
<1>5. Cardinality(S) \in Nat /\ Cardinality(S) <= MaxOrders
  <2> DEFINE id == [o \in S |-> o.orderId]
  <2>1. \A o \in S : id[o] \in 1..MaxOrders
    BY <1>1 DEF Orders
  <2>2. \A o, p \in S : id[o] = id[p] => o = p
    BY ListOnce DEF ToSet
  <2>3. id \in Injection(S, 1..MaxOrders)
    BY <2>1, <2>2 DEF Injection, IsInjective
  <2>4. IsFiniteSet(1..MaxOrders) /\ Cardinality(1..MaxOrders) = MaxOrders
    BY <1>2, FS_Interval
  <2> HIDE DEF id
  <2> QED BY <1>1, <2>3, <2>4, FS_Injection, FS_CardinalityType
<1> HIDE DEF f, S
<1> DEFINE Sum(T) == SumFunctionOnSet(f, T)
           F == {T \in SUBSET S : Sum(T) \in Nat /\ MaxOrders * Sum(T) <= Cardinality(T) * ExactUpTo}
<1>6. ASSUME NEW T \in SUBSET S, \A x \in T : T \ {x} \in F PROVE T \in F
  <2>1. IsFiniteSet(T) /\ Cardinality(T) \in Nat
    BY <1>1, FS_Subset, FS_CardinalityType
  <2>2. CASE T = {}
    <3>1. Sum(T) = 0 /\ Cardinality(T) = 0
      BY <2>1, <2>2, SumPick, FS_EmptySet
    <3> QED BY <1>2, <3>1
  <2>3. CASE T # {}
    <3> DEFINE x == Pick(T)
               c == Cardinality(T)
    <3>1. x \in T
      BY <2>3, PickIn
    <3>2. Sum(T) = f[x] + Sum(T \ {x})
      BY <2>1, <2>3, SumPick
    <3>3. Cardinality(T \ {x}) = c - 1
      BY <2>1, <3>1, FS_RemoveElement
    <3> HIDE DEF x, c
    <3>4. PICK a \in Nat : a = Sum(T \ {x}) /\ MaxOrders * a <= (c - 1) * ExactUpTo
      BY <1>6, <3>1, <3>3
    <3>5. PICK b \in Nat : b = f[x] /\ MaxOrders * b <= ExactUpTo
      BY <1>3, <1>4, <3>1
    <3>6. c \in Nat
      BY <2>1 DEF c
    <3>7. MaxOrders * (a + b) = MaxOrders * a + MaxOrders * b /\ (c - 1) * ExactUpTo = c * ExactUpTo - ExactUpTo
      BY <1>2, <3>6
    <3>8. MaxOrders * a \in Int /\ MaxOrders * b \in Int /\ c * ExactUpTo \in Int
      BY <1>2, <3>6
    <3>9. MaxOrders * (a + b) <= c * ExactUpTo
      BY <1>2, <3>4, <3>5, <3>7, <3>8
    <3>10. Sum(T) = a + b
      BY <3>2, <3>4, <3>5
    <3> QED BY <3>9, <3>10 DEF c
  <2> QED BY <2>2, <2>3
<1>7. F = SUBSET S
  <2>1. F \in SUBSET (SUBSET S)
    OBVIOUS
  <2> HIDE DEF F
  <2> QED BY <1>1, <1>6, <2>1, SubsetInduction
<1>8. PICK a \in Nat : a = LeftOf(S) /\ MaxOrders * a <= Cardinality(S) * ExactUpTo
  BY <1>4, <1>7
<1>9. a <= ExactUpTo
  <2>1. CASE MaxOrders = 0
    <3>1. S = {}
      BY <1>1, <1>5, <2>1, FS_EmptySet
    <3> QED BY <1>1, <1>2, <1>4, <1>8, <3>1, SumPick
  <2>2. CASE MaxOrders # 0
    <3> SUFFICES ASSUME a >= ExactUpTo + 1 PROVE FALSE
      BY <1>2
    <3>1. Cardinality(S) * ExactUpTo <= MaxOrders * ExactUpTo
      BY <1>2, <1>5
    <3>2. MaxOrders * a >= MaxOrders * ExactUpTo + MaxOrders
      BY <1>2, <2>2
    <3>3. MaxOrders * a \in Int /\ MaxOrders * ExactUpTo \in Int /\ Cardinality(S) * ExactUpTo \in Int
      BY <1>2, <1>5
    <3> QED BY <1>2, <1>8, <2>2, <3>1, <3>2, <3>3
  <2> QED BY <2>1, <2>2
<1>10. InDoubles(a) = a
  BY <1>9 DEF InDoubles, NearestDouble
<1> QED BY <1>8, <1>10 DEF S

\* A level's quantity follows its orders: what the code writes into a level of
\* the side, or deletes of it, is what Replaced says.
LEMMA LevelWritten ==
  ASSUME NEW us, NEW n \in Nat, NEW side, SideOK(side, us, n), NEW price \in DOMAIN side,
         NEW orders, Listed(orders, us, n), NEW offered, offered = LeftOf(ToSet(orders))
  PROVE  /\ offered \in Nat /\ (offered <= 0 <=> Empty(orders))
         /\ Empty(orders) => Replaced(side, price, orders) = WithoutLevel(side, price)
         /\ ~Empty(orders) => Replaced(side, price, orders) = WithLevel(side, price, offered, orders)
<1>1. offered \in Nat /\ (offered = 0 <=> Empty(orders))
  BY ListLeft
<1>2. ~Empty(orders) => Replaced(side, price, orders) = WithLevel(side, price, offered, orders)
  <2>1. DOMAIN side \cup {price} = DOMAIN side /\ side = [p \in DOMAIN side |-> side[p]]
    BY DEF SideOK
  <2> QED BY <2>1 DEF Replaced, WithLevel
<1> QED BY <1>1, <1>2 DEF Replaced, WithoutLevel

\* What a list of orders has to be once the order `open` is out of its level.
LeftBy(side, price, open, orders) ==
  /\ ToSet(orders) = At(side, price) \ {open}
  /\ side[price].availableQty - Remaining(open) = LeftOf(ToSet(orders))

\* Cancelling takes the i-th order out of its level.
LEMMA CancelTakes ==
  ASSUME NEW us, NEW n \in Nat, NEW side, SideOK(side, us, n), NEW price \in DOMAIN side,
         NEW i \in DOMAIN ListAt(side, price), NEW orders, orders = RemoveAt(ListAt(side, price), i)
  PROVE  Listed(orders, us, n) /\ LeftBy(side, price, ListAt(side, price)[i], orders)
<1> DEFINE all == ListAt(side, price)
<1>0. LevelKnown(side, price, us, n)
  BY LevelFacts
<1>1. Listed(all, us, n) /\ At(side, price) = ToSet(all)
  BY <1>0 DEF LevelKnown
<1>2. side[price] = Level(LeftOf(At(side, price)), all)
  BY <1>0 DEF LevelKnown
<1>3. side[price].availableQty = LeftOf(ToSet(all))
  BY <1>1, <1>2 DEF Level
<1> HIDE DEF all
<1>4. i \in DOMAIN all /\ orders = RemoveAt(all, i)
  BY DEF all
<1>5. /\ Listed(orders, us, n) /\ ToSet(orders) = ToSet(all) \ {all[i]}
      /\ LeftOf(ToSet(orders)) = LeftOf(ToSet(all)) - Remaining(all[i])
  BY <1>1, <1>4, ListRemove
<1> QED BY <1>1, <1>3, <1>5 DEF LeftBy, all

\* What is left of a resting order once qty of it is taken.
Partly(open, qty) ==
  [open EXCEPT !.filledQty = @ + qty,
               !.margin = RelativeMargin(@, Remaining(open), Remaining(open) - qty)]

LEMMA PartlyIs ==
  ASSUME NEW us, NEW n \in Nat, NEW open \in Orders(us, n), NEW qty \in Nat \ {0}, qty < Remaining(open)
  PROVE  /\ Partly(open, qty) \in Orders(us, n) /\ Partly(open, qty).orderId = open.orderId
         /\ Partly(open, qty).filledQty < Partly(open, qty).qty
         /\ Remaining(Partly(open, qty)) = Remaining(open) - qty
<1> DEFINE margin == RelativeMargin(open.margin, Remaining(open), Remaining(open) - qty)
           filled == open.filledQty + qty
<1>1. /\ open.margin \in Nat /\ open.qty \in Nat \ {0} /\ open.filledQty \in Nat
      /\ Remaining(open) = open.qty - open.filledQty
  BY DEF Orders, Remaining
<1>2. Remaining(open) \in Nat \ {0} /\ Remaining(open) - qty \in Nat
  BY <1>1
<1>3. margin \in Nat
  <2>1. open.margin \in Int
    BY <1>1
  <2> QED BY <1>1, <1>2, <2>1, MarginType
<1>4. Partly(open, qty) = [open EXCEPT !.filledQty = filled, !.margin = margin]
  BY DEF Partly, Orders
<1>5. filled \in Nat /\ filled < open.qty /\ open.qty - filled = Remaining(open) - qty
  BY <1>1
<1> HIDE DEF filled, margin
<1>6. /\ Partly(open, qty) \in Orders(us, n) /\ Partly(open, qty).orderId = open.orderId
      /\ Partly(open, qty).filledQty = filled /\ Partly(open, qty).qty = open.qty
  BY <1>3, <1>4, <1>5 DEF Orders
<1> QED BY <1>5, <1>6 DEF Remaining

\* What stays on the book of an order that gives qty.
Partial(open, qty) == IF qty = Remaining(open) THEN {} ELSE {Partly(open, qty)}

\* Matching takes the first order of a level, or a part of it.
LEMMA ConsumeTakes ==
  ASSUME NEW us, NEW n \in Nat, NEW side, SideOK(side, us, n), NEW price \in DOMAIN side,
         NEW open, open = Head(ListAt(side, price)), NEW qty \in Nat \ {0}, qty <= Remaining(open)
  PROVE  /\ SideOK(Consume(side, price, qty), us, n)
         /\ SideMoves(side, Consume(side, price, qty), price, {open}, Partial(open, qty))
<1> DEFINE all == ListAt(side, price)
           after == Consume(side, price, qty)
<1>0. LevelKnown(side, price, us, n)
  BY LevelFacts
<1>1. /\ Listed(all, us, n) /\ ~Empty(all) /\ price \in LimitPrices
      /\ At(side, price) = ToSet(all)
  BY <1>0 DEF LevelKnown
<1>2. open \in At(side, price)
  BY <1>0 DEF LevelKnown
<1>3. open \in Orders(us, n) /\ Remaining(open) \in Nat \ {0}
  BY <1>0, <1>2 DEF LevelKnown
<1>4. side[price] = Level(LeftOf(At(side, price)), all)
  BY <1>0 DEF LevelKnown
<1>5. side[price].availableQty = LeftOf(ToSet(all)) /\ LeftOf(ToSet(all)) \in Nat /\ side[price].openOrders = all
  BY <1>1, <1>4, ListLeft DEF Level
<1> HIDE DEF all
<1>6. /\ open = Head(all) /\ Listed(Tail(all), us, n) /\ ToSet(Tail(all)) = ToSet(all) \ {open}
      /\ LeftOf(ToSet(Tail(all))) = LeftOf(ToSet(all)) - Remaining(open)
  <2>1. open = Head(all)
    BY DEF all
  <2>2. /\ Listed(Tail(all), us, n) /\ ToSet(Tail(all)) = ToSet(all) \ {Head(all)}
        /\ LeftOf(ToSet(Tail(all))) = LeftOf(ToSet(all)) - Remaining(Head(all))
    BY <1>1, ListTail
  <2> QED BY <2>1, <2>2
<1>7. CASE qty = Remaining(open)
  <2> DEFINE orders == Tail(all)
             offered == InDoubles(side[price].availableQty - qty)
  <2>1. /\ Listed(orders, us, n) /\ ToSet(orders) = At(side, price) \ {open}
        /\ offered = LeftOf(ToSet(orders))
    <3>1. side[price].availableQty - qty = LeftOf(ToSet(orders))
      BY <1>5, <1>6, <1>7
    <3>2. offered = LeftOf(ToSet(orders))
      BY <1>6, <3>1, ListBound
    <3> QED BY <1>1, <1>6, <3>2
  <2>2. after = IF offered <= 0 THEN WithoutLevel(side, price) ELSE WithLevel(side, price, offered, orders)
    <3>1. Remaining(open) - qty = 0
      BY <1>3, <1>7
    <3> QED BY <1>5, <3>1 DEF Consume, FirstCreated, WithoutLevel, WithLevel, Level, all, ListAt
  <2> HIDE DEF orders, offered, after
  <2>3. after = Replaced(side, price, orders)
    BY <2>1, <2>2, LevelWritten
  <2>4. /\ SideOK(after, us, n)
        /\ \A p : At(after, p) = IF p = price THEN ToSet(orders) ELSE At(side, p)
    BY <1>1, <2>1, <2>3, LevelReplaced
  <2> QED BY <1>7, <2>1, <2>4 DEF SideMoves, Partial, after
<1>8. CASE qty # Remaining(open)
  <2> DEFINE partly == Partly(open, qty)
             orders == <<partly>> \o Tail(all)
             offered == InDoubles(side[price].availableQty - qty)
  <2>1. /\ partly \in Orders(us, n) /\ partly.orderId = open.orderId /\ partly.filledQty < partly.qty
        /\ Remaining(partly) = Remaining(open) - qty
    <3>1. qty < Remaining(open)
      BY <1>3, <1>8
    <3> QED BY <1>3, <3>1, PartlyIs
  <2>2. after = WithLevel(side, price, offered, orders)
    <3>1. Remaining(open) - qty # 0
      BY <1>3, <1>8
    <3> QED BY <1>5, <3>1 DEF Consume, FirstCreated, Partly, WithLevel, Level, all, ListAt
  <2> HIDE DEF partly
  <2>3. /\ Listed(orders, us, n) /\ ~Empty(orders)
        /\ ToSet(orders) = (ToSet(all) \ {open}) \cup {partly}
        /\ LeftOf(ToSet(orders)) = LeftOf(ToSet(all)) - Remaining(open) + Remaining(partly)
    <3>1. orders = WithHead(partly, all)
      BY DEF WithHead
    <3>2. partly.orderId = Head(all).orderId /\ partly.filledQty < partly.qty
      BY <1>6, <2>1
    <3> HIDE DEF orders
    <3>3. /\ Listed(orders, us, n) /\ ~Empty(orders)
          /\ ToSet(orders) = (ToSet(all) \ {Head(all)}) \cup {partly}
          /\ LeftOf(ToSet(orders)) = LeftOf(ToSet(all)) - Remaining(Head(all)) + Remaining(partly)
      BY <1>1, <2>1, <3>1, <3>2, ListHead
    <3> QED BY <1>6, <3>3
  <2>4. offered = LeftOf(ToSet(orders))
    <3>1. side[price].availableQty - qty = LeftOf(ToSet(orders))
      BY <1>3, <1>5, <2>1, <2>3
    <3> QED BY <2>3, <3>1, ListBound
  <2> HIDE DEF orders, offered, after
  <2>5. after = Replaced(side, price, orders)
    BY <2>2, <2>3, <2>4, LevelWritten
  <2>6. /\ SideOK(after, us, n)
        /\ \A p : At(after, p) = IF p = price THEN ToSet(orders) ELSE At(side, p)
    BY <1>1, <2>3, <2>5, LevelReplaced
  <2> QED BY <1>1, <1>8, <2>3, <2>6 DEF SideMoves, Partial, after, partly
<1> QED BY <1>7, <1>8

\* What a limit order has left is put behind the orders of its price.
LEMMA AddToBookAdds ==
  ASSUME NEW us, NEW n \in Nat \ {0}, NEW side, SideOK(side, us, n), NEW price \in LimitPrices,
         NEW x \in Orders(us, n + 1), x.orderId = n, x.filledQty < x.qty
  PROVE  /\ SideOK(AddToBook(side, price, x), us, n + 1)
         /\ SideMoves(side, AddToBook(side, price, x), price, {}, {x})
<1> DEFINE after == AddToBook(side, price, x)
           old == IF price \in DOMAIN side THEN ListAt(side, price) ELSE <<>>
           orders == Append(old, x)
           offered == LeftOf(ToSet(orders))
<1>1. SideOK(side, us, n + 1) /\ n + 1 \in Nat
  BY SideLater
<1>2. (Listed(old, us, n) \/ Empty(old)) /\ At(side, price) = ToSet(old)
  <2>1. price \in DOMAIN side => Listed(ListAt(side, price), us, n) /\ At(side, price) = ToSet(ListAt(side, price))
    <3> SUFFICES ASSUME price \in DOMAIN side
                 PROVE  Listed(ListAt(side, price), us, n) /\ At(side, price) = ToSet(ListAt(side, price))
      OBVIOUS
    <3>1. LevelKnown(side, price, us, n)
      BY LevelFacts
    <3> QED BY <3>1 DEF LevelKnown
  <2>2. price \notin DOMAIN side => At(side, price) = ToSet(<<>>)
    BY DEF At, ToSet
  <2> QED BY <2>1, <2>2 DEF Empty
<1> HIDE DEF old
<1>3. /\ Listed(orders, us, n + 1) /\ ~Empty(orders) /\ ToSet(orders) = ToSet(old) \cup {x}
      /\ LeftOf(ToSet(orders)) = LeftOf(ToSet(old)) + Remaining(x)
  BY <1>2, ListAppend
<1> HIDE DEF orders
<1>4. after = Replaced(side, price, orders)
  <2>1. CASE price \in DOMAIN side
    <3>0. LevelKnown(side, price, us, n)
      BY <2>1, LevelFacts
    <3>1. side[price] = Level(LeftOf(At(side, price)), ListAt(side, price))
      BY <3>0 DEF LevelKnown
    <3>2. InDoubles(side[price].availableQty + Remaining(x)) = offered /\ Append(side[price].openOrders, x) = orders
      <4>1. side[price].availableQty + Remaining(x) = offered /\ Append(side[price].openOrders, x) = orders
        BY <1>2, <1>3, <2>1, <3>1 DEF orders, old, ListAt, Level
      <4>2. InDoubles(offered) = offered
        BY <1>1, <1>3, ListBound
      <4> QED BY <4>1, <4>2
    <3>3. after = WithLevel(side, price, offered, orders)
      BY <2>1, <3>2 DEF AddToBook, WithLevel, Level
    <3> HIDE DEF after, offered
    <3>4. offered = LeftOf(ToSet(orders))
      BY DEF offered
    <3> DEFINE k == n + 1
    <3>5. SideOK(side, us, k) /\ k \in Nat /\ Listed(orders, us, k) /\ ~Empty(orders)
      BY <1>1, <1>3
    <3> HIDE DEF k
    <3>6. Replaced(side, price, orders) = WithLevel(side, price, offered, orders)
      BY <2>1, <3>4, <3>5, LevelWritten
    <3> QED BY <3>3, <3>6
  <2>2. CASE price \notin DOMAIN side
    <3>1. old = <<>> /\ orders = <<x>> /\ ToSet(old) = {}
      BY <2>2 DEF old, orders, ToSet
    <3>2. LeftOf({}) = 0
      BY FS_EmptySet, LeftOfPositive
    <3>3. offered = Remaining(x)
      <4>1. Remaining(x) \in Int
        BY DEF Orders, Remaining
      <4>2. LeftOf(ToSet(old)) = 0 /\ offered = LeftOf(ToSet(old)) + Remaining(x)
        BY <1>3, <3>1, <3>2
      <4> QED BY <4>1, <4>2
    <3> QED BY <1>3, <2>2, <3>1, <3>3 DEF AddToBook, Replaced, Level, Empty
  <2> QED BY <2>1, <2>2
<1> HIDE DEF after
<1>5. SideOK(after, us, n + 1) /\ \A p : At(after, p) = IF p = price THEN ToSet(orders) ELSE At(side, p)
  BY <1>1, <1>3, <1>4, LevelReplaced
<1> QED BY <1>2, <1>3, <1>5 DEF SideMoves, after

LEMMA InAll ==
  ASSUME NEW s, NEW o
  PROVE  /\ o \in All(s) <=> \E type \in PositionTypes : \E p \in DOMAIN s.orderbook[type] : o \in At(s.orderbook[type], p)
         /\ \A type \in PositionTypes : \A p : o \in At(s.orderbook[type], p) => o \in All(s) /\ p \in DOMAIN s.orderbook[type]
BY DEF All, At

\* One level of the book changes: `gone` leaves it, and an order that takes its id, or a new one, comes.
BookMoves(s, t, side, price, gone, more) ==
  /\ \A type \in PositionTypes : type # side => t.orderbook[type] = s.orderbook[type]
  /\ SideMoves(s.orderbook[side], t.orderbook[side], price, gone, more)
  /\ gone \subseteq At(s.orderbook[side], price)
  /\ \A x \in more : \A o \in All(s) : o.orderId = x.orderId => o \in gone
  /\ \A x, y \in more : x = y

LEMMA BookChanged ==
  ASSUME NEW s, RestsOnce(s), NEW t, NEW side \in PositionTypes, NEW price, NEW gone, NEW more,
         BookMoves(s, t, side, price, gone, more)
  PROVE  RestsOnce(t) /\ All(t) = (All(s) \ gone) \cup more
<1> USE DEF BookMoves
<1>1. ASSUME NEW type \in PositionTypes, NEW p, NEW o \in At(t.orderbook[type], p)
      PROVE  \/ o \in more /\ type = side /\ p = price
             \/ o \in At(s.orderbook[type], p) /\ o \in All(s)
                  /\ p \in DOMAIN s.orderbook[type] /\ o \notin gone
  <2>1. CASE o \in At(s.orderbook[type], p)
    <3>1. o \in All(s) /\ p \in DOMAIN s.orderbook[type]
      BY <2>1, InAll
    <3>2. CASE o \notin gone
      BY <2>1, <3>1, <3>2
    <3>3. CASE o \in gone
      <4>1. o \in At(s.orderbook[side], price) /\ price \in DOMAIN s.orderbook[side]
        BY <3>3, InAll
      <4>2. type = side /\ p = price
        BY <2>1, <3>1, <4>1 DEF RestsOnce
      <4> QED BY <1>1, <3>3, <4>2 DEF SideMoves
    <3> QED BY <3>2, <3>3
  <2>2. CASE o \notin At(s.orderbook[type], p)
    BY <1>1, <2>2 DEF SideMoves
  <2> QED BY <2>1, <2>2
<1>2. RestsOnce(t)
  <2> SUFFICES ASSUME NEW t1 \in PositionTypes, NEW t2 \in PositionTypes, NEW p1, NEW p2,
                      NEW o1 \in At(t.orderbook[t1], p1), NEW o2 \in At(t.orderbook[t2], p2),
                      o1.orderId = o2.orderId
               PROVE  t1 = t2 /\ p1 = p2 /\ o1 = o2
    BY DEF RestsOnce
  <2>1. CASE o1 \in more /\ t1 = side /\ p1 = price
    <3>1. o2 \in more /\ t2 = side /\ p2 = price
      BY <1>1, <2>1
    <3> QED BY <2>1, <3>1
  <2>2. CASE ~(o1 \in more /\ t1 = side /\ p1 = price)
    <3>1. o1 \in At(s.orderbook[t1], p1) /\ p1 \in DOMAIN s.orderbook[t1] /\ o1 \in All(s) /\ o1 \notin gone
      BY <1>1, <2>2
    <3>2. o2 \in At(s.orderbook[t2], p2) /\ p2 \in DOMAIN s.orderbook[t2]
      BY <1>1, <3>1
    <3> QED BY <3>1, <3>2 DEF RestsOnce
  <2> QED BY <2>1, <2>2
<1>3. ASSUME NEW o \in All(t) PROVE o \in (All(s) \ gone) \cup more
  <2>1. PICK type \in PositionTypes : \E p \in DOMAIN t.orderbook[type] : o \in At(t.orderbook[type], p)
    BY InAll
  <2> QED BY <1>1, <2>1
<1>4. ASSUME NEW o \in All(s), o \notin gone PROVE o \in All(t)
  <2>1. PICK type \in PositionTypes : \E p \in DOMAIN s.orderbook[type] : o \in At(s.orderbook[type], p)
    BY InAll
  <2>2. PICK p : o \in At(s.orderbook[type], p)
    BY <2>1
  <2>3. o \in At(t.orderbook[type], p)
    BY <1>4, <2>2 DEF SideMoves
  <2> QED BY <2>3, InAll
<1>5. ASSUME NEW o \in more PROVE o \in All(t)
  <2>1. o \in At(t.orderbook[side], price)
    BY DEF SideMoves
  <2> QED BY <2>1, InAll
<1> QED BY <1>2, <1>3, <1>4, <1>5

\* What rests is orders, a finite number of them, told apart by their ids.
LEMMA AllFacts ==
  ASSUME NEW s, NEW n \in Nat \ {0}, BookOK(s, n), RestsOnce(s)
  PROVE  /\ \A o \in All(s) : o \in Orders(ToSet(s.users), n) /\ o.orderId # n /\ o.filledQty < o.qty
         /\ \A o1, o2 \in All(s) : o1.orderId = o2.orderId => o1 = o2
         /\ IsFiniteSet(All(s))
<1>1. ASSUME NEW o \in All(s)
      PROVE  o \in Orders(ToSet(s.users), n) /\ o.orderId # n /\ o.filledQty < o.qty
  <2>1. PICK type \in PositionTypes : \E p \in DOMAIN s.orderbook[type] : o \in At(s.orderbook[type], p)
    BY InAll
  <2>2. PICK p \in DOMAIN s.orderbook[type] : o \in At(s.orderbook[type], p)
    BY <2>1
  <2>3. SideOK(s.orderbook[type], ToSet(s.users), n)
    BY DEF BookOK
  <2>4. LevelKnown(s.orderbook[type], p, ToSet(s.users), n)
    BY <2>3, LevelFacts
  <2>5. o \in Orders(ToSet(s.users), n) /\ Remaining(o) \in Nat \ {0}
    BY <2>2, <2>4 DEF LevelKnown
  <2> QED BY <2>5 DEF Orders, Remaining
<1>2. ASSUME NEW o1 \in All(s), NEW o2 \in All(s), o1.orderId = o2.orderId PROVE o1 = o2
  <2>1. PICK t1 \in PositionTypes : \E p \in DOMAIN s.orderbook[t1] : o1 \in At(s.orderbook[t1], p)
    BY InAll
  <2>2. PICK t2 \in PositionTypes : \E p \in DOMAIN s.orderbook[t2] : o2 \in At(s.orderbook[t2], p)
    BY InAll
  <2> QED BY <1>2, <2>1, <2>2 DEF RestsOnce
<1>3. IsFiniteSet(All(s))
  <2> DEFINE f == [o \in All(s) |-> o.orderId]
  <2>1. f \in Injection(All(s), 1..(n - 1))
    <3>1. \A o \in All(s) : o.orderId \in 1..(n - 1)
      BY <1>1 DEF Orders
    <3> QED BY <1>2, <3>1 DEF Injection, IsInjective
  <2>2. IsFiniteSet(1..(n - 1))
    BY FS_Interval
  <2> QED BY <2>1, <2>2, FS_Injection
<1> QED BY <1>1, <1>2, <1>3

-----------------------------------------------------------------------------
(* Best prices.                                                            *)

LEMMA GreatestNumber ==
  ASSUME NEW S, IsFiniteSet(S), S \in SUBSET Nat, S # {}
  PROVE  \E n \in S : \A m \in S : m <= n
<1> DEFINE F == {T \in SUBSET S : T # {} => \E n \in T : \A m \in T : m <= n}
<1>1. ASSUME NEW T \in SUBSET S, \A x \in T : T \ {x} \in F PROVE T \in F
  <2> SUFFICES ASSUME T # {} PROVE \E n \in T : \A m \in T : m <= n
    OBVIOUS
  <2>1. PICK x \in T : TRUE
    OBVIOUS
  <2>2. CASE T \ {x} = {}
    <3>1. \A m \in T : m = x /\ m \in Nat
      BY <2>2
    <3> QED BY <2>1, <3>1
  <2>3. CASE T \ {x} # {}
    <3>1. PICK n \in T \ {x} : \A m \in T \ {x} : m <= n
      BY <1>1, <2>1, <2>3
    <3>2. n \in Nat /\ x \in Nat /\ \A m \in T : m \in Nat
      BY <2>1, <3>1
    <3>3. CASE x <= n
      BY <3>1, <3>2, <3>3
    <3>4. CASE n <= x
      BY <2>1, <3>1, <3>2, <3>4
    <3> QED BY <3>2, <3>3, <3>4
  <2> QED BY <2>2, <2>3
<1>2. F \in SUBSET (SUBSET S)
  OBVIOUS
<1>3. F = SUBSET S
  <2> HIDE DEF F
  <2> QED BY <1>1, <1>2, SubsetInduction
<1>4. S \in F
  BY <1>3
<1> QED BY <1>4

\* A side that offers prices has one that comes before the others.
LEMMA BestPriceIs ==
  ASSUME NEW side \in PositionTypes, NEW prices, IsFiniteSet(prices), prices \in SUBSET Nat, prices # {}
  PROVE  /\ BestPrice(side, prices) \in prices
         /\ \A q \in prices \ {BestPrice(side, prices)} : BetterPrice(side, BestPrice(side, prices), q)
<1>1. \E p \in prices : \A q \in prices \ {p} : BetterPrice(side, p, q)
  <2>1. CASE side = SHORT
    <3>1. PICK p \in prices : \A q \in prices : p <= q
      BY LeastNumber
    <3>2. \A q \in prices \ {p} : p < q
      BY <3>1
    <3> QED BY <2>1, <3>2 DEF BetterPrice
  <2>2. CASE side # SHORT
    <3>1. PICK p \in prices : \A q \in prices : q <= p
      BY GreatestNumber
    <3>2. \A q \in prices \ {p} : p > q
      BY <3>1
    <3> QED BY <2>2, <3>2 DEF BetterPrice
  <2> QED BY <2>1, <2>2
<1> QED BY <1>1 DEF BestPrice

LEMMA MinOfTwo ==
  ASSUME NEW a \in Nat, NEW b \in Nat
  PROVE  Min({a, b}) \in Nat /\ Min({a, b}) <= a /\ Min({a, b}) <= b /\ (Min({a, b}) = a \/ Min({a, b}) = b)
<1> DEFINE x == IF a <= b THEN a ELSE b
<1>1. x \in {a, b} /\ \A y \in {a, b} : x <= y
  OBVIOUS
<1>2. Min({a, b}) \in {a, b} /\ \A y \in {a, b} : Min({a, b}) <= y
  BY <1>1 DEF Min
<1> QED BY <1>2

-----------------------------------------------------------------------------
(* What a trade does to the accounts.                                      *)

LEMMA UsersFinite ==
  ASSUME NEW s, AccountsOK(s)
  PROVE  /\ IsFiniteSet(ToSet(s.users)) /\ ToSet(s.users) \subseteq Users
         /\ \A u : Exposure(s, u) \in Int
<1>1. s.users \in Seq(Users) /\ Len(s.users) \in Nat /\ DOMAIN s.users = 1..Len(s.users)
  BY DEF AccountsOK
<1>2. IsFiniteSet(DOMAIN s.users)
  BY <1>1, FS_Interval
<1> DEFINE R == {s.users[i] : i \in DOMAIN s.users}
<1>3. s.users \in Surjection(DOMAIN s.users, R)
  BY <1>1 DEF Surjection
<1>4. IsFiniteSet(ToSet(s.users))
  BY <1>2, <1>3, FS_Surjection DEF ToSet
<1>5. ToSet(s.users) \subseteq Users
  BY <1>1 DEF ToSet
<1>6. ASSUME NEW u PROVE Exposure(s, u) \in Int
  <2>1. u \in DOMAIN s.positions => s.positions[u] \in Positions
    BY DEF AccountsOK
  <2>2. u \in DOMAIN s.positions => s.positions[u].qty \in Nat
    BY <2>1 DEF Positions
  <2> QED BY <2>2 DEF Exposure, Signed
<1> QED BY <1>4, <1>5, <1>6

\* One account's holding moves by d: so does what all hold together.
LEMMA BalanceMoves ==
  ASSUME NEW s, AccountsOK(s), NEW t, AccountsOK(t), t.users = s.users,
         NEW u \in ToSet(s.users), NEW d \in Int, Exposure(t, u) = Exposure(s, u) + d,
         \A v \in ToSet(s.users) : v # u => Exposure(t, v) = Exposure(s, v)
  PROVE  Balance(s) \in Int /\ Balance(t) = Balance(s) + d
<1> DEFINE S == ToSet(s.users)
           f == [v \in S |-> Exposure(s, v)]
           g == [v \in S |-> Exposure(t, v)]
<1>1. Balance(s) = SumFunctionOnSet(f, S) /\ Balance(t) = SumFunctionOnSet(g, S)
  BY DEF Balance, SumFunction
<1>2. IsFiniteSet(S) /\ (\A v \in S : f[v] \in Int /\ g[v] \in Int)
  BY UsersFinite
<1>3. IsFiniteSet(S \ {u}) /\ \A v \in S \ {u} : f[v] \in Int
  BY <1>2, FS_Difference
<1>4. g[u] = f[u] + d /\ \A v \in S \ {u} : f[v] = g[v]
  OBVIOUS
<1>5. u \in S
  OBVIOUS
<1> HIDE DEF f, g, S
<1>6. SumFunctionOnSet(f, S \ {u}) = SumFunctionOnSet(g, S \ {u})
  BY <1>3, <1>4, SumSame
<1>7. SumFunctionOnSet(f, S \ {u}) \in Int
  BY <1>3, SumType
<1>8. SumFunctionOnSet(f, S) = f[u] + SumFunctionOnSet(f, S \ {u})
  BY <1>2, <1>5, SumRemove
<1>9. SumFunctionOnSet(g, S) = g[u] + SumFunctionOnSet(g, S \ {u})
  BY <1>2, <1>5, SumRemove
<1> QED BY <1>1, <1>2, <1>4, <1>5, <1>6, <1>7, <1>8, <1>9

\* Nothing that is kept of the account v has changed.
Untouched(s, t, v) ==
  /\ v \in DOMAIN t.positions <=> v \in DOMAIN s.positions
  /\ v \in DOMAIN s.positions => t.positions[v] = s.positions[v]
  /\ v \in DOMAIN s.collateral => v \in DOMAIN t.collateral /\ t.collateral[v] = s.collateral[v]

\* t is s after a trade in which the account u takes the signed quantity d.
Trades(s, t, u, d) ==
  /\ Shaped(t) /\ AccountsOK(t)
  /\ t.orderbook = s.orderbook /\ t.users = s.users
  /\ t.lastTradedPrice = s.lastTradedPrice /\ t.indexPrice = s.indexPrice
  /\ Balance(s) \in Int /\ Balance(t) = Balance(s) + d
  /\ \A v : v # u => Untouched(s, t, v)

LEMMA CreatePositionTrades ==
  ASSUME NEW s, Shaped(s), AccountsOK(s), NEW u \in ToSet(s.users), NEW type \in PositionTypes,
         NEW qty \in Nat \ {0}, NEW margin \in Int, NEW price \in Int
  PROVE  Trades(s, CreatePosition(s, u, type, qty, margin, price), u, Signed(type, qty))
<1> DEFINE t == CreatePosition(s, u, type, qty, margin, price)
<1>1. /\ Shaped(t) /\ AccountsOK(t)
      /\ t.orderbook = s.orderbook /\ t.users = s.users
      /\ t.lastTradedPrice = s.lastTradedPrice /\ t.indexPrice = s.indexPrice
  BY CreatePositionKeepsAccounts
<1>2. PositionsOK(s)
  <2>1. \A v \in DOMAIN s.positions : s.positions[v] \in Positions
    BY DEF AccountsOK
  <2> QED BY <2>1 DEF PositionsOK, Positions
<1>3. Exposure(t, u) = Exposure(s, u) + Signed(type, qty)
  BY <1>2, CreatePositionAddsExposure
<1>4. ASSUME NEW v, v # u PROVE Untouched(s, t, v)
  <2>1. /\ v \in DOMAIN t.positions <=> v \in DOMAIN s.positions
        /\ v \in DOMAIN s.positions => t.positions[v] = s.positions[v]
        /\ t.collateral[v] = s.collateral[v] \/ v \notin DOMAIN s.collateral
    BY <1>2, <1>4, CreatePositionIsLocal
  <2> HIDE DEF t
  <2>2. DOMAIN t.collateral = DOMAIN s.collateral
    BY <1>1 DEF AccountsOK
  <2> QED BY <2>1, <2>2 DEF Untouched
<1> HIDE DEF t
<1>5. \A v : v # u => Exposure(t, v) = Exposure(s, v)
  BY <1>4 DEF Untouched, Exposure
<1>6. Signed(type, qty) \in Int
  BY DEF Signed
<1>7. Balance(s) \in Int /\ Balance(t) = Balance(s) + Signed(type, qty)
  BY <1>1, <1>3, <1>5, <1>6, BalanceMoves
<1>8. Trades(s, t, u, Signed(type, qty))
  BY <1>1, <1>4, <1>7 DEF Trades
<1> QED BY <1>8 DEF t

-----------------------------------------------------------------------------
(* An iteration of the matching loop.                                      *)

NextPrice(taker, m) == BestPrice(Opposite(taker.type), MatchPrices(m.store, taker))
NextOrder(taker, m) == Head(ListAt(m.store.orderbook[Opposite(taker.type)], NextPrice(taker, m)))
NextQty(taker, m) == Min({Remaining(NextOrder(taker, m)), m.remaining})
NextFill(taker, m) ==
  [makerId |-> NextOrder(taker, m).userId, takerId |-> taker.userId,
   makerOrderId |-> NextOrder(taker, m).orderId, qty |-> NextQty(taker, m),
   takerOrderId |-> taker.id, price |-> NextPrice(taker, m)]
NextUpdate(taker, m) ==
  OrderUpdate(NextOrder(taker, m).orderId,
              IF NextQty(taker, m) = Remaining(NextOrder(taker, m)) THEN "filled" ELSE "partially_filled",
              NextOrder(taker, m).filledQty + NextQty(taker, m))

\* The order met is on the book, and has something for the taker.
LEMMA NextFacts ==
  ASSUME NEW taker, taker.type \in PositionTypes, NEW m, NEW n \in Nat \ {0}, StoreOK(m.store, n),
         m.remaining \in Nat \ {0}, MatchPrices(m.store, taker) # {}
  PROVE  LET side  == Opposite(taker.type)
             price == NextPrice(taker, m)
             open  == NextOrder(taker, m)
             qty   == NextQty(taker, m)
         IN  /\ side \in PositionTypes /\ side # taker.type
             /\ price \in MatchPrices(m.store, taker)
             /\ price \in LimitPrices /\ price \in Nat \ {0} /\ price \in DOMAIN m.store.orderbook[side]
             /\ open \in At(m.store.orderbook[side], price)
             /\ open \in Orders(ToSet(m.store.users), n) /\ Remaining(open) \in Nat \ {0}
             /\ qty \in Nat \ {0} /\ qty <= Remaining(open) /\ qty <= m.remaining
             /\ qty = Remaining(open) \/ qty = m.remaining
<1> DEFINE side  == Opposite(taker.type)
           book  == m.store.orderbook[side]
           prices == MatchPrices(m.store, taker)
           price == NextPrice(taker, m)
           open  == NextOrder(taker, m)
           qty   == NextQty(taker, m)
<1>1. side \in PositionTypes /\ side # taker.type
  BY DEF Opposite, PositionTypes, LONG, SHORT
<1>2. SideOK(book, ToSet(m.store.users), n)
  BY <1>1 DEF StoreOK, BookOK
<1>3. prices \subseteq DOMAIN book
  BY DEF MatchPrices, OfferedPrices
<1>4. IsFiniteSet(DOMAIN book) /\ DOMAIN book \subseteq LimitPrices
  BY <1>2 DEF SideOK
<1>5. prices \in SUBSET Nat /\ IsFiniteSet(prices)
  BY <1>3, <1>4, FS_Subset, EngineAssumption
<1>6. price \in prices
  <2>1. BestPrice(side, prices) \in prices
    BY <1>1, <1>5, BestPriceIs
  <2> QED BY <2>1 DEF NextPrice
<1>7. price \in DOMAIN book /\ price \in LimitPrices /\ price \in Nat \ {0}
  BY <1>3, <1>4, <1>6, PricesPositive
<1>8. LevelKnown(book, price, ToSet(m.store.users), n)
  BY <1>2, <1>7, LevelFacts
<1>9. open = Head(ListAt(book, price))
  BY DEF NextOrder
<1>10. /\ open \in At(book, price) /\ open \in Orders(ToSet(m.store.users), n)
       /\ Remaining(open) \in Nat \ {0}
  BY <1>8, <1>9 DEF LevelKnown
<1>11. /\ qty \in Nat /\ qty <= Remaining(open) /\ qty <= m.remaining
       /\ (qty = Remaining(open) \/ qty = m.remaining)
  BY <1>10, MinOfTwo DEF NextQty
<1>12. qty # 0
  BY <1>10, <1>11
<1> QED BY <1>1, <1>6, <1>7, <1>10, <1>11, <1>12

\* Two stores with the same book and the same accounts.
SameBook(s, t) == t.orderbook = s.orderbook /\ t.users = s.users

LEMMA SameBookKeeps ==
  ASSUME NEW s, NEW t, SameBook(s, t)
  PROVE  /\ \A n : BookOK(s, n) => BookOK(t, n)
         /\ RestsOnce(s) => RestsOnce(t)
         /\ All(t) = All(s)
BY DEF SameBook, BookOK, RestsOnce, All

\* A store in which one side of the book is replaced.
WithSide(s, side, new) == [s.orderbook EXCEPT ![side] = new]

LEMMA SideReplaced ==
  ASSUME NEW s, NEW n \in Nat, BookOK(s, n), NEW side \in PositionTypes, NEW new,
         NEW k \in Nat, n <= k, SideOK(new, ToSet(s.users), k), NEW t, t.users = s.users,
         t.orderbook = WithSide(s, side, new)
  PROVE  /\ BookOK(t, k) /\ t.orderbook[side] = new
         /\ \A type \in PositionTypes : type # side => t.orderbook[type] = s.orderbook[type]
<1>1. s.orderbook = [type \in PositionTypes |-> s.orderbook[type]]
  BY DEF BookOK
<1>2. /\ t.orderbook[side] = new /\ t.orderbook = [type \in PositionTypes |-> t.orderbook[type]]
      /\ \A type \in PositionTypes : type # side => t.orderbook[type] = s.orderbook[type]
  BY <1>1 DEF WithSide
<1>3. \A type \in PositionTypes : SideOK(s.orderbook[type], ToSet(s.users), k)
  <2>1. \A type \in PositionTypes : SideOK(s.orderbook[type], ToSet(s.users), n)
    BY DEF BookOK
  <2> QED BY <2>1, SideLater
<1>4. \A type \in PositionTypes : SideOK(t.orderbook[type], ToSet(t.users), k)
  BY <1>2, <1>3
<1> QED BY <1>2, <1>4 DEF BookOK

\* The book and the last price after qty is taken from the next order.
Hit(taker, m) ==
  [m.store EXCEPT !.lastTradedPrice = NextPrice(taker, m),
                  !.orderbook[Opposite(taker.type)] = Consume(@, NextPrice(taker, m), NextQty(taker, m))]

\* t has what the store had, without what the taker takes next.
NextTaken(taker, m, t) ==
  BookMoves(m.store, t, Opposite(taker.type), NextPrice(taker, m),
            {NextOrder(taker, m)}, Partial(NextOrder(taker, m), NextQty(taker, m)))

LEMMA HitFacts ==
  ASSUME NEW taker, taker.type \in PositionTypes, NEW m, NEW n \in Nat \ {0}, StoreOK(m.store, n),
         m.remaining \in Nat \ {0}, MatchPrices(m.store, taker) # {}
  PROVE  /\ StoreOK(Hit(taker, m), n)
         /\ Hit(taker, m).users = m.store.users /\ Hit(taker, m).indexPrice = m.store.indexPrice
         /\ Hit(taker, m).orderbook[taker.type] = m.store.orderbook[taker.type]
         /\ DOMAIN Hit(taker, m).orderbook[Opposite(taker.type)]
              \subseteq DOMAIN m.store.orderbook[Opposite(taker.type)]
         /\ All(Hit(taker, m)) =
              (All(m.store) \ {NextOrder(taker, m)}) \cup Partial(NextOrder(taker, m), NextQty(taker, m))
         /\ NextTaken(taker, m, Hit(taker, m))
         /\ Hit(taker, m).positions = m.store.positions /\ Hit(taker, m).collateral = m.store.collateral
<1> DEFINE side  == Opposite(taker.type)
           s     == m.store
           price == NextPrice(taker, m)
           open  == NextOrder(taker, m)
           qty   == NextQty(taker, m)
           hit   == Hit(taker, m)
           new   == Consume(s.orderbook[side], price, qty)
<1>0. StoreOK(s, n) /\ n \in Nat
  OBVIOUS
<1>1. /\ side \in PositionTypes /\ side # taker.type
      /\ price \in LimitPrices /\ price \in DOMAIN s.orderbook[side]
      /\ open \in At(s.orderbook[side], price)
      /\ open \in Orders(ToSet(s.users), n) /\ Remaining(open) \in Nat \ {0}
      /\ qty \in Nat \ {0} /\ qty <= Remaining(open)
  BY NextFacts
<1>2. open = Head(ListAt(s.orderbook[side], price))
  BY DEF NextOrder
<1>3. /\ hit.orderbook = WithSide(s, side, new)
      /\ hit.users = s.users /\ hit.indexPrice = s.indexPrice
      /\ hit.positions = s.positions /\ hit.collateral = s.collateral
      /\ hit.lastTradedPrice = price /\ Shaped(hit)
  <2>1. Shaped(s) /\ side \in DOMAIN s.orderbook
    BY <1>0, <1>1 DEF StoreOK, BookOK
  <2>2. hit = [s EXCEPT !.lastTradedPrice = price, !.orderbook = WithSide(s, side, new)]
    BY <2>1 DEF Hit, Shaped, WithSide
  <2> HIDE DEF hit, s, price, new, side
  <2> QED BY <2>1, <2>2 DEF Shaped
<1> HIDE DEF hit, open, price, qty, side, s
<1>4. SideOK(s.orderbook[side], ToSet(s.users), n)
  BY <1>0, <1>1 DEF StoreOK, BookOK
<1>5. SideOK(new, ToSet(s.users), n) /\ SideMoves(s.orderbook[side], new, price, {open}, Partial(open, qty))
  BY <1>0, <1>1, <1>2, <1>4, ConsumeTakes
<1>6. DOMAIN new \subseteq DOMAIN s.orderbook[side]
  <2>1. s.orderbook[side] = [p \in DOMAIN s.orderbook[side] |-> s.orderbook[side][p]]
    BY <1>4 DEF SideOK
  <2> QED BY <1>1, <2>1 DEF Consume
<1> HIDE DEF new
<1>7. BookOK(s, n) /\ RestsOnce(s) /\ AccountsOK(s)
  BY <1>0 DEF StoreOK
<1>8. /\ BookOK(hit, n) /\ hit.orderbook[side] = new
      /\ \A type \in PositionTypes : type # side => hit.orderbook[type] = s.orderbook[type]
  <2>1. n <= n
    BY <1>0
  <2> QED BY <1>0, <1>1, <1>3, <1>5, <1>7, <2>1, SideReplaced
<1>9. /\ RestsOnce(hit) /\ All(hit) = (All(s) \ {open}) \cup Partial(open, qty)
      /\ BookMoves(s, hit, side, price, {open}, Partial(open, qty))
  <2>1. open \in All(s)
    BY <1>1, InAll
  <2>2. \A x \in Partial(open, qty) : x.orderId = open.orderId
    <3>1. qty # Remaining(open) => qty < Remaining(open)
      BY <1>1
    <3>2. qty # Remaining(open) => Partly(open, qty).orderId = open.orderId
      BY <1>0, <1>1, <3>1, PartlyIs
    <3> QED BY <3>2 DEF Partial
  <2>3. \A o \in All(s) : o.orderId = open.orderId => o = open
    BY <1>0, <1>7, <2>1, AllFacts
  <2>4. \A x \in Partial(open, qty) : \A o \in All(s) : o.orderId = x.orderId => o \in {open}
    BY <2>2, <2>3
  <2>5. \A x, y \in Partial(open, qty) : x = y
    BY DEF Partial
  <2>6. SideMoves(s.orderbook[side], hit.orderbook[side], price, {open}, Partial(open, qty))
    BY <1>5, <1>8
  <2>7. {open} \subseteq At(s.orderbook[side], price)
    BY <1>1
  <2> DEFINE gone == {open}
             more == Partial(open, qty)
  <2>8. BookMoves(s, hit, side, price, gone, more)
    BY <1>8, <2>4, <2>5, <2>6, <2>7 DEF BookMoves
  <2> HIDE DEF gone, more
  <2>9. RestsOnce(hit) /\ All(hit) = (All(s) \ gone) \cup more
    BY <1>1, <1>7, <2>8, BookChanged
  <2> QED BY <2>8, <2>9 DEF gone, more
<1>10. AccountsOK(hit)
  BY <1>1, <1>3, <1>7 DEF AccountsOK
<1>11. StoreOK(hit, n)
  BY <1>3, <1>8, <1>9, <1>10 DEF StoreOK
<1>12. hit.orderbook[taker.type] = s.orderbook[taker.type]
  BY <1>1, <1>8
<1>13. NextTaken(taker, m, hit)
  BY <1>9 DEF NextTaken, open, price, qty, side, s
<1> QED BY <1>3, <1>6, <1>8, <1>9, <1>11, <1>12, <1>13 DEF hit, open, price, qty, side, s

\* k is the match m after its taker has met the next order.
Met(taker, m, k, n) ==
  /\ StoreOK(k.store, n)
  /\ k.store.users = m.store.users /\ k.store.indexPrice = m.store.indexPrice
  /\ k.store.orderbook[taker.type] = m.store.orderbook[taker.type]
  /\ DOMAIN k.store.orderbook[Opposite(taker.type)] \subseteq DOMAIN m.store.orderbook[Opposite(taker.type)]
  /\ All(k.store) = (All(m.store) \ {NextOrder(taker, m)}) \cup Partial(NextOrder(taker, m), NextQty(taker, m))
  /\ NextTaken(taker, m, k.store)
  /\ Balance(m.store) \in Int
  /\ Balance(k.store) = Balance(m.store) + Signed(Opposite(taker.type), NextQty(taker, m))
  /\ \A v : v # NextOrder(taker, m).userId => Untouched(m.store, k.store, v)
  /\ k.remaining = m.remaining - NextQty(taker, m)
  /\ k.paid = m.paid + NextPrice(taker, m) * NextQty(taker, m)
  /\ k.fills = Append(m.fills, NextFill(taker, m))
  /\ k.updates = Append(m.updates, NextUpdate(taker, m))

LEMMA MatchNextMeets ==
  ASSUME NEW taker, taker.type \in PositionTypes, NEW m, NEW n \in Nat \ {0}, StoreOK(m.store, n),
         m.remaining \in Nat \ {0}, MatchPrices(m.store, taker) # {}
  PROVE  Met(taker, m, MatchNext(taker, m), n)
<1> DEFINE side  == Opposite(taker.type)
           s     == m.store
           price == NextPrice(taker, m)
           open  == NextOrder(taker, m)
           qty   == NextQty(taker, m)
           hit   == Hit(taker, m)
           margin == RelativeMargin(open.margin, open.qty, qty)
           t     == CreatePosition(hit, open.userId, side, qty, margin, price)
           k     == MatchNext(taker, m)
<1>1. /\ side \in PositionTypes /\ price \in Nat
      /\ open \in Orders(ToSet(s.users), n) /\ qty \in Nat \ {0}
  BY NextFacts
<1>2. /\ StoreOK(hit, n) /\ hit.users = s.users /\ hit.indexPrice = s.indexPrice
      /\ hit.orderbook[taker.type] = s.orderbook[taker.type]
      /\ DOMAIN hit.orderbook[side] \subseteq DOMAIN s.orderbook[side]
      /\ All(hit) = (All(s) \ {open}) \cup Partial(open, qty)
      /\ hit.positions = s.positions /\ hit.collateral = s.collateral
  BY HitFacts
<1>3. k = [store |-> t, remaining |-> m.remaining - qty, paid |-> m.paid + price * qty,
           fills |-> Append(m.fills, NextFill(taker, m)), updates |-> Append(m.updates, NextUpdate(taker, m))]
  BY DEF MatchNext, Hit, NextPrice, NextOrder, NextQty, NextFill, NextUpdate, ListAt, FirstCreated
<1> HIDE DEF side, price, open, qty, hit, s, k
<1>4. open.margin \in Int /\ open.qty \in Nat \ {0} /\ open.userId \in ToSet(hit.users)
  BY <1>1, <1>2 DEF Orders
<1>5. margin \in Int
  BY <1>1, <1>4, MarginType
<1> HIDE DEF margin
<1>6. Trades(hit, t, open.userId, Signed(side, qty))
  <2>1. Shaped(hit) /\ AccountsOK(hit) /\ price \in Int
    BY <1>1, <1>2 DEF StoreOK
  <2> QED BY <1>1, <1>4, <1>5, <2>1, CreatePositionTrades
<1> HIDE DEF t
<1>7. StoreOK(t, n) /\ All(t) = All(hit) /\ t.orderbook = hit.orderbook /\ t.users = hit.users
  <2>1. SameBook(hit, t)
    BY <1>6 DEF Trades, SameBook
  <2>2. BookOK(t, n) /\ RestsOnce(t) /\ All(t) = All(hit)
    BY <1>2, <2>1, SameBookKeeps DEF StoreOK
  <2> QED BY <1>6, <2>1, <2>2 DEF StoreOK, Trades, SameBook
<1>8. Balance(hit) = Balance(s)
  BY <1>2 DEF Balance, Exposure
<1>9. \A v : v # open.userId => Untouched(s, t, v)
  BY <1>2, <1>6 DEF Trades, Untouched
<1>10. /\ k.store = t /\ k.remaining = m.remaining - qty /\ k.paid = m.paid + price * qty
       /\ k.fills = Append(m.fills, NextFill(taker, m)) /\ k.updates = Append(m.updates, NextUpdate(taker, m))
  BY <1>3
<1>11. /\ t.indexPrice = s.indexPrice /\ Balance(s) \in Int /\ Balance(t) = Balance(s) + Signed(side, qty)
  BY <1>2, <1>6, <1>8 DEF Trades
<1>12. NextTaken(taker, m, t)
  <2>1. NextTaken(taker, m, hit) /\ t.orderbook = hit.orderbook
    BY <1>7, HitFacts DEF hit
  <2> QED BY <2>1 DEF NextTaken, BookMoves
<1> QED BY <1>2, <1>3, <1>7, <1>9, <1>10, <1>11, <1>12 DEF Met, side, price, open, qty, s, k

-----------------------------------------------------------------------------
(* The matching loop.                                                      *)

LEMMA ToSetAppend ==
  ASSUME NEW S, NEW q \in Seq(S), NEW x \in S
  PROVE  Append(q, x) \in Seq(S) /\ ToSet(Append(q, x)) = ToSet(q) \cup {x}
<1> DEFINE r == Append(q, x)
<1>1. /\ r \in Seq(S) /\ Len(q) \in Nat /\ Len(r) = Len(q) + 1
      /\ \A i \in 1..Len(q) : r[i] = q[i]
      /\ r[Len(q) + 1] = x
  BY AppendProperties
<1>2. DOMAIN q = 1..Len(q) /\ DOMAIN r = 1..(Len(q) + 1)
  BY <1>1
<1> HIDE DEF r
<1>3. DOMAIN r = DOMAIN q \cup {Len(q) + 1}
  BY <1>1, <1>2
<1>4. ToSet(r) = ToSet(q) \cup {x}
  BY <1>1, <1>2, <1>3 DEF ToSet
<1> QED BY <1>1, <1>4 DEF r

Start(taker, s) == [store |-> s, remaining |-> taker.qty, paid |-> 0, fills |-> <<>>, updates |-> <<>>]

\* The matches the loop goes through.
Runs(m, taker, s, n) ==
  m = [i \in 0..n |-> IF i = 0 THEN Start(taker, s) ELSE MatchNext(taker, m[i - 1])]

LEMMA RunsExist ==
  ASSUME NEW taker, NEW s
  PROVE  \A n \in Nat : \E m : Runs(m, taker, s, n)
<1> DEFINE N == {n \in Nat : \E m : Runs(m, taker, s, n)}
<1>1. 0 \in N
  <2> DEFINE m == [i \in 0..0 |-> Start(taker, s)]
  <2>1. m = [i \in 0..0 |-> IF i = 0 THEN Start(taker, s) ELSE MatchNext(taker, m[i - 1])]
    OBVIOUS
  <2> QED BY <2>1 DEF Runs
<1>2. ASSUME NEW n \in N PROVE n + 1 \in N
  <2>1. PICK m : Runs(m, taker, s, n)
    BY <1>2
  <2> DEFINE k == [i \in 0..(n + 1) |-> IF i = 0 THEN Start(taker, s) ELSE MatchNext(taker, m[i - 1])]
  <2>2. \A i \in 0..n : k[i] = m[i]
    BY <2>1 DEF Runs
  <2>3. \A i \in 0..(n + 1) : i # 0 => i - 1 \in 0..n
    OBVIOUS
  <2>4. k = [i \in 0..(n + 1) |-> IF i = 0 THEN Start(taker, s) ELSE MatchNext(taker, k[i - 1])]
    BY <2>2, <2>3
  <2>5. n + 1 \in Nat
    OBVIOUS
  <2> QED BY <2>4, <2>5 DEF Runs
<1>3. N \in SUBSET Nat
  OBVIOUS
<1>4. N = Nat
  <2> HIDE DEF N
  <2> QED BY <1>1, <1>2, <1>3, SetInduction
<1> QED BY <1>4

LEMMA MatchLoopRuns ==
  ASSUME NEW taker, NEW s, taker.id \in Nat
  PROVE  \E m : /\ m[0] = Start(taker, s)
                /\ \A i \in Nat : i < taker.id => m[i + 1] = MatchNext(taker, m[i])
                /\ MatchLoop(taker, s) = m[taker.id]
<1> DEFINE Q(h) == h = [i \in 0..taker.id |-> IF i = 0 THEN Start(taker, s) ELSE MatchNext(taker, h[i - 1])]
           m == CHOOSE h : Q(h)
<1>1. MatchLoop(taker, s) = m[taker.id]
  BY DEF MatchLoop, Start
<1>2. \E h : Q(h)
  BY RunsExist DEF Runs
<1> HIDE DEF Q
<1>3. Q(m)
  BY <1>2
<1> HIDE DEF m
<1>4. m = [i \in 0..taker.id |-> IF i = 0 THEN Start(taker, s) ELSE MatchNext(taker, m[i - 1])]
  BY <1>3 DEF Q
<1>5. m[0] = Start(taker, s)
  BY <1>4
<1>6. ASSUME NEW i \in Nat, i < taker.id PROVE m[i + 1] = MatchNext(taker, m[i])
  <2>1. i + 1 \in 0..taker.id /\ i + 1 # 0 /\ (i + 1) - 1 = i
    BY <1>6
  <2> QED BY <1>4, <2>1
<1> QED BY <1>1, <1>5, <1>6

Fills == [makerId : Users, takerId : Users, makerOrderId : Nat, qty : Nat, takerOrderId : Nat, price : Nat]
Makers(fills) == {f.makerId : f \in ToSet(fills)}
OrdersOf(s, u) == {o \in All(s) : o.userId = u}

\* An order a request may send to the matching loop.
TakerOK(taker, s) ==
  /\ taker.id \in Nat \ {0} /\ taker.userId \in ToSet(s.users) /\ taker.type \in PositionTypes
  /\ taker.kind \in {"limit", "market"}
  /\ taker.kind = "limit" => taker.price \in LimitPrices /\ taker.qty \in Quantities /\ taker.id <= MaxOrders
  /\ taker.qty \in Nat \ {0} /\ taker.margin \in Nat

\* What is true of a match in progress that began with the store s.
MatchOK(taker, s, m) ==
  /\ StoreOK(m.store, taker.id)
  /\ m.store.users = s.users /\ m.store.indexPrice = s.indexPrice
  /\ m.store.orderbook[taker.type] = s.orderbook[taker.type]
  /\ DOMAIN m.store.orderbook[Opposite(taker.type)] \subseteq DOMAIN s.orderbook[Opposite(taker.type)]
  /\ m.remaining \in 0..taker.qty /\ m.paid \in Nat
  /\ Balance(s) \in Int /\ Balance(m.store) \in Int
  /\ Balance(m.store) = Balance(s) - Signed(taker.type, taker.qty - m.remaining)
  /\ m.fills \in Seq(Fills) /\ \A f \in ToSet(m.fills) : f.makerId \in ToSet(s.users) /\ f.takerId = taker.userId
  /\ m.remaining = taker.qty <=> ToSet(m.fills) = {}
  /\ \A v : v \notin Makers(m.fills) => Untouched(s, m.store, v) /\ OrdersOf(m.store, v) = OrdersOf(s, v)

LEMMA BalanceType ==
  ASSUME NEW s, AccountsOK(s)
  PROVE  Balance(s) \in Int
<1> DEFINE f == [u \in ToSet(s.users) |-> Exposure(s, u)]
<1>1. IsFiniteSet(ToSet(s.users)) /\ \A u \in ToSet(s.users) : f[u] \in Int
  BY UsersFinite
<1>2. Balance(s) = SumFunctionOnSet(f, ToSet(s.users))
  BY DEF Balance, SumFunction
<1> HIDE DEF f
<1> QED BY <1>1, <1>2, SumType

LEMMA MatchStarts ==
  ASSUME NEW s, NEW taker, TakerOK(taker, s), StoreOK(s, taker.id)
  PROVE  MatchOK(taker, s, Start(taker, s))
<1> DEFINE m == Start(taker, s)
<1>1. m.store = s /\ m.remaining = taker.qty /\ m.paid = 0 /\ m.fills = <<>>
  BY DEF Start
<1>2. <<>> \in Seq(Fills) /\ ToSet(<<>>) = {}
  BY DEF ToSet
<1>3. Balance(s) \in Int
  BY BalanceType DEF StoreOK
<1>4. taker.qty \in Nat \ {0} /\ taker.qty - taker.qty = 0
  BY DEF TakerOK
<1>5. Balance(s) - Signed(taker.type, 0) = Balance(s)
  BY <1>3 DEF Signed
<1> HIDE DEF m
<1>6. m.fills \in Seq(Fills) /\ ToSet(m.fills) = {}
  BY <1>1, <1>2
<1>7. \A v : Untouched(s, m.store, v) /\ OrdersOf(m.store, v) = OrdersOf(s, v)
  BY <1>1 DEF Untouched
<1>8. m.remaining \in 0..taker.qty /\ m.paid \in Nat /\ (m.remaining = taker.qty <=> ToSet(m.fills) = {})
  BY <1>1, <1>4, <1>6
<1>9. Balance(m.store) \in Int /\ Balance(m.store) = Balance(s) - Signed(taker.type, taker.qty - m.remaining)
  BY <1>1, <1>3, <1>4, <1>5
<1> QED BY <1>1, <1>3, <1>6, <1>7, <1>8, <1>9 DEF MatchOK, m

LEMMA MatchGoesOn ==
  ASSUME NEW s, NEW taker, TakerOK(taker, s), NEW m, MatchOK(taker, s, m)
  PROVE  MatchOK(taker, s, MatchNext(taker, m))
<1>1. CASE m.remaining = 0 \/ MatchPrices(m.store, taker) = {}
  <2>1. MatchNext(taker, m) = m
    BY <1>1 DEF MatchNext
  <2> QED BY <2>1
<1>2. CASE ~(m.remaining = 0 \/ MatchPrices(m.store, taker) = {})
  <2> DEFINE k == MatchNext(taker, m)
             side == Opposite(taker.type)
             open == NextOrder(taker, m)
             qty  == NextQty(taker, m)
             price == NextPrice(taker, m)
             fill == NextFill(taker, m)
  <2>0. /\ taker.type \in PositionTypes /\ taker.id \in Nat \ {0} /\ StoreOK(m.store, taker.id)
        /\ m.remaining \in Nat \ {0} /\ m.remaining <= taker.qty /\ MatchPrices(m.store, taker) # {}
        /\ taker.qty \in Nat \ {0} /\ taker.userId \in ToSet(s.users)
        /\ m.paid \in Nat
    BY <1>2 DEF MatchOK, TakerOK
  <2>1. Met(taker, m, k, taker.id)
    BY <2>0, MatchNextMeets
  <2>2. /\ side \in PositionTypes /\ side # taker.type /\ price \in Nat \ {0}
        /\ open \in Orders(ToSet(m.store.users), taker.id) /\ open \in At(m.store.orderbook[side], price)
        /\ Remaining(open) \in Nat \ {0}
        /\ qty \in Nat \ {0} /\ qty <= Remaining(open) /\ qty <= m.remaining
    BY <2>0, NextFacts
  <2> HIDE DEF k, open, qty, price
  <2>3. k.remaining \in 0..taker.qty /\ k.remaining # taker.qty
    BY <2>0, <2>1, <2>2 DEF Met, qty
  <2>4. k.paid \in Nat
    <3>1. k.paid = m.paid + price * qty
      BY <2>1 DEF Met, price, qty
    <3>2. price * qty \in Nat
      BY <2>2
    <3> QED BY <2>0, <3>1, <3>2
  <2>5. Balance(k.store) \in Int /\ Balance(k.store) = Balance(s) - Signed(taker.type, taker.qty - k.remaining)
    <3>1. /\ Balance(s) \in Int /\ Balance(m.store) \in Int /\ Balance(m.store) = Balance(s) - Signed(taker.type, taker.qty - m.remaining)
      BY DEF MatchOK
    <3>2. Balance(k.store) = Balance(m.store) + Signed(side, qty) /\ k.remaining = m.remaining - qty
      BY <2>1 DEF Met, qty
    <3>3. Signed(side, qty) = - Signed(taker.type, qty)
      BY <2>0, <2>2 DEF Signed, PositionTypes, LONG, SHORT
    <3>4. Signed(taker.type, taker.qty - k.remaining) = Signed(taker.type, taker.qty - m.remaining) + Signed(taker.type, qty)
      BY <2>0, <2>2, <3>2 DEF Signed
    <3>5. Balance(s) \in Int /\ Signed(taker.type, qty) \in Int /\ Signed(taker.type, taker.qty - m.remaining) \in Int
      <4>1. Signed(taker.type, qty) \in Int /\ Signed(taker.type, taker.qty - m.remaining) \in Int
        BY <2>0, <2>2 DEF Signed
      <4> QED BY <3>1, <4>1
    <3> QED BY <3>1, <3>2, <3>3, <3>4, <3>5
  <2>6. /\ k.fills \in Seq(Fills) /\ ToSet(k.fills) = ToSet(m.fills) \cup {fill}
        /\ fill.makerId = open.userId /\ fill.takerId = taker.userId /\ open.userId \in ToSet(s.users)
    <3>1. /\ open.userId \in ToSet(s.users) /\ open.orderId \in Nat
      BY <2>2 DEF Orders, MatchOK
    <3>2. ToSet(s.users) \subseteq Users
      <4>1. AccountsOK(m.store) /\ m.store.users = s.users
        BY DEF MatchOK, StoreOK
      <4>2. ToSet(m.store.users) \subseteq Users
        BY <4>1, UsersFinite
      <4> QED BY <4>1, <4>2
    <3>3. fill \in Fills /\ fill.makerId = open.userId /\ fill.takerId = taker.userId
      BY <2>0, <2>2, <3>1, <3>2 DEF NextFill, Fills, open, qty, price
    <3>4. m.fills \in Seq(Fills) /\ k.fills = Append(m.fills, fill)
      BY <2>1 DEF Met, MatchOK
    <3> HIDE DEF fill
    <3> QED BY <3>1, <3>3, <3>4, ToSetAppend
  <2> HIDE DEF fill
  <2>7. \A f \in ToSet(k.fills) : f.makerId \in ToSet(s.users) /\ f.takerId = taker.userId
    BY <2>6 DEF MatchOK
  <2>8. ASSUME NEW v, v \notin Makers(k.fills)
        PROVE  Untouched(s, k.store, v) /\ OrdersOf(k.store, v) = OrdersOf(s, v)
    <3>1. v # open.userId /\ v \notin Makers(m.fills)
      BY <2>6, <2>8 DEF Makers
    <3>2. Untouched(s, m.store, v) /\ OrdersOf(m.store, v) = OrdersOf(s, v)
      BY <3>1 DEF MatchOK
    <3>3. Untouched(m.store, k.store, v)
      BY <2>1, <3>1 DEF Met, open
    <3>4. Untouched(s, k.store, v)
      BY <3>2, <3>3 DEF Untouched
    <3>5. All(k.store) = (All(m.store) \ {open}) \cup Partial(open, qty)
      BY <2>1 DEF Met, open, qty
    <3>6. \A x \in Partial(open, qty) : x.userId = open.userId
      BY <2>2 DEF Partial, Partly, Orders
    <3>7. OrdersOf(k.store, v) = OrdersOf(m.store, v)
      BY <3>1, <3>5, <3>6 DEF OrdersOf
    <3> QED BY <3>2, <3>4, <3>7
  <2>9. /\ StoreOK(k.store, taker.id)
        /\ k.store.users = s.users /\ k.store.indexPrice = s.indexPrice
        /\ k.store.orderbook[taker.type] = s.orderbook[taker.type]
        /\ DOMAIN k.store.orderbook[side] \subseteq DOMAIN s.orderbook[side]
    BY <2>1 DEF Met, MatchOK
  <2>10. k.remaining = taker.qty <=> ToSet(k.fills) = {}
    BY <2>3, <2>6
  <2>11. MatchOK(taker, s, k)
    <3>1. Balance(s) \in Int
      BY DEF MatchOK
    <3> QED BY <3>1, <2>3, <2>4, <2>5, <2>6, <2>7, <2>8, <2>9, <2>10 DEF MatchOK
  <2> QED BY <2>11 DEF k
<1> QED BY <1>1, <1>2

LEMMA MatchLoopOK ==
  ASSUME NEW s, NEW taker, TakerOK(taker, s), StoreOK(s, taker.id)
  PROVE  MatchOK(taker, s, MatchLoop(taker, s))
<1>0. taker.id \in Nat
  BY DEF TakerOK
<1>1. PICK m : /\ m[0] = Start(taker, s)
               /\ \A i \in Nat : i < taker.id => m[i + 1] = MatchNext(taker, m[i])
               /\ MatchLoop(taker, s) = m[taker.id]
  BY <1>0, MatchLoopRuns
<1> DEFINE N == {i \in Nat : i <= taker.id => MatchOK(taker, s, m[i])}
<1>2. 0 \in N
  BY <1>1, MatchStarts
<1>3. ASSUME NEW i \in N PROVE i + 1 \in N
  <2> SUFFICES ASSUME i + 1 <= taker.id PROVE MatchOK(taker, s, m[i + 1])
    OBVIOUS
  <2>1. i \in Nat /\ i < taker.id /\ i <= taker.id
    BY <1>0
  <2>2. MatchOK(taker, s, m[i])
    BY <2>1
  <2>3. m[i + 1] = MatchNext(taker, m[i])
    BY <1>1, <2>1
  <2> QED BY <2>2, <2>3, MatchGoesOn
<1>4. N \in SUBSET Nat
  OBVIOUS
<1>5. N = Nat
  <2> HIDE DEF N
  <2> QED BY <1>2, <1>3, <1>4, SetInduction
<1>6. MatchOK(taker, s, m[taker.id])
  BY <1>0, <1>5
<1> QED BY <1>1, <1>6

-----------------------------------------------------------------------------
(* What an order leaves.                                                   *)

LEMMA StoreLater ==
  ASSUME NEW s, NEW n \in Nat, NEW k \in Nat, n <= k, StoreOK(s, n)
  PROVE  StoreOK(s, k)
<1>1. BookOK(s, n)
  BY DEF StoreOK
<1>2. \A type \in PositionTypes : SideOK(s.orderbook[type], ToSet(s.users), k)
  <2>1. \A type \in PositionTypes : SideOK(s.orderbook[type], ToSet(s.users), n)
    BY <1>1 DEF BookOK
  <2> QED BY <2>1, SideLater
<1>3. BookOK(s, k)
  BY <1>1, <1>2 DEF BookOK
<1> QED BY <1>3 DEF StoreOK

\* The taker's position takes what was filled; the trade is then balanced.
LEMMA TakerPositionBalances ==
  ASSUME NEW s, NEW taker, TakerOK(taker, s), NEW m, MatchOK(taker, s, m),
         NEW t, t = TakerPosition(taker, m.store, taker.qty - m.remaining, m.paid)
  PROVE  /\ StoreOK(t, taker.id) /\ SameBook(m.store, t) /\ All(t) = All(m.store)
         /\ t.indexPrice = m.store.indexPrice
         /\ Balance(t) = Balance(s)
         /\ \A v : v # taker.userId \/ m.remaining = taker.qty => Untouched(m.store, t, v)
<1> DEFINE filled == taker.qty - m.remaining
           margin == RelativeMargin(taker.margin, taker.qty, filled)
           price  == RoundedQuotient(m.paid, filled)
<1>0. /\ StoreOK(m.store, taker.id) /\ m.store.users = s.users
      /\ taker.qty \in Nat \ {0} /\ m.remaining \in 0..taker.qty /\ m.paid \in Nat
      /\ taker.userId \in ToSet(m.store.users) /\ taker.type \in PositionTypes /\ taker.margin \in Nat
      /\ Balance(s) \in Int /\ Balance(m.store) = Balance(s) - Signed(taker.type, filled)
  BY DEF MatchOK, TakerOK
<1>1. filled \in Nat /\ (filled = 0 <=> m.remaining = taker.qty)
  BY <1>0
<1>2. CASE filled = 0
  <2>1. t = m.store
    BY <1>2 DEF TakerPosition
  <2>2. Balance(t) = Balance(s)
    <3>1. Signed(taker.type, filled) = 0
      BY <1>2 DEF Signed
    <3> QED BY <1>0, <2>1, <3>1
  <2> QED BY <1>0, <2>1, <2>2 DEF SameBook, Untouched
<1>3. CASE filled # 0
  <2>1. t = CreatePosition(m.store, taker.userId, taker.type, filled, margin, price)
    BY <1>3 DEF TakerPosition
  <2>2. filled \in Nat \ {0}
    BY <1>1, <1>3
  <2>3. margin \in Int /\ price \in Int
    <3>1. taker.margin \in Int /\ m.paid \in Int
      BY <1>0
    <3> HIDE DEF filled
    <3> QED BY <1>0, <2>2, <3>1, MarginType, QuotientType
  <2> HIDE DEF filled, margin, price
  <2>4. Shaped(m.store) /\ AccountsOK(m.store)
    BY <1>0 DEF StoreOK
  <2>5. Trades(m.store, t, taker.userId, Signed(taker.type, filled))
    BY <1>0, <2>1, <2>2, <2>3, <2>4, CreatePositionTrades
  <2>6. SameBook(m.store, t)
    BY <2>5 DEF Trades, SameBook
  <2>7. BookOK(t, taker.id) /\ RestsOnce(t) /\ All(t) = All(m.store)
    BY <1>0, <2>6, SameBookKeeps DEF StoreOK
  <2>8. StoreOK(t, taker.id)
    BY <2>5, <2>7 DEF StoreOK, Trades
  <2>9. Balance(t) = Balance(s)
    <3>1. Balance(t) = Balance(m.store) + Signed(taker.type, filled) /\ Signed(taker.type, filled) \in Int
      BY <2>2, <2>5 DEF Trades, Signed
    <3> QED BY <1>0, <3>1
  <2> QED BY <1>1, <1>3, <2>5, <2>6, <2>7, <2>8, <2>9 DEF Trades
<1> QED BY <1>2, <1>3

\* What comes to the book of the taker's order.
Resting(taker, remaining) ==
  IF remaining = 0 \/ taker.kind = "market" THEN {}
  ELSE {[orderId |-> taker.id, userId |-> taker.userId, qty |-> taker.qty,
         filledQty |-> taker.qty - remaining, margin |-> RelativeMargin(taker.margin, taker.qty, remaining)]}

LEMMA RestRests ==
  ASSUME NEW s, NEW taker, TakerOK(taker, s), StoreOK(s, taker.id), NEW remaining \in 0..taker.qty,
         NEW t, t = Rest(taker, s, remaining)
  PROVE  /\ StoreOK(t, taker.id + 1) /\ All(t) = All(s) \cup Resting(taker, remaining)
         /\ t.users = s.users /\ t.indexPrice = s.indexPrice
         /\ t.positions = s.positions /\ t.collateral = s.collateral
         /\ \A type \in PositionTypes : type # taker.type \/ taker.kind = "market" => t.orderbook[type] = s.orderbook[type]
         /\ IF remaining = 0 \/ taker.kind = "market"
              THEN t = s
              ELSE BookMoves(s, t, taker.type, taker.price, {}, Resting(taker, remaining))
<1>0. /\ taker.id \in Nat \ {0} /\ taker.qty \in Nat \ {0} /\ taker.userId \in ToSet(s.users)
      /\ taker.type \in PositionTypes /\ taker.margin \in Nat /\ taker.kind \in {"limit", "market"}
      /\ taker.kind = "limit" => taker.price \in LimitPrices /\ taker.qty \in Quantities /\ taker.id <= MaxOrders
      /\ taker.id \in Nat /\ taker.id + 1 \in Nat /\ taker.id <= taker.id + 1
  BY DEF TakerOK
<1>1. CASE remaining = 0 \/ taker.kind = "market"
  <2>1. t = s /\ Resting(taker, remaining) = {}
    BY <1>1 DEF Rest, Resting
  <2>2. StoreOK(s, taker.id + 1)
    BY <1>0, StoreLater
  <2> QED BY <1>1, <2>1, <2>2
<1>2. CASE ~(remaining = 0 \/ taker.kind = "market")
  <2> DEFINE x == [orderId |-> taker.id, userId |-> taker.userId, qty |-> taker.qty,
                   filledQty |-> taker.qty - remaining,
                   margin |-> RelativeMargin(taker.margin, taker.qty, remaining)]
             side == taker.type
             new == AddToBook(s.orderbook[side], taker.price, x)
             us == ToSet(s.users)
             n == taker.id
  <2>1. remaining \in Nat /\ taker.price \in LimitPrices /\ taker.qty - remaining \in Nat /\ taker.qty - remaining < taker.qty
    BY <1>0, <1>2
  <2>2. RelativeMargin(taker.margin, taker.qty, remaining) \in Nat
    <3>1. taker.margin \in Int
      BY <1>0
    <3> QED BY <1>0, <2>1, <3>1, MarginType
  <2>3. x \in Orders(us, n + 1) /\ x.orderId = n /\ x.filledQty < x.qty
    <3>1. n \in (1..((n + 1) - 1)) \cap (1..MaxOrders) /\ taker.qty \in Quantities \cap (Nat \ {0})
      BY <1>0, <1>2, EngineAssumption
    <3> QED BY <1>0, <2>1, <2>2, <3>1 DEF Orders
  <2>4. Resting(taker, remaining) = {x}
    BY <1>2 DEF Resting
  <2>5. Shaped(s) /\ AccountsOK(s) /\ BookOK(s, n) /\ RestsOnce(s) /\ SideOK(s.orderbook[side], us, n)
    BY <1>0 DEF StoreOK, BookOK
  <2>6. /\ t.orderbook = WithSide(s, side, new) /\ Shaped(t)
        /\ t.users = s.users /\ t.indexPrice = s.indexPrice /\ t.lastTradedPrice = s.lastTradedPrice
        /\ t.positions = s.positions /\ t.collateral = s.collateral
    <3>1. side \in DOMAIN s.orderbook
      BY <1>0, <2>5 DEF BookOK
    <3>2. t = [s EXCEPT !.orderbook = WithSide(s, side, new)]
      BY <1>2, <2>5, <3>1 DEF Rest, WithSide, Shaped
    <3> HIDE DEF new, side, x
    <3> QED BY <2>5, <3>2 DEF Shaped
  <2>60. n \in Nat \ {0} /\ n \in Nat /\ n + 1 \in Nat /\ n <= n + 1 /\ side \in PositionTypes
    BY <1>0
  <2> HIDE DEF x, side, us, n
  <2>7. SideOK(new, us, n + 1) /\ SideMoves(s.orderbook[side], new, taker.price, {}, {x})
    BY <2>1, <2>3, <2>5, <2>60, AddToBookAdds
  <2> HIDE DEF new
  <2>8. /\ BookOK(t, n + 1) /\ t.orderbook[side] = new
        /\ \A type \in PositionTypes : type # side => t.orderbook[type] = s.orderbook[type]
    <3> DEFINE k == n + 1
    <3>1. k \in Nat /\ n <= k /\ SideOK(new, ToSet(s.users), k)
      BY <2>7, <2>60 DEF us
    <3> HIDE DEF k
    <3>2. /\ BookOK(t, k) /\ t.orderbook[side] = new
          /\ \A type \in PositionTypes : type # side => t.orderbook[type] = s.orderbook[type]
      BY <2>5, <2>6, <2>60, <3>1, SideReplaced
    <3> QED BY <3>2 DEF k
  <2>9. RestsOnce(t) /\ All(t) = (All(s) \ {}) \cup {x} /\ BookMoves(s, t, side, taker.price, {}, {x})
    <3>1. \A o \in All(s) : o.orderId # x.orderId
      <4>1. \A o \in All(s) : o.orderId # n
        BY <2>5, <2>60, AllFacts
      <4> QED BY <2>3, <4>1
    <3> DEFINE gone == {}
               more == {x}
    <3>2. BookMoves(s, t, side, taker.price, gone, more)
      BY <2>7, <2>8, <3>1 DEF BookMoves
    <3> HIDE DEF gone, more
    <3>3. RestsOnce(t) /\ All(t) = (All(s) \ gone) \cup more
      BY <2>5, <2>60, <3>2, BookChanged
    <3> QED BY <3>2, <3>3 DEF gone, more
  <2>10. AccountsOK(t)
    BY <2>5, <2>6 DEF AccountsOK
  <2>11. StoreOK(t, n + 1) /\ All(t) = All(s) \cup Resting(taker, remaining)
    BY <2>4, <2>6, <2>8, <2>9, <2>10 DEF StoreOK
  <2>12. BookMoves(s, t, taker.type, taker.price, {}, Resting(taker, remaining))
    BY <2>4, <2>9 DEF side
  <2> QED BY <1>2, <2>6, <2>8, <2>11, <2>12 DEF side, n
<1> QED BY <1>1, <1>2

\* What is known of the store and the rows r that the taker's order leaves.
OrderDone(taker, s, r) ==
  /\ StoreOK(r.store, taker.id + 1)
  /\ r.store.users = s.users /\ r.store.indexPrice = s.indexPrice
  /\ Balance(r.store) = Balance(s)
  /\ r.fills \in Seq(Fills) /\ \A f \in ToSet(r.fills) : f.makerId \in ToSet(s.users) /\ f.takerId = taker.userId
  /\ \A v : v \notin Makers(r.fills) /\ v # taker.userId => Untouched(s, r.store, v) /\ OrdersOf(r.store, v) = OrdersOf(s, v)
  /\ ToSet(r.fills) = {} =>
       /\ Untouched(s, r.store, taker.userId)
       /\ OrdersOf(r.store, taker.userId) = OrdersOf(s, taker.userId) \cup Resting(taker, taker.qty)
  /\ taker.kind = "market" =>
       \A type \in PositionTypes : DOMAIN r.store.orderbook[type] \subseteq DOMAIN s.orderbook[type]

LEMMA MatchOrderDone ==
  ASSUME NEW s, NEW taker, TakerOK(taker, s), StoreOK(s, taker.id)
  PROVE  OrderDone(taker, s, MatchOrder(taker, s))
<1> DEFINE m == MatchLoop(taker, s)
           t == TakerPosition(taker, m.store, taker.qty - m.remaining, m.paid)
           z == Rest(taker, t, m.remaining)
           r == MatchOrder(taker, s)
<1>1. MatchOK(taker, s, m)
  BY MatchLoopOK
<1>2. r.store = z /\ r.fills = m.fills
  BY DEF MatchOrder, Settled
<1> HIDE DEF m, t, z, r
<1>3. /\ StoreOK(t, taker.id) /\ SameBook(m.store, t) /\ All(t) = All(m.store)
      /\ t.indexPrice = m.store.indexPrice
      /\ Balance(t) = Balance(s)
      /\ \A v : v # taker.userId \/ m.remaining = taker.qty => Untouched(m.store, t, v)
  BY <1>1, TakerPositionBalances DEF t
<1>4. m.remaining \in 0..taker.qty /\ t.users = s.users /\ t.indexPrice = s.indexPrice
  BY <1>1, <1>3 DEF MatchOK, SameBook
<1>5. TakerOK(taker, t)
  BY <1>4 DEF TakerOK
<1>6. /\ StoreOK(z, taker.id + 1) /\ All(z) = All(t) \cup Resting(taker, m.remaining)
      /\ z.users = t.users /\ z.indexPrice = t.indexPrice
      /\ z.positions = t.positions /\ z.collateral = t.collateral
      /\ \A type \in PositionTypes : type # taker.type \/ taker.kind = "market" => z.orderbook[type] = t.orderbook[type]
  BY <1>3, <1>4, <1>5, RestRests DEF z
<1>7. Balance(z) = Balance(s)
  BY <1>3, <1>6 DEF Balance, Exposure
<1>8. /\ m.fills \in Seq(Fills) /\ \A f \in ToSet(m.fills) : f.makerId \in ToSet(s.users) /\ f.takerId = taker.userId
      /\ m.remaining = taker.qty <=> ToSet(m.fills) = {}
  BY <1>1 DEF MatchOK
<1>9. \A x \in Resting(taker, m.remaining) : x.userId = taker.userId
  BY DEF Resting
<1>10. ASSUME NEW v, v \notin Makers(m.fills), v # taker.userId \/ m.remaining = taker.qty
       PROVE  /\ Untouched(s, z, v)
              /\ OrdersOf(z, v) = OrdersOf(s, v) \cup {x \in Resting(taker, m.remaining) : x.userId = v}
  <2>1. Untouched(s, m.store, v) /\ OrdersOf(m.store, v) = OrdersOf(s, v)
    BY <1>1, <1>10 DEF MatchOK
  <2>2. Untouched(m.store, t, v)
    BY <1>3, <1>10
  <2>3. Untouched(s, z, v)
    BY <1>6, <2>1, <2>2 DEF Untouched
  <2>4. OrdersOf(z, v) = OrdersOf(s, v) \cup {x \in Resting(taker, m.remaining) : x.userId = v}
    BY <1>3, <1>6, <2>1 DEF OrdersOf
  <2> QED BY <2>3, <2>4
<1>11. \A v : v \notin Makers(m.fills) /\ v # taker.userId => Untouched(s, z, v) /\ OrdersOf(z, v) = OrdersOf(s, v)
  <2> SUFFICES ASSUME NEW v, v \notin Makers(m.fills), v # taker.userId
               PROVE  Untouched(s, z, v) /\ OrdersOf(z, v) = OrdersOf(s, v)
    OBVIOUS
  <2>1. {x \in Resting(taker, m.remaining) : x.userId = v} = {}
    BY <1>9
  <2> QED BY <1>10, <2>1
<1>12. ToSet(m.fills) = {} =>
         /\ Untouched(s, z, taker.userId)
         /\ OrdersOf(z, taker.userId) = OrdersOf(s, taker.userId) \cup Resting(taker, taker.qty)
  <2> SUFFICES ASSUME ToSet(m.fills) = {}
               PROVE  /\ Untouched(s, z, taker.userId)
                      /\ OrdersOf(z, taker.userId) = OrdersOf(s, taker.userId) \cup Resting(taker, taker.qty)
    OBVIOUS
  <2>1. taker.userId \notin Makers(m.fills) /\ m.remaining = taker.qty
    BY <1>8 DEF Makers
  <2>2. {x \in Resting(taker, m.remaining) : x.userId = taker.userId} = Resting(taker, taker.qty)
    BY <1>9, <2>1
  <2> QED BY <1>10, <2>1, <2>2
<1>13. taker.kind = "market" =>
         \A type \in PositionTypes : DOMAIN z.orderbook[type] \subseteq DOMAIN s.orderbook[type]
  <2> SUFFICES ASSUME taker.kind = "market", NEW type \in PositionTypes
               PROVE  DOMAIN z.orderbook[type] \subseteq DOMAIN s.orderbook[type]
    OBVIOUS
  <2>1. z.orderbook[type] = m.store.orderbook[type]
    BY <1>3, <1>6 DEF SameBook
  <2>2. type = taker.type \/ type = Opposite(taker.type)
    BY <1>5 DEF TakerOK, Opposite, PositionTypes, LONG, SHORT
  <2> QED BY <1>1, <2>1, <2>2 DEF MatchOK
<1> QED BY <1>2, <1>4, <1>6, <1>7, <1>8, <1>11, <1>12, <1>13 DEF OrderDone, r

-----------------------------------------------------------------------------
(* placeOrder.                                                             *)

\* A request a client or a liquidation may send, to become the order n.
RequestOK(s, n, o) ==
  /\ o.userId \in ToSet(s.users) /\ o.type \in PositionTypes
  /\ o.kind \in {"limit", "market"}
  /\ o.kind = "limit" => o.price \in LimitPrices /\ o.qty \in Quantities /\ n <= MaxOrders
  /\ o.kind = "market" => o.slippage \in 0..100
  /\ o.qty \in Nat \ {0} /\ o.margin \in Nat

TakerOf(s, id, o) ==
  [id |-> id, userId |-> o.userId, type |-> o.type, kind |-> o.kind, price |-> o.price,
   qty |-> o.qty, margin |-> MarginTaken(s, o), bound |-> PriceBound(s, o)]

Locked(s, o) == LockMargin(s, o.userId, MarginTaken(s, o))

LEMMA LockedFacts ==
  ASSUME NEW s, NEW n \in Nat, StoreOK(s, n), NEW o, RequestOK(s, n, o)
  PROVE  /\ StoreOK(Locked(s, o), n) /\ SameBook(s, Locked(s, o)) /\ All(Locked(s, o)) = All(s)
         /\ Locked(s, o).positions = s.positions /\ Locked(s, o).indexPrice = s.indexPrice
         /\ MarginTaken(s, o) \in Nat
         /\ Balance(Locked(s, o)) = Balance(s)
         /\ \A v : v # o.userId => Untouched(s, Locked(s, o), v)
         /\ o.userId \in DOMAIN Locked(s, o).collateral
         /\ Locked(s, o).collateral[o.userId] =
              [available |-> s.collateral[o.userId].available - MarginTaken(s, o),
               locked    |-> s.collateral[o.userId].locked + MarginTaken(s, o)]
<1> DEFINE u == o.userId
           margin == MarginTaken(s, o)
           t == Locked(s, o)
           c == [available |-> s.collateral[u].available - margin, locked |-> s.collateral[u].locked + margin]
<1>1. margin \in Nat /\ u \in ToSet(s.users)
  BY DEF MarginTaken, RequestOK
<1>2. Shaped(s) /\ AccountsOK(s) /\ BookOK(s, n) /\ RestsOnce(s)
  BY DEF StoreOK
<1>3. s.collateral \in [ToSet(s.users) -> Balances]
  BY <1>2 DEF AccountsOK
<1>4. c \in Balances
  <2>1. s.collateral[u] \in Balances
    BY <1>1, <1>3
  <2>2. s.collateral[u].available \in Int /\ s.collateral[u].locked \in Int
    BY <2>1 DEF Balances
  <2> HIDE DEF margin
  <2> QED BY <1>1, <2>2 DEF Balances
<1>5. t = [s EXCEPT !.collateral = [s.collateral EXCEPT ![u] = c]]
  BY <1>1, <1>2, <1>3 DEF Locked, LockMargin, Shaped
<1> HIDE DEF t, c
<1>6. /\ t.orderbook = s.orderbook /\ t.users = s.users /\ t.positions = s.positions
      /\ t.indexPrice = s.indexPrice /\ t.lastTradedPrice = s.lastTradedPrice
      /\ t.collateral = [s.collateral EXCEPT ![u] = c] /\ Shaped(t)
  BY <1>2, <1>5 DEF Shaped
<1>7. t.collateral \in [ToSet(s.users) -> Balances]
  BY <1>1, <1>3, <1>4, <1>6
<1>8. AccountsOK(t)
  BY <1>2, <1>6, <1>7 DEF AccountsOK
<1>9. SameBook(s, t)
  BY <1>6 DEF SameBook
<1>10. BookOK(t, n) /\ RestsOnce(t) /\ All(t) = All(s)
  BY <1>2, <1>9, SameBookKeeps
<1>11. Balance(t) = Balance(s)
  BY <1>6 DEF Balance, Exposure
<1>12. \A v : v # u => Untouched(s, t, v)
  BY <1>3, <1>6 DEF Untouched
<1>13. u \in DOMAIN t.collateral /\ t.collateral[u] = c
  BY <1>1, <1>3, <1>6
<1> QED BY <1>1, <1>6, <1>8, <1>9, <1>10, <1>11, <1>12, <1>13 DEF StoreOK, t, c

LEMMA TakerFacts ==
  ASSUME NEW s, NEW n \in Nat \ {0}, StoreOK(s, n), NEW o, RequestOK(s, n, o), NEW w, w.users = s.users
  PROVE  /\ TakerOK(TakerOf(s, n, o), w)
         /\ TakerOf(s, n, o).id = n /\ TakerOf(s, n, o).userId = o.userId /\ TakerOf(s, n, o).type = o.type
         /\ TakerOf(s, n, o).kind = o.kind /\ TakerOf(s, n, o).qty = o.qty
         /\ TakerOf(s, n, o).margin = MarginTaken(s, o) /\ TakerOf(s, n, o).bound = PriceBound(s, o)
<1> DEFINE taker == TakerOf(s, n, o)
<1>1. /\ taker.id = n /\ taker.userId = o.userId /\ taker.type = o.type /\ taker.price = o.price
      /\ taker.kind = o.kind /\ taker.qty = o.qty
      /\ taker.margin = MarginTaken(s, o) /\ taker.bound = PriceBound(s, o)
  BY DEF TakerOf
<1>2. MarginTaken(s, o) \in Nat
  BY LockedFacts
<1> HIDE DEF taker
<1>3. TakerOK(taker, w)
  BY <1>1, <1>2 DEF TakerOK, RequestOK
<1> QED BY <1>1, <1>3 DEF taker

\* What is known of the store and the rows r after the request o.
RequestDone(s, n, o, r) ==
  /\ StoreOK(r.store, n + 1)
  /\ r.store.users = s.users /\ r.store.indexPrice = s.indexPrice
  /\ Balance(r.store) = Balance(s)
  /\ r.fills \in Seq(Fills) /\ \A f \in ToSet(r.fills) : f.makerId \in ToSet(s.users) /\ f.takerId = o.userId
  /\ \A v : v \notin Makers(r.fills) /\ v # o.userId => Untouched(s, r.store, v) /\ OrdersOf(r.store, v) = OrdersOf(s, v)
  /\ ToSet(r.fills) = {} =>
       /\ Untouched(Locked(s, o), r.store, o.userId)
       /\ OrdersOf(r.store, o.userId) = OrdersOf(s, o.userId) \cup Resting(TakerOf(s, n, o), o.qty)
  /\ o.kind = "market" =>
       \A type \in PositionTypes : DOMAIN r.store.orderbook[type] \subseteq DOMAIN s.orderbook[type]

LEMMA PlaceOrderDone ==
  ASSUME NEW s, NEW n \in Nat \ {0}, StoreOK(s, n), NEW o, RequestOK(s, n, o)
  PROVE  RequestDone(s, n, o, PlaceOrder(s, n, o))
<1> DEFINE taker == TakerOf(s, n, o)
           t == Locked(s, o)
           r == PlaceOrder(s, n, o)
<1>1. /\ StoreOK(t, n) /\ SameBook(s, t) /\ All(t) = All(s)
      /\ t.positions = s.positions /\ t.indexPrice = s.indexPrice
      /\ Balance(t) = Balance(s) /\ \A v : v # o.userId => Untouched(s, t, v)
  <2>1. n \in Nat
    OBVIOUS
  <2> QED BY <2>1, LockedFacts
<1>2. t.users = s.users
  BY <1>1 DEF SameBook
<1>3. TakerOK(taker, t) /\ taker.id = n /\ taker.userId = o.userId /\ taker.kind = o.kind /\ taker.qty = o.qty
  BY <1>2, TakerFacts
<1>4. r = MatchOrder(taker, t)
  BY DEF PlaceOrder, TakerOf, Locked
<1> HIDE DEF taker, t, r
<1>5. OrderDone(taker, t, r)
  BY <1>1, <1>3, <1>4, MatchOrderDone
<1>6. \A v : OrdersOf(t, v) = OrdersOf(s, v)
  BY <1>1 DEF OrdersOf
<1>7. /\ StoreOK(r.store, n + 1) /\ r.store.users = s.users /\ r.store.indexPrice = s.indexPrice
      /\ Balance(r.store) = Balance(s)
      /\ r.fills \in Seq(Fills) /\ \A f \in ToSet(r.fills) : f.makerId \in ToSet(s.users) /\ f.takerId = o.userId
  BY <1>1, <1>2, <1>3, <1>5 DEF OrderDone
<1>8. ASSUME NEW v, v \notin Makers(r.fills), v # o.userId
      PROVE  Untouched(s, r.store, v) /\ OrdersOf(r.store, v) = OrdersOf(s, v)
  <2>1. Untouched(t, r.store, v) /\ OrdersOf(r.store, v) = OrdersOf(t, v)
    BY <1>3, <1>5, <1>8 DEF OrderDone
  <2>2. Untouched(s, t, v)
    BY <1>1, <1>8
  <2> QED BY <1>6, <2>1, <2>2 DEF Untouched
<1>9. ToSet(r.fills) = {} =>
       /\ Untouched(t, r.store, o.userId)
       /\ OrdersOf(r.store, o.userId) = OrdersOf(s, o.userId) \cup Resting(taker, o.qty)
  BY <1>3, <1>5, <1>6 DEF OrderDone
<1>10. o.kind = "market" =>
         \A type \in PositionTypes : DOMAIN r.store.orderbook[type] \subseteq DOMAIN s.orderbook[type]
  BY <1>1, <1>3, <1>5 DEF OrderDone, SameBook
<1> QED BY <1>7, <1>8, <1>9, <1>10 DEF RequestDone, taker, t, r

\* The best price of the other side is within a market order's bound.
LEMMA BestIsWithinBound ==
  ASSUME NEW s, NEW n \in Nat \ {0}, StoreOK(s, n), NEW o, RequestOK(s, n, o), o.kind = "market", HasMatch(s, o)
  PROVE  LET side == Opposite(o.type)
             best == BestPrice(side, OfferedPrices(s.orderbook[side]))
         IN  /\ best \in OfferedPrices(s.orderbook[side]) /\ best \in Nat
             /\ PriceBound(s, o) \in Int /\ WithinBound(o.type, best, PriceBound(s, o))
<1> DEFINE side == Opposite(o.type)
           prices == OfferedPrices(s.orderbook[side])
           best == BestPrice(side, prices)
<1>0. n \in Nat /\ side \in PositionTypes /\ o.type \in PositionTypes
  BY DEF RequestOK, Opposite, PositionTypes
<1>1. best \in prices /\ best \in Nat
  <2>1. SideOK(s.orderbook[side], ToSet(s.users), n)
    BY <1>0 DEF StoreOK, BookOK
  <2>2. IsFiniteSet(DOMAIN s.orderbook[side]) /\ DOMAIN s.orderbook[side] \subseteq LimitPrices
    BY <2>1 DEF SideOK
  <2>3. prices \subseteq DOMAIN s.orderbook[side] /\ prices # {}
    BY DEF OfferedPrices, HasMatch
  <2>4. IsFiniteSet(prices) /\ prices \in SUBSET Nat
    BY <2>2, <2>3, FS_Subset, EngineAssumption
  <2> HIDE DEF prices, side
  <2> QED BY <1>0, <2>3, <2>4, BestPriceIs
<1>2. o.slippage \in 0..100 /\ o.kind # "limit"
  BY DEF RequestOK
<1>3. CASE o.type = LONG
  <2>1. o.type # SHORT
    BY <1>3 DEF LONG, SHORT
  <2>2. PriceBound(s, o) = best * (100 + o.slippage)
    BY <1>2, <1>3, <2>1 DEF PriceBound
  <2>3. best * (100 + o.slippage) = 100 * best + best * o.slippage /\ best * o.slippage >= 0
    BY <1>1, <1>2
  <2>4. best * o.slippage \in Int /\ 100 * best <= 100 * best + best * o.slippage
    BY <1>1, <1>2, <2>3
  <2> QED BY <1>1, <1>3, <2>2, <2>3, <2>4 DEF WithinBound
<1>4. CASE o.type = SHORT
  <2>1. o.type # LONG
    BY <1>4 DEF LONG, SHORT
  <2>2. PriceBound(s, o) = best * (100 - o.slippage)
    BY <1>2, <1>4, <2>1 DEF PriceBound
  <2>3. best * (100 - o.slippage) = 100 * best - best * o.slippage /\ best * o.slippage >= 0
    BY <1>1, <1>2
  <2>4. best * o.slippage \in Int /\ 100 * best >= 100 * best - best * o.slippage
    BY <1>1, <1>2, <2>3
  <2> QED BY <1>1, <2>1, <2>2, <2>3, <2>4 DEF WithinBound
<1> QED BY <1>0, <1>3, <1>4 DEF PositionTypes

\* A market order that meets a book is filled, at least in part.
LEMMA MarketOrderFills ==
  ASSUME NEW s, NEW n \in Nat \ {0}, StoreOK(s, n), NEW o, RequestOK(s, n, o), o.kind = "market", HasMatch(s, o)
  PROVE  ToSet(PlaceOrder(s, n, o).fills) # {}
<1> DEFINE taker == TakerOf(s, n, o)
           t == Locked(s, o)
           side == Opposite(o.type)
           prices == OfferedPrices(s.orderbook[side])
           best == BestPrice(side, prices)
<1>0. n \in Nat /\ side \in PositionTypes /\ o.type \in PositionTypes
  BY DEF RequestOK, Opposite, PositionTypes
<1>1. StoreOK(t, n) /\ t.orderbook = s.orderbook /\ t.users = s.users
  BY <1>0, LockedFacts DEF SameBook
<1>2. /\ TakerOK(taker, t) /\ taker.id = n /\ taker.type = o.type
      /\ taker.qty = o.qty /\ taker.bound = PriceBound(s, o)
  BY <1>1, TakerFacts
<1>3. PlaceOrder(s, n, o).fills = MatchLoop(taker, t).fills
  BY DEF PlaceOrder, TakerOf, Locked, MatchOrder, Settled
<1>4. /\ best \in prices /\ prices \subseteq DOMAIN s.orderbook[side]
      /\ WithinBound(o.type, best, PriceBound(s, o))
  BY BestIsWithinBound DEF OfferedPrices
<1>6. MatchPrices(t, taker) # {}
  BY <1>1, <1>2, <1>4 DEF MatchPrices
<1> HIDE DEF taker, t, side, prices, best
<1>7. PICK m : /\ m[0] = Start(taker, t)
               /\ \A i \in Nat : i < n => m[i + 1] = MatchNext(taker, m[i])
               /\ MatchLoop(taker, t) = m[n]
  BY <1>0, <1>2, MatchLoopRuns
<1> DEFINE N == {i \in Nat : i < n => MatchOK(taker, t, m[i + 1]) /\ m[i + 1].remaining < taker.qty}
<1>8. 0 \in N
  <2>1. MatchOK(taker, t, m[0]) /\ m[0].store = t /\ m[0].remaining = taker.qty
    BY <1>1, <1>2, <1>7, MatchStarts DEF Start
  <2>2. taker.qty \in Nat \ {0} /\ taker.type \in PositionTypes /\ 0 < n /\ 0 + 1 = 1
    BY <1>2 DEF TakerOK
  <2>3. m[1] = MatchNext(taker, m[0])
    BY <1>7, <2>2
  <2>4. m[0].remaining \in Nat \ {0} /\ StoreOK(m[0].store, n) /\ MatchPrices(m[0].store, taker) # {}
    BY <1>1, <1>6, <2>1, <2>2
  <2>5. Met(taker, m[0], m[1], n)
    BY <2>2, <2>3, <2>4, MatchNextMeets
  <2>6. NextQty(taker, m[0]) \in Nat \ {0}
    BY <2>2, <2>4, NextFacts
  <2>7. m[1].remaining < taker.qty
    BY <2>1, <2>2, <2>5, <2>6 DEF Met
  <2>8. MatchOK(taker, t, m[1])
    BY <1>2, <2>1, <2>3, MatchGoesOn
  <2> QED BY <2>2, <2>7, <2>8
<1>9. ASSUME NEW i \in N PROVE i + 1 \in N
  <2> SUFFICES ASSUME i + 1 < n
               PROVE  MatchOK(taker, t, m[(i + 1) + 1]) /\ m[(i + 1) + 1].remaining < taker.qty
    OBVIOUS
  <2> DEFINE k == m[i + 1]
             j == m[(i + 1) + 1]
  <2>1. MatchOK(taker, t, k) /\ k.remaining < taker.qty
    BY <1>0
  <2>2. j = MatchNext(taker, k)
    BY <1>7
  <2> HIDE DEF k, j
  <2>3. MatchOK(taker, t, j)
    BY <1>2, <2>1, <2>2, MatchGoesOn
  <2>4. j.remaining < taker.qty
    <3>1. CASE k.remaining = 0 \/ MatchPrices(k.store, taker) = {}
      BY <2>1, <2>2, <3>1 DEF MatchNext
    <3>2. CASE ~(k.remaining = 0 \/ MatchPrices(k.store, taker) = {})
      <4>1. /\ k.remaining \in Nat \ {0} /\ StoreOK(k.store, n) /\ MatchPrices(k.store, taker) # {}
            /\ taker.type \in PositionTypes /\ taker.qty \in Nat
        BY <1>2, <2>1, <3>2 DEF MatchOK, TakerOK
      <4>2. Met(taker, k, j, n)
        BY <2>2, <4>1, MatchNextMeets
      <4>3. NextQty(taker, k) \in Nat \ {0}
        BY <4>1, NextFacts
      <4> QED BY <2>1, <4>1, <4>2, <4>3 DEF Met
    <3> QED BY <3>1, <3>2
  <2> QED BY <2>3, <2>4 DEF j
<1>10. N \in SUBSET Nat
  OBVIOUS
<1>11. N = Nat
  <2> HIDE DEF N
  <2> QED BY <1>8, <1>9, <1>10, SetInduction
<1>12. n - 1 \in Nat /\ n - 1 < n /\ (n - 1) + 1 = n
  OBVIOUS
<1>13. MatchOK(taker, t, m[n]) /\ m[n].remaining < taker.qty
  <2>1. n - 1 \in N
    BY <1>11, <1>12
  <2>2. MatchOK(taker, t, m[(n - 1) + 1]) /\ m[(n - 1) + 1].remaining < taker.qty
    BY <1>12, <2>1
  <2> HIDE DEF N
  <2> QED BY <1>12, <2>2
<1>14. ToSet(m[n].fills) # {}
  <2>1. m[n].remaining # taker.qty
    <3>1. taker.qty \in Nat
      BY <1>2 DEF TakerOK
    <3> QED BY <1>13, <3>1
  <2> QED BY <1>13, <2>1 DEF MatchOK
<1> QED BY <1>3, <1>7, <1>14

-----------------------------------------------------------------------------
(* What the writer is told.                                                *)

LEMMA ToSetConcat ==
  ASSUME NEW S, NEW p \in Seq(S), NEW q \in Seq(S)
  PROVE  /\ p \o q \in Seq(S) /\ ToSet(p \o q) = ToSet(p) \cup ToSet(q)
         /\ Len(p) \in Nat /\ Len(q) \in Nat /\ DOMAIN p = 1..Len(p) /\ DOMAIN q = 1..Len(q)
         /\ DOMAIN (p \o q) = 1..(Len(p) + Len(q))
         /\ \A i \in DOMAIN p : (p \o q)[i] = p[i]
         /\ \A i \in DOMAIN q : (p \o q)[Len(p) + i] = q[i]
<1> DEFINE r == p \o q
<1>1. /\ r \in Seq(S) /\ Len(p) \in Nat /\ Len(q) \in Nat /\ DOMAIN p = 1..Len(p) /\ DOMAIN q = 1..Len(q)
      /\ DOMAIN r = 1..(Len(p) + Len(q))
  OBVIOUS
<1>2. \A i \in DOMAIN p : r[i] = p[i]
  BY <1>1
<1>3. \A i \in DOMAIN q : r[Len(p) + i] = q[i]
  BY <1>1
<1> HIDE DEF r
<1>4. \A i \in DOMAIN r : i \in DOMAIN p \/ (i - Len(p) \in DOMAIN q /\ Len(p) + (i - Len(p)) = i)
  BY <1>1
<1>5. \A i \in DOMAIN q : Len(p) + i \in DOMAIN r
  BY <1>1
<1>6. \A i \in DOMAIN p : i \in DOMAIN r
  BY <1>1
<1>7. ToSet(r) = ToSet(p) \cup ToSet(q)
  <2>1. ASSUME NEW x \in ToSet(r) PROVE x \in ToSet(p) \cup ToSet(q)
    BY <1>2, <1>3, <1>4 DEF ToSet
  <2>2. ASSUME NEW x \in ToSet(p) PROVE x \in ToSet(r)
    BY <1>2, <1>6 DEF ToSet
  <2>3. ASSUME NEW x \in ToSet(q) PROVE x \in ToSet(r)
    BY <1>3, <1>5 DEF ToSet
  <2> QED BY <2>1, <2>2, <2>3
<1> QED BY <1>1, <1>2, <1>3, <1>7 DEF r

Updates == [orderId : Nat, status : {"open", "partially_filled", "filled", "cancelled"}, filledQty : Int]

\* A row says what rests: the order with what it has filled, or no such order.
RowAgrees(row, S) ==
  IF row.status \in {"open", "partially_filled"}
    THEN \E o \in S : o.orderId = row.orderId /\ o.filledQty = row.filledQty
    ELSE \A o \in S : o.orderId # row.orderId

\* The last row of an order says what rests of it.
Final(rows, i) == \A j \in DOMAIN rows : rows[j].orderId = rows[i].orderId => j <= i
RowsAgree(rows, S) == \A i \in DOMAIN rows : Final(rows, i) => RowAgrees(rows[i], S)

\* An order that no row names is as it was.
Unsaid(rows, S, T) ==
  \A o : (\A i \in DOMAIN rows : rows[i].orderId # o.orderId) => (o \in S <=> o \in T)

\* What rested was S and is T, and the rows tell the writer.
Told(rows, S, T) == rows \in Seq(Updates) /\ RowsAgree(rows, T) /\ Unsaid(rows, S, T)

LEMMA NothingTold ==
  ASSUME NEW rows, Empty(rows), NEW S
  PROVE  Told(rows, S, S)
<1>1. rows \in Seq(Updates) /\ DOMAIN rows = {}
  BY DEF Empty
<1> QED BY <1>1 DEF Told, RowsAgree, Unsaid

LEMMA OneTold ==
  ASSUME NEW row \in Updates, NEW S, NEW T, RowAgrees(row, T),
         \A o : o.orderId # row.orderId => (o \in S <=> o \in T)
  PROVE  Told(<<row>>, S, T)
<1> DEFINE rows == <<row>>
<1>1. rows \in Seq(Updates) /\ DOMAIN rows = {1} /\ rows[1] = row
  OBVIOUS
<1> HIDE DEF rows
<1> QED BY <1>1 DEF Told, RowsAgree, Unsaid, rows

\* What is told of one step and then of the next is told of both.
LEMMA ToldThen ==
  ASSUME NEW S, NEW T, NEW W, NEW p, NEW q, Told(p, S, T), Told(q, T, W)
  PROVE  Told(p \o q, S, W)
<1> DEFINE r == p \o q
           n == Len(p)
<1>1. /\ r \in Seq(Updates) /\ n \in Nat /\ Len(q) \in Nat /\ DOMAIN p = 1..n /\ DOMAIN q = 1..Len(q)
      /\ DOMAIN r = 1..(n + Len(q))
      /\ \A i \in DOMAIN p : r[i] = p[i]
      /\ \A i \in DOMAIN q : r[n + i] = q[i]
  BY ToSetConcat DEF Told
<1> HIDE DEF r, n
<1>2. /\ \A i \in DOMAIN p : i \in DOMAIN r /\ i \in Nat
      /\ \A i \in DOMAIN q : n + i \in DOMAIN r /\ i \in Nat
      /\ \A i \in DOMAIN r : i \in DOMAIN p \/ \E k \in DOMAIN q : i = n + k
  <2>1. \A i \in DOMAIN r : i \notin DOMAIN p => i - n \in DOMAIN q /\ i = n + (i - n)
    BY <1>1
  <2> QED BY <1>1, <2>1
<1>3. ASSUME NEW i \in DOMAIN r, Final(r, i)
      PROVE  RowAgrees(r[i], W)
  <2>1. CASE i \in DOMAIN p
    <3>1. \A k \in DOMAIN q : q[k].orderId # p[i].orderId
      <4> SUFFICES ASSUME NEW k \in DOMAIN q, q[k].orderId = p[i].orderId PROVE FALSE
        OBVIOUS
      <4>1. n + k <= i
        BY <1>1, <1>2, <1>3, <2>1 DEF Final
      <4> QED BY <1>1, <2>1, <4>1
    <3>2. Final(p, i)
      BY <1>1, <1>2, <1>3, <2>1 DEF Final
    <3>3. RowAgrees(p[i], T)
      BY <2>1, <3>2 DEF Told, RowsAgree
    <3>4. \A o : o.orderId = p[i].orderId => (o \in T <=> o \in W)
      BY <3>1 DEF Told, Unsaid
    <3>5. RowAgrees(p[i], W)
      BY <3>3, <3>4 DEF RowAgrees
    <3> QED BY <1>1, <2>1, <3>5
  <2>2. CASE i \notin DOMAIN p
    <3>1. PICK k \in DOMAIN q : i = n + k
      BY <1>2, <2>2
    <3>2. Final(q, k)
      <4> SUFFICES ASSUME NEW j \in DOMAIN q, q[j].orderId = q[k].orderId PROVE j <= k
        BY DEF Final
      <4>1. n + j <= n + k
        BY <1>1, <1>2, <1>3, <3>1 DEF Final
      <4> QED BY <1>1, <1>2, <4>1
    <3>3. RowAgrees(q[k], W)
      BY <3>2 DEF Told, RowsAgree
    <3> QED BY <1>1, <3>1, <3>3
  <2> QED BY <2>1, <2>2
<1>4. ASSUME NEW o, \A i \in DOMAIN r : r[i].orderId # o.orderId
      PROVE  o \in S <=> o \in W
  <2>1. \A i \in DOMAIN p : p[i].orderId # o.orderId
    BY <1>1, <1>2, <1>4
  <2>2. \A i \in DOMAIN q : q[i].orderId # o.orderId
    BY <1>1, <1>2, <1>4
  <2> QED BY <2>1, <2>2 DEF Told, Unsaid
<1> QED BY <1>1, <1>3, <1>4 DEF Told, RowsAgree, Unsaid, r

LEMMA AppendAsConcat ==
  ASSUME NEW S, NEW q \in Seq(S), NEW x \in S
  PROVE  Append(q, x) = q \o <<x>>
OBVIOUS

\* The row of the order met says what is left of it.
LEMMA MatchNextTold ==
  ASSUME NEW taker, taker.type \in PositionTypes, NEW m, NEW n \in Nat \ {0}, StoreOK(m.store, n),
         m.remaining \in Nat \ {0}, MatchPrices(m.store, taker) # {}
  PROVE  /\ NextUpdate(taker, m) \in Updates
         /\ Told(<<NextUpdate(taker, m)>>, All(m.store), All(MatchNext(taker, m).store))
<1> DEFINE side == Opposite(taker.type)
           price == NextPrice(taker, m)
           open == NextOrder(taker, m)
           qty == NextQty(taker, m)
           row == NextUpdate(taker, m)
           S == All(m.store)
           T == All(MatchNext(taker, m).store)
<1>1. /\ side \in PositionTypes /\ open \in At(m.store.orderbook[side], price)
      /\ open \in Orders(ToSet(m.store.users), n) /\ Remaining(open) \in Nat \ {0}
      /\ qty \in Nat \ {0} /\ qty <= Remaining(open)
  BY NextFacts
<1>2. T = (S \ {open}) \cup Partial(open, qty)
  BY MatchNextMeets DEF Met
<1>3. open \in S
  BY <1>1, InAll
<1>4. \A o1, o2 \in S : o1.orderId = o2.orderId => o1 = o2
  BY AllFacts DEF StoreOK
<1>5. /\ row.orderId = open.orderId /\ row.filledQty = open.filledQty + qty
      /\ row.status = IF qty = Remaining(open) THEN "filled" ELSE "partially_filled"
      /\ row = [orderId |-> row.orderId, status |-> row.status, filledQty |-> row.filledQty]
  BY DEF NextUpdate, OrderUpdate
<1> HIDE DEF row, S, T, open, qty, price
<1>6. open.orderId \in Nat /\ open.filledQty \in Nat
  BY <1>1 DEF Orders
<1>7. row \in Updates
  <2>1. row.orderId \in Nat /\ row.filledQty \in Int /\ row.status \in {"open", "partially_filled", "filled", "cancelled"}
    BY <1>1, <1>5, <1>6
  <2> QED BY <1>5, <2>1 DEF Updates
<1>8. qty # Remaining(open) =>
        /\ Partial(open, qty) = {Partly(open, qty)}
        /\ Partly(open, qty).orderId = open.orderId /\ Partly(open, qty).filledQty = open.filledQty + qty
  <2>1. Partly(open, qty).orderId = open.orderId /\ Partly(open, qty).filledQty = open.filledQty + qty
    BY <1>1 DEF Partly, Orders
  <2> QED BY <2>1 DEF Partial
<1>9. qty = Remaining(open) => Partial(open, qty) = {}
  BY DEF Partial
<1>10. RowAgrees(row, T)
  <2>1. CASE qty = Remaining(open)
    <3>1. T = S \ {open} /\ row.status = "filled"
      BY <1>2, <1>5, <1>9, <2>1
    <3> QED BY <1>3, <1>4, <1>5, <3>1 DEF RowAgrees
  <2>2. CASE qty # Remaining(open)
    <3>1. Partly(open, qty) \in T /\ row.status = "partially_filled"
      BY <1>2, <1>5, <1>8, <2>2
    <3> QED BY <1>5, <1>8, <2>2, <3>1 DEF RowAgrees
  <2> QED BY <2>1, <2>2
<1>11. \A o : o.orderId # row.orderId => (o \in S <=> o \in T)
  <2>1. \A x \in Partial(open, qty) : x.orderId = open.orderId
    BY <1>8, <1>9
  <2> QED BY <1>2, <1>5, <2>1
<1>12. Told(<<row>>, S, T)
  BY <1>7, <1>10, <1>11, OneTold
<1> QED BY <1>7, <1>12 DEF row, S, T

LEMMA MatchLoopTold ==
  ASSUME NEW s, NEW taker, TakerOK(taker, s), StoreOK(s, taker.id)
  PROVE  Told(MatchLoop(taker, s).updates, All(s), All(MatchLoop(taker, s).store))
<1>0. taker.id \in Nat /\ taker.id \in Nat \ {0} /\ taker.type \in PositionTypes
  BY DEF TakerOK
<1>1. PICK m : /\ m[0] = Start(taker, s)
               /\ \A i \in Nat : i < taker.id => m[i + 1] = MatchNext(taker, m[i])
               /\ MatchLoop(taker, s) = m[taker.id]
  BY <1>0, MatchLoopRuns
<1> DEFINE P(k) == MatchOK(taker, s, k) /\ Told(k.updates, All(s), All(k.store))
           N == {i \in Nat : i <= taker.id => P(m[i])}
<1>2. 0 \in N
  <2>1. m[0].store = s /\ Empty(m[0].updates)
    BY <1>1 DEF Start, Empty
  <2>2. MatchOK(taker, s, m[0])
    BY <1>1, MatchStarts
  <2> QED BY <2>1, <2>2, NothingTold
<1>3. ASSUME NEW k, P(k) PROVE P(MatchNext(taker, k))
  <2> DEFINE j == MatchNext(taker, k)
  <2>1. MatchOK(taker, s, j)
    BY <1>3, MatchGoesOn
  <2>2. CASE k.remaining = 0 \/ MatchPrices(k.store, taker) = {}
    <3>1. j = k
      BY <2>2 DEF MatchNext
    <3> QED BY <1>3, <3>1
  <2>3. CASE ~(k.remaining = 0 \/ MatchPrices(k.store, taker) = {})
    <3>1. k.remaining \in Nat \ {0} /\ StoreOK(k.store, taker.id) /\ MatchPrices(k.store, taker) # {}
      BY <1>3, <2>3 DEF MatchOK, TakerOK
    <3> DEFINE row == NextUpdate(taker, k)
    <3>2. row \in Updates /\ Told(<<row>>, All(k.store), All(j.store))
      BY <1>0, <3>1, MatchNextTold
    <3>3. j.updates = Append(k.updates, row)
      BY <1>0, <3>1, MatchNextMeets DEF Met
    <3> HIDE DEF row, j
    <3>4. k.updates \in Seq(Updates) /\ Told(k.updates, All(s), All(k.store))
      BY <1>3 DEF Told
    <3>5. j.updates = k.updates \o <<row>>
      BY <3>2, <3>3, <3>4, AppendAsConcat
    <3>6. Told(k.updates \o <<row>>, All(s), All(j.store))
      BY <3>2, <3>4, ToldThen
    <3> QED BY <2>1, <3>5, <3>6 DEF j
  <2> QED BY <2>2, <2>3
<1> HIDE DEF P
<1>4. ASSUME NEW i \in N PROVE i + 1 \in N
  <2> SUFFICES ASSUME i + 1 <= taker.id PROVE P(m[i + 1])
    OBVIOUS
  <2>1. i < taker.id /\ i <= taker.id /\ i \in Nat
    BY <1>0
  <2>2. P(m[i]) /\ m[i + 1] = MatchNext(taker, m[i])
    BY <1>1, <2>1
  <2> QED BY <1>3, <2>2
<1>5. N \in SUBSET Nat
  OBVIOUS
<1>6. N = Nat
  <2> HIDE DEF N
  <2> QED BY <1>2, <1>4, <1>5, SetInduction
<1>7. P(m[taker.id])
  BY <1>0, <1>6
<1> QED BY <1>1, <1>7 DEF P

\* The rows of an order, its own last: they tell what it did to the book.
LEMMA MatchOrderTold ==
  ASSUME NEW s, NEW taker, TakerOK(taker, s), StoreOK(s, taker.id)
  PROVE  Told(MatchOrder(taker, s).updates, All(s), All(MatchOrder(taker, s).store))
<1> DEFINE m == MatchLoop(taker, s)
           t == TakerPosition(taker, m.store, taker.qty - m.remaining, m.paid)
           z == Rest(taker, t, m.remaining)
           r == MatchOrder(taker, s)
           row == OrderUpdate(taker.id, TakerStatus(taker, m.remaining), taker.qty - m.remaining)
<1>1. MatchOK(taker, s, m) /\ Told(m.updates, All(s), All(m.store))
  BY MatchLoopOK, MatchLoopTold
<1>2. r.store = z /\ r.updates = Append(m.updates, row)
  BY DEF MatchOrder, Settled
<1> HIDE DEF m, t, z, r
<1>3. /\ row.orderId = taker.id /\ row.status = TakerStatus(taker, m.remaining)
      /\ row.filledQty = taker.qty - m.remaining
      /\ row = [orderId |-> row.orderId, status |-> row.status, filledQty |-> row.filledQty]
  BY DEF OrderUpdate
<1> HIDE DEF row
<1>4. StoreOK(t, taker.id) /\ SameBook(m.store, t) /\ All(t) = All(m.store)
  BY <1>1, TakerPositionBalances DEF t
<1>5. /\ m.remaining \in 0..taker.qty /\ taker.qty \in Nat \ {0} /\ taker.id \in Nat \ {0}
      /\ taker.kind \in {"limit", "market"} /\ StoreOK(m.store, taker.id)
      /\ t.users = s.users
  BY <1>1, <1>4 DEF MatchOK, TakerOK, SameBook
<1>6. TakerOK(taker, t)
  BY <1>5 DEF TakerOK
<1>7. All(z) = All(m.store) \cup Resting(taker, m.remaining)
  BY <1>4, <1>5, <1>6, RestRests DEF z
<1>8. \A o \in All(m.store) : o.orderId # taker.id
  BY <1>5, AllFacts DEF StoreOK
<1>9. TakerStatus(taker, m.remaining) =
        IF m.remaining = 0 THEN "filled"
        ELSE IF taker.kind = "market" THEN "cancelled"
        ELSE IF m.remaining < taker.qty THEN "partially_filled" ELSE "open"
  <2>1. taker.kind = "market" <=> taker.kind # "limit"
    BY <1>5
  <2>2. m.remaining \in Nat /\ (m.remaining = 0 <=> ~(m.remaining > 0))
    BY <1>5
  <2> QED BY <2>1, <2>2 DEF TakerStatus
<1>10. row \in Updates
  <2>1. row.orderId \in Nat /\ row.filledQty \in Int
    BY <1>3, <1>5
  <2>2. row.status \in {"open", "partially_filled", "filled", "cancelled"}
    BY <1>3, <1>9
  <2> QED BY <1>3, <2>1, <2>2 DEF Updates
<1>11. /\ \A x \in Resting(taker, m.remaining) : x.orderId = taker.id /\ x.filledQty = taker.qty - m.remaining
       /\ Resting(taker, m.remaining) = {} <=> m.remaining = 0 \/ taker.kind = "market"
  <2>1. CASE m.remaining = 0 \/ taker.kind = "market"
    BY <2>1 DEF Resting
  <2>2. CASE ~(m.remaining = 0 \/ taker.kind = "market")
    <3> DEFINE x == [orderId |-> taker.id, userId |-> taker.userId, qty |-> taker.qty,
                     filledQty |-> taker.qty - m.remaining,
                     margin |-> RelativeMargin(taker.margin, taker.qty, m.remaining)]
    <3>1. Resting(taker, m.remaining) = {x}
      BY <2>2 DEF Resting
    <3>2. x.orderId = taker.id /\ x.filledQty = taker.qty - m.remaining
      OBVIOUS
    <3> HIDE DEF x
    <3> QED BY <2>2, <3>1, <3>2
  <2> QED BY <2>1, <2>2
<1>12. RowAgrees(row, All(z))
  <2>1. CASE m.remaining = 0 \/ taker.kind = "market"
    <3>1. All(z) = All(m.store) /\ row.status \in {"filled", "cancelled"}
      BY <1>3, <1>7, <1>9, <1>11, <2>1
    <3> QED BY <1>3, <1>8, <3>1 DEF RowAgrees
  <2>2. CASE ~(m.remaining = 0 \/ taker.kind = "market")
    <3>1. PICK x \in Resting(taker, m.remaining) : TRUE
      BY <1>11, <2>2
    <3>2. x \in All(z) /\ x.orderId = row.orderId /\ x.filledQty = row.filledQty
      BY <1>3, <1>7, <1>11, <3>1
    <3>3. row.status \in {"open", "partially_filled"}
      BY <1>3, <1>9, <2>2
    <3> QED BY <3>2, <3>3 DEF RowAgrees
  <2> QED BY <2>1, <2>2
<1>13. \A o : o.orderId # row.orderId => (o \in All(m.store) <=> o \in All(z))
  BY <1>3, <1>7, <1>11
<1>14. Told(<<row>>, All(m.store), All(z))
  BY <1>10, <1>12, <1>13, OneTold
<1>15. Told(m.updates \o <<row>>, All(s), All(z))
  BY <1>1, <1>14, ToldThen
<1>16. r.updates = m.updates \o <<row>>
  <2>1. m.updates \in Seq(Updates)
    BY <1>1 DEF Told
  <2> QED BY <1>2, <1>10, <2>1, AppendAsConcat
<1> QED BY <1>2, <1>15, <1>16 DEF r

LEMMA PlaceOrderTold ==
  ASSUME NEW s, NEW n \in Nat \ {0}, StoreOK(s, n), NEW o, RequestOK(s, n, o)
  PROVE  Told(PlaceOrder(s, n, o).updates, All(s), All(PlaceOrder(s, n, o).store))
<1> DEFINE taker == TakerOf(s, n, o)
           t == Locked(s, o)
           r == PlaceOrder(s, n, o)
<1>1. StoreOK(t, n) /\ t.users = s.users /\ All(t) = All(s)
  <2>1. n \in Nat
    OBVIOUS
  <2> QED BY <2>1, LockedFacts DEF SameBook
<1>2. TakerOK(taker, t) /\ taker.id = n
  BY <1>1, TakerFacts
<1>3. r = MatchOrder(taker, t)
  BY DEF PlaceOrder, TakerOf, Locked
<1> HIDE DEF taker, t, r
<1>4. Told(r.updates, All(t), All(r.store))
  BY <1>1, <1>2, <1>3, MatchOrderTold
<1> QED BY <1>1, <1>4 DEF r

-----------------------------------------------------------------------------
(* liqudationChecks.                                                       *)

Takers(fills) == {f.takerId : f \in ToSet(fills)}

SweepStart(s, id) == [store |-> s, nextId |-> id, fills |-> <<>>, updates |-> <<>>]

\* The sweeps the loop goes through.
Sweeps(w, s, id, price, n) ==
  w = [i \in 0..n |-> IF i = 0 THEN SweepStart(s, id) ELSE LiquidateIfCrossed(price, w[i - 1], s.users[i])]

LEMMA SweepsExist ==
  ASSUME NEW s, NEW id, NEW price
  PROVE  \A n \in Nat : \E w : Sweeps(w, s, id, price, n)
<1> DEFINE N == {n \in Nat : \E w : Sweeps(w, s, id, price, n)}
<1>1. 0 \in N
  <2> DEFINE w == [i \in 0..0 |-> SweepStart(s, id)]
  <2>1. w = [i \in 0..0 |-> IF i = 0 THEN SweepStart(s, id) ELSE LiquidateIfCrossed(price, w[i - 1], s.users[i])]
    OBVIOUS
  <2> QED BY <2>1 DEF Sweeps
<1>2. ASSUME NEW n \in N PROVE n + 1 \in N
  <2>1. PICK w : Sweeps(w, s, id, price, n)
    BY <1>2
  <2> DEFINE k == [i \in 0..(n + 1) |-> IF i = 0 THEN SweepStart(s, id)
                                        ELSE LiquidateIfCrossed(price, w[i - 1], s.users[i])]
  <2>2. \A i \in 0..n : k[i] = w[i]
    BY <2>1 DEF Sweeps
  <2>3. \A i \in 0..(n + 1) : i # 0 => i - 1 \in 0..n
    OBVIOUS
  <2>4. k = [i \in 0..(n + 1) |-> IF i = 0 THEN SweepStart(s, id)
                                  ELSE LiquidateIfCrossed(price, k[i - 1], s.users[i])]
    BY <2>2, <2>3
  <2>5. n + 1 \in Nat
    OBVIOUS
  <2> QED BY <2>4, <2>5 DEF Sweeps
<1>3. N \in SUBSET Nat
  OBVIOUS
<1>4. N = Nat
  <2> HIDE DEF N
  <2> QED BY <1>1, <1>2, <1>3, SetInduction
<1> QED BY <1>4

\* The sweeps one by one, from the first account to the last.
Visits(w, s, id, price) ==
  /\ w[0] = SweepStart(s, id)
  /\ \A i \in Nat : i < Len(s.users) => w[i + 1] = LiquidateIfCrossed(price, w[i], s.users[i + 1])
  /\ Sweep(s, id, price) = w[Len(s.users)]

LEMMA SweepRuns ==
  ASSUME NEW s, NEW id, NEW price, Len(s.users) \in Nat
  PROVE  \E w : Visits(w, s, id, price)
<1> DEFINE n == Len(s.users)
           Q(h) == h = [i \in 0..n |-> IF i = 0 THEN SweepStart(s, id)
                                       ELSE LiquidateIfCrossed(price, h[i - 1], s.users[i])]
           w == CHOOSE h : Q(h)
<1>1. Sweep(s, id, price) = w[n]
  BY DEF Sweep, SweepStart
<1>2. \E h : Q(h)
  <2>1. \E h : Sweeps(h, s, id, price, n)
    BY SweepsExist
  <2> QED BY <2>1 DEF Sweeps
<1> HIDE DEF Q
<1>3. Q(w)
  BY <1>2
<1> HIDE DEF w
<1>4. w = [i \in 0..n |-> IF i = 0 THEN SweepStart(s, id) ELSE LiquidateIfCrossed(price, w[i - 1], s.users[i])]
  BY <1>3 DEF Q
<1>5. w[0] = SweepStart(s, id)
  BY <1>4
<1>6. ASSUME NEW i \in Nat, i < n PROVE w[i + 1] = LiquidateIfCrossed(price, w[i], s.users[i + 1])
  <2>1. i + 1 \in 0..n /\ i + 1 # 0 /\ (i + 1) - 1 = i
    BY <1>6
  <2> QED BY <1>4, <2>1
<1>7. Visits(w, s, id, price)
  BY <1>1, <1>5, <1>6 DEF Visits
<1> QED BY <1>7

\* A liquidation is a request like any other, and takes no margin.
LEMMA LiquidationFacts ==
  ASSUME NEW s, NEW n \in Nat, StoreOK(s, n), NEW u \in DOMAIN s.positions, NEW o, o = LiquidationOrder(s, u)
  PROVE  /\ RequestOK(s, n, o) /\ o.userId = u /\ o.kind = "market"
         /\ Opposite(o.type) = s.positions[u].type
         /\ Accepted(s, o) <=> s.collateral[u].available >= 0 /\ HasMatch(s, o)
<1>1. /\ u \in ToSet(s.users) /\ s.positions[u] \in Positions
      /\ s.collateral[u] \in Balances
  BY DEF StoreOK, AccountsOK
<1>2. s.positions[u].type \in PositionTypes /\ s.positions[u].qty \in Nat \ {0} /\ s.collateral[u].available \in Int
  BY <1>1 DEF Positions, Balances
<1>3. /\ o.userId = u /\ o.type = Opposite(s.positions[u].type) /\ o.kind = "market" /\ o.slippage = 100
      /\ o.qty = s.positions[u].qty /\ o.margin = 0
  BY DEF LiquidationOrder
<1>4. /\ o.type \in PositionTypes /\ o.type # s.positions[u].type
      /\ Opposite(o.type) = s.positions[u].type
  BY <1>2, <1>3 DEF Opposite, PositionTypes, LONG, SHORT
<1>5. RequestOK(s, n, o)
  BY <1>1, <1>2, <1>3, <1>4 DEF RequestOK
<1>6. RiskReducing(s, o)
  BY <1>2, <1>3, <1>4 DEF RiskReducing
<1>7. MarginTaken(s, o) = 0
  BY <1>6 DEF MarginTaken
<1>8. Accepted(s, o) <=> s.collateral[u].available >= 0 /\ HasMatch(s, o)
  BY <1>3, <1>6, <1>7 DEF Accepted
<1> QED BY <1>3, <1>4, <1>5, <1>8

\* A side offers something exactly when it has a level.
LEMMA HasMatchIs ==
  ASSUME NEW s, NEW n \in Nat, StoreOK(s, n), NEW o, o.type \in PositionTypes
  PROVE  HasMatch(s, o) <=> DOMAIN s.orderbook[Opposite(o.type)] # {}
<1> DEFINE side == s.orderbook[Opposite(o.type)]
<1>1. Opposite(o.type) \in PositionTypes
  BY DEF Opposite, PositionTypes
<1>2. SideOK(side, ToSet(s.users), n)
  BY <1>1 DEF StoreOK, BookOK
<1>3. ASSUME NEW p \in DOMAIN side PROVE side[p].availableQty > 0
  <2>1. LevelKnown(side, p, ToSet(s.users), n)
    BY <1>2, LevelFacts
  <2> HIDE DEF side
  <2>2. side[p] = Level(LeftOf(At(side, p)), ListAt(side, p)) /\ LeftOf(At(side, p)) \in Nat \ {0}
    BY <2>1 DEF LevelKnown
  <2> QED BY <2>2 DEF Level
<1> QED BY <1>3 DEF HasMatch, OfferedPrices

\* The account u is one the price liquidates, and nobody has touched it in the sweep.
Due(s, fills, price, u) ==
  /\ u \in DOMAIN s.positions /\ u \notin Makers(fills) /\ u \notin Takers(fills)
  /\ Crossed(s.positions[u], price)

\* What is true of a sweep of s, from the order n on, that has visited i accounts.
SweepOK(s, n, price, i, w) ==
  /\ w.nextId \in Nat \ {0} /\ n <= w.nextId /\ StoreOK(w.store, w.nextId)
  /\ w.store.users = s.users /\ w.store.indexPrice = s.indexPrice
  /\ Balance(w.store) = Balance(s)
  /\ w.fills \in Seq(Fills) /\ \A f \in ToSet(w.fills) : f.makerId \in ToSet(s.users) /\ f.takerId \in ToSet(s.users)
  /\ \A v : v \notin Makers(w.fills) /\ v \notin Takers(w.fills) =>
       Untouched(s, w.store, v) /\ OrdersOf(w.store, v) = OrdersOf(s, v)
  /\ \A type \in PositionTypes : DOMAIN w.store.orderbook[type] \subseteq DOMAIN s.orderbook[type]
  /\ \A u \in Takers(w.fills) : \E j \in 1..i : u = s.users[j]
  /\ \A u \in Takers(w.fills) : u \in DOMAIN s.positions /\ u \notin Makers(w.fills) => Crossed(s.positions[u], price)
  /\ \A j \in 1..i : Due(s, w.fills, price, s.users[j]) =>
       \/ s.collateral[s.users[j]].available < 0
       \/ DOMAIN w.store.orderbook[s.positions[s.users[j]].type] = {}
  /\ Told(w.updates, All(s), All(w.store))

LEMMA SweepStarts ==
  ASSUME NEW s, NEW n \in Nat \ {0}, StoreOK(s, n), NEW price
  PROVE  SweepOK(s, n, price, 0, SweepStart(s, n))
<1> DEFINE w == SweepStart(s, n)
<1>1. w.store = s /\ w.nextId = n /\ w.fills = <<>> /\ Empty(w.updates)
  BY DEF SweepStart, Empty
<1>2. w.fills \in Seq(Fills) /\ ToSet(w.fills) = {}
  BY <1>1 DEF ToSet
<1> HIDE DEF w
<1>3. Makers(w.fills) = {} /\ Takers(w.fills) = {}
  BY <1>2 DEF Makers, Takers
<1>4. Told(w.updates, All(s), All(w.store))
  BY <1>1, NothingTold
<1>5. \A v : Untouched(s, w.store, v) /\ OrdersOf(w.store, v) = OrdersOf(s, v)
  BY <1>1 DEF Untouched
<1>6. 1..0 = {}
  OBVIOUS
<1> QED BY <1>1, <1>2, <1>3, <1>4, <1>5, <1>6 DEF SweepOK, w

LEMMA SweepGoesOn ==
  ASSUME NEW s, NEW n \in Nat \ {0}, StoreOK(s, n), NEW price, NEW i \in Nat, i < Len(s.users),
         NEW w, SweepOK(s, n, price, i, w), NEW u, u = s.users[i + 1]
  PROVE  SweepOK(s, n, price, i + 1, LiquidateIfCrossed(price, w, u))
<1> DEFINE o == LiquidationOrder(w.store, u)
           r == PlaceOrder(w.store, w.nextId, o)
           k == LiquidateIfCrossed(price, w, u)
           goes == /\ u \in DOMAIN w.store.positions
                   /\ Crossed(w.store.positions[u], price)
                   /\ Accepted(w.store, o)
<1>0. /\ w.nextId \in Nat \ {0} /\ n <= w.nextId /\ StoreOK(w.store, w.nextId)
      /\ w.store.users = s.users /\ w.store.indexPrice = s.indexPrice /\ Balance(w.store) = Balance(s)
  BY DEF SweepOK
<1>1. /\ u \in ToSet(s.users) /\ \A j \in 1..i : s.users[j] # u
      /\ 1..(i + 1) = 1..i \cup {i + 1}
  <2>1. s.users \in Seq(Users) /\ IsInjective(s.users)
    BY DEF StoreOK, AccountsOK
  <2>2. i + 1 \in DOMAIN s.users /\ \A j \in 1..i : j \in DOMAIN s.users /\ j # i + 1
    BY <2>1
  <2>3. u \in ToSet(s.users)
    BY <2>2 DEF ToSet
  <2>4. \A j \in 1..i : s.users[j] # u
    BY <2>1, <2>2 DEF IsInjective
  <2> QED BY <2>3, <2>4
<1>2. u \notin Takers(w.fills)
  BY <1>1 DEF SweepOK
<1>3. u \notin Makers(w.fills) => Untouched(s, w.store, u)
  BY <1>2 DEF SweepOK
<1>4. /\ s.collateral \in [ToSet(s.users) -> Balances] /\ DOMAIN s.positions \subseteq ToSet(s.users)
      /\ s.positions \in [DOMAIN s.positions -> Positions]
  BY DEF StoreOK, AccountsOK
<1>5. CASE goes
  <2>0. u \in DOMAIN w.store.positions /\ Accepted(w.store, o) /\ w.nextId \in Nat
    BY <1>0, <1>5
  <2>1. RequestOK(w.store, w.nextId, o) /\ o.userId = u /\ o.kind = "market" /\ HasMatch(w.store, o)
    BY <1>0, <2>0, LiquidationFacts
  <2>2. /\ k.store = r.store /\ k.nextId = w.nextId + 1 /\ k.fills = w.fills \o r.fills
        /\ k.updates = w.updates \o r.updates
    BY <1>5 DEF LiquidateIfCrossed
  <2> HIDE DEF o
  <2>3. /\ RequestDone(w.store, w.nextId, o, r) /\ ToSet(r.fills) # {}
        /\ Told(r.updates, All(w.store), All(r.store))
    BY <1>0, <2>1, PlaceOrderDone, MarketOrderFills, PlaceOrderTold
  <2> HIDE DEF r, k, goes
  <2>4. /\ StoreOK(k.store, k.nextId) /\ k.nextId \in Nat \ {0} /\ n <= k.nextId
        /\ k.store.users = s.users /\ k.store.indexPrice = s.indexPrice /\ Balance(k.store) = Balance(s)
    BY <1>0, <2>2, <2>3 DEF RequestDone
  <2>5. /\ r.fills \in Seq(Fills)
        /\ \A f \in ToSet(r.fills) : f.makerId \in ToSet(s.users) /\ f.takerId = u
    BY <1>0, <2>1, <2>3 DEF RequestDone
  <2>6. k.fills \in Seq(Fills) /\ ToSet(k.fills) = ToSet(w.fills) \cup ToSet(r.fills)
    BY <2>2, <2>5, ToSetConcat DEF SweepOK
  <2>7. \A f \in ToSet(k.fills) : f.makerId \in ToSet(s.users) /\ f.takerId \in ToSet(s.users)
    BY <1>1, <2>5, <2>6 DEF SweepOK
  <2>8. Makers(k.fills) = Makers(w.fills) \cup Makers(r.fills) /\ Takers(k.fills) = Takers(w.fills) \cup {u}
    <3>1. Makers(k.fills) = Makers(w.fills) \cup Makers(r.fills)
      BY <2>6 DEF Makers
    <3>2. PICK f \in ToSet(r.fills) : f.takerId = u
      BY <2>3, <2>5
    <3>3. Takers(k.fills) = Takers(w.fills) \cup {u}
      BY <2>5, <2>6, <3>2 DEF Takers
    <3> QED BY <3>1, <3>3
  <2>9. ASSUME NEW v, v \notin Makers(k.fills), v \notin Takers(k.fills)
        PROVE  Untouched(s, k.store, v) /\ OrdersOf(k.store, v) = OrdersOf(s, v)
    <3>1. v \notin Makers(w.fills) /\ v \notin Takers(w.fills) /\ v # u /\ v \notin Makers(r.fills)
      BY <2>8, <2>9
    <3>2. Untouched(s, w.store, v) /\ OrdersOf(w.store, v) = OrdersOf(s, v)
      BY <3>1 DEF SweepOK
    <3>3. Untouched(w.store, k.store, v) /\ OrdersOf(k.store, v) = OrdersOf(w.store, v)
      BY <2>1, <2>2, <2>3, <3>1 DEF RequestDone
    <3> QED BY <3>2, <3>3 DEF Untouched
  <2>10. /\ \A type \in PositionTypes : DOMAIN k.store.orderbook[type] \subseteq DOMAIN w.store.orderbook[type]
         /\ \A type \in PositionTypes : DOMAIN w.store.orderbook[type] \subseteq DOMAIN s.orderbook[type]
    <3>1. \A type \in PositionTypes : DOMAIN k.store.orderbook[type] \subseteq DOMAIN w.store.orderbook[type]
      BY <2>1, <2>2, <2>3 DEF RequestDone
    <3> QED BY <3>1 DEF SweepOK
  <2>11. \A v \in Takers(k.fills) : \E j \in 1..(i + 1) : v = s.users[j]
    <3>1. \A v \in Takers(w.fills) : \E j \in 1..i : v = s.users[j]
      BY DEF SweepOK
    <3> QED BY <1>1, <2>8, <3>1
  <2>12. ASSUME NEW v \in Takers(k.fills), v \in DOMAIN s.positions, v \notin Makers(k.fills)
         PROVE  Crossed(s.positions[v], price)
    <3>1. CASE v = u
      <4>1. Untouched(s, w.store, u)
        BY <1>3, <2>8, <2>12, <3>1
      <4>2. w.store.positions[u] = s.positions[u]
        BY <2>12, <3>1, <4>1 DEF Untouched
      <4> QED BY <1>5, <3>1, <4>2 DEF goes
    <3>2. CASE v # u
      BY <2>8, <2>12, <3>2 DEF SweepOK
    <3> QED BY <3>1, <3>2
  <2>13. ASSUME NEW j \in 1..(i + 1), Due(s, k.fills, price, s.users[j])
         PROVE  \/ s.collateral[s.users[j]].available < 0
                \/ DOMAIN k.store.orderbook[s.positions[s.users[j]].type] = {}
    <3> DEFINE v == s.users[j]
    <3>1. v # u /\ Due(s, w.fills, price, v)
      BY <2>8, <2>13 DEF Due
    <3>2. j \in 1..i
      BY <1>1, <3>1
    <3>3. \/ s.collateral[v].available < 0
          \/ DOMAIN w.store.orderbook[s.positions[v].type] = {}
      BY <3>1, <3>2 DEF SweepOK
    <3>4. s.positions[v] \in Positions
      BY <1>4, <3>1 DEF Due
    <3>5. s.positions[v].type \in PositionTypes
      BY <3>4 DEF Positions
    <3> HIDE DEF v
    <3>6. \/ s.collateral[v].available < 0
          \/ DOMAIN k.store.orderbook[s.positions[v].type] = {}
      BY <2>10, <3>3, <3>5
    <3> QED BY <3>6 DEF v
  <2>14. Told(k.updates, All(s), All(k.store))
    <3>1. Told(w.updates, All(s), All(w.store))
      BY DEF SweepOK
    <3> QED BY <2>2, <2>3, <3>1, ToldThen
  <2>15. \A type \in PositionTypes : DOMAIN k.store.orderbook[type] \subseteq DOMAIN s.orderbook[type]
    BY <2>10
  <2> QED BY <2>4, <2>6, <2>7, <2>9, <2>11, <2>12, <2>13, <2>14, <2>15 DEF SweepOK, k
<1>6. CASE ~goes
  <2>1. k = w
    BY <1>6 DEF LiquidateIfCrossed
  <2>2. \A v \in Takers(w.fills) : \E j \in 1..(i + 1) : v = s.users[j]
    <3>1. \A v \in Takers(w.fills) : \E j \in 1..i : v = s.users[j]
      BY DEF SweepOK
    <3> QED BY <1>1, <3>1
  <2>3. ASSUME Due(s, w.fills, price, u)
        PROVE  s.collateral[u].available < 0 \/ DOMAIN w.store.orderbook[s.positions[u].type] = {}
    <3>1. u \in DOMAIN s.positions /\ Crossed(s.positions[u], price) /\ Untouched(s, w.store, u)
      BY <1>3, <2>3 DEF Due
    <3>2. /\ u \in DOMAIN w.store.positions /\ w.store.positions[u] = s.positions[u]
          /\ w.store.collateral[u] = s.collateral[u]
      BY <1>1, <1>4, <3>1 DEF Untouched
    <3>3. ~Accepted(w.store, o)
      BY <1>6, <3>1, <3>2
    <3>4. /\ RequestOK(w.store, w.nextId, o) /\ Opposite(o.type) = s.positions[u].type
          /\ Accepted(w.store, o) <=> w.store.collateral[u].available >= 0 /\ HasMatch(w.store, o)
      <4>1. w.nextId \in Nat
        BY <1>0
      <4> QED BY <1>0, <3>2, <4>1, LiquidationFacts
    <3> HIDE DEF o
    <3>5. HasMatch(w.store, o) <=> DOMAIN w.store.orderbook[s.positions[u].type] # {}
      <4>1. w.nextId \in Nat /\ o.type \in PositionTypes
        BY <1>0, <3>4 DEF RequestOK
      <4>2. HasMatch(w.store, o) <=> DOMAIN w.store.orderbook[Opposite(o.type)] # {}
        BY <1>0, <4>1, HasMatchIs
      <4> QED BY <3>4, <4>2
    <3>6. s.collateral[u].available \in Int
      <4>1. s.collateral[u] \in Balances
        BY <1>1, <1>4
      <4> QED BY <4>1 DEF Balances
    <3> DEFINE a == s.collateral[u].available
    <3>7. ~(a >= 0) \/ ~HasMatch(w.store, o)
      BY <3>2, <3>3, <3>4
    <3>8. a \in Int
      BY <3>6
    <3>9. a < 0 \/ ~HasMatch(w.store, o)
      <4> HIDE DEF a
      <4> QED BY <3>7, <3>8
    <3> QED BY <3>5, <3>9
  <2>4. \A j \in 1..(i + 1) : Due(s, w.fills, price, s.users[j]) =>
          \/ s.collateral[s.users[j]].available < 0
          \/ DOMAIN w.store.orderbook[s.positions[s.users[j]].type] = {}
    <3>1. \A j \in 1..i : Due(s, w.fills, price, s.users[j]) =>
            \/ s.collateral[s.users[j]].available < 0
            \/ DOMAIN w.store.orderbook[s.positions[s.users[j]].type] = {}
      BY DEF SweepOK
    <3> QED BY <1>1, <2>3, <3>1
  <2>5. SweepOK(s, n, price, i + 1, w)
    BY <2>2, <2>4 DEF SweepOK
  <2> QED BY <2>1, <2>5
<1> QED BY <1>5, <1>6

LEMMA SweepDone ==
  ASSUME NEW s, NEW n \in Nat \ {0}, StoreOK(s, n), NEW price
  PROVE  Len(s.users) \in Nat /\ SweepOK(s, n, price, Len(s.users), Sweep(s, n, price))
<1>0. Len(s.users) \in Nat
  BY DEF StoreOK, AccountsOK
<1>a. PICK w : Visits(w, s, n, price)
  BY <1>0, SweepRuns
<1>1. /\ w[0] = SweepStart(s, n)
      /\ \A i \in Nat : i < Len(s.users) => w[i + 1] = LiquidateIfCrossed(price, w[i], s.users[i + 1])
      /\ Sweep(s, n, price) = w[Len(s.users)]
  BY <1>a DEF Visits
<1> DEFINE N == {i \in Nat : i <= Len(s.users) => SweepOK(s, n, price, i, w[i])}
<1>2. 0 \in N
  BY <1>1, SweepStarts
<1>3. ASSUME NEW i \in N PROVE i + 1 \in N
  <2> SUFFICES ASSUME i + 1 <= Len(s.users) PROVE SweepOK(s, n, price, i + 1, w[i + 1])
    OBVIOUS
  <2>1. i < Len(s.users) /\ i <= Len(s.users) /\ i \in Nat
    BY <1>0
  <2>2. SweepOK(s, n, price, i, w[i])
    BY <2>1
  <2> DEFINE u == s.users[i + 1]
  <2>3. w[i + 1] = LiquidateIfCrossed(price, w[i], u)
    BY <1>1, <2>1
  <2>4. u = s.users[i + 1]
    OBVIOUS
  <2> HIDE DEF u
  <2>5. SweepOK(s, n, price, i + 1, LiquidateIfCrossed(price, w[i], u))
    BY <2>1, <2>2, <2>4, SweepGoesOn
  <2> QED BY <2>3, <2>5
<1>4. N \in SUBSET Nat
  OBVIOUS
<1>5. N = Nat
  <2> HIDE DEF N
  <2> QED BY <1>2, <1>3, <1>4, SetInduction
<1>6. SweepOK(s, n, price, Len(s.users), w[Len(s.users)])
  BY <1>0, <1>5
<1> QED BY <1>0, <1>1, <1>6

-----------------------------------------------------------------------------
(* The margin of an account that has not traded.                           *)

MarginsOf(S) == SumFunction([o \in S |-> o.margin])

LEMMA MarginsOfAdd ==
  ASSUME NEW S, IsFiniteSet(S), NEW x, x \notin S, \A o \in S \cup {x} : o.margin \in Int
  PROVE  MarginsOf(S) \in Int /\ MarginsOf(S \cup {x}) = MarginsOf(S) + x.margin
<1> DEFINE f == [o \in S |-> o.margin]
           g == [o \in S \cup {x} |-> o.margin]
<1>1. MarginsOf(S) = SumFunctionOnSet(f, S) /\ MarginsOf(S \cup {x}) = SumFunctionOnSet(g, S \cup {x})
  BY DEF MarginsOf, SumFunction
<1>2. /\ \A o \in S : f[o] \in Int
      /\ \A o \in S \cup {x} : g[o] \in Int
      /\ g[x] = x.margin
      /\ \A o \in S : g[o] = f[o]
  OBVIOUS
<1> HIDE DEF f, g
<1>3. SumFunctionOnSet(g, S) = SumFunctionOnSet(f, S)
  BY <1>2, SumSame
<1>4. SumFunctionOnSet(f, S) \in Int
  BY <1>2, SumType
<1>5. SumFunctionOnSet(g, S \cup {x}) = g[x] + SumFunctionOnSet(g, S)
  BY <1>2, SumAdd
<1> QED BY <1>1, <1>2, <1>3, <1>4, <1>5

LEMMA MarginsOfNone == ASSUME NEW S, S = {} PROVE MarginsOf(S) = 0
<1> DEFINE f == [o \in S |-> o.margin]
<1>1. MarginsOf(S) = SumFunctionOnSet(f, S)
  BY DEF MarginsOf, SumFunction
<1>2. IsFiniteSet(S)
  BY FS_EmptySet
<1> HIDE DEF f
<1> QED BY <1>1, <1>2, SumPick

\* a and b differ by half a hundredth for each order older than n, at most.
Near(a, b, n) == 2 * Abs(a - b) <= Cent * (n - 1)

LEMMA NearLater ==
  ASSUME NEW a \in Int, NEW b \in Int, NEW n \in Nat \ {0}, Near(a, b, n), NEW k \in Nat, n <= k
  PROVE  Near(a, b, k)
<1>1. Cent * (n - 1) <= Cent * (k - 1) /\ Cent * (n - 1) \in Int /\ Cent * (k - 1) \in Int
  BY CentAssumption
<1>2. Abs(a - b) \in Int
  BY DEF Abs
<1> HIDE DEF Abs
<1> QED BY <1>1, <1>2 DEF Near

\* One order more, whose margin was rounded.
LEMMA NearNext ==
  ASSUME NEW a \in Int, NEW b \in Int, NEW n \in Nat \ {0}, Near(a, b, n),
         NEW m \in Int, NEW r \in Int, 2 * Abs(r - m) <= Cent
  PROVE  Near(a + m, b + r, n + 1)
<1>1. PICK c \in Nat : c = Cent
  BY CentAssumption
<1>2. PICK k \in Int : k = Cent * (n - 1) /\ Cent * ((n + 1) - 1) = k + c
  BY CentAssumption, <1>1
<1>3. 2 * Abs(a - b) <= k /\ 2 * Abs(r - m) <= c
  BY <1>1, <1>2 DEF Near
<1>4. 2 * Abs((a + m) - (b + r)) <= k + c
  BY <1>3 DEF Abs
<1> QED BY <1>2, <1>4 DEF Near

\* The account u, which has deposited paidIn, has not traded: its money is all
\* there, and what is locked is near what its orders on the book hold.
Covered(s, n, u, paidIn) ==
  /\ u \notin DOMAIN s.positions
  /\ s.collateral[u].available + s.collateral[u].locked = paidIn
  /\ Near(s.collateral[u].locked, MarginsOf(OrdersOf(s, u)), n)

LEMMA CoveredKept ==
  ASSUME NEW s, NEW t, NEW n, NEW u, NEW d, Covered(s, n, u, d), u \in DOMAIN s.collateral,
         Untouched(s, t, u), OrdersOf(t, u) = OrdersOf(s, u)
  PROVE  Covered(t, n, u, d)
BY DEF Covered, Untouched

LEMMA OrdersOfFacts ==
  ASSUME NEW s, NEW n \in Nat \ {0}, StoreOK(s, n), NEW u
  PROVE  /\ IsFiniteSet(OrdersOf(s, u)) /\ \A o \in OrdersOf(s, u) : o.margin \in Int /\ o.orderId # n
         /\ u \notin ToSet(s.users) => OrdersOf(s, u) = {}
         /\ s.collateral \in [ToSet(s.users) -> Balances]
         /\ u \in ToSet(s.users) => s.collateral[u].available \in Int /\ s.collateral[u].locked \in Int
<1>1. /\ \A o \in All(s) : o \in Orders(ToSet(s.users), n) /\ o.orderId # n
      /\ IsFiniteSet(All(s))
  BY AllFacts DEF StoreOK
<1>2. IsFiniteSet(OrdersOf(s, u))
  <2>1. OrdersOf(s, u) \subseteq All(s)
    BY DEF OrdersOf
  <2> QED BY <1>1, <2>1, FS_Subset
<1>3. \A o \in OrdersOf(s, u) : o.margin \in Int /\ o.userId \in ToSet(s.users) /\ o.userId = u /\ o.orderId # n
  BY <1>1 DEF OrdersOf, Orders
<1>4. s.collateral \in [ToSet(s.users) -> Balances]
  BY DEF StoreOK, AccountsOK
<1>5. u \in ToSet(s.users) => s.collateral[u].available \in Int /\ s.collateral[u].locked \in Int
  <2>1. u \in ToSet(s.users) => s.collateral[u] \in Balances
    BY <1>4
  <2> QED BY <2>1 DEF Balances
<1> QED BY <1>2, <1>3, <1>4, <1>5

LEMMA MarginsOfType ==
  ASSUME NEW S, IsFiniteSet(S), \A o \in S : o.margin \in Int
  PROVE  MarginsOf(S) \in Int
<1> DEFINE f == [o \in S |-> o.margin]
<1>1. MarginsOf(S) = SumFunctionOnSet(f, S)
  BY DEF MarginsOf, SumFunction
<1>2. \A o \in S : f[o] \in Int
  OBVIOUS
<1> HIDE DEF f
<1> QED BY <1>1, <1>2, SumType

\* Other orders came in between.
LEMMA CoveredLater ==
  ASSUME NEW s, NEW n \in Nat \ {0}, StoreOK(s, n), NEW u \in ToSet(s.users), NEW d, Covered(s, n, u, d),
         NEW k \in Nat, n <= k
  PROVE  Covered(s, k, u, d)
<1>1. /\ IsFiniteSet(OrdersOf(s, u)) /\ \A o \in OrdersOf(s, u) : o.margin \in Int
      /\ s.collateral[u].locked \in Int
  BY OrdersOfFacts
<1>2. MarginsOf(OrdersOf(s, u)) \in Int
  BY <1>1, MarginsOfType
<1>3. Near(s.collateral[u].locked, MarginsOf(OrdersOf(s, u)), n)
  BY DEF Covered
<1>4. Near(s.collateral[u].locked, MarginsOf(OrdersOf(s, u)), k)
  BY <1>1, <1>2, <1>3, NearLater
<1> QED BY <1>4 DEF Covered

\* An order that meets nothing rests with the margin it took, rounded.
LEMMA CoveredRests ==
  ASSUME NEW s, NEW n \in Nat \ {0}, StoreOK(s, n), NEW o, RequestOK(s, n, o), Accepted(s, o),
         NEW d, Covered(s, n, o.userId, d), ToSet(PlaceOrder(s, n, o).fills) = {}
  PROVE  Covered(PlaceOrder(s, n, o).store, n + 1, o.userId, d)
<1> DEFINE r == PlaceOrder(s, n, o)
           t == Locked(s, o)
           u == o.userId
           taker == TakerOf(s, n, o)
           x == [orderId |-> taker.id, userId |-> taker.userId, qty |-> taker.qty,
                 filledQty |-> taker.qty - o.qty, margin |-> RelativeMargin(taker.margin, taker.qty, o.qty)]
<1>0. n \in Nat /\ o.qty \in Nat \ {0} /\ u \in ToSet(s.users) /\ o.margin \in Int
  BY DEF RequestOK
<1>1. RequestDone(s, n, o, r)
  BY PlaceOrderDone
<1>2. o.kind = "limit"
  <2>1. o.kind = "market" => HasMatch(s, o)
    BY DEF Accepted
  <2>2. o.kind # "market"
    BY <2>1, MarketOrderFills
  <2> QED BY <2>2 DEF RequestOK
<1>3. MarginTaken(s, o) = o.margin
  BY DEF Covered, RiskReducing, MarginTaken
<1>4. /\ t.positions = s.positions /\ u \in DOMAIN t.collateral
      /\ t.collateral[u] = [available |-> s.collateral[u].available - o.margin,
                            locked    |-> s.collateral[u].locked + o.margin]
  BY <1>0, <1>3, LockedFacts
<1>5. /\ taker.id = n /\ taker.userId = u /\ taker.kind = "limit" /\ taker.qty = o.qty
      /\ taker.margin = o.margin
  BY <1>2, <1>3, TakerFacts
<1>6. /\ Untouched(t, r.store, u)
      /\ OrdersOf(r.store, u) = OrdersOf(s, u) \cup Resting(taker, o.qty)
  BY <1>1 DEF RequestDone
<1>7. Resting(taker, o.qty) = {x}
  BY <1>0, <1>5 DEF Resting
<1>8. x.margin \in Int /\ 2 * Abs(x.margin - o.margin) <= Cent /\ x.orderId = n
  <2>1. RelativeMargin(o.margin, o.qty, o.qty) \in Int /\ 2 * Abs(RelativeMargin(o.margin, o.qty, o.qty) - o.margin) <= Cent
    BY <1>0, MarginWhole, MarginType
  <2> QED BY <1>5, <2>1
<1> HIDE DEF r, t, u, taker, x
<1>9. /\ IsFiniteSet(OrdersOf(s, u)) /\ \A y \in OrdersOf(s, u) : y.margin \in Int /\ y.orderId # n
      /\ s.collateral[u].available \in Int /\ s.collateral[u].locked \in Int
  BY <1>0, OrdersOfFacts
<1>10. MarginsOf(OrdersOf(r.store, u)) = MarginsOf(OrdersOf(s, u)) + x.margin /\ MarginsOf(OrdersOf(s, u)) \in Int
  <2>1. x \notin OrdersOf(s, u) /\ \A y \in OrdersOf(s, u) \cup {x} : y.margin \in Int
    BY <1>0, <1>8, <1>9
  <2>2. MarginsOf(OrdersOf(s, u) \cup {x}) = MarginsOf(OrdersOf(s, u)) + x.margin /\ MarginsOf(OrdersOf(s, u)) \in Int
    BY <1>9, <2>1, MarginsOfAdd
  <2> QED BY <1>6, <1>7, <2>2
<1>11. /\ u \notin DOMAIN r.store.positions
       /\ r.store.collateral[u].available = s.collateral[u].available - o.margin
       /\ r.store.collateral[u].locked = s.collateral[u].locked + o.margin
  BY <1>4, <1>6 DEF Untouched, Covered, u
<1>12. /\ s.collateral[u].available + s.collateral[u].locked = d
       /\ Near(s.collateral[u].locked, MarginsOf(OrdersOf(s, u)), n)
  BY DEF Covered, u
<1>13. (s.collateral[u].available - o.margin) + (s.collateral[u].locked + o.margin) =
         s.collateral[u].available + s.collateral[u].locked
  BY <1>0, <1>9
<1>14. Near(s.collateral[u].locked + o.margin, MarginsOf(OrdersOf(s, u)) + x.margin, n + 1)
  BY <1>0, <1>8, <1>9, <1>10, <1>12, NearNext
<1> QED BY <1>10, <1>11, <1>12, <1>13, <1>14 DEF Covered, r, u

-----------------------------------------------------------------------------
(* An account is created.                                                  *)

NoMoney == [available |-> 0, locked |-> 0]

\* t is s with the account u.
Joined(s, t, u) ==
  /\ ToSet(t.users) = ToSet(s.users) \cup {u}
  /\ Balance(t) = Balance(s) /\ All(t) = All(s)
  /\ t.positions = s.positions /\ t.orderbook = s.orderbook
  /\ t.lastTradedPrice = s.lastTradedPrice /\ t.indexPrice = s.indexPrice
  /\ \A v : Untouched(s, t, v) /\ OrdersOf(t, v) = OrdersOf(s, v)
  /\ u \notin ToSet(s.users) => t.collateral[u] = NoMoney

LEMMA WithUserJoins ==
  ASSUME NEW s, NEW n \in Nat \ {0}, StoreOK(s, n), NEW u \in Users
  PROVE  StoreOK(WithUser(s, u), n) /\ Joined(s, WithUser(s, u), u)
<1> DEFINE t == WithUser(s, u)
<1>0. /\ Shaped(s) /\ AccountsOK(s) /\ BookOK(s, n) /\ RestsOnce(s)
      /\ s.users \in Seq(Users) /\ IsInjective(s.users)
      /\ s.collateral \in [ToSet(s.users) -> Balances]
      /\ DOMAIN s.positions \subseteq ToSet(s.users)
  BY DEF StoreOK, AccountsOK
<1>1. CASE u \in ToSet(s.users)
  <2>1. t = s /\ ToSet(s.users) \cup {u} = ToSet(s.users)
    BY <1>1 DEF WithUser
  <2> QED BY <1>1, <2>1 DEF Joined, Untouched
<1>2. CASE u \notin ToSet(s.users)
  <2> DEFINE users == Append(s.users, u)
             D == ToSet(s.users) \cup {u}
             collateral == [v \in D |-> IF v = u THEN NoMoney ELSE s.collateral[v]]
  <2>1. t = [s EXCEPT !.users = users, !.collateral = collateral]
    BY <1>0, <1>2 DEF WithUser, Shaped, NoMoney
  <2>2. users \in Seq(Users) /\ ToSet(users) = D
    BY <1>0, ToSetAppend
  <2>3. IsInjective(users)
    <3>1. /\ Len(s.users) \in Nat /\ DOMAIN s.users = 1..Len(s.users)
          /\ DOMAIN users = 1..(Len(s.users) + 1)
          /\ \A i \in 1..Len(s.users) : users[i] = s.users[i]
          /\ users[Len(s.users) + 1] = u
      BY <1>0
    <3> HIDE DEF users
    <3>2. \A i \in 1..Len(s.users) : s.users[i] # u
      BY <1>2, <3>1 DEF ToSet
    <3>3. \A i \in DOMAIN users : i # Len(s.users) + 1 => i \in 1..Len(s.users)
      BY <3>1
    <3>4. \A i, j \in DOMAIN users : users[i] = users[j] => i = j
      BY <1>0, <3>1, <3>2, <3>3 DEF IsInjective
    <3> QED BY <3>4 DEF IsInjective
  <2>4. collateral \in [D -> Balances] /\ collateral[u] = NoMoney
        /\ \A v \in ToSet(s.users) : collateral[v] = s.collateral[v]
    <3>1. NoMoney \in Balances
      BY DEF NoMoney, Balances
    <3> QED BY <1>0, <1>2, <3>1
  <2> HIDE DEF t, users, collateral
  <2>5. /\ t.users = users /\ t.collateral = collateral /\ Shaped(t)
        /\ t.positions = s.positions /\ t.orderbook = s.orderbook
        /\ t.lastTradedPrice = s.lastTradedPrice /\ t.indexPrice = s.indexPrice
    BY <1>0, <2>1 DEF Shaped
  <2>6. AccountsOK(t)
    <3>1. t.users \in Seq(Users) /\ IsInjective(t.users) /\ ToSet(t.users) = D
      BY <2>2, <2>3, <2>5
    <3>2. t.collateral \in [ToSet(t.users) -> Balances]
      BY <2>4, <2>5, <3>1
    <3>3. DOMAIN t.positions \subseteq ToSet(t.users) /\ t.positions \in [DOMAIN t.positions -> Positions]
      BY <1>0, <2>5, <3>1 DEF AccountsOK
    <3> QED BY <1>0, <2>5, <3>1, <3>2, <3>3 DEF AccountsOK
  <2>7. BookOK(t, n)
    <3>1. \A type \in PositionTypes : SideOK(s.orderbook[type], ToSet(t.users), n)
      <4>1. \A type \in PositionTypes : SideOK(s.orderbook[type], ToSet(s.users), n)
        BY <1>0 DEF BookOK
      <4>2. ToSet(s.users) \subseteq ToSet(t.users) /\ n \in Nat /\ n <= n
        BY <2>2, <2>5
      <4> QED BY <4>1, <4>2, SideLater
    <3> QED BY <1>0, <2>5, <3>1 DEF BookOK
  <2>8. RestsOnce(t) /\ All(t) = All(s)
    BY <1>0, <2>5 DEF RestsOnce, All
  <2>9. \A v : Untouched(s, t, v) /\ OrdersOf(t, v) = OrdersOf(s, v)
    BY <1>0, <2>4, <2>5, <2>8 DEF Untouched, OrdersOf
  <2>10. Balance(t) = Balance(s)
    <3> DEFINE S == ToSet(s.users)
               f == [v \in S |-> Exposure(s, v)]
               g == [v \in S \cup {u} |-> Exposure(t, v)]
    <3>1. Balance(s) = SumFunctionOnSet(f, S) /\ Balance(t) = SumFunctionOnSet(g, S \cup {u})
      BY <2>2, <2>5 DEF Balance, SumFunction
    <3>2. IsFiniteSet(S) /\ (\A v \in S : f[v] \in Int) /\ (\A v \in S \cup {u} : g[v] \in Int)
      BY <1>0, <2>6, UsersFinite
    <3>3. (\A v \in S : g[v] = f[v]) /\ g[u] = 0
      <4>1. \A v : Exposure(t, v) = Exposure(s, v)
        BY <2>5 DEF Exposure
      <4>2. Exposure(s, u) = 0
        BY <1>0, <1>2 DEF Exposure
      <4> QED BY <4>1, <4>2
    <3>4. u \notin S
      BY <1>2
    <3> HIDE DEF f, g, S
    <3>5. SumFunctionOnSet(g, S \cup {u}) = g[u] + SumFunctionOnSet(g, S)
      BY <3>2, <3>4, SumAdd
    <3>6. SumFunctionOnSet(g, S) = SumFunctionOnSet(f, S) /\ SumFunctionOnSet(f, S) \in Int
      BY <3>2, <3>3, SumSame, SumType
    <3> QED BY <3>1, <3>3, <3>5, <3>6
  <2>11. StoreOK(t, n)
    BY <2>5, <2>6, <2>7, <2>8 DEF StoreOK
  <2>12. Joined(s, t, u)
    BY <2>2, <2>4, <2>5, <2>8, <2>9, <2>10 DEF Joined
  <2> QED BY <2>11, <2>12 DEF t
<1> QED BY <1>1, <1>2

-----------------------------------------------------------------------------
(* A cancellation.                                                         *)

\* The side after the i-th order of a price is taken out.
Without(side, price, i) ==
  LET open    == ListAt(side, price)[i]
      orders  == RemoveAt(ListAt(side, price), i)
      offered == InDoubles(side[price].availableQty - Remaining(open))
  IN  IF offered <= 0 \/ Empty(orders) THEN WithoutLevel(side, price) ELSE WithLevel(side, price, offered, orders)

\* The store after that, and after its account has its margin back.
Cancelled(s, type, price, i) ==
  LET open == ListAt(s.orderbook[type], price)[i]
  IN  [s EXCEPT !.collateral[open.userId] = [available |-> @.available + open.margin,
                                             locked    |-> @.locked - open.margin],
                !.orderbook[type] = Without(@, price, i)]

LEMMA WithoutTakes ==
  ASSUME NEW us, NEW n \in Nat, NEW side, SideOK(side, us, n), NEW price \in DOMAIN side,
         NEW i \in DOMAIN ListAt(side, price), NEW open, open = ListAt(side, price)[i]
  PROVE  /\ SideOK(Without(side, price, i), us, n)
         /\ SideMoves(side, Without(side, price, i), price, {open}, {})
         /\ open \in At(side, price) /\ open \in Orders(us, n)
<1> DEFINE orders == RemoveAt(ListAt(side, price), i)
           offered == InDoubles(side[price].availableQty - Remaining(open))
           after == Without(side, price, i)
<1>0. LevelKnown(side, price, us, n)
  BY LevelFacts
<1>1. price \in LimitPrices /\ open \in At(side, price) /\ open \in Orders(us, n)
  BY <1>0 DEF LevelKnown
<1>2. after = IF offered <= 0 \/ Empty(orders) THEN WithoutLevel(side, price)
                                                ELSE WithLevel(side, price, offered, orders)
  BY DEF Without
<1> HIDE DEF orders, after
<1>3. orders = RemoveAt(ListAt(side, price), i)
  BY DEF orders
<1>4. Listed(orders, us, n) /\ ToSet(orders) = At(side, price) \ {open} /\ offered = LeftOf(ToSet(orders))
  <2>1. Listed(orders, us, n) /\ LeftBy(side, price, ListAt(side, price)[i], orders)
    BY <1>3, CancelTakes
  <2>2. InDoubles(LeftOf(ToSet(orders))) = LeftOf(ToSet(orders))
    BY <2>1, ListBound
  <2> QED BY <2>1, <2>2 DEF LeftBy
<1> HIDE DEF offered
<1>5. /\ offered \in Nat /\ (offered <= 0 <=> Empty(orders))
      /\ Empty(orders) => Replaced(side, price, orders) = WithoutLevel(side, price)
      /\ ~Empty(orders) => Replaced(side, price, orders) = WithLevel(side, price, offered, orders)
  BY <1>4, LevelWritten
<1>6. after = Replaced(side, price, orders)
  BY <1>2, <1>5
<1>7. /\ SideOK(after, us, n)
      /\ \A p : At(after, p) = IF p = price THEN ToSet(orders) ELSE At(side, p)
  BY <1>1, <1>4, <1>6, LevelReplaced
<1> QED BY <1>1, <1>4, <1>7 DEF SideMoves, after

Unlocked(s, open) ==
  [s.collateral EXCEPT ![open.userId] = [available |-> s.collateral[open.userId].available + open.margin,
                                         locked    |-> s.collateral[open.userId].locked - open.margin]]

\* An order leaves the book.
OrderLeaves(s, t, type, price, open) == BookMoves(s, t, type, price, {open}, {})

LEMMA CancelledFacts ==
  ASSUME NEW s, NEW n \in Nat \ {0}, StoreOK(s, n), NEW type \in PositionTypes,
         NEW price \in DOMAIN s.orderbook[type], NEW i \in DOMAIN ListAt(s.orderbook[type], price),
         NEW open, open = ListAt(s.orderbook[type], price)[i], NEW t, t = Cancelled(s, type, price, i)
  PROVE  /\ StoreOK(t, n) /\ t.users = s.users /\ t.positions = s.positions
         /\ Balance(t) = Balance(s)
         /\ open \in All(s) /\ All(t) = All(s) \ {open} /\ open \in Orders(ToSet(s.users), n)
         /\ t.collateral = Unlocked(s, open)
         /\ OrderLeaves(s, t, type, price, open)
<1> DEFINE u == open.userId
           side == s.orderbook[type]
           new == Without(side, price, i)
           c == [available |-> s.collateral[u].available + open.margin,
                 locked    |-> s.collateral[u].locked - open.margin]
<1>0. /\ Shaped(s) /\ AccountsOK(s) /\ BookOK(s, n) /\ RestsOnce(s) /\ n \in Nat /\ n <= n
      /\ SideOK(side, ToSet(s.users), n)
      /\ s.collateral \in [ToSet(s.users) -> Balances]
      /\ s.orderbook = [k \in PositionTypes |-> s.orderbook[k]]
  BY DEF StoreOK, AccountsOK, BookOK
<1>1. /\ SideOK(new, ToSet(s.users), n) /\ SideMoves(side, new, price, {open}, {})
      /\ open \in At(side, price) /\ open \in Orders(ToSet(s.users), n)
  BY <1>0, WithoutTakes
<1>2. u \in ToSet(s.users) /\ open.margin \in Int /\ open \in All(s)
  <2>1. open \in All(s)
    BY <1>1, InAll
  <2> QED BY <1>1, <2>1 DEF Orders
<1>3. c \in Balances
  <2>1. s.collateral[u] \in Balances
    BY <1>0, <1>2
  <2>2. s.collateral[u].available \in Int /\ s.collateral[u].locked \in Int
    BY <2>1 DEF Balances
  <2> QED BY <1>2, <2>2 DEF Balances
<1>4. t = [s EXCEPT !.collateral = [s.collateral EXCEPT ![u] = c], !.orderbook = WithSide(s, type, new)]
  BY <1>0, <1>2 DEF Cancelled, WithSide, Shaped
<1> HIDE DEF c, new, u
<1>5. /\ t.collateral = [s.collateral EXCEPT ![u] = c] /\ t.orderbook = WithSide(s, type, new)
      /\ t.users = s.users /\ t.positions = s.positions /\ Shaped(t)
      /\ t.lastTradedPrice = s.lastTradedPrice /\ t.indexPrice = s.indexPrice
  BY <1>0, <1>4 DEF Shaped
<1>6. t.collateral \in [ToSet(s.users) -> Balances]
  BY <1>0, <1>2, <1>3, <1>5
<1>7. AccountsOK(t)
  BY <1>0, <1>5, <1>6 DEF AccountsOK
<1>8. /\ BookOK(t, n) /\ t.orderbook[type] = new
      /\ \A k \in PositionTypes : k # type => t.orderbook[k] = s.orderbook[k]
  BY <1>0, <1>1, <1>5, SideReplaced
<1>9. RestsOnce(t) /\ All(t) = (All(s) \ {open}) \cup {} /\ OrderLeaves(s, t, type, price, open)
  <2> DEFINE gone == {open}
             more == {}
  <2>1. BookMoves(s, t, type, price, gone, more)
    BY <1>1, <1>8 DEF BookMoves
  <2> HIDE DEF gone, more
  <2>2. RestsOnce(t) /\ All(t) = (All(s) \ gone) \cup more
    BY <1>0, <2>1, BookChanged
  <2> QED BY <2>1, <2>2 DEF OrderLeaves, gone, more
<1>10. Balance(t) = Balance(s)
  BY <1>5 DEF Balance, Exposure
<1> QED BY <1>1, <1>2, <1>5, <1>7, <1>8, <1>9, <1>10 DEF StoreOK, Unlocked, c, u

\* What a cancelled order held is unlocked, so what is locked is still near what rests.
LEMMA CoveredCancelled ==
  ASSUME NEW s, NEW n \in Nat \ {0}, StoreOK(s, n), NEW type \in PositionTypes,
         NEW price \in DOMAIN s.orderbook[type], NEW i \in DOMAIN ListAt(s.orderbook[type], price),
         NEW open, open = ListAt(s.orderbook[type], price)[i], NEW t, t = Cancelled(s, type, price, i),
         NEW v \in ToSet(s.users), NEW d, Covered(s, n, v, d)
  PROVE  Covered(t, n, v, d)
<1> DEFINE u == open.userId
           c == [available |-> s.collateral[u].available + open.margin,
                 locked    |-> s.collateral[u].locked - open.margin]
<1>1. /\ t.users = s.users /\ t.positions = s.positions
      /\ open \in All(s) /\ All(t) = All(s) \ {open} /\ open \in Orders(ToSet(s.users), n)
      /\ t.collateral = Unlocked(s, open)
  BY CancelledFacts
<1>2. t.collateral = [s.collateral EXCEPT ![u] = c]
  BY <1>1 DEF Unlocked
<1>3. u \in ToSet(s.users) /\ open.margin \in Int
  BY <1>1 DEF Orders
<1>4. /\ IsFiniteSet(OrdersOf(s, v)) /\ \A o \in OrdersOf(s, v) : o.margin \in Int
      /\ s.collateral \in [ToSet(s.users) -> Balances]
      /\ s.collateral[v].available \in Int /\ s.collateral[v].locked \in Int
  BY OrdersOfFacts
<1>5. CASE v # u
  <2>1. t.collateral[v] = s.collateral[v] /\ OrdersOf(t, v) = OrdersOf(s, v)
    BY <1>1, <1>3, <1>4, <1>5, <1>2 DEF OrdersOf
  <2> QED BY <1>1, <2>1 DEF Covered
<1>6. CASE v = u
  <2>1. OrdersOf(t, v) = OrdersOf(s, v) \ {open} /\ open \in OrdersOf(s, v)
    BY <1>1, <1>6 DEF OrdersOf
  <2> DEFINE R == OrdersOf(s, v) \ {open}
  <2>2. R \cup {open} = OrdersOf(s, v) /\ open \notin R /\ IsFiniteSet(R)
    <3>1. IsFiniteSet(R)
      BY <1>4, FS_Difference
    <3> QED BY <2>1, <3>1
  <2>3. MarginsOf(R) \in Int /\ MarginsOf(R \cup {open}) = MarginsOf(R) + open.margin
    <3>1. \A o \in R \cup {open} : o.margin \in Int
      BY <1>4, <2>2
    <3> HIDE DEF R
    <3> QED BY <2>2, <3>1, MarginsOfAdd
  <2>4. t.collateral[v].available = s.collateral[v].available + open.margin
        /\ t.collateral[v].locked = s.collateral[v].locked - open.margin
    BY <1>4, <1>6, <1>2
  <2>5. /\ s.collateral[v].available + s.collateral[v].locked = d
        /\ Near(s.collateral[v].locked, MarginsOf(OrdersOf(s, v)), n) /\ v \notin DOMAIN s.positions
    BY DEF Covered
  <2> DEFINE a == s.collateral[v].available
             l == s.collateral[v].locked
  <2>6. (a + open.margin) + (l - open.margin) = a + l
    BY <1>3, <1>4
  <2>7. Near(l - open.margin, MarginsOf(OrdersOf(t, v)), n)
    <3>1. MarginsOf(OrdersOf(t, v)) = MarginsOf(R) /\ Near(l, MarginsOf(R) + open.margin, n)
      BY <2>1, <2>2, <2>3, <2>5
    <3> DEFINE b == MarginsOf(R)
    <3>2. b \in Int /\ l \in Int /\ open.margin \in Int
      BY <1>3, <1>4, <2>3
    <3> HIDE DEF R, l, b
    <3>3. (l - open.margin) - b = l - (b + open.margin)
      BY <3>2
    <3>4. Near(l - open.margin, b, n)
      BY <3>1, <3>3 DEF Near, b
    <3> QED BY <3>1, <3>4 DEF b
  <2> QED BY <1>1, <2>4, <2>5, <2>6, <2>7 DEF Covered
<1> QED BY <1>5, <1>6

-----------------------------------------------------------------------------
(* Funding.                                                                *)

\* What a position is paid is an amount, and leaves its type and quantity alone.
LEMMA FundedFacts ==
  ASSUME NEW n, StoreOK(store, n), NEW position \in Positions
  PROVE  /\ Funding(position) \in Int
         /\ Funded(position) \in Positions
         /\ Funded(position).type = position.type /\ Funded(position).qty = position.qty
         /\ Funded(position).margin =
              IF position.type = LONG THEN position.margin - Funding(position)
                                      ELSE position.margin + Funding(position)
<1>1. store.lastTradedPrice \in Nat \ {0} /\ store.indexPrice \in Nat \ {0}
  BY PricesPositive DEF StoreOK, AccountsOK
<1>2. /\ position.type \in PositionTypes /\ position.qty \in Nat \ {0} /\ position.margin \in Int
      /\ position.averagePrice \in Int
  BY DEF Positions
<1>3. Funding(position) \in Int
  <2> DEFINE num == position.qty * store.lastTradedPrice * (store.lastTradedPrice - store.indexPrice)
  <2>1. num \in Int
    BY <1>1, <1>2
  <2>2. Funding(position) = NearestQuotient(num, store.indexPrice)
    BY DEF Funding
  <2> HIDE DEF num
  <2> QED BY <1>1, <2>1, <2>2, NearestType
<1> DEFINE margin == IF position.type = LONG THEN position.margin - Funding(position)
                                             ELSE position.margin + Funding(position)
<1>4. margin \in Int
  BY <1>2, <1>3
<1>5. Funded(position) = Position(position.type, position.qty, margin, position.averagePrice, position.type)
  BY DEF Funded
<1> HIDE DEF margin
<1>6. Funded(position) \in Positions
  BY <1>2, <1>4, <1>5, PositionType
<1>7. /\ Funded(position).type = position.type /\ Funded(position).qty = position.qty
      /\ Funded(position).margin = margin
  BY <1>5 DEF Position
<1> QED BY <1>3, <1>6, <1>7 DEF margin

\* A store in which only the margins of the positions have changed.
LEMMA Refunded ==
  ASSUME NEW s, NEW n \in Nat \ {0}, StoreOK(s, n), NEW positions \in [DOMAIN s.positions -> Positions],
         \A u \in DOMAIN s.positions : positions[u].type = s.positions[u].type /\ positions[u].qty = s.positions[u].qty,
         NEW t, t = [s EXCEPT !.positions = positions]
  PROVE  /\ StoreOK(t, n) /\ Balance(t) = Balance(s) /\ All(t) = All(s) /\ t.users = s.users
         /\ t.positions = positions
         /\ \A k, u, d : Covered(s, k, u, d) => Covered(t, k, u, d)
<1>0. Shaped(s) /\ AccountsOK(s) /\ BookOK(s, n) /\ RestsOnce(s)
  BY DEF StoreOK
<1>1. /\ t.collateral = s.collateral /\ t.orderbook = s.orderbook
      /\ t.users = s.users /\ t.positions = positions /\ Shaped(t)
      /\ t.lastTradedPrice = s.lastTradedPrice /\ t.indexPrice = s.indexPrice
  BY <1>0 DEF Shaped
<1>2. AccountsOK(t)
  BY <1>0, <1>1 DEF AccountsOK
<1>3. SameBook(s, t)
  BY <1>1 DEF SameBook
<1>4. BookOK(t, n) /\ RestsOnce(t) /\ All(t) = All(s)
  BY <1>0, <1>3, SameBookKeeps
<1>5. \A u : Exposure(t, u) = Exposure(s, u)
  BY <1>1 DEF Exposure
<1>6. Balance(t) = Balance(s)
  BY <1>1, <1>5 DEF Balance
<1>7. \A k, u, d : Covered(s, k, u, d) => Covered(t, k, u, d)
  BY <1>1, <1>4 DEF Covered, OrdersOf
<1> QED BY <1>1, <1>2, <1>4, <1>6, <1>7 DEF StoreOK

-----------------------------------------------------------------------------
(* What a request leaves of the accounts that have not traded.             *)

MarginsCovered(s, n, tr, paidIn) ==
  /\ \A u \in ToSet(s.users) \ tr : Covered(s, n, u, paidIn[u])
  /\ \A u \in Users \ ToSet(s.users) : paidIn[u] = 0

LEMMA JoinedMargins ==
  ASSUME NEW s, NEW n \in Nat \ {0}, StoreOK(s, n), NEW tr, NEW paidIn, MarginsCovered(s, n, tr, paidIn),
         NEW u \in Users, NEW t, Joined(s, t, u)
  PROVE  MarginsCovered(t, n, tr, paidIn)
<1>1. /\ s.collateral \in [ToSet(s.users) -> Balances] /\ DOMAIN s.positions \subseteq ToSet(s.users)
      /\ ToSet(s.users) \subseteq Users
  BY UsersFinite DEF StoreOK, AccountsOK
<1>2. ASSUME NEW v \in ToSet(t.users), v \notin tr
      PROVE  Covered(t, n, v, paidIn[v])
  <2>1. CASE v \in ToSet(s.users)
    <3>1. Covered(s, n, v, paidIn[v]) /\ v \in DOMAIN s.collateral
      BY <1>1, <1>2, <2>1 DEF MarginsCovered
    <3>2. Untouched(s, t, v) /\ OrdersOf(t, v) = OrdersOf(s, v)
      BY DEF Joined
    <3> QED BY <3>1, <3>2, CoveredKept
  <2>2. CASE v \notin ToSet(s.users)
    <3>1. v = u /\ t.collateral[v] = NoMoney /\ paidIn[v] = 0
      BY <1>2, <2>2 DEF Joined, MarginsCovered
    <3>2. OrdersOf(s, v) = {}
      BY <2>2, OrdersOfFacts
    <3>3. MarginsOf(OrdersOf(t, v)) = 0
      <4>1. OrdersOf(t, v) = {}
        BY <3>2 DEF Joined
      <4> QED BY <4>1, MarginsOfNone
    <3>4. v \notin DOMAIN t.positions
      BY <1>1, <2>2 DEF Joined
    <3>5. Near(0, 0, n)
      <4>1. Cent * (n - 1) \in Nat
        BY CentAssumption
      <4> QED BY <4>1 DEF Near, Abs
    <3> QED BY <3>1, <3>3, <3>4, <3>5 DEF Covered, NoMoney
  <2> QED BY <2>1, <2>2
<1>3. \A v \in Users \ ToSet(t.users) : paidIn[v] = 0
  BY DEF Joined, MarginsCovered
<1> QED BY <1>2, <1>3 DEF MarginsCovered

LEMMA OrderMargins ==
  ASSUME NEW s, NEW n \in Nat \ {0}, StoreOK(s, n), NEW tr, NEW paidIn, MarginsCovered(s, n, tr, paidIn),
         NEW o, RequestOK(s, n, o), Accepted(s, o), NEW r, r = PlaceOrder(s, n, o)
  PROVE  MarginsCovered(r.store, n + 1, tr \cup Makers(r.fills) \cup Takers(r.fills), paidIn)
<1>1. RequestDone(s, n, o, r)
  BY PlaceOrderDone
<1>2. r.store.users = s.users /\ DOMAIN s.collateral = ToSet(s.users)
      /\ \A f \in ToSet(r.fills) : f.takerId = o.userId
  BY <1>1 DEF RequestDone, StoreOK, AccountsOK
<1>3. ASSUME NEW v \in ToSet(s.users), v \notin tr, v \notin Makers(r.fills), v \notin Takers(r.fills)
      PROVE  Covered(r.store, n + 1, v, paidIn[v])
  <2>1. Covered(s, n, v, paidIn[v]) /\ v \in DOMAIN s.collateral
    BY <1>2, <1>3 DEF MarginsCovered
  <2>2. CASE v # o.userId
    <3>1. Untouched(s, r.store, v) /\ OrdersOf(r.store, v) = OrdersOf(s, v)
      BY <1>1, <1>3, <2>2 DEF RequestDone
    <3> DEFINE d == paidIn[v]
               k == n + 1
    <3>2. Covered(s, n, v, d) /\ k \in Nat /\ n <= k
      BY <2>1
    <3> HIDE DEF d, k
    <3>3. Covered(s, k, v, d)
      BY <1>3, <3>2, CoveredLater
    <3>4. Covered(r.store, k, v, d)
      BY <2>1, <3>1, <3>3, CoveredKept
    <3> QED BY <3>4 DEF d, k
  <2>3. CASE v = o.userId
    <3>1. ToSet(r.fills) = {}
      BY <1>2, <1>3, <2>3 DEF Takers
    <3> DEFINE d == paidIn[v]
    <3>2. Covered(s, n, o.userId, d)
      BY <2>1, <2>3
    <3> HIDE DEF d
    <3>3. Covered(r.store, n + 1, o.userId, d)
      BY <3>1, <3>2, CoveredRests
    <3> QED BY <2>3, <3>3 DEF d
  <2> QED BY <2>2, <2>3
<1> QED BY <1>2, <1>3 DEF MarginsCovered

LEMMA SweepMargins ==
  ASSUME NEW s, NEW n \in Nat \ {0}, StoreOK(s, n), NEW tr, NEW paidIn, MarginsCovered(s, n, tr, paidIn),
         NEW price, NEW w, w = Sweep(s, n, price)
  PROVE  MarginsCovered(w.store, w.nextId, tr \cup Makers(w.fills) \cup Takers(w.fills), paidIn)
<1>1. SweepOK(s, n, price, Len(s.users), w)
  BY SweepDone
<1>2. w.store.users = s.users /\ DOMAIN s.collateral = ToSet(s.users)
  BY <1>1 DEF SweepOK, StoreOK, AccountsOK
<1>3. ASSUME NEW v \in ToSet(s.users), v \notin tr, v \notin Makers(w.fills), v \notin Takers(w.fills)
      PROVE  Covered(w.store, w.nextId, v, paidIn[v])
  <2>1. Covered(s, n, v, paidIn[v]) /\ v \in DOMAIN s.collateral
    BY <1>2, <1>3 DEF MarginsCovered
  <2>2. Untouched(s, w.store, v) /\ OrdersOf(w.store, v) = OrdersOf(s, v)
    BY <1>1, <1>3 DEF SweepOK
  <2> DEFINE d == paidIn[v]
             k == w.nextId
  <2>3. Covered(s, n, v, d) /\ k \in Nat /\ n <= k
    BY <1>1, <2>1 DEF SweepOK
  <2> HIDE DEF d, k
  <2>4. Covered(s, k, v, d)
    BY <1>3, <2>3, CoveredLater
  <2>5. Covered(w.store, k, v, d)
    BY <2>1, <2>2, <2>4, CoveredKept
  <2> QED BY <2>5 DEF d, k
<1> QED BY <1>2, <1>3 DEF MarginsCovered

\* Money comes in.
Credited(s, u, amount) == [s EXCEPT !.collateral[u].available = @ + amount]
PaidIn(paidIn, u, amount) == [paidIn EXCEPT ![u] = @ + amount]

LEMMA Funds ==
  ASSUME NEW s, NEW n \in Nat \ {0}, StoreOK(s, n), NEW u \in ToSet(s.users), NEW amount \in Nat,
         NEW t, t = Credited(s, u, amount), NEW tr, NEW paidIn, MarginsCovered(s, n, tr, paidIn),
         NEW after, after = PaidIn(paidIn, u, amount),
         paidIn \in [Users -> Nat]
  PROVE  /\ StoreOK(t, n) /\ Balance(t) = Balance(s) /\ All(t) = All(s)
         /\ MarginsCovered(t, n, tr, after)
<1> DEFINE c == [available |-> s.collateral[u].available + amount, locked |-> s.collateral[u].locked]
<1>0. /\ Shaped(s) /\ AccountsOK(s) /\ BookOK(s, n) /\ RestsOnce(s)
      /\ s.collateral \in [ToSet(s.users) -> Balances] /\ ToSet(s.users) \subseteq Users
  BY UsersFinite DEF StoreOK, AccountsOK
<1>1. s.collateral[u] \in Balances
  BY <1>0
<1>2. /\ s.collateral[u].available \in Int /\ s.collateral[u].locked \in Int
      /\ [s.collateral[u] EXCEPT !.available = @ + amount] = c
  BY <1>1 DEF Balances
<1>3. c \in Balances
  BY <1>2 DEF Balances
<1>4. t = [s EXCEPT !.collateral = [s.collateral EXCEPT ![u] = c]]
  BY <1>0, <1>2 DEF Shaped, Credited
<1> HIDE DEF c
<1>5. /\ t.collateral = [s.collateral EXCEPT ![u] = c]
      /\ t.orderbook = s.orderbook /\ t.users = s.users /\ t.positions = s.positions /\ Shaped(t)
      /\ t.lastTradedPrice = s.lastTradedPrice /\ t.indexPrice = s.indexPrice
  BY <1>0, <1>4 DEF Shaped
<1>6. t.collateral \in [ToSet(s.users) -> Balances]
  BY <1>0, <1>3, <1>5
<1>7. AccountsOK(t) /\ SameBook(s, t)
  BY <1>0, <1>5, <1>6 DEF AccountsOK, SameBook
<1>8. BookOK(t, n) /\ RestsOnce(t) /\ All(t) = All(s)
  BY <1>0, <1>7, SameBookKeeps
<1>9. Balance(t) = Balance(s)
  BY <1>5 DEF Balance, Exposure
<1>10. ASSUME NEW v \in ToSet(s.users), v \notin tr
       PROVE  Covered(t, n, v, after[v])
  <2>1. Covered(s, n, v, paidIn[v])
    BY <1>10 DEF MarginsCovered
  <2>2. OrdersOf(t, v) = OrdersOf(s, v)
    BY <1>8 DEF OrdersOf
  <2>3. CASE v # u
    <3>1. t.collateral[v] = s.collateral[v] /\ after[v] = paidIn[v]
      BY <1>0, <1>5, <2>3 DEF PaidIn
    <3> QED BY <1>5, <2>1, <2>2, <3>1 DEF Covered
  <2>4. CASE v = u
    <3>1. t.collateral[u] = c /\ after[u] = paidIn[u] + amount /\ paidIn[u] \in Nat
      BY <1>0, <1>5 DEF PaidIn
    <3>2. c.available + c.locked = paidIn[u] + amount
      <4>1. s.collateral[u].available + s.collateral[u].locked = paidIn[u]
        BY <2>1, <2>4 DEF Covered
      <4>2. c.available = s.collateral[u].available + amount /\ c.locked = s.collateral[u].locked
        BY DEF c
      <4> QED BY <1>2, <3>1, <4>1, <4>2
    <3>3. Near(c.locked, MarginsOf(OrdersOf(s, u)), n)
      BY <2>1, <2>4 DEF c, Covered
    <3>4. u \notin DOMAIN t.positions
      BY <1>5, <2>1, <2>4 DEF Covered
    <3> QED BY <2>2, <2>4, <3>1, <3>2, <3>3, <3>4 DEF Covered
  <2> QED BY <2>3, <2>4
<1>11. \A v \in Users \ ToSet(s.users) : after[v] = 0
  BY <1>0 DEF MarginsCovered, PaidIn
<1>12. MarginsCovered(t, n, tr, after)
  BY <1>5, <1>10, <1>11 DEF MarginsCovered
<1> QED BY <1>5, <1>7, <1>8, <1>9, <1>12 DEF StoreOK

\* A price comes in.
LEMMA Priced ==
  ASSUME NEW s, NEW n \in Nat \ {0}, StoreOK(s, n), NEW price \in SpotPrices,
         NEW t, t = [s EXCEPT !.indexPrice = price]
  PROVE  /\ StoreOK(t, n) /\ Balance(t) = Balance(s) /\ All(t) = All(s)
         /\ t.users = s.users /\ t.positions = s.positions /\ t.collateral = s.collateral
         /\ t.orderbook = s.orderbook /\ t.indexPrice = price
         /\ \A tr, paidIn : MarginsCovered(s, n, tr, paidIn) => MarginsCovered(t, n, tr, paidIn)
<1>0. Shaped(s) /\ AccountsOK(s) /\ BookOK(s, n) /\ RestsOnce(s)
  BY DEF StoreOK
<1>1. /\ t.collateral = s.collateral /\ t.orderbook = s.orderbook /\ t.users = s.users
      /\ t.positions = s.positions /\ Shaped(t) /\ t.lastTradedPrice = s.lastTradedPrice /\ t.indexPrice = price
  BY <1>0 DEF Shaped
<1>2. AccountsOK(t) /\ SameBook(s, t)
  BY <1>0, <1>1 DEF AccountsOK, SameBook
<1>3. BookOK(t, n) /\ RestsOnce(t) /\ All(t) = All(s)
  BY <1>0, <1>2, SameBookKeeps
<1>4. Balance(t) = Balance(s)
  BY <1>1 DEF Balance, Exposure
<1>5. \A k, u, d : Covered(s, k, u, d) => Covered(t, k, u, d)
  BY <1>1, <1>3 DEF Covered, OrdersOf
<1>6. \A tr, paidIn : MarginsCovered(s, n, tr, paidIn) => MarginsCovered(t, n, tr, paidIn)
  BY <1>1, <1>5 DEF MarginsCovered
<1> QED BY <1>1, <1>2, <1>3, <1>4, <1>6 DEF StoreOK

-----------------------------------------------------------------------------
(* The inductive invariant.                                                *)

EngineInvariant ==
  /\ StoreOK(store, nextId)
  /\ Balance(store) = 0
  /\ nextId \in Nat \ {0} /\ fundings \in 0..MaxFundings
  /\ deposited \in [Users -> 0..MaxDeposited] /\ traded \subseteq Users
  /\ MarginsCovered(store, nextId, traded, deposited)
  /\ RowsAgree(reply.updates, All(store))

LEMMA InitInvariant == Init => EngineInvariant
<1> SUFFICES ASSUME Init PROVE EngineInvariant
  OBVIOUS
<1>1. /\ store.orderbook = [t \in PositionTypes |-> NoSide]
      /\ store.lastTradedPrice = SeedPrice /\ store.indexPrice = SeedPrice
      /\ store.users = <<>> /\ store.collateral = <<>> /\ store.positions = <<>>
      /\ Shaped(store)
  BY DEF Init, Shaped
<1>2. /\ nextId = 1 /\ fundings = 0 /\ reply.updates = <<>>
      /\ deposited = [u \in Users |-> 0] /\ traded = {}
  BY DEF Init
<1>3. ToSet(store.users) = {} /\ store.users \in Seq(Users) /\ IsInjective(store.users)
  BY <1>1 DEF ToSet, IsInjective
<1>4. AccountsOK(store)
  <2>1. <<>> \in [{} -> Balances] /\ <<>> \in [{} -> Positions] /\ DOMAIN <<>> = {}
    OBVIOUS
  <2> QED BY <1>1, <1>3, <2>1 DEF AccountsOK
<1>5. BookOK(store, nextId)
  <2>1. DOMAIN NoSide = {} /\ NoSide = [p \in DOMAIN NoSide |-> NoSide[p]]
    BY DEF NoSide
  <2>2. IsFiniteSet({})
    BY FS_EmptySet
  <2> HIDE DEF NoSide
  <2>3. SideOK(NoSide, ToSet(store.users), nextId)
    BY <2>1, <2>2 DEF SideOK
  <2> QED BY <1>1, <2>3 DEF BookOK
<1>6. \A t \in PositionTypes : DOMAIN store.orderbook[t] = {}
  BY <1>1 DEF NoSide
<1>7. RestsOnce(store) /\ All(store) = {}
  BY <1>6 DEF RestsOnce, All
<1>8. Balance(store) = 0
  <2> DEFINE f == [u \in ToSet(store.users) |-> Exposure(store, u)]
  <2>1. Balance(store) = SumFunctionOnSet(f, ToSet(store.users))
    BY DEF Balance, SumFunction
  <2>2. IsFiniteSet(ToSet(store.users))
    BY <1>4, UsersFinite
  <2> HIDE DEF f
  <2> QED BY <1>3, <2>1, <2>2, SumPick
<1>9. MarginsCovered(store, nextId, traded, deposited)
  BY <1>2, <1>3 DEF MarginsCovered
<1>10. RowsAgree(reply.updates, All(store))
  BY <1>2 DEF RowsAgree
<1>11. /\ nextId \in Nat \ {0} /\ fundings \in 0..MaxFundings
       /\ deposited \in [Users -> 0..MaxDeposited] /\ traded \subseteq Users
  BY <1>2, EngineAssumption
<1> QED BY <1>1, <1>4, <1>5, <1>7, <1>8, <1>9, <1>10, <1>11 DEF EngineInvariant, StoreOK

LEMMA RepliedFacts ==
  ASSUME NEW fills \in Seq(Fills), NEW updates, Replied(fills, updates), traded \subseteq Users
  PROVE  /\ reply'.fills = fills /\ reply'.updates = updates
         /\ traded' = traded \cup Makers(fills) \cup Takers(fills) /\ traded' \subseteq Users
<1>1. reply'.fills = fills /\ reply'.updates = updates
  BY DEF Replied
<1>2. traded' = traded \cup UNION {{f.makerId, f.takerId} : f \in ToSet(fills)}
  BY DEF Replied
<1>3. traded' = traded \cup Makers(fills) \cup Takers(fills)
  BY <1>2 DEF Makers, Takers
<1>4. \A f \in ToSet(fills) : f \in Fills
  BY DEF ToSet
<1>5. \A f \in ToSet(fills) : f.makerId \in Users /\ f.takerId \in Users
  BY <1>4 DEF Fills
<1>6. Makers(fills) \subseteq Users /\ Takers(fills) \subseteq Users
  BY <1>5 DEF Makers, Takers
<1> QED BY <1>1, <1>3, <1>6

\* A request that trades nothing.
LEMMA QuietReply ==
  ASSUME NEW rows, Replied(<<>>, rows)
  PROVE  reply'.updates = rows /\ traded' = traded
<1>1. ToSet(<<>>) = {}
  BY DEF ToSet
<1> QED BY <1>1 DEF Replied

\* Nothing is told: nothing has to be.
LEMMA NoRows == ASSUME NEW rows, Empty(rows), NEW S PROVE RowsAgree(rows, S)
BY DEF Empty, RowsAgree

LEMMA RequestTypes ==
  ASSUME NEW o \in OrderRequests
  PROVE  /\ o.userId \in Users /\ o.type \in PositionTypes
         /\ o.kind \in {"limit", "market"} /\ (o.kind = "limit" => o.price \in LimitPrices)
         /\ o.qty \in Quantities
         /\ o.kind = "market" => o.slippage \in 0..100
         /\ o.qty \in Nat \ {0} /\ o.margin \in Nat
BY EngineAssumption DEF OrderRequests

LEMMA InitBalanceKeeps ==
  ASSUME EngineInvariant, NEW u \in Users, InitBalance(u)
  PROVE  EngineInvariant'
<1>1. /\ store' = WithUser(store, u) /\ Replied(<<>>, <<>>)
      /\ nextId' = nextId /\ fundings' = fundings /\ deposited' = deposited
  BY DEF InitBalance
<1>2. /\ StoreOK(store, nextId) /\ nextId \in Nat \ {0} /\ MarginsCovered(store, nextId, traded, deposited)
      /\ Balance(store) = 0
  BY DEF EngineInvariant
<1>3. StoreOK(store', nextId) /\ Joined(store, store', u)
  BY <1>1, <1>2, WithUserJoins
<1>4. MarginsCovered(store', nextId, traded, deposited)
  BY <1>2, <1>3, JoinedMargins
<1>5. traded' = traded /\ Empty(reply'.updates)
  BY <1>1, QuietReply DEF Empty
<1>6. RowsAgree(reply'.updates, All(store'))
  BY <1>5, NoRows
<1> QED BY <1>1, <1>2, <1>3, <1>4, <1>5, <1>6 DEF EngineInvariant, Joined

LEMMA OnrampKeeps ==
  ASSUME EngineInvariant, NEW u \in Users, NEW amount \in Deposits, Onramp(u, amount)
  PROVE  EngineInvariant'
<1> DEFINE s == WithUser(store, u)
<1>1. /\ store' = Credited(s, u, amount) /\ deposited' = PaidIn(deposited, u, amount)
      /\ deposited[u] + amount <= MaxDeposited
      /\ Replied(<<>>, <<>>)
      /\ nextId' = nextId /\ fundings' = fundings
  BY DEF Onramp, Credited, PaidIn
<1>2. /\ StoreOK(store, nextId) /\ nextId \in Nat \ {0} /\ MarginsCovered(store, nextId, traded, deposited)
      /\ deposited \in [Users -> 0..MaxDeposited] /\ MaxDeposited \in Nat /\ amount \in Nat
      /\ Balance(store) = 0
  BY EngineAssumption DEF EngineInvariant
<1>3. StoreOK(s, nextId) /\ Joined(store, s, u)
  BY <1>2, WithUserJoins
<1>4. MarginsCovered(s, nextId, traded, deposited)
  BY <1>2, <1>3, JoinedMargins
<1>5. u \in ToSet(s.users) /\ Balance(s) = 0
  BY <1>2, <1>3 DEF Joined
<1> HIDE DEF s
<1>6. deposited \in [Users -> Nat] /\ deposited' \in [Users -> 0..MaxDeposited]
  BY <1>1, <1>2 DEF PaidIn
<1>7. /\ StoreOK(store', nextId) /\ Balance(store') = Balance(s)
      /\ MarginsCovered(store', nextId, traded, deposited')
  BY <1>1, <1>2, <1>3, <1>4, <1>5, <1>6, Funds
<1>8. traded' = traded /\ Empty(reply'.updates)
  BY <1>1, QuietReply DEF Empty
<1>9. RowsAgree(reply'.updates, All(store'))
  BY <1>8, NoRows
<1> QED BY <1>1, <1>2, <1>5, <1>6, <1>7, <1>8, <1>9 DEF EngineInvariant

LEMMA RefuseOrderKeeps ==
  ASSUME EngineInvariant, NEW o \in OrderRequests, RefuseOrder(o)
  PROVE  EngineInvariant'
<1> DEFINE u == o.userId
<1>1. /\ store' = WithUser(store, u) /\ Replied(<<>>, <<>>)
      /\ nextId' = nextId /\ fundings' = fundings /\ deposited' = deposited
  BY DEF RefuseOrder
<1>2. /\ StoreOK(store, nextId) /\ nextId \in Nat \ {0} /\ MarginsCovered(store, nextId, traded, deposited)
      /\ Balance(store) = 0
  BY DEF EngineInvariant
<1>3. u \in Users
  BY RequestTypes
<1> HIDE DEF u
<1>4. StoreOK(store', nextId) /\ Joined(store, store', u)
  BY <1>1, <1>2, <1>3, WithUserJoins
<1>5. MarginsCovered(store', nextId, traded, deposited)
  BY <1>2, <1>3, <1>4, JoinedMargins
<1>6. traded' = traded /\ Empty(reply'.updates)
  BY <1>1, QuietReply DEF Empty
<1>7. RowsAgree(reply'.updates, All(store'))
  BY <1>6, NoRows
<1> QED BY <1>1, <1>2, <1>4, <1>5, <1>6, <1>7 DEF EngineInvariant, Joined

LEMMA CreateOrderKeeps ==
  ASSUME EngineInvariant, NEW o \in OrderRequests, CreateOrder(o)
  PROVE  EngineInvariant'
<1> DEFINE s == WithUser(store, o.userId)
           r == PlaceOrder(s, nextId, o)
<1>1. /\ store' = r.store /\ nextId' = nextId + 1 /\ Accepted(s, o) /\ nextId <= MaxOrders
      /\ Replied(r.fills, r.updates)
      /\ fundings' = fundings /\ deposited' = deposited
  BY DEF CreateOrder
<1>2. /\ StoreOK(store, nextId) /\ nextId \in Nat \ {0} /\ MarginsCovered(store, nextId, traded, deposited)
      /\ Balance(store) = 0 /\ traded \subseteq Users
  BY DEF EngineInvariant
<1>3. o.userId \in Users
  BY RequestTypes
<1>4. StoreOK(s, nextId) /\ Joined(store, s, o.userId)
  BY <1>2, <1>3, WithUserJoins
<1>5. MarginsCovered(s, nextId, traded, deposited)
  BY <1>2, <1>3, <1>4, JoinedMargins
<1> HIDE DEF s
<1>6. RequestOK(s, nextId, o)
  BY <1>1, <1>4, RequestTypes DEF RequestOK, Joined
<1>7. RequestDone(s, nextId, o, r) /\ Told(r.updates, All(s), All(r.store))
  BY <1>2, <1>4, <1>6, PlaceOrderDone, PlaceOrderTold
<1>8. MarginsCovered(r.store, nextId + 1, traded \cup Makers(r.fills) \cup Takers(r.fills), deposited)
  BY <1>1, <1>2, <1>4, <1>5, <1>6, OrderMargins
<1> HIDE DEF r
<1>9. reply'.updates = r.updates /\ traded' = traded \cup Makers(r.fills) \cup Takers(r.fills) /\ traded' \subseteq Users
  <2>1. r.fills \in Seq(Fills)
    BY <1>7 DEF RequestDone
  <2> QED BY <1>1, <1>2, <2>1, RepliedFacts
<1>10. StoreOK(store', nextId') /\ Balance(store') = 0 /\ nextId' \in Nat \ {0}
  BY <1>1, <1>2, <1>4, <1>7 DEF RequestDone, Joined
<1>11. RowsAgree(reply'.updates, All(store'))
  BY <1>1, <1>7, <1>9 DEF Told
<1>12. MarginsCovered(store', nextId', traded', deposited')
  BY <1>1, <1>8, <1>9
<1>13. fundings' \in 0..MaxFundings /\ deposited' \in [Users -> 0..MaxDeposited]
  BY <1>1 DEF EngineInvariant
<1> QED BY <1>9, <1>10, <1>11, <1>12, <1>13 DEF EngineInvariant

LEMMA CancelOrderKeeps ==
  ASSUME EngineInvariant, NEW type \in PositionTypes, NEW price \in DOMAIN store.orderbook[type],
         NEW i \in DOMAIN store.orderbook[type][price].openOrders, CancelOrder(type, price, i)
  PROVE  EngineInvariant'
<1> DEFINE open == ListAt(store.orderbook[type], price)[i]
           t == Cancelled(store, type, price, i)
           row == OrderUpdate(open.orderId, "cancelled", open.filledQty)
<1>1. /\ store' = t /\ Replied(<<>>, <<row>>)
      /\ nextId' = nextId /\ fundings' = fundings /\ deposited' = deposited
  BY DEF CancelOrder, Cancelled, Without, WithoutLevel, WithLevel, Level, ListAt, Empty
<1>2. /\ StoreOK(store, nextId) /\ nextId \in Nat \ {0} /\ MarginsCovered(store, nextId, traded, deposited)
      /\ Balance(store) = 0 /\ i \in DOMAIN ListAt(store.orderbook[type], price)
  BY DEF EngineInvariant, ListAt
<1>3. open = ListAt(store.orderbook[type], price)[i] /\ t = Cancelled(store, type, price, i)
  OBVIOUS
<1>4. row.orderId = open.orderId /\ row.status = "cancelled" /\ row.filledQty = open.filledQty
  BY DEF OrderUpdate
<1> HIDE DEF open, t, row
<1>5. /\ StoreOK(t, nextId) /\ t.users = store.users /\ Balance(t) = Balance(store)
      /\ open \in All(store) /\ All(t) = All(store) \ {open}
  BY <1>2, <1>3, CancelledFacts
<1>6. MarginsCovered(t, nextId, traded, deposited)
  <2>1. ASSUME NEW v \in ToSet(store.users), v \notin traded PROVE Covered(t, nextId, v, deposited[v])
    <3> DEFINE d == deposited[v]
    <3>1. Covered(store, nextId, v, d)
      BY <1>2, <2>1 DEF MarginsCovered
    <3> HIDE DEF d
    <3>2. Covered(t, nextId, v, d)
      BY <1>2, <1>3, <3>1, CoveredCancelled
    <3> QED BY <3>2 DEF d
  <2> QED BY <1>2, <1>5, <2>1 DEF MarginsCovered
<1>7. reply'.updates = <<row>> /\ traded' = traded
  BY <1>1, QuietReply
<1>8. RowsAgree(reply'.updates, All(store'))
  <2>1. \A o1, o2 \in All(store) : o1.orderId = o2.orderId => o1 = o2
    BY <1>2, AllFacts DEF StoreOK
  <2>2. RowAgrees(row, All(t))
    BY <1>4, <1>5, <2>1 DEF RowAgrees
  <2> DEFINE rows == <<row>>
  <2>3. DOMAIN rows = {1} /\ rows[1] = row
    OBVIOUS
  <2> HIDE DEF rows
  <2>4. RowsAgree(rows, All(t))
    BY <2>2, <2>3 DEF RowsAgree
  <2> QED BY <1>1, <1>7, <2>4 DEF rows
<1> QED BY <1>1, <1>2, <1>5, <1>6, <1>7, <1>8 DEF EngineInvariant

LEMMA SpotPriceUpdateKeeps ==
  ASSUME EngineInvariant, NEW price \in SpotPrices, SpotPriceUpdate(price)
  PROVE  EngineInvariant'
<1> DEFINE s == [store EXCEPT !.indexPrice = price]
           w == Sweep(s, nextId, price)
<1>1. /\ store' = w.store /\ nextId' = w.nextId /\ Replied(w.fills, w.updates)
      /\ fundings' = fundings /\ deposited' = deposited
  BY DEF SpotPriceUpdate
<1>2. /\ StoreOK(store, nextId) /\ nextId \in Nat \ {0} /\ MarginsCovered(store, nextId, traded, deposited)
      /\ Balance(store) = 0 /\ traded \subseteq Users
  BY DEF EngineInvariant
<1>3. StoreOK(s, nextId) /\ Balance(s) = 0 /\ MarginsCovered(s, nextId, traded, deposited)
  BY <1>2, Priced
<1>4. w = Sweep(s, nextId, price)
  OBVIOUS
<1> HIDE DEF s, w
<1>5. SweepOK(s, nextId, price, Len(s.users), w)
  BY <1>2, <1>3, <1>4, SweepDone
<1>6. MarginsCovered(w.store, w.nextId, traded \cup Makers(w.fills) \cup Takers(w.fills), deposited)
  BY <1>2, <1>3, <1>4, SweepMargins
<1>7. reply'.updates = w.updates /\ traded' = traded \cup Makers(w.fills) \cup Takers(w.fills) /\ traded' \subseteq Users
  <2>1. w.fills \in Seq(Fills)
    BY <1>5 DEF SweepOK
  <2> QED BY <1>1, <1>2, <2>1, RepliedFacts
<1>8. StoreOK(store', nextId') /\ Balance(store') = 0 /\ nextId' \in Nat \ {0}
  BY <1>1, <1>3, <1>5 DEF SweepOK
<1>9. RowsAgree(reply'.updates, All(store'))
  BY <1>1, <1>5, <1>7 DEF SweepOK, Told
<1>10. MarginsCovered(store', nextId', traded', deposited')
  BY <1>1, <1>6, <1>7
<1>11. fundings' \in 0..MaxFundings /\ deposited' \in [Users -> 0..MaxDeposited]
  BY <1>1 DEF EngineInvariant
<1> QED BY <1>7, <1>8, <1>9, <1>10, <1>11 DEF EngineInvariant

LEMMA DisperseFundingRateKeeps ==
  ASSUME EngineInvariant, DisperseFundingRate
  PROVE  EngineInvariant'
<1> DEFINE positions == [u \in DOMAIN store.positions |-> Funded(store.positions[u])]
<1>1. /\ Replied(<<>>, <<>>) /\ nextId' = nextId /\ deposited' = deposited
      /\ fundings' = fundings + 1 /\ fundings < MaxFundings
  BY DEF DisperseFundingRate
<1>2. /\ StoreOK(store, nextId) /\ nextId \in Nat \ {0} /\ MarginsCovered(store, nextId, traded, deposited)
      /\ Balance(store) = 0 /\ fundings \in 0..MaxFundings /\ MaxFundings \in Nat
  BY EngineAssumption DEF EngineInvariant
<1>3. store' = [store EXCEPT !.positions = positions]
  BY <1>2 DEF DisperseFundingRate, StoreOK, Shaped
<1>4. \A u \in DOMAIN store.positions : store.positions[u] \in Positions
  BY <1>2 DEF StoreOK, AccountsOK
<1>5. positions \in [DOMAIN store.positions -> Positions]
  BY <1>2, <1>4, FundedFacts
<1>6. \A u \in DOMAIN store.positions :
        positions[u].type = store.positions[u].type /\ positions[u].qty = store.positions[u].qty
  BY <1>2, <1>4, FundedFacts
<1> HIDE DEF positions
<1>7. /\ StoreOK(store', nextId) /\ Balance(store') = 0 /\ store'.users = store.users
      /\ \A k, u, d : Covered(store, k, u, d) => Covered(store', k, u, d)
  BY <1>2, <1>3, <1>5, <1>6, Refunded
<1>8. MarginsCovered(store', nextId, traded, deposited)
  BY <1>2, <1>7 DEF MarginsCovered
<1>9. traded' = traded /\ Empty(reply'.updates)
  BY <1>1, QuietReply DEF Empty
<1>10. RowsAgree(reply'.updates, All(store'))
  BY <1>9, NoRows
<1>11. fundings' \in 0..MaxFundings
  BY <1>1, <1>2
<1> QED BY <1>1, <1>2, <1>7, <1>8, <1>9, <1>10, <1>11 DEF EngineInvariant

LEMMA InvariantIsInductive == EngineInvariant /\ [Next]_vars => EngineInvariant'
<1> SUFFICES ASSUME EngineInvariant, [Next]_vars PROVE EngineInvariant'
  OBVIOUS
<1>1. ASSUME NEW u \in Users, InitBalance(u) PROVE EngineInvariant'
  BY <1>1, InitBalanceKeeps
<1>2. ASSUME NEW u \in Users, NEW amount \in Deposits, Onramp(u, amount) PROVE EngineInvariant'
  BY <1>2, OnrampKeeps
<1>3. ASSUME NEW o \in OrderRequests, CreateOrder(o) PROVE EngineInvariant'
  BY <1>3, CreateOrderKeeps
<1>4. ASSUME NEW o \in OrderRequests, RefuseOrder(o) PROVE EngineInvariant'
  BY <1>4, RefuseOrderKeeps
<1>5. ASSUME NEW type \in PositionTypes, NEW price \in DOMAIN store.orderbook[type],
             NEW i \in DOMAIN store.orderbook[type][price].openOrders, CancelOrder(type, price, i)
      PROVE  EngineInvariant'
  BY <1>5, CancelOrderKeeps
<1>6. ASSUME NEW price \in SpotPrices, SpotPriceUpdate(price) PROVE EngineInvariant'
  BY <1>6, SpotPriceUpdateKeeps
<1>7. ASSUME DisperseFundingRate PROVE EngineInvariant'
  BY <1>7, DisperseFundingRateKeeps
<1>8. ASSUME UNCHANGED vars PROVE EngineInvariant'
  <2>1. /\ store' = store /\ nextId' = nextId /\ fundings' = fundings /\ reply' = reply
        /\ deposited' = deposited /\ traded' = traded
    BY <1>8 DEF vars
  <2> QED BY <2>1 DEF EngineInvariant
<1> QED BY <1>1, <1>2, <1>3, <1>4, <1>5, <1>6, <1>7, <1>8 DEF Next

THEOREM InvariantHolds == Spec => []EngineInvariant
BY InitInvariant, InvariantIsInductive, PTL DEF Spec

-----------------------------------------------------------------------------
(* What must be true of the engine between two requests.                   *)

\* In every reachable state the store has the shape store.ts declares, and
\* accounts, positions and book refer to each other.
THEOREM EngineIsTyped == Spec => []TypeOK
<1>1. EngineInvariant => TypeOK
  <2> SUFFICES ASSUME EngineInvariant PROVE TypeOK
    OBVIOUS
  <2>1. /\ AccountsOK(store) /\ BookOK(store, nextId) /\ nextId \in Nat
        /\ nextId \in Nat \ {0} /\ fundings \in 0..MaxFundings
        /\ deposited \in [Users -> 0..MaxDeposited] /\ traded \subseteq Users
    BY DEF EngineInvariant, StoreOK
  <2>2. ASSUME NEW t \in PositionTypes, NEW p \in DOMAIN store.orderbook[t]
        PROVE  /\ p \in LimitPrices
               /\ \A o \in ToSet(store.orderbook[t][p].openOrders) :
                    o.userId \in ToSet(store.users) /\ o.orderId \in 1..(nextId - 1) /\ o.margin \in Nat
    <3>1. SideOK(store.orderbook[t], ToSet(store.users), nextId)
      BY <2>1 DEF BookOK
    <3>2. LevelKnown(store.orderbook[t], p, ToSet(store.users), nextId)
      BY <2>1, <3>1, LevelFacts
    <3>3. \A o \in ToSet(store.orderbook[t][p].openOrders) : o \in Orders(ToSet(store.users), nextId)
      BY <3>2 DEF LevelKnown, ListAt
    <3> QED BY <3>2, <3>3 DEF LevelKnown, Orders
  <2>3. ASSUME NEW u \in DOMAIN store.collateral
        PROVE  store.collateral[u].available \in Int /\ store.collateral[u].locked \in Int
    <3>1. store.collateral[u] \in Balances
      BY <2>1 DEF AccountsOK
    <3> QED BY <3>1 DEF Balances
  <2>4. ASSUME NEW u \in DOMAIN store.positions
        PROVE  store.positions[u].type \in PositionTypes /\ store.positions[u].qty \in Nat \ {0}
    <3>1. store.positions[u] \in Positions
      BY <2>1 DEF AccountsOK
    <3> QED BY <3>1 DEF Positions
  <2>5. DOMAIN store.collateral = ToSet(store.users)
    BY <2>1 DEF AccountsOK
  <2> QED BY <2>1, <2>2, <2>3, <2>4, <2>5 DEF TypeOK, AccountsOK
<1> QED BY <1>1, InvariantHolds, PTL

\* Every level offers exactly what its orders have left, after any matching,
\* cancelling and liquidating; no order is listed twice, and no level stays empty.
THEOREM LevelsOfferWhatRests == Spec => []LevelOffersWhatRests
<1>1. EngineInvariant => LevelOffersWhatRests
  <2> SUFFICES ASSUME EngineInvariant, NEW t \in PositionTypes, NEW p \in DOMAIN store.orderbook[t]
               PROVE  LET level  == store.orderbook[t][p]
                          orders == ToSet(level.openOrders)
                      IN  /\ orders # {}
                          /\ IsInjective([i \in DOMAIN level.openOrders |-> level.openOrders[i].orderId])
                          /\ \A o \in orders : o.filledQty < o.qty
                          /\ level.availableQty = SumFunction([o \in orders |-> Remaining(o)])
    BY DEF LevelOffersWhatRests
  <2> DEFINE us == ToSet(store.users)
             level == store.orderbook[t][p]
             orders == level.openOrders
  <2>1. SideOK(store.orderbook[t], us, nextId) /\ nextId \in Nat
    BY DEF EngineInvariant, StoreOK, BookOK
  <2>2. LevelKnown(store.orderbook[t], p, us, nextId)
    BY <2>1, LevelFacts
  <2>3. Listed(orders, us, nextId) /\ ToSet(orders) = At(store.orderbook[t], p)
    BY <2>2 DEF LevelKnown, ListAt
  <2>4. level.availableQty = LeftOf(ToSet(orders))
    BY <2>2, <2>3 DEF LevelKnown, Level
  <2>5. ToSet(orders) # {}
    BY <2>2, <2>3 DEF LevelKnown
  <2>6. IsInjective([i \in DOMAIN orders |-> orders[i].orderId])
    <3>1. \A i, j \in DOMAIN orders : orders[i].orderId = orders[j].orderId => i = j
      BY <2>1, <2>3, ListOnce
    <3> HIDE DEF orders
    <3> QED BY <3>1 DEF IsInjective
  <2>7. \A o \in ToSet(orders) : o.filledQty < o.qty
    BY <2>3 DEF Listed, ToSet
  <2> QED BY <2>4, <2>5, <2>6, <2>7 DEF LeftOf
<1> QED BY <1>1, InvariantHolds, PTL

LEMMA BookIsAll ==
  Book(LONG) \cup Book(SHORT) = All(store)
BY DEF Book, All, At, PositionTypes

\* Until an account first trades, its equity is what it deposited, and what is
\* locked is what its resting orders would give back when cancelled, but for half
\* a hundredth for each accepted order: placeOrder locks what was sent, and
\* rounds what the order rests with.
THEOREM UntradedMarginsAreCovered == Spec => []UntradedMarginIsCovered
<1>1. EngineInvariant => UntradedMarginIsCovered
  <2> SUFFICES ASSUME EngineInvariant, NEW u \in ToSet(store.users) \ traded
               PROVE  LET c == store.collateral[u]
                          own     == {o \in Book(LONG) \cup Book(SHORT) : o.userId = u}
                      IN  /\ c.available + c.locked = deposited[u]
                          /\ 2 * Abs(c.locked - SumFunction([o \in own |-> o.margin])) <= Cent * (nextId - 1)
    BY DEF UntradedMarginIsCovered
  <2>1. Covered(store, nextId, u, deposited[u])
    BY DEF EngineInvariant, MarginsCovered
  <2>2. {o \in Book(LONG) \cup Book(SHORT) : o.userId = u} = OrdersOf(store, u)
    BY BookIsAll DEF OrdersOf
  <2> HIDE DEF Book
  <2> QED BY <2>1, <2>2 DEF Covered, Near, MarginsOf
<1> QED BY <1>1, InvariantHolds, PTL

\* The rows that tell the writer of a request agree with the book the request
\* leaves, however many orders it met and however many accounts it liquidated.
THEOREM WriterIsToldTheBook == Spec => []WriterAgreesWithBook
<1>1. EngineInvariant => WriterAgreesWithBook
  <2> SUFFICES ASSUME EngineInvariant, NEW i \in DOMAIN reply.updates,
                      \A j \in DOMAIN reply.updates :
                        reply.updates[j].orderId = reply.updates[i].orderId => j <= i
               PROVE  LET row    == reply.updates[i]
                          onBook == {o \in Book(LONG) \cup Book(SHORT) : o.orderId = row.orderId}
                      IN  IF row.status \in {"open", "partially_filled"}
                            THEN onBook # {} /\ \A o \in onBook : o.filledQty = row.filledQty
                            ELSE onBook = {}
    BY DEF WriterAgreesWithBook
  <2> DEFINE row == reply.updates[i]
  <2>1. Final(reply.updates, i)
    BY DEF Final
  <2>2. RowAgrees(row, All(store))
    BY <2>1 DEF EngineInvariant, RowsAgree
  <2>3. \A o1, o2 \in All(store) : o1.orderId = o2.orderId => o1 = o2
    BY AllFacts DEF EngineInvariant, StoreOK
  <2>4. Book(LONG) \cup Book(SHORT) = All(store)
    BY BookIsAll
  <2> HIDE DEF row
  <2>5. CASE row.status \in {"open", "partially_filled"}
    <3>1. PICK x \in All(store) : x.orderId = row.orderId /\ x.filledQty = row.filledQty
      BY <2>2, <2>5 DEF RowAgrees
    <3>2. \A o \in All(store) : o.orderId = row.orderId => o.filledQty = row.filledQty
      BY <2>3, <3>1
    <3> QED BY <2>4, <2>5, <3>1, <3>2 DEF row
  <2>6. CASE row.status \notin {"open", "partially_filled"}
    <3>1. \A o \in All(store) : o.orderId # row.orderId
      BY <2>2, <2>6 DEF RowAgrees
    <3> QED BY <2>4, <2>6, <3>1 DEF row
  <2> QED BY <2>5, <2>6
<1> QED BY <1>1, InvariantHolds, PTL

-----------------------------------------------------------------------------
(* Open interest, and what rests on it.                                    *)

LEMMA SumJoins ==
  ASSUME NEW S, IsFiniteSet(S), NEW T, IsFiniteSet(T), S \cap T = {},
         NEW f, \A x \in S \cup T : f[x] \in Int
  PROVE  SumFunctionOnSet(f, S \cup T) = SumFunctionOnSet(f, S) + SumFunctionOnSet(f, T)
<1> DEFINE F == {R \in SUBSET T : SumFunctionOnSet(f, S \cup R) = SumFunctionOnSet(f, S) + SumFunctionOnSet(f, R)}
<1>1. SumFunctionOnSet(f, S) \in Int
  BY SumType
<1>2. ASSUME NEW R \in SUBSET T, \A x \in R : R \ {x} \in F PROVE R \in F
  <2>1. CASE R = {}
    <3>1. S \cup R = S /\ SumFunctionOnSet(f, R) = 0
      BY <2>1, SumPick, FS_EmptySet
    <3> QED BY <1>1, <2>1, <3>1
  <2>2. CASE R # {}
    <3>1. PICK x \in R : TRUE
      BY <2>2
    <3> DEFINE Q == R \ {x}
               A == S \cup R
    <3>2. SumFunctionOnSet(f, S \cup Q) = SumFunctionOnSet(f, S) + SumFunctionOnSet(f, Q)
      BY <1>2
    <3>3. IsFiniteSet(R) /\ IsFiniteSet(A) /\ IsFiniteSet(Q)
      <4>1. IsFiniteSet(R)
        BY FS_Subset
      <4> QED BY <4>1, FS_Union, FS_Subset
    <3>4. A \ {x} = S \cup Q /\ x \in A
      OBVIOUS
    <3>5. (\A y \in A : f[y] \in Int) /\ (\A y \in R : f[y] \in Int) /\ (\A y \in Q : f[y] \in Int) /\ f[x] \in Int
      OBVIOUS
    <3> HIDE DEF A, Q
    <3>6. SumFunctionOnSet(f, A) = f[x] + SumFunctionOnSet(f, A \ {x})
      BY <3>3, <3>4, <3>5, SumRemove
    <3>7. SumFunctionOnSet(f, R) = f[x] + SumFunctionOnSet(f, R \ {x})
      BY <3>3, <3>5, SumRemove
    <3>8. SumFunctionOnSet(f, Q) \in Int
      BY <3>3, <3>5, SumType
    <3>9. SumFunctionOnSet(f, A) = f[x] + (SumFunctionOnSet(f, S) + SumFunctionOnSet(f, Q))
      BY <3>2, <3>4, <3>6
    <3>10. SumFunctionOnSet(f, R) = f[x] + SumFunctionOnSet(f, Q)
      BY <3>7 DEF Q
    <3>11. SumFunctionOnSet(f, A) = SumFunctionOnSet(f, S) + SumFunctionOnSet(f, R)
      BY <1>1, <3>5, <3>8, <3>9, <3>10
    <3> QED BY <3>11 DEF A
  <2> QED BY <2>1, <2>2
<1> HIDE DEF F
<1>3. F \in SUBSET (SUBSET T)
  BY DEF F
<1>4. F = SUBSET T
  BY <1>2, <1>3, SubsetInduction
<1>5. T \in F
  BY <1>4
<1> QED BY <1>5 DEF F

LEMMA SumScaled ==
  ASSUME NEW S, IsFiniteSet(S), NEW g, NEW h, NEW c \in Int, \A x \in S : g[x] \in Int /\ h[x] = c * g[x]
  PROVE  SumFunctionOnSet(h, S) = c * SumFunctionOnSet(g, S)
<1> DEFINE z == [x \in S |-> 0]
<1>1. \A x \in S : z[x] = 0
  OBVIOUS
<1> HIDE DEF z
<1>2. \A x \in S : z[x] \in Int /\ z[x] = z[x] + 1 * z[x] /\ h[x] = z[x] + c * g[x]
  <2> TAKE x \in S
  <2>1. z[x] = 0
    BY <1>1
  <2>2. c * g[x] \in Int /\ h[x] = c * g[x]
    OBVIOUS
  <2> QED BY <2>1, <2>2
<1>3. SumFunctionOnSet(z, S) \in Int /\ SumFunctionOnSet(g, S) \in Int
  BY <1>2, SumType
<1>4. SumFunctionOnSet(z, S) = SumFunctionOnSet(z, S) + 1 * SumFunctionOnSet(z, S)
  BY <1>2, SumLinear
<1>5. SumFunctionOnSet(h, S) = SumFunctionOnSet(z, S) + c * SumFunctionOnSet(g, S)
  BY <1>2, SumLinear
<1>6. SumFunctionOnSet(z, S) = 0
  <2> DEFINE a == SumFunctionOnSet(z, S)
  <2>1. a \in Int /\ a = a + 1 * a
    BY <1>3, <1>4
  <2> HIDE DEF a
  <2>2. a = 0
    BY <2>1
  <2> QED BY <2>2 DEF a
<1>7. c * SumFunctionOnSet(g, S) \in Int
  BY <1>3
<1> QED
  <2> DEFINE b == c * SumFunctionOnSet(g, S)
  <2>1. b \in Int /\ SumFunctionOnSet(h, S) = 0 + b
    BY <1>5, <1>6, <1>7
  <2> HIDE DEF b
  <2>2. SumFunctionOnSet(h, S) = b
    BY <2>1
  <2> QED BY <2>2 DEF b

\* Who holds nothing weighs nothing.
LEMMA BalanceIsHeld ==
  ASSUME NEW s, AccountsOK(s), NEW e, e = [u \in ToSet(s.users) |-> Exposure(s, u)]
  PROVE  Balance(s) = SumFunctionOnSet(e, DOMAIN s.positions)
<1> DEFINE us == ToSet(s.users)
           held == DOMAIN s.positions
           idle == us \ held
<1>1. IsFiniteSet(us) /\ (\A u \in us : e[u] \in Int) /\ held \subseteq us
  BY UsersFinite DEF AccountsOK
<1>2. IsFiniteSet(held) /\ IsFiniteSet(idle) /\ held \cap idle = {} /\ held \cup idle = us
  BY <1>1, FS_Subset
<1>3. Balance(s) = SumFunctionOnSet(e, us)
  BY DEF Balance, SumFunction
<1>4. \A u \in idle : e[u] = 0
  BY DEF Exposure
<1> HIDE DEF us, held, idle
<1>5. SumFunctionOnSet(e, held \cup idle) = SumFunctionOnSet(e, held) + SumFunctionOnSet(e, idle)
  BY <1>1, <1>2, SumJoins
<1>6. SumFunctionOnSet(e, held) \in Int
  BY <1>1, <1>2, SumType
<1>7. SumFunctionOnSet(e, idle) = 0
  <2>1. \A u \in idle : e[u] \in Int /\ e[u] = 0 * e[u]
    BY <1>4
  <2>2. SumFunctionOnSet(e, idle) = 0 * SumFunctionOnSet(e, idle) /\ SumFunctionOnSet(e, idle) \in Int
    BY <1>2, <2>1, SumScaled, SumType
  <2> QED BY <2>2
<1>8. Balance(s) = SumFunctionOnSet(e, held)
  <2> DEFINE a == SumFunctionOnSet(e, held)
  <2>1. a \in Int /\ SumFunctionOnSet(e, us) = a + 0
    BY <1>2, <1>5, <1>6, <1>7
  <2> HIDE DEF a
  <2>2. SumFunctionOnSet(e, us) = a
    BY <2>1
  <2> QED BY <1>3, <2>2 DEF a
<1> QED BY <1>8 DEF held

\* What one side holds in all.
Held(s, type) ==
  SumFunctionOnSet([u \in DOMAIN s.positions |-> s.positions[u].qty],
                   {u \in DOMAIN s.positions : s.positions[u].type = type})

LEMMA SidesBalance ==
  ASSUME NEW s, AccountsOK(s), Balance(s) = 0
  PROVE  Held(s, LONG) = Held(s, SHORT)
<1> DEFINE e == [u \in ToSet(s.users) |-> Exposure(s, u)]
           q == [u \in DOMAIN s.positions |-> s.positions[u].qty]
           held == DOMAIN s.positions
           long == {u \in DOMAIN s.positions : s.positions[u].type = LONG}
           short == {u \in DOMAIN s.positions : s.positions[u].type = SHORT}
<1>1. /\ IsFiniteSet(held) /\ held \subseteq ToSet(s.users)
      /\ \A u \in held : s.positions[u] \in Positions
  <2>1. held \subseteq ToSet(s.users) /\ \A u \in held : s.positions[u] \in Positions
    BY DEF AccountsOK
  <2> QED BY <2>1, UsersFinite, FS_Subset
<1>2. /\ \A u \in held : s.positions[u].type \in PositionTypes /\ q[u] \in Int
      /\ \A u \in long : e[u] = 1 * q[u]
      /\ \A u \in short : e[u] = -1 * q[u]
  <2>1. \A u \in held : s.positions[u].type \in PositionTypes /\ s.positions[u].qty \in Nat
    BY <1>1 DEF Positions
  <2> QED BY <1>1, <2>1 DEF Exposure, Signed, LONG, SHORT
<1>3. /\ IsFiniteSet(long) /\ IsFiniteSet(short) /\ long \cap short = {} /\ long \cup short = held
      /\ long \subseteq held /\ short \subseteq held
  <2>1. long \cap short = {} /\ long \cup short = held
    BY <1>2 DEF PositionTypes, LONG, SHORT
  <2> QED BY <1>1, <2>1, FS_Subset
<1>4. SumFunctionOnSet(e, held) = 0
  <2> HIDE DEF e
  <2>1. e = [u \in ToSet(s.users) |-> Exposure(s, u)]
    BY DEF e
  <2> QED BY <2>1, BalanceIsHeld
<1>5. Held(s, LONG) = SumFunctionOnSet(q, long) /\ Held(s, SHORT) = SumFunctionOnSet(q, short)
  BY DEF Held
<1> HIDE DEF e, q, held, long, short
<1>6. \A u \in held : e[u] \in Int
  <2>1. \A u \in long : e[u] \in Int
    BY <1>2, <1>3
  <2>2. \A u \in short : e[u] \in Int
    BY <1>2, <1>3
  <2> QED BY <1>3, <2>1, <2>2
<1>7. SumFunctionOnSet(q, long) \in Int /\ SumFunctionOnSet(q, short) \in Int
  BY <1>2, <1>3, SumType
<1>8. SumFunctionOnSet(e, long) = 1 * SumFunctionOnSet(q, long)
  BY <1>2, <1>3, SumScaled
<1>9. SumFunctionOnSet(e, short) = (-1) * SumFunctionOnSet(q, short)
  <2> DEFINE c == -1
  <2>1. c \in Int /\ \A u \in short : e[u] = c * q[u] /\ q[u] \in Int
    BY <1>2, <1>3
  <2> HIDE DEF c
  <2>2. SumFunctionOnSet(e, short) = c * SumFunctionOnSet(q, short)
    BY <1>3, <2>1, SumScaled
  <2> QED BY <2>2 DEF c
<1>10. SumFunctionOnSet(e, long \cup short) = SumFunctionOnSet(e, long) + SumFunctionOnSet(e, short)
  BY <1>3, <1>6, SumJoins
<1> DEFINE a == SumFunctionOnSet(q, long)
           b == SumFunctionOnSet(q, short)
<1>11. a \in Int /\ b \in Int /\ 0 = 1 * a + (-1) * b
  <2>1. SumFunctionOnSet(e, long) + SumFunctionOnSet(e, short) = 0
    BY <1>3, <1>4, <1>10
  <2> QED BY <1>7, <1>8, <1>9, <2>1
<1> HIDE DEF a, b
<1>12. a = b
  BY <1>11
<1> QED BY <1>5, <1>12 DEF a, b

\* Every long is somebody's short, in every reachable state: netting, which adds,
\* shrinks, closes and flips positions, never loses or makes up a quantity.
THEOREM OpenInterestIsBalanced == Spec => []OpenInterestBalanced
<1>1. EngineInvariant => OpenInterestBalanced
  <2> SUFFICES ASSUME EngineInvariant PROVE OpenInterestBalanced
    OBVIOUS
  <2>1. Held(store, LONG) = Held(store, SHORT)
    BY SidesBalance DEF EngineInvariant, StoreOK
  <2> QED BY <2>1 DEF Held, OpenInterestBalanced
<1> QED BY <1>1, InvariantHolds, PTL

LEMMA DivisionExact ==
  ASSUME NEW a \in Int, NEW d \in Nat \ {0}, a % d = 0
  PROVE  \E k \in Int : a = d * k
<1> DEFINE k == a \div d
<1>1. k \in Int
  OBVIOUS
<1>2. a = d * k
  OBVIOUS
<1> QED BY <1>1, <1>2

\* Funding takes nothing from the accounts and gives them nothing: where no
\* payment is rounded, the margins of all positions together stay what they were.
THEOREM FundingMovesMargin == Spec => FundingIsZeroSum
<1> DEFINE A == FundingIsExact /\ DisperseFundingRate =>
                  PositionMargins(store'.positions) = PositionMargins(store.positions)
<1>1. EngineInvariant /\ [Next]_vars => A
  <2> SUFFICES ASSUME EngineInvariant, FundingIsExact, DisperseFundingRate
               PROVE  PositionMargins(store'.positions) = PositionMargins(store.positions)
    OBVIOUS
  <2> DEFINE held == DOMAIN store.positions
             p == store.lastTradedPrice
             i == store.indexPrice
             e == [u \in ToSet(store.users) |-> Exposure(store, u)]
             before == [u \in held |-> store.positions[u].margin]
             after == [u \in held |-> Funded(store.positions[u]).margin]
  <2>1. /\ StoreOK(store, nextId) /\ AccountsOK(store) /\ Shaped(store) /\ Balance(store) = 0
        /\ held \subseteq ToSet(store.users)
        /\ \A u \in held : store.positions[u] \in Positions
    BY DEF EngineInvariant, StoreOK, AccountsOK
  <2>2. store'.positions = [u \in held |-> Funded(store.positions[u])]
    BY <2>1 DEF DisperseFundingRate, Shaped
  <2>3. PositionMargins(store'.positions) = SumFunctionOnSet(after, held)
    <3>1. DOMAIN store'.positions = held /\ \A u \in held : store'.positions[u] = Funded(store.positions[u])
      BY <2>2
    <3>2. [u \in DOMAIN store'.positions |-> store'.positions[u].margin] = after
      BY <3>1
    <3> HIDE DEF after
    <3>3. DOMAIN after = held
      BY DEF after
    <3> QED BY <3>2, <3>3 DEF PositionMargins, SumFunction
  <2>4. PositionMargins(store.positions) = SumFunctionOnSet(before, held)
    BY DEF PositionMargins, SumFunction
  <2>5. p \in Nat \ {0} /\ i \in Nat \ {0} /\ (p * (p - i)) % i = 0
    BY <2>1, EngineAssumption DEF AccountsOK, FundingIsExact
  <2>6. PICK k \in Int : p * (p - i) = i * k
    <3> HIDE DEF p, i
    <3>1. p * (p - i) \in Int
      BY <2>5
    <3> QED BY <2>5, <3>1, DivisionExact
  <2>7. ASSUME NEW u \in held
        PROVE  /\ before[u] \in Int /\ e[u] \in Int
               /\ after[u] = before[u] + (-k) * e[u]
    <3> DEFINE position == store.positions[u]
               q == position.qty
               m == position.margin
    <3>1. position \in Positions /\ u \in ToSet(store.users)
      BY <2>1
    <3>2. q \in Nat \ {0} /\ m \in Int /\ position.type \in PositionTypes
      BY <3>1 DEF Positions
    <3>3. Funding(position) = NearestQuotient(q * p * (p - i), i)
      BY DEF Funding
    <3>4. q * p * (p - i) = i * (k * q)
      <4> HIDE DEF p, i, q
      <4>1. q * p * (p - i) = q * (p * (p - i))
        BY <2>5, <3>2
      <4>2. q * (i * k) = i * (k * q)
        BY <2>5, <3>2
      <4> QED BY <2>6, <4>1, <4>2
    <3>5. Funding(position) = k * q
      <4> HIDE DEF p, i, q
      <4>1. k * q \in Int
        BY <3>2
      <4>2. NearestQuotient(i * (k * q), i) = k * q
        BY <2>5, <4>1, NearestExact
      <4> QED BY <3>3, <3>4, <4>2
    <3>6. Funded(position).margin = IF position.type = LONG THEN m - k * q ELSE m + k * q
      BY <2>1, <3>1, <3>5, FundedFacts
    <3>7. e[u] = IF position.type = LONG THEN q ELSE -q
      BY <3>1 DEF Exposure, Signed
    <3>8. after[u] = Funded(position).margin /\ before[u] = m
      OBVIOUS
    <3> HIDE DEF position, q, m, e, before, after
    <3>9. (-k) * q = -(k * q) /\ (-k) * (-q) = k * q /\ k * q \in Int
      BY <3>2
    <3> QED BY <3>2, <3>6, <3>7, <3>8, <3>9
  <2>8. IsFiniteSet(held)
    BY <2>1, UsersFinite, FS_Subset
  <2>9. SumFunctionOnSet(e, held) = 0
    <3> HIDE DEF e
    <3>1. e = [u \in ToSet(store.users) |-> Exposure(store, u)]
      BY DEF e
    <3> QED BY <2>1, <3>1, BalanceIsHeld
  <2> HIDE DEF e, before, after, held
  <2>10. SumFunctionOnSet(after, held) = SumFunctionOnSet(before, held) + (-k) * SumFunctionOnSet(e, held)
    <3> DEFINE c == -k
    <3>1. c \in Int
      OBVIOUS
    <3> HIDE DEF c
    <3>2. \A u \in held : before[u] \in Int /\ e[u] \in Int /\ after[u] = before[u] + c * e[u]
      BY <2>7 DEF c
    <3>3. SumFunctionOnSet(after, held) = SumFunctionOnSet(before, held) + c * SumFunctionOnSet(e, held)
      BY <2>8, <3>1, <3>2, SumLinear
    <3> QED BY <3>3 DEF c
  <2>11. SumFunctionOnSet(before, held) \in Int
    BY <2>7, <2>8, SumType
  <2>12. (-k) * 0 = 0
    OBVIOUS
  <2> QED BY <2>3, <2>4, <2>9, <2>10, <2>11, <2>12
<1>2. [][EngineInvariant /\ [Next]_vars]_vars => [][A]_vars
  BY <1>1, PTL
<1> QED BY <1>2, InvariantHolds, PTL DEF Spec, FundingIsZeroSum

\* A sweep closes exactly the positions the price has reached: an account nobody
\* traded with is a taker only if its price was reached, and is passed over only
\* when its collateral is negative or nothing is left on the opposite side.
THEOREM SweepTakesWhatIsCrossed == Spec => SweepTakesCrossedPositions
<1> DEFINE Taken(u) ==
             LET held == store.positions[u]
                 crossed == IF held.type = LONG
                              THEN held.liquidationPrice >= store'.indexPrice
                              ELSE held.liquidationPrice <= store'.indexPrice
                 takers == {f.takerId : f \in ToSet(reply'.fills)}
             IN  /\ u \in takers => crossed
                 /\ (crossed /\ u \notin takers) =>
                      \/ store.collateral[u].available < 0
                      \/ DOMAIN store'.orderbook[held.type] = {}
           A == (\E price \in SpotPrices : SpotPriceUpdate(price)) =>
                  \A u \in DOMAIN store.positions \ {f.makerId : f \in ToSet(reply'.fills)} : Taken(u)
<1>1. EngineInvariant /\ [Next]_vars => A
  <2> SUFFICES ASSUME EngineInvariant, NEW price \in SpotPrices, SpotPriceUpdate(price),
                      NEW u \in DOMAIN store.positions \ {f.makerId : f \in ToSet(reply'.fills)}
               PROVE  Taken(u)
    OBVIOUS
  <2> HIDE DEF Taken
  <2> DEFINE s == [store EXCEPT !.indexPrice = price]
             w == Sweep(s, nextId, price)
  <2>1. store' = w.store /\ Replied(w.fills, w.updates)
    BY DEF SpotPriceUpdate
  <2>2. /\ StoreOK(store, nextId) /\ nextId \in Nat \ {0} /\ traded \subseteq Users
        /\ DOMAIN store.positions \subseteq ToSet(store.users)
    BY DEF EngineInvariant, StoreOK, AccountsOK
  <2>3. /\ StoreOK(s, nextId) /\ s.users = store.users /\ s.positions = store.positions
        /\ s.collateral = store.collateral /\ s.indexPrice = price
    BY <2>2, Priced
  <2>4. w = Sweep(s, nextId, price)
    OBVIOUS
  <2> HIDE DEF s, w
  <2>5. SweepOK(s, nextId, price, Len(s.users), w)
    BY <2>2, <2>3, <2>4, SweepDone
  <2>6. reply'.fills = w.fills
    <3>1. w.fills \in Seq(Fills)
      BY <2>5 DEF SweepOK
    <3> QED BY <2>1, <2>2, <3>1, RepliedFacts
  <2>7. u \notin Makers(w.fills) /\ u \in DOMAIN s.positions
    BY <2>3, <2>6 DEF Makers
  <2>8. PICK j \in 1..Len(s.users) : u = s.users[j]
    <3>1. u \in ToSet(s.users) /\ s.users \in Seq(Users)
      BY <2>2, <2>3 DEF StoreOK, AccountsOK
    <3> QED BY <3>1 DEF ToSet
  <2>9. u \in Takers(w.fills) => Crossed(s.positions[u], price)
    BY <2>5, <2>7 DEF SweepOK
  <2>10. Crossed(s.positions[u], price) /\ u \notin Takers(w.fills) =>
           \/ s.collateral[u].available < 0
           \/ DOMAIN w.store.orderbook[s.positions[u].type] = {}
    <3>1. Due(s, w.fills, price, s.users[j]) =>
            \/ s.collateral[s.users[j]].available < 0
            \/ DOMAIN w.store.orderbook[s.positions[s.users[j]].type] = {}
      BY <2>5 DEF SweepOK
    <3> QED BY <2>7, <2>8, <3>1 DEF Due
  <2>11. store'.indexPrice = price
    BY <2>1, <2>3, <2>5 DEF SweepOK
  <2> QED BY <2>1, <2>3, <2>6, <2>9, <2>10, <2>11 DEF Taken, Crossed, Takers
<1>2. [][EngineInvariant /\ [Next]_vars]_vars => [][A]_vars
  BY <1>1, PTL
<1> QED BY <1>2, InvariantHolds, PTL DEF Spec, SweepTakesCrossedPositions

-----------------------------------------------------------------------------
(* The book as its users see it.                                           *)

Row(type, price, o) == [type |-> type, price |-> price, left |-> Remaining(o)]

\* B says of every order that rests where it does and what it has left, and of nothing else.
Reads(B, s) ==
  /\ \A i \in DOMAIN B : \E type \in PositionTypes : \E p \in DOMAIN s.orderbook[type] :
       \E o \in At(s.orderbook[type], p) : o.orderId = i /\ B[i] = Row(type, p, o)
  /\ \A type \in PositionTypes : \A p \in DOMAIN s.orderbook[type] : \A o \in At(s.orderbook[type], p) :
       o.orderId \in DOMAIN B /\ B[o.orderId] = Row(type, p, o)

\* (RestingIn is such a B.)
LEMMA RestingReads ==
  ASSUME NEW s, RestsOnce(s)
  PROVE  Reads(RestingIn(s), s) /\ RestingIn(s) = [i \in DOMAIN RestingIn(s) |-> RestingIn(s)[i]]
<1> DEFINE Full(t, p, o) == [orderId |-> o.orderId, type |-> t, price |-> p, left |-> Remaining(o)]
           AtPrice(t, p) == {Full(t, p, o) : o \in ToSet(s.orderbook[t][p].openOrders)}
           rows == UNION {UNION {AtPrice(t, p) : p \in DOMAIN s.orderbook[t]} : t \in PositionTypes}
           ids == {r.orderId : r \in rows}
           rowOf(id) == CHOOSE r \in rows : r.orderId = id
           B == RestingIn(s)
<1>1. B = [id \in ids |-> [type |-> rowOf(id).type, price |-> rowOf(id).price, left |-> rowOf(id).left]]
  BY DEF RestingIn
<1>2. \A r \in rows : \E t \in PositionTypes : \E p \in DOMAIN s.orderbook[t] : \E o \in At(s.orderbook[t], p) :
        r = Full(t, p, o)
  BY DEF At
<1>3. \A t \in PositionTypes : \A p \in DOMAIN s.orderbook[t] : \A o \in At(s.orderbook[t], p) : Full(t, p, o) \in rows
  BY DEF At
<1> HIDE DEF rows
<1>4. \A r1, r2 \in rows : r1.orderId = r2.orderId => r1 = r2
  <2> SUFFICES ASSUME NEW r1 \in rows, NEW r2 \in rows, r1.orderId = r2.orderId PROVE r1 = r2
    OBVIOUS
  <2>1. PICK t1 \in PositionTypes : \E p \in DOMAIN s.orderbook[t1] : \E o \in At(s.orderbook[t1], p) : r1 = Full(t1, p, o)
    BY <1>2
  <2>2. PICK p1 \in DOMAIN s.orderbook[t1] : \E o \in At(s.orderbook[t1], p1) : r1 = Full(t1, p1, o)
    BY <2>1
  <2>3. PICK o1 \in At(s.orderbook[t1], p1) : r1 = Full(t1, p1, o1)
    BY <2>2
  <2>4. PICK t2 \in PositionTypes : \E p \in DOMAIN s.orderbook[t2] : \E o \in At(s.orderbook[t2], p) : r2 = Full(t2, p, o)
    BY <1>2
  <2>5. PICK p2 \in DOMAIN s.orderbook[t2] : \E o \in At(s.orderbook[t2], p2) : r2 = Full(t2, p2, o)
    BY <2>4
  <2>6. PICK o2 \in At(s.orderbook[t2], p2) : r2 = Full(t2, p2, o2)
    BY <2>5
  <2>7. o1.orderId = o2.orderId
    BY <2>3, <2>6
  <2>8. t1 = t2 /\ p1 = p2 /\ o1 = o2
    BY <2>1, <2>2, <2>3, <2>4, <2>5, <2>6, <2>7 DEF RestsOnce
  <2> QED BY <2>3, <2>6, <2>8
<1>5. \A r \in rows : r.orderId \in ids /\ rowOf(r.orderId) = r
  BY <1>4
<1> HIDE DEF rowOf
<1>6. \A t \in PositionTypes : \A p \in DOMAIN s.orderbook[t] : \A o \in At(s.orderbook[t], p) :
        o.orderId \in DOMAIN B /\ B[o.orderId] = Row(t, p, o)
  <2> SUFFICES ASSUME NEW t \in PositionTypes, NEW p \in DOMAIN s.orderbook[t], NEW o \in At(s.orderbook[t], p)
               PROVE  o.orderId \in DOMAIN B /\ B[o.orderId] = Row(t, p, o)
    OBVIOUS
  <2>1. Full(t, p, o) \in rows
    BY <1>3
  <2>2. o.orderId \in ids /\ rowOf(o.orderId) = Full(t, p, o)
    BY <1>5, <2>1
  <2> HIDE DEF B, ids
  <2>3. B[o.orderId] = [type |-> rowOf(o.orderId).type, price |-> rowOf(o.orderId).price, left |-> rowOf(o.orderId).left]
    BY <1>1, <2>2
  <2> QED BY <1>1, <2>2, <2>3 DEF Row
<1>7. \A i \in DOMAIN B : \E t \in PositionTypes : \E p \in DOMAIN s.orderbook[t] :
        \E o \in At(s.orderbook[t], p) : o.orderId = i /\ B[i] = Row(t, p, o)
  <2> SUFFICES ASSUME NEW i \in ids
               PROVE  \E t \in PositionTypes : \E p \in DOMAIN s.orderbook[t] :
                        \E o \in At(s.orderbook[t], p) : o.orderId = i /\ B[i] = Row(t, p, o)
    BY <1>1
  <2>1. PICK r \in rows : r.orderId = i
    OBVIOUS
  <2>2. PICK t \in PositionTypes : \E p \in DOMAIN s.orderbook[t] : \E o \in At(s.orderbook[t], p) : r = Full(t, p, o)
    BY <1>2
  <2>3. PICK p \in DOMAIN s.orderbook[t] : \E o \in At(s.orderbook[t], p) : r = Full(t, p, o)
    BY <2>2
  <2>4. PICK o \in At(s.orderbook[t], p) : r = Full(t, p, o)
    BY <2>3
  <2>5. o.orderId = i
    BY <2>1, <2>4
  <2> HIDE DEF B
  <2> QED BY <1>6, <2>2, <2>3, <2>4, <2>5
<1>8. B = [i \in DOMAIN B |-> B[i]]
  BY <1>1
<1> HIDE DEF B
<1> QED BY <1>6, <1>7, <1>8 DEF Reads, B

\* C says what B says, but for the orders that left a level and those that joined it.
ReadingMoves(B, C, side, price, gone, more) ==
  /\ \A i \in DOMAIN B : (\A x \in gone : x.orderId # i) => i \in DOMAIN C /\ C[i] = B[i]
  /\ \A i \in DOMAIN C : (\A x \in more : x.orderId # i) =>
       i \in DOMAIN B /\ C[i] = B[i] /\ \A x \in gone : x.orderId # i
  /\ \A x \in more : x.orderId \in DOMAIN C /\ C[x.orderId] = Row(side, price, x)
  /\ \A x \in gone : x.orderId \in DOMAIN B /\ B[x.orderId] = Row(side, price, x)

LEMMA RowFields ==
  ASSUME NEW type, NEW price, NEW o
  PROVE  Row(type, price, o).type = type /\ Row(type, price, o).price = price /\ Row(type, price, o).left = Remaining(o)
BY DEF Row

\* When one level of the book changes, what is said of the other orders stays.
LEMMA ReadMoves ==
  ASSUME NEW s, RestsOnce(s), NEW t, NEW side \in PositionTypes, NEW price, NEW gone, NEW more,
         BookMoves(s, t, side, price, gone, more), NEW B, Reads(B, s), NEW C, Reads(C, t)
  PROVE  ReadingMoves(B, C, side, price, gone, more)
<1>1. \A p : At(t.orderbook[side], p) =
               IF p = price THEN (At(s.orderbook[side], price) \ gone) \cup more ELSE At(s.orderbook[side], p)
  BY DEF BookMoves, SideMoves
<1>2. \A type \in PositionTypes : type # side => t.orderbook[type] = s.orderbook[type]
  BY DEF BookMoves
<1>3. gone \subseteq At(s.orderbook[side], price)
  BY DEF BookMoves
<1>4. \A type : \A p : \A o \in At(s.orderbook[type], p) : p \in DOMAIN s.orderbook[type]
  BY DEF At
<1>5. \A type : \A p : \A o \in At(t.orderbook[type], p) : p \in DOMAIN t.orderbook[type]
  BY DEF At
<1>6. ASSUME NEW i \in DOMAIN B, \A x \in gone : x.orderId # i
      PROVE  i \in DOMAIN C /\ C[i] = B[i]
  <2>1. PICK type \in PositionTypes : \E p \in DOMAIN s.orderbook[type] :
          \E o \in At(s.orderbook[type], p) : o.orderId = i /\ B[i] = Row(type, p, o)
    BY DEF Reads
  <2>2. PICK p \in DOMAIN s.orderbook[type] : \E o \in At(s.orderbook[type], p) : o.orderId = i /\ B[i] = Row(type, p, o)
    BY <2>1
  <2>3. PICK o \in At(s.orderbook[type], p) : o.orderId = i /\ B[i] = Row(type, p, o)
    BY <2>2
  <2>4. o \in At(t.orderbook[type], p)
    <3>1. o \notin gone
      BY <1>6, <2>3
    <3> QED BY <1>1, <1>2, <2>3, <3>1
  <2>5. p \in DOMAIN t.orderbook[type]
    BY <1>5, <2>4
  <2> QED BY <2>3, <2>4, <2>5 DEF Reads
<1>7. ASSUME NEW i \in DOMAIN C, \A x \in more : x.orderId # i
      PROVE  i \in DOMAIN B /\ C[i] = B[i] /\ \A x \in gone : x.orderId # i
  <2>1. PICK type \in PositionTypes : \E p \in DOMAIN t.orderbook[type] :
          \E o \in At(t.orderbook[type], p) : o.orderId = i /\ C[i] = Row(type, p, o)
    BY DEF Reads
  <2>2. PICK p \in DOMAIN t.orderbook[type] : \E o \in At(t.orderbook[type], p) : o.orderId = i /\ C[i] = Row(type, p, o)
    BY <2>1
  <2>3. PICK o \in At(t.orderbook[type], p) : o.orderId = i /\ C[i] = Row(type, p, o)
    BY <2>2
  <2>4. o \notin more
    BY <1>7, <2>3
  <2>5. o \in At(s.orderbook[type], p) /\ (type = side /\ p = price => o \notin gone)
    <3>1. CASE type = side /\ p = price
      BY <1>1, <2>3, <2>4, <3>1
    <3>2. CASE type = side /\ p # price
      BY <1>1, <2>3, <3>2
    <3>3. CASE type # side
      BY <1>2, <2>3, <3>3
    <3> QED BY <3>1, <3>2, <3>3
  <2>6. p \in DOMAIN s.orderbook[type]
    BY <1>4, <2>5
  <2>7. i \in DOMAIN B /\ C[i] = B[i]
    BY <2>3, <2>5, <2>6 DEF Reads
  <2>8. ASSUME NEW x \in gone, x.orderId = i PROVE FALSE
    <3>1. x \in At(s.orderbook[side], price) /\ price \in DOMAIN s.orderbook[side]
      BY <1>3, <1>4
    <3>2. type = side /\ p = price /\ o = x
      BY <2>3, <2>5, <2>6, <2>8, <3>1 DEF RestsOnce
    <3> QED BY <2>5, <3>2
  <2> QED BY <2>7, <2>8
<1>8. ASSUME NEW x \in more PROVE x.orderId \in DOMAIN C /\ C[x.orderId] = Row(side, price, x)
  <2>1. x \in At(t.orderbook[side], price)
    BY <1>1
  <2>2. price \in DOMAIN t.orderbook[side]
    BY <1>5, <2>1
  <2> QED BY <2>1, <2>2 DEF Reads
<1>9. ASSUME NEW x \in gone PROVE x.orderId \in DOMAIN B /\ B[x.orderId] = Row(side, price, x)
  <2>1. x \in At(s.orderbook[side], price) /\ price \in DOMAIN s.orderbook[side]
    BY <1>3, <1>4
  <2> QED BY <2>1 DEF Reads
<1> QED BY <1>6, <1>7, <1>8, <1>9 DEF ReadingMoves

\* A well-formed reading of orders older than n.
Rows(B, n) ==
  /\ DOMAIN B \subseteq 1..(n - 1)
  /\ \A i \in DOMAIN B : B[i].type \in PositionTypes /\ B[i].price \in LimitPrices /\ B[i].left \in Nat \ {0}
  /\ \A i \in DOMAIN B : B[i] = [type |-> B[i].type, price |-> B[i].price, left |-> B[i].left]

LEMMA ReadRows ==
  ASSUME NEW s, NEW n \in Nat \ {0}, BookOK(s, n), RestsOnce(s), NEW B, Reads(B, s)
  PROVE  Rows(B, n)
<1> SUFFICES ASSUME NEW i \in DOMAIN B
             PROVE  /\ i \in 1..(n - 1)
                    /\ B[i].type \in PositionTypes /\ B[i].price \in LimitPrices /\ B[i].left \in Nat \ {0}
                    /\ B[i] = [type |-> B[i].type, price |-> B[i].price, left |-> B[i].left]
  BY DEF Rows
<1>1. PICK type \in PositionTypes : \E p \in DOMAIN s.orderbook[type] :
        \E o \in At(s.orderbook[type], p) : o.orderId = i /\ B[i] = Row(type, p, o)
  BY DEF Reads
<1>2. PICK p \in DOMAIN s.orderbook[type] : \E o \in At(s.orderbook[type], p) : o.orderId = i /\ B[i] = Row(type, p, o)
  BY <1>1
<1>3. PICK o \in At(s.orderbook[type], p) : o.orderId = i /\ B[i] = Row(type, p, o)
  BY <1>2
<1>4. n \in Nat /\ SideOK(s.orderbook[type], ToSet(s.users), n)
  BY DEF BookOK
<1>5. LevelKnown(s.orderbook[type], p, ToSet(s.users), n)
  BY <1>4, LevelFacts
<1>6. p \in LimitPrices /\ o \in Orders(ToSet(s.users), n) /\ Remaining(o) \in Nat \ {0}
  BY <1>3, <1>5 DEF LevelKnown
<1>7. i \in 1..(n - 1)
  BY <1>3, <1>6 DEF Orders
<1> QED BY <1>3, <1>6, <1>7 DEF Row

-----------------------------------------------------------------------------
(* Taking from the book.                                                   *)

\* What the taker may hit of the rows A.
Reach(A, taker) ==
  {i \in DOMAIN A : A[i].type = Opposite(taker.type) /\ WithinBound(taker.type, A[i].price, taker.bound)}

Precedes(A, i, j) ==
  /\ A[i].type = A[j].type
  /\ BetterPrice(A[i].type, A[i].price, A[j].price) \/ (A[i].price = A[j].price /\ i < j)

Kept(A, B, i) == i \in DOMAIN B /\ B[i] = A[i]

LeftIn(B, i) == IF i \in DOMAIN B THEN B[i].left ELSE 0
TakenBetween(A, B) == [i \in DOMAIN A |-> LeftIn(A, i) - LeftIn(B, i)]

\* B is A, or less of it.
OnlyLess(A, B) ==
  /\ DOMAIN B \subseteq DOMAIN A
  /\ \A i \in DOMAIN B : B[i].type = A[i].type /\ B[i].price = A[i].price /\ B[i].left \in 1..A[i].left

\* B is A after `done` was taken of what the taker reaches, the best and oldest first.
Takes(taker, A, B, done) ==
  /\ OnlyLess(A, B)
  /\ \A i \in DOMAIN A : i \notin Reach(A, taker) => Kept(A, B, i)
  /\ \A i, j \in DOMAIN A : Precedes(A, i, j) /\ ~Kept(A, B, j) => i \notin DOMAIN B
  /\ SumFunctionOnSet(TakenBetween(A, B), Reach(A, taker)) = done

\* C is B after qty was taken of k.
Hits(B, C, k, qty) ==
  /\ k \in DOMAIN B /\ qty \in Nat \ {0} /\ qty <= B[k].left
  /\ \A i : i # k => (i \in DOMAIN C <=> i \in DOMAIN B) /\ (i \in DOMAIN B => C[i] = B[i])
  /\ k \in DOMAIN C <=> qty # B[k].left
  /\ k \in DOMAIN C => C[k].type = B[k].type /\ C[k].price = B[k].price /\ C[k].left = B[k].left - qty

LEMMA ReachFinite ==
  ASSUME NEW A, NEW n \in Nat, Rows(A, n), NEW taker
  PROVE  IsFiniteSet(DOMAIN A) /\ IsFiniteSet(Reach(A, taker)) /\ Reach(A, taker) \subseteq DOMAIN A
<1>1. DOMAIN A \subseteq 1..(n - 1)
  BY DEF Rows
<1>2. IsFiniteSet(1..(n - 1))
  BY FS_Interval
<1>3. IsFiniteSet(DOMAIN A)
  BY <1>1, <1>2, FS_Subset
<1>4. Reach(A, taker) \subseteq DOMAIN A
  BY DEF Reach
<1> QED BY <1>3, <1>4, FS_Subset

LEMMA TakesNothing ==
  ASSUME NEW A, NEW n \in Nat, Rows(A, n), NEW taker
  PROVE  Takes(taker, A, A, 0)
<1> DEFINE f == TakenBetween(A, A)
           R == Reach(A, taker)
<1>1. \A i \in DOMAIN A : A[i].left \in Nat \ {0}
  BY DEF Rows
<1>2. OnlyLess(A, A)
  BY <1>1 DEF OnlyLess
<1>3. \A i \in DOMAIN A : Kept(A, A, i)
  BY DEF Kept
<1>4. \A i \in R : f[i] \in Int /\ f[i] = 0
  BY <1>1 DEF Reach, TakenBetween, LeftIn
<1>5. IsFiniteSet(R)
  BY ReachFinite
<1>6. SumFunctionOnSet(f, R) = 0
  <2> HIDE DEF f, R
  <2> DEFINE c == -1
  <2>1. SumFunctionOnSet(f, R) \in Int
    BY <1>4, <1>5, SumType
  <2>2. c \in Int /\ \A i \in R : f[i] \in Int /\ f[i] = f[i] + c * f[i]
    BY <1>4
  <2>3. SumFunctionOnSet(f, R) = SumFunctionOnSet(f, R) + c * SumFunctionOnSet(f, R)
    <3> HIDE DEF c
    <3> QED BY <1>5, <2>2, SumLinear
  <2> QED BY <2>1, <2>3
<1> QED BY <1>2, <1>3, <1>6 DEF Takes

LEMMA TakesMore ==
  ASSUME NEW A, NEW n \in Nat, Rows(A, n), NEW taker, NEW B, NEW done \in Int, Takes(taker, A, B, done),
         NEW C, NEW k, NEW qty, Hits(B, C, k, qty), k \in Reach(B, taker), \A i \in DOMAIN B : ~Precedes(B, i, k)
  PROVE  Takes(taker, A, C, done + qty)
<1> DEFINE f == TakenBetween(A, B)
           g == TakenBetween(A, C)
           R == Reach(A, taker)
<1>1. OnlyLess(A, B)
  BY DEF Takes
<1>2. /\ k \in DOMAIN B /\ qty \in Nat \ {0} /\ qty <= B[k].left
      /\ \A i : i # k => (i \in DOMAIN C <=> i \in DOMAIN B) /\ (i \in DOMAIN B => C[i] = B[i])
      /\ k \in DOMAIN C <=> qty # B[k].left
      /\ k \in DOMAIN C => C[k].type = B[k].type /\ C[k].price = B[k].price /\ C[k].left = B[k].left - qty
  BY DEF Hits
<1>3. /\ k \in DOMAIN A /\ B[k].type = A[k].type /\ B[k].price = A[k].price
      /\ A[k].left \in Nat /\ B[k].left \in Nat /\ B[k].left <= A[k].left
  BY <1>1, <1>2 DEF OnlyLess, Rows
<1>4. k \in R
  BY <1>3 DEF Reach
<1>5. OnlyLess(A, C)
  <2>1. DOMAIN C \subseteq DOMAIN A
    BY <1>1, <1>2, <1>3 DEF OnlyLess
  <2>2. ASSUME NEW i \in DOMAIN C
        PROVE  C[i].type = A[i].type /\ C[i].price = A[i].price /\ C[i].left \in 1..A[i].left
    <3>1. CASE i = k
      BY <1>2, <1>3, <3>1
    <3>2. CASE i # k
      BY <1>1, <1>2, <3>2 DEF OnlyLess
    <3> QED BY <3>1, <3>2
  <2> QED BY <2>1, <2>2 DEF OnlyLess
<1>6. ASSUME NEW i \in DOMAIN A, i \notin R PROVE Kept(A, C, i)
  <2>1. Kept(A, B, i) /\ i # k
    BY <1>4, <1>6 DEF Takes
  <2> QED BY <1>2, <2>1 DEF Kept
<1>7. ASSUME NEW i \in DOMAIN A, NEW j \in DOMAIN A, Precedes(A, i, j), ~Kept(A, C, j) PROVE i \notin DOMAIN C
  <2>1. CASE j # k
    <3>1. ~Kept(A, B, j)
      BY <1>2, <1>7, <2>1 DEF Kept
    <3>2. i \notin DOMAIN B
      BY <1>7, <3>1 DEF Takes
    <3> QED BY <1>2, <3>2
  <2>2. CASE j = k
    <3> SUFFICES ASSUME i \in DOMAIN C PROVE FALSE
      OBVIOUS
    <3>1. i \in DOMAIN B
      BY <1>2
    <3>2. B[i].type = A[i].type /\ B[i].price = A[i].price
      BY <1>1, <3>1 DEF OnlyLess
    <3>3. Precedes(B, i, k)
      BY <1>3, <1>7, <2>2, <3>2 DEF Precedes
    <3> QED BY <3>1, <3>3
  <2> QED BY <2>1, <2>2
<1>8. SumFunctionOnSet(g, R) = done + qty
  <2>1. IsFiniteSet(R) /\ R \subseteq DOMAIN A
    BY ReachFinite
  <2>2. \A i \in DOMAIN A : A[i].left \in Int
    BY DEF Rows
  <2>3. \A i \in DOMAIN B : B[i].left \in Int
    <3>1. \A i \in DOMAIN A : A[i].left \in Nat
      BY DEF Rows
    <3> QED BY <1>1, <3>1 DEF OnlyLess
  <2>4. \A i \in DOMAIN C : C[i].left \in Int
    <3>1. \A i \in DOMAIN A : A[i].left \in Nat
      BY DEF Rows
    <3> QED BY <1>5, <3>1 DEF OnlyLess
  <2>5. \A i \in DOMAIN A : f[i] \in Int /\ g[i] \in Int
    BY <2>2, <2>3, <2>4 DEF TakenBetween, LeftIn
  <2>6. g[k] = f[k] + qty
    <3>1. LeftIn(C, k) = LeftIn(B, k) - qty
      BY <1>2, <1>3 DEF LeftIn
    <3>2. LeftIn(A, k) \in Int /\ LeftIn(B, k) \in Int
      BY <1>2, <1>3 DEF LeftIn
    <3> QED BY <1>2, <1>3, <3>1, <3>2 DEF TakenBetween
  <2>7. \A i \in R \ {k} : f[i] = g[i]
    <3>1. \A i : i # k => LeftIn(C, i) = LeftIn(B, i)
      BY <1>2 DEF LeftIn
    <3> QED BY <2>1, <3>1 DEF TakenBetween
  <2>8. SumFunctionOnSet(f, R) = done
    BY DEF Takes
  <2> HIDE DEF f, g, R
  <2>9. IsFiniteSet(R \ {k}) /\ \A i \in R : f[i] \in Int /\ g[i] \in Int
    BY <2>1, <2>5, FS_RemoveElement
  <2>10. SumFunctionOnSet(f, R) = f[k] + SumFunctionOnSet(f, R \ {k})
    BY <1>4, <2>1, <2>9, SumRemove
  <2>11. SumFunctionOnSet(g, R) = g[k] + SumFunctionOnSet(g, R \ {k})
    BY <1>4, <2>1, <2>9, SumRemove
  <2>12. SumFunctionOnSet(f, R \ {k}) = SumFunctionOnSet(g, R \ {k})
    BY <2>7, <2>9, SumSame
  <2>13. SumFunctionOnSet(f, R \ {k}) \in Int
    BY <2>9, SumType
  <2> QED BY <1>2, <1>4, <2>6, <2>8, <2>9, <2>10, <2>11, <2>12, <2>13
<1> QED BY <1>5, <1>6, <1>7, <1>8 DEF Takes

\* The first order of a level is its oldest.
LEMMA HeadIsOldest ==
  ASSUME NEW us, NEW n \in Nat, NEW orders, Listed(orders, us, n), NEW o \in ToSet(orders)
  PROVE  ~(o.orderId < Head(orders).orderId)
<1>1. PICK i \in DOMAIN orders : orders[i] = o
  BY DEF ToSet
<1>2. Len(orders) \in Nat /\ DOMAIN orders = 1..Len(orders) /\ orders \in Seq(Orders(us, n))
  BY ListFacts DEF Listed
<1>3. Len(orders) # 0 /\ Head(orders) = orders[1] /\ 1 \in DOMAIN orders
  <2>1. Len(orders) >= 1
    BY <1>1, <1>2
  <2>2. orders # <<>>
    BY <2>1
  <2> QED BY <1>2, <2>1, <2>2
<1>4. \A j \in DOMAIN orders : orders[j].orderId \in Nat
  <2> SUFFICES ASSUME NEW j \in DOMAIN orders PROVE orders[j].orderId \in Nat
    OBVIOUS
  <2>1. orders[j] \in Orders(us, n)
    BY <1>2
  <2> QED BY <2>1 DEF Orders
<1>5. CASE i = 1
  BY <1>1, <1>3, <1>4, <1>5
<1>6. CASE i # 1
  <2>1. 1 < i
    BY <1>1, <1>2, <1>6
  <2>2. orders[1].orderId < orders[i].orderId
    BY <1>1, <1>3, <2>1 DEF Listed
  <2> QED BY <1>1, <1>3, <1>4, <2>2
<1> QED BY <1>5, <1>6

\* The matching loop takes from the first of all it reaches.
LEMMA NextHits ==
  ASSUME NEW taker, taker.type \in PositionTypes, taker.bound \in Int, NEW m, NEW n \in Nat \ {0}, StoreOK(m.store, n),
         m.remaining \in Nat \ {0}, MatchPrices(m.store, taker) # {},
         NEW t, NextTaken(taker, m, t), NEW B, Reads(B, m.store), NEW C, Reads(C, t)
  PROVE  LET k == NextOrder(taker, m).orderId
         IN  /\ Hits(B, C, k, NextQty(taker, m)) /\ k \in Reach(B, taker)
             /\ \A i \in DOMAIN B : ~Precedes(B, i, k)
             /\ NextQty(taker, m) = B[k].left \/ NextQty(taker, m) = m.remaining
<1> DEFINE side  == Opposite(taker.type)
           s     == m.store
           price == NextPrice(taker, m)
           open  == NextOrder(taker, m)
           qty   == NextQty(taker, m)
           prices == MatchPrices(s, taker)
           k     == open.orderId
<1>0. n \in Nat /\ BookOK(s, n) /\ RestsOnce(s)
  BY DEF StoreOK
<1>1. /\ side \in PositionTypes /\ price \in prices
      /\ price \in LimitPrices /\ price \in Nat \ {0} /\ price \in DOMAIN s.orderbook[side]
      /\ open \in At(s.orderbook[side], price)
      /\ open \in Orders(ToSet(s.users), n) /\ Remaining(open) \in Nat \ {0}
      /\ qty \in Nat \ {0} /\ qty <= Remaining(open) /\ qty <= m.remaining
      /\ qty = Remaining(open) \/ qty = m.remaining
  BY NextFacts
<1>2. open = Head(ListAt(s.orderbook[side], price))
  BY DEF NextOrder
<1>3. SideOK(s.orderbook[side], ToSet(s.users), n)
  BY <1>0, <1>1 DEF BookOK
<1>4. price = BestPrice(side, prices)
  BY DEF NextPrice
<1>5. WithinBound(taker.type, price, taker.bound)
  BY <1>1 DEF MatchPrices
<1>6. \A p \in DOMAIN s.orderbook[side] : p \in Nat /\ (WithinBound(taker.type, p, taker.bound) => p \in prices)
  <2> SUFFICES ASSUME NEW p \in DOMAIN s.orderbook[side]
               PROVE  p \in Nat /\ (WithinBound(taker.type, p, taker.bound) => p \in prices)
    OBVIOUS
  <2>1. LevelKnown(s.orderbook[side], p, ToSet(s.users), n)
    BY <1>0, <1>3, LevelFacts
  <2>2. s.orderbook[side][p].availableQty \in Nat \ {0} /\ p \in Nat
    BY <2>1, EngineAssumption DEF LevelKnown, Level
  <2> QED BY <2>2 DEF MatchPrices, OfferedPrices
<1>7. IsFiniteSet(prices) /\ prices \in SUBSET Nat /\ prices # {}
  <2>1. prices \subseteq DOMAIN s.orderbook[side]
    BY DEF MatchPrices, OfferedPrices
  <2>2. IsFiniteSet(DOMAIN s.orderbook[side]) /\ DOMAIN s.orderbook[side] \subseteq LimitPrices
    BY <1>3 DEF SideOK
  <2> QED BY <2>1, <2>2, FS_Subset, EngineAssumption
<1>8. BookMoves(s, t, side, price, {open}, Partial(open, qty))
  BY DEF NextTaken
<1> HIDE DEF side, s, price, open, qty, prices
<1>9. \A q \in prices \ {price} : BetterPrice(side, price, q)
  BY <1>1, <1>4, <1>7, BestPriceIs
<1> DEFINE gone == {open}
           more == Partial(open, qty)
<1>10. BookMoves(s, t, side, price, gone, more)
  BY <1>8
<1>11. \A x \in more : x = Partly(open, qty) /\ qty # Remaining(open)
  BY DEF Partial
<1>12. qty # Remaining(open) =>
         /\ Partly(open, qty) \in more /\ Partly(open, qty).orderId = k
         /\ Remaining(Partly(open, qty)) = Remaining(open) - qty
  <2> SUFFICES ASSUME qty # Remaining(open)
               PROVE  /\ Partly(open, qty) \in more /\ Partly(open, qty).orderId = k
                      /\ Remaining(Partly(open, qty)) = Remaining(open) - qty
    OBVIOUS
  <2>1. qty < Remaining(open)
    BY <1>1
  <2>2. Partly(open, qty).orderId = k /\ Remaining(Partly(open, qty)) = Remaining(open) - qty
    BY <1>0, <1>1, <2>1, PartlyIs
  <2> QED BY <2>2 DEF Partial
<1> HIDE DEF more
<1>13. \A x \in gone : x = open
  OBVIOUS
<1>14. open \in gone
  OBVIOUS
<1> HIDE DEF gone
<1>15. /\ \A i \in DOMAIN B : (\A x \in gone : x.orderId # i) => i \in DOMAIN C /\ C[i] = B[i]
       /\ \A i \in DOMAIN C : (\A x \in more : x.orderId # i) =>
            i \in DOMAIN B /\ C[i] = B[i] /\ \A x \in gone : x.orderId # i
       /\ \A x \in more : x.orderId \in DOMAIN C /\ C[x.orderId] = Row(side, price, x)
       /\ \A x \in gone : x.orderId \in DOMAIN B /\ B[x.orderId] = Row(side, price, x)
  <2>1. Reads(B, s)
    BY DEF s
  <2>2. side \in PositionTypes /\ RestsOnce(s) /\ Reads(C, t)
    BY <1>0, <1>1
  <2>3. ReadingMoves(B, C, side, price, gone, more)
    BY <1>10, <2>1, <2>2, ReadMoves
  <2> QED BY <2>3 DEF ReadingMoves
<1>16. k \in DOMAIN B /\ B[k].type = side /\ B[k].price = price /\ B[k].left = Remaining(open)
  <2>1. k \in DOMAIN B /\ B[k] = Row(side, price, open)
    BY <1>14, <1>15
  <2> QED BY <2>1, RowFields
<1>17. Hits(B, C, k, qty)
  <2>1. \A x \in more : x.orderId = k
    BY <1>11, <1>12
  <2>2. ASSUME NEW i, i # k PROVE (i \in DOMAIN C <=> i \in DOMAIN B) /\ (i \in DOMAIN B => C[i] = B[i])
    BY <1>13, <1>15, <2>1, <2>2
  <2>3. qty = Remaining(open) => k \notin DOMAIN C
    <3> SUFFICES ASSUME qty = Remaining(open), k \in DOMAIN C PROVE FALSE
      OBVIOUS
    <3>1. \A x \in more : x.orderId # k
      BY <1>11
    <3> QED BY <1>14, <1>15, <3>1
  <2>4. qty # Remaining(open) =>
          k \in DOMAIN C /\ C[k].type = side /\ C[k].price = price /\ C[k].left = Remaining(open) - qty
    <3> SUFFICES ASSUME qty # Remaining(open)
                 PROVE  k \in DOMAIN C /\ C[k].type = side /\ C[k].price = price /\ C[k].left = Remaining(open) - qty
      OBVIOUS
    <3> DEFINE p == Partly(open, qty)
    <3>1. p \in more /\ p.orderId = k /\ Remaining(p) = Remaining(open) - qty
      BY <1>12
    <3> HIDE DEF p
    <3>2. k \in DOMAIN C /\ C[k] = Row(side, price, p)
      BY <1>15, <3>1
    <3> QED BY <3>1, <3>2, RowFields
  <2> QED BY <1>1, <1>16, <2>2, <2>3, <2>4 DEF Hits
<1>18. k \in Reach(B, taker)
  BY <1>5, <1>16 DEF Reach, side
<1>19. ASSUME NEW i \in DOMAIN B, Precedes(B, i, k) PROVE FALSE
  <2>1. PICK type \in PositionTypes : \E p \in DOMAIN s.orderbook[type] :
          \E o \in At(s.orderbook[type], p) : o.orderId = i /\ B[i] = Row(type, p, o)
    BY DEF Reads, s
  <2>2. PICK p \in DOMAIN s.orderbook[type] : \E o \in At(s.orderbook[type], p) : o.orderId = i /\ B[i] = Row(type, p, o)
    BY <2>1
  <2>3. PICK o \in At(s.orderbook[type], p) : o.orderId = i /\ B[i] = Row(type, p, o)
    BY <2>2
  <2>4. type = side /\ (BetterPrice(side, p, price) \/ (p = price /\ i < k))
    <3>1. B[i].type = type /\ B[i].price = p
      BY <2>3, RowFields
    <3> QED BY <1>16, <1>19, <3>1 DEF Precedes
  <2>5. CASE BetterPrice(side, p, price)
    <3>1. p \in Nat /\ price \in Nat
      BY <1>1, <1>6, <2>4
    <3>2. WithinBound(taker.type, p, taker.bound)
      BY <1>5, <2>5, <3>1 DEF WithinBound, BetterPrice, side, Opposite, LONG, SHORT, PositionTypes
    <3>3. p \in prices
      BY <1>6, <2>4, <3>2
    <3>4. p = price \/ BetterPrice(side, price, p)
      BY <1>9, <3>3
    <3> QED BY <2>5, <3>1, <3>4 DEF BetterPrice
  <2>6. CASE p = price /\ i < k
    <3>1. LevelKnown(s.orderbook[side], price, ToSet(s.users), n)
      BY <1>0, <1>1, <1>3, LevelFacts
    <3>2. Listed(ListAt(s.orderbook[side], price), ToSet(s.users), n) /\ o \in ToSet(ListAt(s.orderbook[side], price))
      BY <2>3, <2>4, <2>6, <3>1 DEF LevelKnown
    <3>3. ~(o.orderId < open.orderId)
      BY <1>0, <1>2, <3>2, HeadIsOldest
    <3> QED BY <2>3, <2>6, <3>3
  <2> QED BY <2>4, <2>5, <2>6
<1> QED BY <1>1, <1>16, <1>17, <1>18, <1>19 DEF open, qty

\* The match is over when the order is filled or reaches nothing more.
MatchDone(taker, m) == m.remaining = 0 \/ MatchPrices(m.store, taker) = {}

\* What the loop has taken after i iterations, and that it is getting on.
LoopTook(taker, A, m, i) ==
  /\ Takes(taker, A, RestingIn(m.store), taker.qty - m.remaining)
  /\ MatchDone(taker, m) \/ Cardinality(DOMAIN RestingIn(m.store)) <= taker.id - 1 - i

LEMMA LoopStarts ==
  ASSUME NEW s, NEW taker, TakerOK(taker, s), StoreOK(s, taker.id)
  PROVE  LoopTook(taker, RestingIn(s), Start(taker, s), 0)
<1> DEFINE A == RestingIn(s)
           n == taker.id
<1>1. n \in Nat \ {0} /\ n \in Nat /\ taker.qty \in Nat /\ BookOK(s, n) /\ RestsOnce(s)
  BY DEF TakerOK, StoreOK
<1>2. Start(taker, s).store = s /\ Start(taker, s).remaining = taker.qty
  BY DEF Start
<1>3. Reads(A, s)
  BY <1>1, RestingReads
<1> HIDE DEF A, n
<1>4. Rows(A, n)
  BY <1>1, <1>3, ReadRows
<1>5. Takes(taker, A, A, 0)
  BY <1>1, <1>4, TakesNothing
<1>6. Cardinality(DOMAIN A) <= n - 1
  <2>1. DOMAIN A \subseteq 1..(n - 1)
    BY <1>4 DEF Rows
  <2>2. 1 \in Int /\ n - 1 \in Int
    BY <1>1
  <2>3. IsFiniteSet(1..(n - 1)) /\ Cardinality(1..(n - 1)) = IF 1 > n - 1 THEN 0 ELSE (n - 1) - 1 + 1
    BY <2>2, FS_Interval
  <2>4. Cardinality(1..(n - 1)) = n - 1
    BY <1>1, <2>3
  <2>5. Cardinality(DOMAIN A) <= Cardinality(1..(n - 1))
    BY <2>1, <2>3, FS_Subset
  <2> QED BY <2>4, <2>5
<1>7. taker.qty - taker.qty = 0 /\ n - 1 - 0 = n - 1
  BY <1>1
<1> QED BY <1>2, <1>5, <1>6, <1>7 DEF LoopTook, A, n

LEMMA LoopGoesOn ==
  ASSUME NEW s, NEW taker, TakerOK(taker, s), taker.bound \in Int, NEW A, Rows(A, taker.id),
         NEW m, MatchOK(taker, s, m), NEW i \in Nat, LoopTook(taker, A, m, i)
  PROVE  LoopTook(taker, A, MatchNext(taker, m), i + 1)
<1> DEFINE j == MatchNext(taker, m)
           B == RestingIn(m.store)
           C == RestingIn(j.store)
           k == NextOrder(taker, m).orderId
           qty == NextQty(taker, m)
           done == taker.qty - m.remaining
           n == taker.id
<1>0. /\ taker.type \in PositionTypes /\ n \in Nat \ {0} /\ n \in Nat /\ taker.qty \in Nat
      /\ StoreOK(m.store, n) /\ BookOK(m.store, n) /\ RestsOnce(m.store) /\ m.remaining \in 0..taker.qty
  BY DEF TakerOK, MatchOK, StoreOK
<1>1. CASE MatchDone(taker, m)
  <2>1. j = m
    BY <1>1 DEF MatchNext, MatchDone
  <2> QED BY <1>1, <2>1 DEF LoopTook
<1>2. CASE ~MatchDone(taker, m)
  <2>1. m.remaining \in Nat \ {0} /\ MatchPrices(m.store, taker) # {}
    BY <1>0, <1>2 DEF MatchDone
  <2>2. Met(taker, m, j, n)
    BY <1>0, <2>1, MatchNextMeets
  <2>3. /\ NextTaken(taker, m, j.store) /\ StoreOK(j.store, n) /\ RestsOnce(j.store)
        /\ j.remaining = m.remaining - qty
    BY <2>2 DEF Met, StoreOK
  <2> HIDE DEF j
  <2>4. Reads(B, m.store) /\ Reads(C, j.store)
    BY <1>0, <2>3, RestingReads
  <2> HIDE DEF B, C
  <2>5. /\ Hits(B, C, k, qty) /\ k \in Reach(B, taker)
        /\ \A x \in DOMAIN B : ~Precedes(B, x, k)
        /\ qty = B[k].left \/ qty = m.remaining
    BY <1>0, <2>1, <2>3, <2>4, NextHits
  <2> HIDE DEF k, qty
  <2>6. Takes(taker, A, B, done) /\ Cardinality(DOMAIN B) <= n - 1 - i
    BY <1>2 DEF LoopTook, B
  <2>7. qty \in Nat /\ done \in Int /\ taker.qty - j.remaining = done + qty
    BY <1>0, <2>3, <2>5 DEF Hits
  <2> HIDE DEF done
  <2>8. Takes(taker, A, C, done + qty)
    BY <1>0, <2>5, <2>6, <2>7, TakesMore
  <2>9. MatchDone(taker, j) \/ Cardinality(DOMAIN C) <= n - 1 - (i + 1)
    <3>1. CASE qty = m.remaining
      <4>1. j.remaining = 0
        BY <1>0, <2>3, <3>1
      <4> QED BY <4>1 DEF MatchDone
    <3>2. CASE qty = B[k].left
      <4>1. DOMAIN C = DOMAIN B \ {k} /\ k \in DOMAIN B
        BY <2>5, <3>2 DEF Hits
      <4>2. Rows(B, n)
        BY <1>0, <2>4, ReadRows
      <4>3. IsFiniteSet(DOMAIN B)
        BY <1>0, <4>2, ReachFinite
      <4>4. Cardinality(DOMAIN C) = Cardinality(DOMAIN B) - 1 /\ Cardinality(DOMAIN B) \in Nat
        BY <4>1, <4>3, FS_RemoveElement, FS_CardinalityType
      <4> QED BY <1>0, <2>6, <4>4
    <3> QED BY <2>5, <3>1, <3>2
  <2> QED BY <2>7, <2>8, <2>9 DEF LoopTook, j, C, n
<1> QED BY <1>1, <1>2

\* The loop takes what it reaches until the order is filled or nothing more is reached.
LEMMA MatchLoopTakes ==
  ASSUME NEW s, NEW taker, TakerOK(taker, s), taker.bound \in Int, StoreOK(s, taker.id)
  PROVE  LET m == MatchLoop(taker, s)
         IN  Takes(taker, RestingIn(s), RestingIn(m.store), taker.qty - m.remaining) /\ MatchDone(taker, m)
<1> DEFINE A == RestingIn(s)
<1>0. taker.id \in Nat /\ taker.id \in Nat \ {0}
  BY DEF TakerOK
<1>1. PICK m : /\ m[0] = Start(taker, s)
               /\ \A i \in Nat : i < taker.id => m[i + 1] = MatchNext(taker, m[i])
               /\ MatchLoop(taker, s) = m[taker.id]
  BY <1>0, MatchLoopRuns
<1>2. Rows(A, taker.id)
  <2>1. BookOK(s, taker.id) /\ RestsOnce(s)
    BY DEF StoreOK
  <2>2. Reads(A, s)
    BY <2>1, RestingReads
  <2> HIDE DEF A
  <2> QED BY <1>0, <2>1, <2>2, ReadRows
<1> DEFINE N == {i \in Nat : i <= taker.id => MatchOK(taker, s, m[i]) /\ LoopTook(taker, A, m[i], i)}
<1>3. 0 \in N
  BY <1>1, MatchStarts, LoopStarts
<1> HIDE DEF A
<1>4. ASSUME NEW i \in N PROVE i + 1 \in N
  <2> SUFFICES ASSUME i + 1 <= taker.id PROVE MatchOK(taker, s, m[i + 1]) /\ LoopTook(taker, A, m[i + 1], i + 1)
    OBVIOUS
  <2>1. i \in Nat /\ i < taker.id /\ i <= taker.id
    BY <1>0
  <2>2. MatchOK(taker, s, m[i]) /\ LoopTook(taker, A, m[i], i)
    BY <2>1
  <2>3. m[i + 1] = MatchNext(taker, m[i])
    BY <1>1, <2>1
  <2>4. MatchOK(taker, s, m[i + 1])
    BY <2>2, <2>3, MatchGoesOn
  <2> HIDE DEF N
  <2>5. LoopTook(taker, A, m[i + 1], i + 1)
    BY <1>2, <2>1, <2>2, <2>3, LoopGoesOn
  <2> QED BY <2>4, <2>5
<1>5. N \in SUBSET Nat
  OBVIOUS
<1>6. N = Nat
  <2> HIDE DEF N
  <2> QED BY <1>3, <1>4, <1>5, SetInduction
<1>7. MatchOK(taker, s, m[taker.id]) /\ LoopTook(taker, A, m[taker.id], taker.id)
  BY <1>0, <1>6
<1> DEFINE z == m[taker.id]
<1>8. MatchDone(taker, z)
  <2>1. BookOK(z.store, taker.id) /\ RestsOnce(z.store)
    BY <1>7 DEF MatchOK, StoreOK
  <2>2. Reads(RestingIn(z.store), z.store)
    BY <2>1, RestingReads
  <2>3. Rows(RestingIn(z.store), taker.id)
    BY <1>0, <2>1, <2>2, ReadRows
  <2>4. IsFiniteSet(DOMAIN RestingIn(z.store))
    BY <1>0, <2>3, ReachFinite
  <2>5. Cardinality(DOMAIN RestingIn(z.store)) \in Nat
    BY <2>4, FS_CardinalityType
  <2>6. ~(Cardinality(DOMAIN RestingIn(z.store)) <= taker.id - 1 - taker.id)
    BY <1>0, <2>5
  <2> QED BY <1>7, <2>6 DEF LoopTook
<1> QED BY <1>1, <1>7, <1>8 DEF LoopTook, A

-----------------------------------------------------------------------------
(* An order of the book as its users see it.                               *)

\* D is B and what a limit order has left.
Rested(B, D, taker, remaining) ==
  /\ \A i \in DOMAIN B : i \in DOMAIN D /\ D[i] = B[i]
  /\ \A i \in DOMAIN D : i \in DOMAIN B \/ (i = taker.id /\ remaining # 0 /\ taker.kind = "limit")
  /\ remaining # 0 /\ taker.kind = "limit" =>
       taker.id \in DOMAIN D /\ D[taker.id] = [type |-> taker.type, price |-> taker.price, left |-> remaining]

\* The order has taken what it could of A, and what it could not rests in D.
Placed(taker, A, D) ==
  \E remaining \in 0..taker.qty : \E B :
    /\ Takes(taker, A, B, taker.qty - remaining)
    /\ remaining # 0 => Reach(B, taker) = {}
    /\ Rested(B, D, taker, remaining)

LEMMA SameResting ==
  ASSUME NEW s, NEW t, t.orderbook = s.orderbook
  PROVE  RestingIn(t) = RestingIn(s)
BY DEF RestingIn

LEMMA NothingReached ==
  ASSUME NEW s, NEW n \in Nat, BookOK(s, n), NEW taker, MatchPrices(s, taker) = {}, NEW B, Reads(B, s)
  PROVE  Reach(B, taker) = {}
<1> SUFFICES ASSUME NEW i \in Reach(B, taker) PROVE FALSE
  OBVIOUS
<1>1. i \in DOMAIN B /\ B[i].type = Opposite(taker.type) /\ WithinBound(taker.type, B[i].price, taker.bound)
  BY DEF Reach
<1>2. PICK type \in PositionTypes : \E p \in DOMAIN s.orderbook[type] :
        \E o \in At(s.orderbook[type], p) : o.orderId = i /\ B[i] = Row(type, p, o)
  BY <1>1 DEF Reads
<1>3. PICK p \in DOMAIN s.orderbook[type] : \E o \in At(s.orderbook[type], p) : o.orderId = i /\ B[i] = Row(type, p, o)
  BY <1>2
<1>4. B[i].type = type /\ B[i].price = p
  BY <1>3, RowFields
<1>5. SideOK(s.orderbook[type], ToSet(s.users), n)
  BY DEF BookOK
<1>6. LevelKnown(s.orderbook[type], p, ToSet(s.users), n)
  BY <1>5, LevelFacts
<1>7. s.orderbook[type][p].availableQty \in Nat \ {0}
  BY <1>6 DEF LevelKnown, Level
<1>8. p \in MatchPrices(s, taker)
  BY <1>1, <1>4, <1>7 DEF MatchPrices, OfferedPrices
<1> QED BY <1>8

LEMMA OrderRests ==
  ASSUME NEW s, NEW taker, TakerOK(taker, s), StoreOK(s, taker.id), NEW remaining \in 0..taker.qty,
         NEW t, t = Rest(taker, s, remaining)
  PROVE  Rested(RestingIn(s), RestingIn(t), taker, remaining)
<1> DEFINE B == RestingIn(s)
           D == RestingIn(t)
<1>0. /\ taker.type \in PositionTypes /\ taker.qty \in Nat \ {0} /\ taker.kind \in {"limit", "market"}
      /\ RestsOnce(s)
  BY DEF TakerOK, StoreOK
<1>1. CASE remaining = 0 \/ taker.kind = "market"
  <2>1. t = s
    BY <1>1 DEF Rest
  <2> QED BY <1>1, <2>1 DEF Rested
<1>2. CASE ~(remaining = 0 \/ taker.kind = "market")
  <2> DEFINE x == [orderId |-> taker.id, userId |-> taker.userId, qty |-> taker.qty,
                   filledQty |-> taker.qty - remaining,
                   margin |-> RelativeMargin(taker.margin, taker.qty, remaining)]
             more == Resting(taker, remaining)
             none == {}
             side == taker.type
             price == taker.price
  <2>1. BookMoves(s, t, side, price, none, more) /\ StoreOK(t, taker.id + 1)
    BY <1>2, RestRests
  <2>2. more = {x}
    BY <1>2 DEF Resting
  <2>3. x.orderId = taker.id /\ Remaining(x) = remaining
    <3>1. Remaining(x) = taker.qty - (taker.qty - remaining)
      BY DEF Remaining
    <3> QED BY <1>0, <3>1
  <2> HIDE DEF x
  <2>4. x \in more /\ \A y \in more : y = x
    BY <2>2
  <2>5. \A y \in none : FALSE
    OBVIOUS
  <2> HIDE DEF more, none
  <2>6. Reads(B, s) /\ Reads(D, t)
    BY <1>0, <2>1, RestingReads DEF StoreOK
  <2> HIDE DEF B, D, side, price
  <2>7. ReadingMoves(B, D, side, price, none, more)
    <3>1. side \in PositionTypes
      BY <1>0 DEF side
    <3> QED BY <1>0, <2>1, <2>6, <3>1, ReadMoves
  <2>8. \A i \in DOMAIN B : i \in DOMAIN D /\ D[i] = B[i]
    BY <2>5, <2>7 DEF ReadingMoves
  <2>9. \A i \in DOMAIN D : i \in DOMAIN B \/ i = taker.id
    BY <2>3, <2>4, <2>7 DEF ReadingMoves
  <2>10. taker.id \in DOMAIN D /\ D[taker.id] = [type |-> side, price |-> price, left |-> remaining]
    <3>1. taker.id \in DOMAIN D /\ D[taker.id] = Row(side, price, x)
      BY <2>3, <2>4, <2>7 DEF ReadingMoves
    <3> QED BY <2>3, <3>1 DEF Row
  <2>11. remaining # 0 /\ taker.kind = "limit"
    BY <1>0, <1>2
  <2> QED BY <2>8, <2>9, <2>10, <2>11 DEF Rested, B, D, side, price
<1> QED BY <1>1, <1>2

LEMMA OrderPlaced ==
  ASSUME NEW s, NEW n \in Nat \ {0}, StoreOK(s, n), NEW o, RequestOK(s, n, o), PriceBound(s, o) \in Int,
         NEW r, r = PlaceOrder(s, n, o)
  PROVE  Placed(TakerOf(s, n, o), RestingIn(s), RestingIn(r.store))
<1> DEFINE taker == TakerOf(s, n, o)
           t == Locked(s, o)
           m == MatchLoop(taker, t)
           p == TakerPosition(taker, m.store, taker.qty - m.remaining, m.paid)
           z == Rest(taker, p, m.remaining)
<1>0. n \in Nat
  OBVIOUS
<1>1. StoreOK(t, n) /\ SameBook(s, t)
  BY <1>0, LockedFacts
<1>2. t.users = s.users /\ RestingIn(t) = RestingIn(s)
  BY <1>1, SameResting DEF SameBook
<1>3. TakerOK(taker, t) /\ taker.id = n /\ taker.bound \in Int
  BY <1>2, TakerFacts
<1>4. r.store = z
  BY DEF PlaceOrder, TakerOf, Locked, MatchOrder, Settled
<1> HIDE DEF taker, t
<1>5. MatchOK(taker, t, m)
  BY <1>1, <1>3, MatchLoopOK
<1>6. Takes(taker, RestingIn(t), RestingIn(m.store), taker.qty - m.remaining) /\ MatchDone(taker, m)
  BY <1>1, <1>3, MatchLoopTakes
<1> HIDE DEF m
<1>7. StoreOK(p, n) /\ SameBook(m.store, p)
  BY <1>3, <1>5, TakerPositionBalances
<1> HIDE DEF p
<1>8. m.remaining \in 0..taker.qty /\ TakerOK(taker, p)
  <2>1. p.users = t.users /\ m.remaining \in 0..taker.qty
    BY <1>5, <1>7 DEF MatchOK, SameBook
  <2> QED BY <1>3, <2>1 DEF TakerOK
<1>9. RestingIn(p) = RestingIn(m.store)
  BY <1>7, SameResting DEF SameBook
<1>10. Rested(RestingIn(p), RestingIn(z), taker, m.remaining)
  BY <1>3, <1>7, <1>8, OrderRests
<1>11. m.remaining # 0 => Reach(RestingIn(m.store), taker) = {}
  <2> SUFFICES ASSUME m.remaining # 0 PROVE Reach(RestingIn(m.store), taker) = {}
    OBVIOUS
  <2>1. MatchPrices(m.store, taker) = {}
    BY <1>6 DEF MatchDone
  <2>2. BookOK(m.store, n) /\ RestsOnce(m.store)
    BY <1>3, <1>5 DEF MatchOK, StoreOK
  <2>3. Reads(RestingIn(m.store), m.store)
    BY <2>2, RestingReads
  <2> QED BY <1>0, <2>1, <2>2, <2>3, NothingReached
<1> QED BY <1>2, <1>4, <1>6, <1>8, <1>9, <1>10, <1>11 DEF Placed, taker

\* (An instance has names of its own for what the two modules share.)
LEMMA SharedNames ==
  /\ PTB!PositionTypes = PositionTypes
  /\ \A type : PTB!Opposite(type) = Opposite(type)
  /\ \A type, p1, p2 : PTB!Better(type, p1, p2) <=> BetterPrice(type, p1, p2)
  /\ \A i, j : PTB!Before(i, j) <=> Precedes(resting, i, j)
BY DEF PTB!PositionTypes, PTB!LONG, PTB!SHORT, PTB!Opposite, PTB!Better, PTB!Before,
       PositionTypes, LONG, SHORT, Opposite, BetterPrice, Precedes

LEMMA SharedSum ==
  ASSUME NEW f, NEW S
  PROVE  PTB!SumFunctionOnSet(f, S) = SumFunctionOnSet(f, S)
BY DEF PTB!SumFunctionOnSet, PTB!FoldFunctionOnSet, PTB!MapThenFoldSet,
       SumFunctionOnSet, FoldFunctionOnSet, MapThenFoldSet

\* What the placed order rests, if anything, is all that is new.
Joins(taker, left, new) == left # 0 /\ taker.kind = "limit" => taker.id \in new

\* The abstract book sees the order trade.
LEMMA PlacedIsTrade ==
  ASSUME NEW taker, taker.id \in Nat \ {0}, taker.qty \in Nat, Rows(resting, taker.id),
         Placed(taker, resting, resting'), NEW bound, PTB!Reachable(taker.type, bound) = Reach(resting, taker)
  PROVE  /\ PTB!Trade(taker.type, bound, taker.qty)
         /\ \E left \in 0..taker.qty :
              /\ PTB!Filled(taker.type, bound) = taker.qty - left
              /\ \A new : Joins(taker, left, new) => PTB!OnlyTakes(new)
              /\ left # 0 /\ taker.kind = "limit" =>
                   /\ taker.id \in DOMAIN resting'
                   /\ resting'[taker.id] = [type |-> taker.type, price |-> taker.price, left |-> left]
<1> DEFINE A == resting
           D == resting'
           R == Reach(resting, taker)
           n == taker.id
<1>1. PICK left \in 0..taker.qty : \E B :
        /\ Takes(taker, A, B, taker.qty - left)
        /\ left # 0 => Reach(B, taker) = {}
        /\ Rested(B, D, taker, left)
  BY DEF Placed
<1>2. PICK B : /\ Takes(taker, A, B, taker.qty - left)
               /\ left # 0 => Reach(B, taker) = {}
               /\ Rested(B, D, taker, left)
  BY <1>1
<1>3. OnlyLess(A, B)
  BY <1>2 DEF Takes
<1>4. /\ \A i \in DOMAIN A : i \in Nat /\ i # n /\ A[i].left \in Nat \ {0}
      /\ IsFiniteSet(R) /\ R \subseteq DOMAIN A
  <2>1. DOMAIN A \subseteq 1..(n - 1) /\ n \in Nat /\ \A i \in DOMAIN A : A[i].left \in Nat \ {0}
    BY DEF Rows
  <2>2. \A i \in DOMAIN A : i \in Nat /\ i # n
    BY <2>1
  <2>3. IsFiniteSet(R) /\ R \subseteq DOMAIN A
    BY <2>1, ReachFinite
  <2> QED BY <2>1, <2>2, <2>3
\* What is left of the older orders is what B says.
<1>5. \A i \in DOMAIN A : (i \in DOMAIN D <=> i \in DOMAIN B) /\ (i \in DOMAIN D => D[i] = B[i])
  BY <1>2, <1>4 DEF Rested
<1>6. \A i \in DOMAIN A : Kept(A, B, i) <=> PTB!Untouched(i)
  BY <1>5 DEF Kept, PTB!Untouched
<1>7. PTB!InPriority
  <2> SUFFICES ASSUME NEW i \in DOMAIN A, NEW j \in DOMAIN A, PTB!Before(i, j), ~PTB!Untouched(j)
               PROVE  i \notin DOMAIN D
    BY DEF PTB!InPriority
  <2>1. Precedes(A, i, j) /\ ~Kept(A, B, j)
    BY <1>6, SharedNames
  <2>2. i \notin DOMAIN B
    BY <1>2, <2>1 DEF Takes
  <2> QED BY <1>5, <2>2
<1>8. \A i \in DOMAIN A \ PTB!Reachable(taker.type, bound) : PTB!Untouched(i)
  BY <1>2, <1>6 DEF Takes
<1>9. PTB!Filled(taker.type, bound) = taker.qty - left
  <2> DEFINE f == [i \in R |-> PTB!Taken(i)]
             g == TakenBetween(A, B)
  <2>1. \A i \in R : f[i] = g[i]
    <3> SUFFICES ASSUME NEW i \in R PROVE f[i] = g[i]
      OBVIOUS
    <3>1. i \in DOMAIN A
      BY <1>4
    <3>2. f[i] = LeftIn(A, i) - LeftIn(D, i)
      BY DEF PTB!Taken, PTB!Left, LeftIn
    <3>3. LeftIn(D, i) = LeftIn(B, i)
      BY <1>5, <3>1 DEF LeftIn
    <3> QED BY <3>1, <3>2, <3>3 DEF TakenBetween
  <2>2. PTB!Filled(taker.type, bound) = PTB!SumFunctionOnSet(f, DOMAIN f) /\ DOMAIN f = R
    BY DEF PTB!Filled, PTB!SumFunction
  <2> HIDE DEF f, g, R
  <2>3. PTB!Filled(taker.type, bound) = SumFunctionOnSet(f, R)
    BY <2>2, SharedSum
  <2>4. SumFunctionOnSet(f, R) = SumFunctionOnSet(g, R)
    BY <1>4, <2>1, SumSame
  <2> QED BY <1>2, <2>3, <2>4 DEF Takes, R, g
<1>10. left # 0 => R \cap DOMAIN D = {}
  <2> SUFFICES ASSUME left # 0, NEW i \in R, i \in DOMAIN D PROVE FALSE
    OBVIOUS
  <2>1. i \in DOMAIN A /\ i \in DOMAIN B
    BY <1>4, <1>5
  <2>2. B[i].type = A[i].type /\ B[i].price = A[i].price
    BY <1>3, <2>1 DEF OnlyLess
  <2>3. i \in Reach(B, taker)
    BY <2>1, <2>2 DEF Reach
  <2> QED BY <1>2, <2>3
<1>11. PTB!Trade(taker.type, bound, taker.qty)
  <2>1. taker.qty - left \in 0..taker.qty /\ (taker.qty - left < taker.qty => left # 0)
    OBVIOUS
  <2> QED BY <1>7, <1>8, <1>9, <1>10, <2>1 DEF PTB!Trade
<1>12. ASSUME NEW new, Joins(taker, left, new) PROVE PTB!OnlyTakes(new)
  <2>1. \A i \in DOMAIN D : i \in DOMAIN A \/ i \in new
    <3>1. \A i \in DOMAIN D : i \in DOMAIN B \/ i \in new
      BY <1>2, <1>12 DEF Rested, Joins
    <3> QED BY <1>3, <3>1 DEF OnlyLess
  <2>2. \A i \in DOMAIN A \cap DOMAIN D :
          D[i].type = A[i].type /\ D[i].price = A[i].price /\ D[i].left \in 1..A[i].left
    BY <1>3, <1>5 DEF OnlyLess
  <2> QED BY <2>1, <2>2 DEF PTB!OnlyTakes
<1>13. left # 0 /\ taker.kind = "limit" =>
         n \in DOMAIN D /\ D[n] = [type |-> taker.type, price |-> taker.price, left |-> left]
  BY <1>2 DEF Rested
<1> QED BY <1>9, <1>11, <1>12, <1>13

LEMMA LimitIsLimit ==
  ASSUME NEW taker, taker.id \in Nat \ {0}, taker.qty \in Nat, Rows(resting, taker.id),
         Placed(taker, resting, resting'), taker.kind = "limit", taker.price \in Nat, taker.bound = 100 * taker.price,
         taker.type \in PositionTypes, taker.id = nextId, nextId' = nextId + 1, LimitPrices \subseteq Nat
  PROVE  PTB!Limit(taker.type, taker.price, taker.qty)
<1> DEFINE filled == PTB!Filled(taker.type, taker.price)
<1>1. PTB!Reachable(taker.type, taker.price) = Reach(resting, taker)
  <2>1. \A i \in DOMAIN resting : resting[i].price \in Nat
    BY DEF Rows
  <2>2. \A i \in DOMAIN resting :
          PTB!Reaches(taker.type, taker.price, resting[i].price) <=> WithinBound(taker.type, resting[i].price, taker.bound)
    BY <2>1 DEF PTB!Reaches, WithinBound, PTB!LONG, LONG
  <2> QED BY <2>2, SharedNames DEF PTB!Reachable, Reach
<1>2. /\ PTB!Trade(taker.type, taker.price, taker.qty)
      /\ \E left \in 0..taker.qty :
           /\ filled = taker.qty - left
           /\ \A new : Joins(taker, left, new) => PTB!OnlyTakes(new)
           /\ left # 0 /\ taker.kind = "limit" =>
                /\ taker.id \in DOMAIN resting'
                /\ resting'[taker.id] = [type |-> taker.type, price |-> taker.price, left |-> left]
  BY <1>1, PlacedIsTrade
<1> HIDE DEF filled
<1>3. PICK left \in 0..taker.qty :
        /\ filled = taker.qty - left
        /\ \A new : Joins(taker, left, new) => PTB!OnlyTakes(new)
        /\ left # 0 /\ taker.kind = "limit" =>
             /\ taker.id \in DOMAIN resting'
             /\ resting'[taker.id] = [type |-> taker.type, price |-> taker.price, left |-> left]
  BY <1>2
<1>4. CASE left = 0
  <2>1. ~(filled < taker.qty)
    BY <1>3, <1>4
  <2>2. PTB!OnlyTakes({})
    BY <1>3, <1>4 DEF Joins
  <2> QED BY <1>2, <2>1, <2>2 DEF PTB!Limit, filled
<1>5. CASE left # 0
  <2>1. filled < taker.qty /\ left = taker.qty - filled
    BY <1>3, <1>5
  <2>2. PTB!OnlyTakes({nextId})
    BY <1>3 DEF Joins
  <2>3. nextId \in DOMAIN resting' /\ resting'[nextId] = [type |-> taker.type, price |-> taker.price, left |-> taker.qty - filled]
    BY <1>3, <1>5, <2>1
  <2> QED BY <1>2, <2>1, <2>2, <2>3 DEF PTB!Limit, filled
<1> QED BY <1>4, <1>5

\* Of what an order reaches, one is the worst priced: the order reaches no further.
LEMMA WorstReached ==
  ASSUME NEW n, Rows(resting, n), LimitPrices \subseteq Nat, NEW taker, taker.type \in PositionTypes,
         taker.bound \in Int, Reach(resting, taker) # {}
  PROVE  \E i \in DOMAIN resting :
           /\ resting[i].type = Opposite(taker.type)
           /\ PTB!Reachable(taker.type, resting[i].price) = Reach(resting, taker)
<1> DEFINE R == Reach(resting, taker)
           P == {resting[i].price : i \in R}
<1>1. /\ R \subseteq DOMAIN resting
      /\ \A i \in R : resting[i].type = Opposite(taker.type) /\ resting[i].price \in Nat
      /\ P \in SUBSET Nat /\ P # {}
      /\ \A i \in DOMAIN resting : resting[i].price \in Nat
  BY DEF Reach, Rows
<1>2. ASSUME NEW i \in R, \A j \in R : PTB!Reaches(taker.type, resting[i].price, resting[j].price)
      PROVE  PTB!Reachable(taker.type, resting[i].price) = R
  <2>1. WithinBound(taker.type, resting[i].price, taker.bound)
    BY DEF Reach
  <2>2. ASSUME NEW j \in DOMAIN resting, resting[j].type = Opposite(taker.type),
               PTB!Reaches(taker.type, resting[i].price, resting[j].price)
        PROVE  j \in R
    <3>1. resting[i].price \in Nat /\ resting[j].price \in Nat
      BY <1>1
    <3>2. WithinBound(taker.type, resting[j].price, taker.bound)
      BY <2>1, <2>2, <3>1 DEF WithinBound, PTB!Reaches, PTB!LONG, LONG
    <3> QED BY <2>2, <3>2 DEF Reach
  <2> QED BY <1>1, <1>2, <2>2, SharedNames DEF PTB!Reachable
<1>3. CASE taker.type = LONG
  <2>1. P \subseteq 0..taker.bound
    <3> SUFFICES ASSUME NEW i \in R PROVE resting[i].price \in 0..taker.bound
      OBVIOUS
    <3>1. resting[i].price \in Nat /\ 100 * resting[i].price <= taker.bound
      BY <1>1, <1>3 DEF Reach, WithinBound
    <3> QED BY <3>1
  <2>2. IsFiniteSet(0..taker.bound)
    BY FS_Interval
  <2>3. IsFiniteSet(P)
    BY <2>1, <2>2, FS_Subset
  <2>4. PICK p \in P : \A q \in P : q <= p
    <3> HIDE DEF P
    <3> QED BY <1>1, <2>3, GreatestNumber
  <2>5. PICK i \in R : resting[i].price = p
    BY <2>4
  <2>6. \A j \in R : PTB!Reaches(taker.type, resting[i].price, resting[j].price)
    BY <1>3, <2>4, <2>5 DEF PTB!Reaches, PTB!LONG, LONG
  <2> QED BY <1>1, <1>2, <2>6
<1>4. CASE taker.type = SHORT
  <2>4. PICK p \in P : \A q \in P : p <= q
    <3> HIDE DEF P
    <3> QED BY <1>1, LeastNumber
  <2>5. PICK i \in R : resting[i].price = p
    BY <2>4
  <2>6. \A j \in R : PTB!Reaches(taker.type, resting[i].price, resting[j].price)
    <3> SUFFICES ASSUME NEW j \in R PROVE PTB!Reaches(taker.type, resting[i].price, resting[j].price)
      OBVIOUS
    <3>1. resting[j].price \in P /\ p <= resting[j].price
      BY <2>4
    <3> QED BY <1>1, <1>4, <2>5, <3>1 DEF PTB!Reaches, PTB!LONG, SHORT
  <2> QED BY <1>1, <1>2, <2>6
<1> QED BY <1>3, <1>4 DEF PositionTypes

LEMMA MarketIsMarket ==
  ASSUME NEW taker, taker.id \in Nat \ {0}, taker.qty \in Nat, Rows(resting, taker.id),
         Placed(taker, resting, resting'), taker.kind = "market", taker.bound \in Int, Reach(resting, taker) # {},
         taker.type \in PositionTypes, nextId' = nextId + 1, LimitPrices \subseteq Nat
  PROVE  PTB!Market(taker.type, taker.qty)
<1>1. PICK i \in DOMAIN resting :
        /\ resting[i].type = Opposite(taker.type)
        /\ PTB!Reachable(taker.type, resting[i].price) = Reach(resting, taker)
  BY WorstReached
<1> DEFINE price == resting[i].price
<1>2. PTB!Reachable(taker.type, price) = Reach(resting, taker)
  BY <1>1
<1> HIDE DEF price
<1>3. /\ PTB!Trade(taker.type, price, taker.qty)
      /\ \E left \in 0..taker.qty : \A new : Joins(taker, left, new) => PTB!OnlyTakes(new)
  BY <1>2, PlacedIsTrade
<1>4. PTB!OnlyTakes({})
  BY <1>3 DEF Joins
<1>5. resting[i].type = PTB!Opposite(taker.type)
  BY <1>1, SharedNames
<1> QED BY <1>3, <1>4, <1>5 DEF PTB!Market, price

-----------------------------------------------------------------------------
(* The requests, as the book's users see them.                             *)

\* The order a request makes of the rows A: it has something to reach, and D is what it leaves.
OrderReaches(taker, o, n, A, D) ==
  /\ taker.id = n /\ taker.type = o.type /\ taker.kind = o.kind /\ taker.qty = o.qty /\ taker.price = o.price
  /\ taker.bound \in Int /\ (o.kind = "limit" => taker.bound = 100 * o.price)
  /\ Rows(A, n) /\ (o.kind = "market" => Reach(A, taker) # {})
  /\ Placed(taker, A, D)

LEMMA PlaceOrderReaches ==
  ASSUME NEW s, NEW n \in Nat \ {0}, StoreOK(s, n), NEW o, RequestOK(s, n, o), o.kind = "market" => HasMatch(s, o),
         NEW r, r = PlaceOrder(s, n, o)
  PROVE  \E taker : OrderReaches(taker, o, n, RestingIn(s), RestingIn(r.store))
<1> DEFINE taker == TakerOf(s, n, o)
           t == Start(taker, s)
           A == RestingIn(s)
           D == RestingIn(r.store)
<1>1. /\ o.type \in PositionTypes /\ o.kind \in {"limit", "market"}
      /\ (o.kind = "limit" => o.price \in LimitPrices) /\ o.qty \in Nat \ {0}
  BY DEF RequestOK
<1>2. o.kind = "limit" => PriceBound(s, o) = 100 * o.price
  BY DEF PriceBound
<1>3. PriceBound(s, o) \in Int
  <2>1. CASE o.kind = "limit"
    <3>1. o.price \in Nat /\ PriceBound(s, o) = 100 * o.price
      BY <1>1, <1>2, <2>1, EngineAssumption
    <3> QED BY <3>1
  <2>2. CASE o.kind = "market"
    BY <2>2, BestIsWithinBound
  <2> QED BY <1>1, <2>1, <2>2
<1>4. /\ taker.id = n /\ taker.type = o.type /\ taker.kind = o.kind /\ taker.qty = o.qty
      /\ taker.price = o.price /\ taker.bound = PriceBound(s, o)
  BY DEF TakerOf
<1>5. Placed(taker, A, D)
  BY <1>3, OrderPlaced
<1> HIDE DEF A, D
<1>6. Reads(A, s) /\ Rows(A, n)
  <2>1. BookOK(s, n) /\ RestsOnce(s)
    BY DEF StoreOK
  <2>2. Reads(A, s)
    BY <2>1, RestingReads DEF A
  <2> QED BY <2>1, <2>2, ReadRows
<1>7. ASSUME o.kind = "market" PROVE Reach(A, taker) # {}
  <2> DEFINE prices == OfferedPrices(s.orderbook[Opposite(o.type)])
             best == BestPrice(Opposite(o.type), prices)
  <2>1. WithinBound(o.type, best, PriceBound(s, o)) /\ best \in prices
    BY <1>7, BestIsWithinBound
  <2>2. t.store = s /\ t.remaining = o.qty
    BY <1>4 DEF Start
  <2> HIDE DEF taker, t, best
  <2>3. MatchPrices(t.store, taker) # {}
    BY <1>4, <2>1, <2>2 DEF MatchPrices
  <2>4. t.remaining \in Nat \ {0} /\ StoreOK(t.store, n) /\ taker.type \in PositionTypes
    BY <1>1, <1>4, <2>2
  <2> DEFINE side == Opposite(taker.type)
             price == NextPrice(taker, t)
             open == NextOrder(taker, t)
  <2>5. /\ side \in PositionTypes /\ price \in MatchPrices(s, taker) /\ price \in DOMAIN s.orderbook[side]
        /\ open \in At(s.orderbook[side], price)
    BY <2>2, <2>3, <2>4, NextFacts
  <2>6. WithinBound(taker.type, price, taker.bound)
    BY <2>5 DEF MatchPrices
  <2> HIDE DEF side, price, open
  <2>7. open.orderId \in DOMAIN A /\ A[open.orderId] = Row(side, price, open)
    BY <1>6, <2>5 DEF Reads
  <2>8. open.orderId \in Reach(A, taker)
    BY <2>6, <2>7, RowFields DEF Reach, side
  <2> QED BY <2>8
<1> HIDE DEF taker
<1>8. OrderReaches(taker, o, n, A, D)
  BY <1>2, <1>3, <1>4, <1>5, <1>6, <1>7 DEF OrderReaches
<1> QED BY <1>8 DEF A, D

LEMMA CreateOrderReaches ==
  ASSUME EngineInvariant, NEW o \in OrderRequests, CreateOrder(o)
  PROVE  \E taker : OrderReaches(taker, o, nextId, RestingIn(store), RestingIn(store'))
<1> DEFINE s == WithUser(store, o.userId)
           r == PlaceOrder(s, nextId, o)
<1>1. store' = r.store /\ Accepted(s, o) /\ nextId <= MaxOrders
  BY DEF CreateOrder
<1>2. StoreOK(store, nextId) /\ nextId \in Nat \ {0} /\ o.userId \in Users
  BY RequestTypes DEF EngineInvariant
<1>3. StoreOK(s, nextId) /\ Joined(store, s, o.userId)
  BY <1>2, WithUserJoins
<1>4. RestingIn(s) = RestingIn(store)
  BY <1>3, SameResting DEF Joined
<1> HIDE DEF s
<1>5. RequestOK(s, nextId, o)
  BY <1>1, <1>3, RequestTypes DEF RequestOK, Joined
<1>6. o.kind = "market" => HasMatch(s, o)
  BY <1>1 DEF Accepted
<1>7. \E taker : OrderReaches(taker, o, nextId, RestingIn(s), RestingIn(r.store))
  BY <1>2, <1>3, <1>5, <1>6, PlaceOrderReaches
<1> QED BY <1>1, <1>4, <1>7

LEMMA CreateOrderIsOrder ==
  ASSUME EngineInvariant, resting = RestingIn(store), resting' = RestingIn(store'),
         NEW o \in OrderRequests, CreateOrder(o)
  PROVE  PTB!BookNext
<1>1. PICK taker : OrderReaches(taker, o, nextId, resting, resting')
  BY CreateOrderReaches
<1>2. /\ taker.id = nextId /\ taker.type = o.type /\ taker.kind = o.kind /\ taker.qty = o.qty /\ taker.price = o.price
      /\ taker.bound \in Int /\ (o.kind = "limit" => taker.bound = 100 * o.price)
      /\ Rows(resting, nextId) /\ (o.kind = "market" => Reach(resting, taker) # {})
      /\ Placed(taker, resting, resting')
  BY <1>1 DEF OrderReaches
<1>3. /\ o.type \in PositionTypes /\ o.kind \in {"limit", "market"}
      /\ (o.kind = "limit" => o.price \in LimitPrices) /\ o.qty \in Nat \ {0}
  BY RequestTypes
<1>4. o.qty \in Quantities /\ o.type \in PTB!PositionTypes /\ LimitPrices \subseteq Nat
  BY <1>3, SharedNames, EngineAssumption DEF OrderRequests
<1>5. nextId' = nextId + 1 /\ nextId \in Nat \ {0}
  BY DEF CreateOrder, EngineInvariant
<1>6. CASE o.kind = "limit"
  <2>1. taker.price \in Nat /\ taker.bound = 100 * taker.price
    BY <1>2, <1>3, <1>4, <1>6
  <2>2. PTB!Limit(taker.type, taker.price, taker.qty)
    BY <1>2, <1>3, <1>4, <1>5, <1>6, <2>1, LimitIsLimit
  <2> QED BY <1>2, <1>3, <1>4, <1>6, <2>2 DEF PTB!BookNext
<1>7. CASE o.kind = "market"
  <2>1. PTB!Market(taker.type, taker.qty)
    BY <1>2, <1>3, <1>4, <1>5, <1>7, MarketIsMarket
  <2> QED BY <1>2, <1>4, <2>1 DEF PTB!BookNext
<1> QED BY <1>3, <1>6, <1>7

LEMMA CancelOrderIsWithdraw ==
  ASSUME EngineInvariant, resting = RestingIn(store), resting' = RestingIn(store'),
         NEW type \in PositionTypes, NEW price \in DOMAIN store.orderbook[type],
         NEW i \in DOMAIN store.orderbook[type][price].openOrders, CancelOrder(type, price, i)
  PROVE  PTB!BookNext
<1> DEFINE s == store
           t == Cancelled(store, type, price, i)
           open == ListAt(store.orderbook[type], price)[i]
           gone == {open}
           none == {}
           k == open.orderId
<1>1. store' = t /\ nextId' = nextId
  BY DEF CancelOrder, Cancelled, Without, WithoutLevel, WithLevel, Level, ListAt, Empty
<1>2. StoreOK(s, nextId) /\ nextId \in Nat \ {0} /\ i \in DOMAIN ListAt(s.orderbook[type], price)
  BY DEF EngineInvariant, ListAt
<1>3. open = ListAt(s.orderbook[type], price)[i] /\ t = Cancelled(s, type, price, i)
  OBVIOUS
<1> HIDE DEF t, open, s
<1>4. StoreOK(t, nextId) /\ OrderLeaves(s, t, type, price, open)
  <2>1. price \in DOMAIN s.orderbook[type]
    BY DEF s
  <2> QED BY <1>2, <1>3, <2>1, CancelledFacts
<1>5. BookMoves(s, t, type, price, gone, none)
  BY <1>4 DEF OrderLeaves
<1>6. open \in gone /\ (\A x \in gone : x = open) /\ (\A x \in none : FALSE)
  OBVIOUS
<1> HIDE DEF gone, none, k
<1>7. RestsOnce(s) /\ Reads(resting, s) /\ Reads(resting', t)
  <2>1. RestsOnce(s) /\ RestsOnce(t)
    BY <1>2, <1>4 DEF StoreOK
  <2>2. resting = RestingIn(s) /\ resting' = RestingIn(t)
    BY <1>1 DEF s
  <2> QED BY <2>1, <2>2, RestingReads
<1>8. ReadingMoves(resting, resting', type, price, gone, none)
  BY <1>5, <1>7, ReadMoves
<1>9. k \in DOMAIN resting
  BY <1>6, <1>8 DEF ReadingMoves, k
<1>10. k \notin DOMAIN resting'
  BY <1>6, <1>8 DEF ReadingMoves, k
<1>11. \A j \in DOMAIN resting \ {k} : j \in DOMAIN resting' /\ resting'[j] = resting[j]
  BY <1>6, <1>8 DEF ReadingMoves, k
<1>12. DOMAIN resting' \subseteq DOMAIN resting
  BY <1>6, <1>8 DEF ReadingMoves
<1>13. \A j \in DOMAIN resting : resting[j].left \in Nat \ {0}
  <2>1. BookOK(s, nextId)
    BY <1>2 DEF StoreOK
  <2> QED BY <1>2, <1>7, <2>1, ReadRows DEF Rows
<1>14. PTB!OnlyTakes({})
  <2>1. ASSUME NEW j \in DOMAIN resting \cap DOMAIN resting'
        PROVE  /\ resting'[j].type = resting[j].type /\ resting'[j].price = resting[j].price
               /\ resting'[j].left \in 1..resting[j].left
    <3>1. resting'[j] = resting[j] /\ resting[j].left \in Nat \ {0}
      BY <1>10, <1>11, <1>13
    <3> QED BY <3>1
  <2> QED BY <1>12, <2>1 DEF PTB!OnlyTakes
<1>15. PTB!Withdraw(k)
  BY <1>1, <1>10, <1>11, <1>14 DEF PTB!Withdraw, PTB!Untouched
<1> QED BY <1>9, <1>15 DEF PTB!BookNext

\* A market order with the id n takes the rows A to the rows D.
MarketTakes(A, n, D) ==
  \E taker : /\ taker.id = n /\ taker.type \in PositionTypes /\ taker.kind = "market"
             /\ taker.qty \in Nat \ {0} /\ taker.bound \in Int
             /\ Rows(A, n) /\ Reach(A, taker) # {} /\ Placed(taker, A, D)

\* (It is a market order of the abstract book.)
LEMMA MarketTakesIsMarket ==
  ASSUME nextId \in Nat \ {0}, nextId' = nextId + 1, MarketTakes(resting, nextId, resting')
  PROVE  \E type \in PositionTypes, size \in Nat \ {0} : PTB!Market(type, size)
<1>1. PICK taker : /\ taker.id = nextId /\ taker.type \in PositionTypes /\ taker.kind = "market"
                   /\ taker.qty \in Nat \ {0} /\ taker.bound \in Int
                   /\ Rows(resting, nextId) /\ Reach(resting, taker) # {} /\ Placed(taker, resting, resting')
  BY DEF MarketTakes
<1>2. LimitPrices \subseteq Nat /\ taker.qty \in Nat
  BY <1>1, EngineAssumption
<1>3. PTB!Market(taker.type, taker.qty)
  BY <1>1, <1>2, MarketIsMarket
<1> QED BY <1>1, <1>3

\* `count` of them, one after the other.
MarketOrdersTake(A, n, D, count) ==
  \E books : /\ books[0] = A /\ books[count] = D
             /\ \A i \in 0..(count - 1) : MarketTakes(books[i], n + i, books[i + 1])

LEMMA NoOrdersTake == ASSUME NEW A, NEW n PROVE MarketOrdersTake(A, n, A, 0)
<1> DEFINE books == [i \in {0} |-> A]
<1>1. books[0] = A
  OBVIOUS
<1>2. 0..(0 - 1) = {}
  OBVIOUS
<1> HIDE DEF books
<1> QED BY <1>1, <1>2 DEF MarketOrdersTake

LEMMA OneMoreTakes ==
  ASSUME NEW A, NEW n \in Nat, NEW B, NEW count \in Nat, MarketOrdersTake(A, n, B, count), NEW D,
         MarketTakes(B, n + count, D)
  PROVE  MarketOrdersTake(A, n, D, count + 1)
<1>1. PICK books : /\ books[0] = A /\ books[count] = B
                   /\ \A i \in 0..(count - 1) : MarketTakes(books[i], n + i, books[i + 1])
  BY DEF MarketOrdersTake
<1> DEFINE more == [i \in 0..(count + 1) |-> IF i = count + 1 THEN D ELSE books[i]]
<1>2. more[0] = A /\ more[count + 1] = D /\ more[count] = B
  BY <1>1
<1>3. ASSUME NEW i \in 0..((count + 1) - 1) PROVE MarketTakes(more[i], n + i, more[i + 1])
  <2>1. CASE i = count
    <3>1. more[i] = B /\ more[i + 1] = D /\ n + i = n + count
      BY <1>2, <2>1
    <3> HIDE DEF more
    <3> QED BY <3>1
  <2>2. CASE i # count
    <3>1. i \in 0..(count - 1) /\ more[i] = books[i] /\ more[i + 1] = books[i + 1]
      BY <2>2
    <3> HIDE DEF more
    <3> QED BY <1>1, <3>1
  <2> QED BY <2>1, <2>2
<1> HIDE DEF more
<1> QED BY <1>2, <1>3 DEF MarketOrdersTake

\* What a sweep makes of the book, market orders make of it.
SweepTook(A, n, w) ==
  \E count \in Nat : w.nextId = n + count /\ MarketOrdersTake(A, n, RestingIn(w.store), count)

LEMMA SweepTakesOn ==
  ASSUME NEW s, NEW n \in Nat \ {0}, NEW price, NEW i \in Nat, NEW w, SweepOK(s, n, price, i, w),
         NEW A, SweepTook(A, n, w), NEW u
  PROVE  SweepTook(A, n, LiquidateIfCrossed(price, w, u))
<1> DEFINE o == LiquidationOrder(w.store, u)
           r == PlaceOrder(w.store, w.nextId, o)
           k == LiquidateIfCrossed(price, w, u)
           goes == /\ u \in DOMAIN w.store.positions
                   /\ Crossed(w.store.positions[u], price)
                   /\ Accepted(w.store, o)
<1>1. CASE ~goes
  <2>1. k = w
    BY <1>1 DEF LiquidateIfCrossed
  <2> QED BY <2>1
<1>2. CASE goes
  <2>1. w.nextId \in Nat \ {0} /\ w.nextId \in Nat /\ StoreOK(w.store, w.nextId)
    BY DEF SweepOK
  <2>2. RequestOK(w.store, w.nextId, o) /\ o.kind = "market" /\ HasMatch(w.store, o)
    BY <1>2, <2>1, LiquidationFacts
  <2>3. k.store = r.store /\ k.nextId = w.nextId + 1
    BY <1>2 DEF LiquidateIfCrossed
  <2> HIDE DEF o, k
  <2>4. PICK taker : OrderReaches(taker, o, w.nextId, RestingIn(w.store), RestingIn(r.store))
    BY <2>1, <2>2, PlaceOrderReaches
  <2> HIDE DEF r
  <2>5. o.type \in PositionTypes /\ o.qty \in Nat \ {0}
    BY <2>2 DEF RequestOK
  <2>6. MarketTakes(RestingIn(w.store), w.nextId, RestingIn(k.store))
    BY <2>2, <2>3, <2>4, <2>5 DEF MarketTakes, OrderReaches
  <2>7. PICK count \in Nat : w.nextId = n + count /\ MarketOrdersTake(A, n, RestingIn(w.store), count)
    BY DEF SweepTook
  <2>8. MarketOrdersTake(A, n, RestingIn(k.store), count + 1)
    BY <2>6, <2>7, OneMoreTakes
  <2>9. count + 1 \in Nat /\ k.nextId = n + (count + 1)
    BY <2>3, <2>7
  <2> QED BY <2>8, <2>9 DEF SweepTook, k
<1> QED BY <1>1, <1>2

LEMMA SweepIsMarketOrders ==
  ASSUME NEW s, NEW n \in Nat \ {0}, StoreOK(s, n), NEW price
  PROVE  SweepTook(RestingIn(s), n, Sweep(s, n, price))
<1>0. Len(s.users) \in Nat
  BY DEF StoreOK, AccountsOK
<1>a. PICK w : Visits(w, s, n, price)
  BY <1>0, SweepRuns
<1>1. /\ w[0] = SweepStart(s, n)
      /\ \A i \in Nat : i < Len(s.users) => w[i + 1] = LiquidateIfCrossed(price, w[i], s.users[i + 1])
      /\ Sweep(s, n, price) = w[Len(s.users)]
  BY <1>a DEF Visits
<1> DEFINE A == RestingIn(s)
           N == {i \in Nat : i <= Len(s.users) => SweepOK(s, n, price, i, w[i]) /\ SweepTook(A, n, w[i])}
<1>2. 0 \in N
  <2>1. SweepOK(s, n, price, 0, w[0])
    BY <1>1, SweepStarts
  <2>2. w[0].nextId = n + 0 /\ w[0].store = s
    BY <1>1 DEF SweepStart
  <2>3. PICK zero \in Nat : zero = 0
    OBVIOUS
  <2>4. MarketOrdersTake(A, n, A, zero)
    BY <2>3, NoOrdersTake
  <2>5. SweepTook(A, n, w[0])
    BY <2>2, <2>3, <2>4 DEF SweepTook
  <2> QED BY <2>1, <2>5
<1> HIDE DEF A
<1>3. ASSUME NEW i \in N PROVE i + 1 \in N
  <2> SUFFICES ASSUME i + 1 <= Len(s.users)
               PROVE  SweepOK(s, n, price, i + 1, w[i + 1]) /\ SweepTook(A, n, w[i + 1])
    OBVIOUS
  <2>1. i < Len(s.users) /\ i <= Len(s.users) /\ i \in Nat
    BY <1>0
  <2>2. SweepOK(s, n, price, i, w[i]) /\ SweepTook(A, n, w[i])
    BY <2>1
  <2> HIDE DEF N
  <2> DEFINE u == s.users[i + 1]
  <2>3. w[i + 1] = LiquidateIfCrossed(price, w[i], u)
    BY <1>1, <2>1
  <2>4. u = s.users[i + 1]
    OBVIOUS
  <2> HIDE DEF u
  <2>5. SweepOK(s, n, price, i + 1, LiquidateIfCrossed(price, w[i], u))
    BY <2>1, <2>2, <2>4, SweepGoesOn
  <2>6. SweepTook(A, n, LiquidateIfCrossed(price, w[i], u))
    BY <2>1, <2>2, SweepTakesOn
  <2> QED BY <2>3, <2>5, <2>6
<1>4. N \in SUBSET Nat
  OBVIOUS
<1>5. N = Nat
  <2> HIDE DEF N
  <2> QED BY <1>2, <1>3, <1>4, SetInduction
<1>6. SweepTook(A, n, w[Len(s.users)])
  BY <1>0, <1>5
<1> QED BY <1>1, <1>6 DEF A

\* A request that leaves the book alone.
Quiet == RestingIn(store') = RestingIn(store) /\ nextId' = nextId

LEMMA OthersAreQuiet ==
  ASSUME EngineInvariant,
         \/ \E u \in Users : InitBalance(u)
         \/ \E u \in Users, amount \in Deposits : Onramp(u, amount)
         \/ \E o \in OrderRequests : RefuseOrder(o)
         \/ DisperseFundingRate
         \/ UNCHANGED vars
  PROVE  Quiet
<1>1. \A u : WithUser(store, u).orderbook = store.orderbook
  <2>1. Shaped(store)
    BY DEF EngineInvariant, StoreOK
  <2> QED BY <2>1 DEF WithUser, Shaped
<1>2. Shaped(store) /\ StoreOK(store, nextId) /\ nextId \in Nat \ {0}
  BY DEF EngineInvariant, StoreOK
<1>3. ASSUME NEW u \in Users, InitBalance(u) PROVE Quiet
  <2>1. store'.orderbook = store.orderbook /\ nextId' = nextId
    BY <1>1, <1>3 DEF InitBalance
  <2> QED BY <2>1, SameResting DEF Quiet
<1>4. ASSUME NEW u \in Users, NEW amount \in Deposits, Onramp(u, amount) PROVE Quiet
  <2> DEFINE s == WithUser(store, u)
  <2>1. StoreOK(s, nextId)
    BY <1>2, WithUserJoins
  <2>2. s.orderbook = store.orderbook
    BY <1>1
  <2>3. store' = [s EXCEPT !.collateral[u].available = @ + amount] /\ nextId' = nextId
    BY <1>4 DEF Onramp
  <2> HIDE DEF s
  <2>4. Shaped(s)
    BY <2>1 DEF StoreOK
  <2>5. store'.orderbook = store.orderbook
    BY <2>2, <2>3, <2>4 DEF Shaped
  <2> QED BY <2>3, <2>5, SameResting DEF Quiet
<1>5. ASSUME NEW o \in OrderRequests, RefuseOrder(o) PROVE Quiet
  <2>1. store'.orderbook = store.orderbook /\ nextId' = nextId
    BY <1>1, <1>5 DEF RefuseOrder
  <2> QED BY <2>1, SameResting DEF Quiet
<1>6. ASSUME DisperseFundingRate PROVE Quiet
  <2>1. store'.orderbook = store.orderbook /\ nextId' = nextId
    BY <1>2, <1>6 DEF DisperseFundingRate, Shaped
  <2> QED BY <2>1, SameResting DEF Quiet
<1>7. ASSUME UNCHANGED vars PROVE Quiet
  BY <1>7 DEF vars, Quiet
<1> QED BY <1>3, <1>4, <1>5, <1>6, <1>7

\* A step of the engine that is not a sweep is a step of the book, or none.
EngineStep == [Next /\ resting' = RestingOrders']_BookVars

LEMMA FollowsStore ==
  ASSUME resting = RestingIn(store), EngineStep
  PROVE  resting' = RestingIn(store') /\ (Next \/ UNCHANGED vars)
<1>1. CASE Next /\ resting' = RestingOrders'
  BY <1>1 DEF RestingOrders
<1>2. CASE UNCHANGED BookVars
  <2>1. UNCHANGED vars /\ resting' = resting
    BY <1>2 DEF BookVars
  <2>2. store' = store
    BY <2>1 DEF vars
  <2> QED BY <2>1, <2>2
<1> QED BY <1>1, <1>2 DEF EngineStep

LEMMA StepIsBookStep ==
  ASSUME EngineInvariant, resting = RestingIn(store), EngineStep, \A price \in SpotPrices : ~SpotPriceUpdate(price)
  PROVE  [PTB!BookNext]_(PTB!bookVars)
<1>1. resting' = RestingIn(store') /\ (Next \/ UNCHANGED vars)
  BY FollowsStore
<1>2. ASSUME NEW o \in OrderRequests, CreateOrder(o) PROVE PTB!BookNext
  BY <1>1, <1>2, CreateOrderIsOrder
<1>3. ASSUME NEW type \in PositionTypes, NEW price \in DOMAIN store.orderbook[type],
             NEW i \in DOMAIN store.orderbook[type][price].openOrders, CancelOrder(type, price, i)
      PROVE  PTB!BookNext
  BY <1>1, <1>3, CancelOrderIsWithdraw
<1>4. Quiet => UNCHANGED PTB!bookVars
  BY <1>1 DEF Quiet, PTB!bookVars
<1>5. PTB!BookNext \/ Quiet
  BY <1>1, <1>2, <1>3, OthersAreQuiet DEF Next
<1> QED BY <1>4, <1>5

\* A new spot price makes of the book what some number of its market orders make of it.
SweepStep ==
  \E price \in SpotPrices : \E count \in Nat :
    SpotPriceUpdate(price) /\ nextId' = nextId + count /\ MarketOrdersTake(resting, nextId, resting', count)

LEMMA SpotPriceUpdateIsSweep ==
  ASSUME EngineInvariant, resting = RestingIn(store), resting' = RestingIn(store'),
         NEW price \in SpotPrices, SpotPriceUpdate(price)
  PROVE  SweepStep
<1> DEFINE s == [store EXCEPT !.indexPrice = price]
           w == Sweep(s, nextId, price)
<1>1. store' = w.store /\ nextId' = w.nextId
  BY DEF SpotPriceUpdate
<1>2. StoreOK(store, nextId) /\ nextId \in Nat \ {0}
  BY DEF EngineInvariant
<1>3. StoreOK(s, nextId) /\ s.orderbook = store.orderbook
  BY <1>2, Priced
<1> HIDE DEF s
<1>4. RestingIn(s) = resting
  BY <1>3, SameResting
<1>5. SweepTook(resting, nextId, w)
  BY <1>2, <1>3, <1>4, SweepIsMarketOrders
<1> HIDE DEF w
<1>6. PICK count \in Nat : w.nextId = nextId + count /\ MarketOrdersTake(resting, nextId, RestingIn(w.store), count)
  BY <1>5 DEF SweepTook
<1> QED BY <1>1, <1>6 DEF SweepStep

\* Every request, at any spot price, is an order or a withdrawal of the
\* price-time book, several of its market orders one after the other, or
\* nothing to it.
RequestsAreBookSteps == [][[PTB!BookNext]_(PTB!bookVars) \/ SweepStep]_BookVars

LEMMA MappedIsResting == EngineBookSpec => [](EngineInvariant /\ resting = RestingIn(store))
<1>1. Init /\ resting = RestingOrders => EngineInvariant /\ resting = RestingIn(store)
  BY InitInvariant DEF RestingOrders
<1>2. EngineInvariant /\ resting = RestingIn(store) /\ EngineStep
        => EngineInvariant' /\ (resting = RestingIn(store))'
  <2> SUFFICES ASSUME EngineInvariant, resting = RestingIn(store), EngineStep
               PROVE  EngineInvariant' /\ (resting = RestingIn(store))'
    OBVIOUS
  <2>1. resting' = RestingIn(store') /\ (Next \/ UNCHANGED vars)
    BY FollowsStore
  <2> QED BY <2>1, InvariantIsInductive
<1> QED BY <1>1, <1>2, PTL DEF EngineBookSpec, EngineStep

\* Whatever the engine does with its price-keyed lists, the users of the book see
\* price-time orders, and liqudationChecks adds nothing else to it.
THEOREM EngineStepsAreBookSteps == EngineBookSpec => RequestsAreBookSteps
<1> DEFINE I == EngineInvariant /\ resting = RestingIn(store)
           A == [PTB!BookNext]_(PTB!bookVars) \/ SweepStep
<1>1. I /\ [Next /\ resting' = RestingOrders']_BookVars => A
  <2> SUFFICES ASSUME I, EngineStep PROVE A
    BY DEF EngineStep
  <2>1. resting' = RestingIn(store')
    BY FollowsStore
  <2>2. ASSUME NEW price \in SpotPrices, SpotPriceUpdate(price) PROVE SweepStep
    BY <2>1, <2>2, SpotPriceUpdateIsSweep
  <2>3. (\A price \in SpotPrices : ~SpotPriceUpdate(price)) => [PTB!BookNext]_(PTB!bookVars)
    BY StepIsBookStep
  <2> QED BY <2>2, <2>3
<1>2. [][I /\ [Next /\ resting' = RestingOrders']_BookVars]_BookVars => [][A]_BookVars
  BY <1>1, PTL
<1> QED BY <1>2, MappedIsResting, PTL DEF EngineBookSpec, RequestsAreBookSteps

\* Orders and cancellations take, leave and rest what PriceTimeBook says they do.
\* Where the spot price moves, no single step of that book closes several accounts:
\* EngineStepsAreBookSteps says what a sweep is. Here, as in run engine_book, it
\* does not.
THEOREM EngineKeepsPriceTime ==
  ASSUME SpotPrices = {} PROVE EngineBookSpec => BookIsPriceTimeBook
<1> DEFINE I == EngineInvariant /\ resting = RestingIn(store)
<1>1. Init /\ resting = RestingOrders => PTB!BookInit
  <2> SUFFICES ASSUME Init, resting = RestingOrders PROVE PTB!BookInit
    OBVIOUS
  <2>1. EngineInvariant /\ resting = RestingIn(store)
    BY InitInvariant DEF RestingOrders
  <2>2. nextId = 1 /\ \A type \in PositionTypes : DOMAIN store.orderbook[type] = {}
    BY DEF Init, NoSide
  <2>3. RestsOnce(store)
    BY <2>1 DEF EngineInvariant, StoreOK
  <2>4. Reads(resting, store) /\ resting = [i \in DOMAIN resting |-> resting[i]]
    BY <2>1, <2>3, RestingReads
  <2>5. DOMAIN resting = {}
    BY <2>2, <2>4 DEF Reads
  <2> QED BY <2>2, <2>4, <2>5 DEF PTB!BookInit
<1>2. I /\ [Next /\ resting' = RestingOrders']_BookVars => [PTB!BookNext]_(PTB!bookVars)
  BY StepIsBookStep DEF EngineStep
<1> QED BY <1>1, <1>2, MappedIsResting, PTL DEF EngineBookSpec, BookIsPriceTimeBook, PTB!BookSpec

-----------------------------------------------------------------------------
(* Nothing crosses.                                                        *)

\* The prices bid are below the prices asked.
Uncrossed(s) == \A bid \in DOMAIN s.orderbook[LONG] : \A ask \in DOMAIN s.orderbook[SHORT] : bid < ask

RowsUncrossed(A) ==
  \A i, j \in DOMAIN A : A[i].type = LONG /\ A[j].type = SHORT => A[i].price < A[j].price

LEMMA UncrossedRows ==
  ASSUME NEW s, NEW n \in Nat, StoreOK(s, n)
  PROVE  Uncrossed(s) <=> RowsUncrossed(RestingIn(s))
<1> DEFINE A == RestingIn(s)
<1>1. BookOK(s, n) /\ RestsOnce(s)
  BY DEF StoreOK
<1>2. Reads(A, s)
  BY <1>1, RestingReads
<1> HIDE DEF A
<1>3. LONG \in PositionTypes /\ SHORT \in PositionTypes
  BY DEF PositionTypes
<1>4. \A i \in DOMAIN A : A[i].type \in PositionTypes /\ A[i].price \in DOMAIN s.orderbook[A[i].type]
  <2> SUFFICES ASSUME NEW i \in DOMAIN A
               PROVE  A[i].type \in PositionTypes /\ A[i].price \in DOMAIN s.orderbook[A[i].type]
    OBVIOUS
  <2>1. PICK type \in PositionTypes : \E p \in DOMAIN s.orderbook[type] :
          \E o \in At(s.orderbook[type], p) : o.orderId = i /\ A[i] = Row(type, p, o)
    BY <1>2 DEF Reads
  <2>2. PICK p \in DOMAIN s.orderbook[type] : \E o \in At(s.orderbook[type], p) : o.orderId = i /\ A[i] = Row(type, p, o)
    BY <2>1
  <2>3. A[i].type = type /\ A[i].price = p
    BY <2>2, RowFields
  <2> QED BY <2>3
<1>5. \A type \in PositionTypes : \A p \in DOMAIN s.orderbook[type] :
        \E i \in DOMAIN A : A[i].type = type /\ A[i].price = p
  <2> SUFFICES ASSUME NEW type \in PositionTypes, NEW p \in DOMAIN s.orderbook[type]
               PROVE  \E i \in DOMAIN A : A[i].type = type /\ A[i].price = p
    OBVIOUS
  <2> DEFINE o == Head(ListAt(s.orderbook[type], p))
  <2>1. SideOK(s.orderbook[type], ToSet(s.users), n)
    BY <1>1 DEF BookOK
  <2>2. o \in At(s.orderbook[type], p)
    BY <2>1, LevelFacts DEF LevelKnown
  <2> HIDE DEF o
  <2>3. o.orderId \in DOMAIN A /\ A[o.orderId] = Row(type, p, o)
    BY <1>2, <2>2 DEF Reads
  <2> QED BY <2>3, RowFields
<1>6. Uncrossed(s) => RowsUncrossed(A)
  BY <1>4 DEF Uncrossed, RowsUncrossed
<1>7. RowsUncrossed(A) => Uncrossed(s)
  <2> SUFFICES ASSUME RowsUncrossed(A), NEW bid \in DOMAIN s.orderbook[LONG], NEW ask \in DOMAIN s.orderbook[SHORT]
               PROVE  bid < ask
    BY DEF Uncrossed
  <2>1. PICK i \in DOMAIN A : A[i].type = LONG /\ A[i].price = bid
    BY <1>3, <1>5
  <2>2. PICK j \in DOMAIN A : A[j].type = SHORT /\ A[j].price = ask
    BY <1>3, <1>5
  <2> QED BY <2>1, <2>2 DEF RowsUncrossed
<1> QED BY <1>6, <1>7 DEF A

\* A limit order that rests reaches nothing of what is left.
LEMMA OrderLeavesUncrossed ==
  ASSUME NEW o \in OrderRequests, NEW n \in Nat, NEW A, NEW D, NEW taker, OrderReaches(taker, o, n, A, D),
         RowsUncrossed(A)
  PROVE  RowsUncrossed(D)
<1>1. /\ taker.id = n /\ taker.type = o.type /\ taker.kind = o.kind /\ taker.price = o.price
      /\ (o.kind = "limit" => taker.bound = 100 * o.price) /\ Rows(A, n)
  BY DEF OrderReaches
<1>2. PICK left \in 0..taker.qty : \E B :
        /\ Takes(taker, A, B, taker.qty - left)
        /\ left # 0 => Reach(B, taker) = {}
        /\ Rested(B, D, taker, left)
  BY DEF OrderReaches, Placed
<1>3. PICK B : /\ Takes(taker, A, B, taker.qty - left)
               /\ left # 0 => Reach(B, taker) = {}
               /\ Rested(B, D, taker, left)
  BY <1>2
<1>4. \A i \in DOMAIN B : i \in DOMAIN A /\ i # n /\ B[i].type = A[i].type /\ B[i].price = A[i].price /\ B[i].price \in Nat
  <2>1. \A i \in DOMAIN A : A[i].price \in LimitPrices /\ i \in 1..(n - 1)
    BY <1>1 DEF Rows
  <2>2. OnlyLess(A, B)
    BY <1>3 DEF Takes
  <2> SUFFICES ASSUME NEW i \in DOMAIN B
               PROVE  i \in DOMAIN A /\ i # n /\ B[i].type = A[i].type /\ B[i].price = A[i].price /\ B[i].price \in Nat
    OBVIOUS
  <2>3. i \in DOMAIN A /\ B[i].type = A[i].type /\ B[i].price = A[i].price
    BY <2>2 DEF OnlyLess
  <2>4. A[i].price \in LimitPrices /\ i \in 1..(n - 1)
    BY <2>1, <2>3
  <2>5. A[i].price \in Nat
    BY <2>4, EngineAssumption
  <2>6. i # n
    BY <2>4
  <2> QED BY <2>3, <2>5, <2>6
<1>5. ASSUME NEW i \in DOMAIN D
      PROVE  (i \in DOMAIN B /\ D[i] = B[i]) \/ (i = n /\ i \notin DOMAIN B /\ left # 0 /\ o.kind = "limit")
  BY <1>1, <1>3, <1>4 DEF Rested
<1>6. ASSUME left # 0, o.kind = "limit", NEW j \in DOMAIN B, B[j].type = Opposite(o.type)
      PROVE  IF o.type = LONG THEN o.price < B[j].price ELSE B[j].price < o.price
  <2>1. ~WithinBound(o.type, B[j].price, 100 * o.price)
    BY <1>1, <1>3, <1>6 DEF Reach
  <2>2. o.price \in Nat /\ B[j].price \in Nat
    <3>1. o.price \in LimitPrices
      BY <1>6, RequestTypes
    <3> QED BY <1>4, <3>1, EngineAssumption
  <2> QED BY <2>1, <2>2 DEF WithinBound
<1>7. left # 0 /\ o.kind = "limit" => D[n].type = o.type /\ D[n].price = o.price
  BY <1>1, <1>3 DEF Rested
<1>8. ASSUME NEW i \in DOMAIN D, NEW j \in DOMAIN D, D[i].type = LONG, D[j].type = SHORT
      PROVE  D[i].price < D[j].price
  <2>1. CASE i \in DOMAIN B /\ j \in DOMAIN B
    <3>1. D[i] = B[i] /\ D[j] = B[j]
      BY <1>4, <1>5, <2>1
    <3> QED BY <1>4, <1>8, <2>1, <3>1 DEF RowsUncrossed
  <2>2. CASE i \notin DOMAIN B /\ j \in DOMAIN B
    <3>1. i = n /\ left # 0 /\ o.kind = "limit" /\ D[j] = B[j]
      BY <1>4, <1>5, <2>2
    <3>2. o.type = LONG /\ B[j].type = Opposite(o.type)
      BY <1>7, <1>8, <3>1 DEF Opposite
    <3> QED BY <1>6, <1>7, <2>2, <3>1, <3>2
  <2>3. CASE i \in DOMAIN B /\ j \notin DOMAIN B
    <3>1. j = n /\ left # 0 /\ o.kind = "limit" /\ D[i] = B[i]
      BY <1>4, <1>5, <2>3
    <3>2. o.type = SHORT /\ o.type # LONG /\ B[i].type = Opposite(o.type)
      BY <1>7, <1>8, <3>1 DEF Opposite, LONG, SHORT
    <3> QED BY <1>6, <1>7, <2>3, <3>1, <3>2
  <2>4. CASE i \notin DOMAIN B /\ j \notin DOMAIN B
    <3>1. i = n /\ j = n
      BY <1>5, <2>4
    <3> QED BY <1>8, <3>1 DEF LONG, SHORT
  <2> QED BY <2>1, <2>2, <2>3, <2>4
<1> QED BY <1>8 DEF RowsUncrossed

\* The prices that rest are among those that rested.
LEMMA StaysUncrossed ==
  ASSUME NEW s, NEW t, Uncrossed(s), \A type \in PositionTypes : DOMAIN t.orderbook[type] \subseteq DOMAIN s.orderbook[type]
  PROVE  Uncrossed(t)
BY DEF Uncrossed, PositionTypes

LEMMA StepStaysUncrossed ==
  ASSUME EngineInvariant, EngineInvariant', Uncrossed(store), [Next]_vars
  PROVE  Uncrossed(store')
<1>1. /\ StoreOK(store, nextId) /\ StoreOK(store', nextId') /\ nextId \in Nat \ {0} /\ nextId' \in Nat \ {0}
      /\ nextId \in Nat /\ nextId' \in Nat
  BY DEF EngineInvariant
<1>2. ASSUME NEW o \in OrderRequests, CreateOrder(o) PROVE Uncrossed(store')
  <2>1. PICK taker : OrderReaches(taker, o, nextId, RestingIn(store), RestingIn(store'))
    BY <1>2, CreateOrderReaches
  <2>2. RowsUncrossed(RestingIn(store))
    BY <1>1, UncrossedRows
  <2>3. RowsUncrossed(RestingIn(store'))
    BY <1>1, <2>1, <2>2, OrderLeavesUncrossed
  <2> QED BY <1>1, <2>3, UncrossedRows
<1>3. ASSUME NEW type \in PositionTypes, NEW price \in DOMAIN store.orderbook[type],
             NEW i \in DOMAIN store.orderbook[type][price].openOrders, CancelOrder(type, price, i)
      PROVE  Uncrossed(store')
  <2>1. \A k \in PositionTypes : DOMAIN store'.orderbook[k] \subseteq DOMAIN store.orderbook[k]
    <3> DEFINE side == store.orderbook[type]
               new == store'.orderbook
    <3>1. store.orderbook = [k \in PositionTypes |-> store.orderbook[k]] /\ Shaped(store)
      BY <1>1 DEF StoreOK, BookOK
    <3>2. new = [store.orderbook EXCEPT ![type] = Without(side, price, i)]
      BY <1>3, <3>1 DEF CancelOrder, Shaped, Without, WithoutLevel, WithLevel, Level, ListAt, Empty
    <3>3. DOMAIN Without(side, price, i) \subseteq DOMAIN side
      BY DEF Without, WithoutLevel, WithLevel
    <3> HIDE DEF new
    <3>4. \A k \in PositionTypes : DOMAIN new[k] \subseteq DOMAIN store.orderbook[k]
      BY <3>1, <3>2, <3>3
    <3> QED BY <3>4 DEF new
  <2> QED BY <2>1, StaysUncrossed
<1>4. ASSUME NEW price \in SpotPrices, SpotPriceUpdate(price) PROVE Uncrossed(store')
  <2> DEFINE s == [store EXCEPT !.indexPrice = price]
             w == Sweep(s, nextId, price)
  <2>1. store' = w.store
    BY <1>4 DEF SpotPriceUpdate
  <2>2. StoreOK(s, nextId) /\ s.orderbook = store.orderbook
    BY <1>1, Priced
  <2> HIDE DEF s
  <2>3. SweepOK(s, nextId, price, Len(s.users), w)
    BY <1>1, <2>2, SweepDone
  <2> HIDE DEF w
  <2>4. \A type \in PositionTypes : DOMAIN store'.orderbook[type] \subseteq DOMAIN store.orderbook[type]
    BY <2>1, <2>2, <2>3 DEF SweepOK
  <2> QED BY <2>4, StaysUncrossed
<1>5. ASSUME Quiet PROVE Uncrossed(store')
  BY <1>1, <1>5, UncrossedRows DEF Quiet
<1> QED BY <1>2, <1>3, <1>4, <1>5, OthersAreQuiet DEF Next

\* No bid rests at or above an ask, whatever is ordered, cancelled or liquidated:
\* matchLongOrder and matchShortOrder leave nothing within a limit's reach before
\* placeOrder lets it rest.
THEOREM BidsStayBelowAsks == Spec => []Uncrossed(store)
<1>1. Init => Uncrossed(store)
  BY DEF Init, Uncrossed, NoSide, PositionTypes
<1>2. EngineInvariant /\ Uncrossed(store) /\ [Next]_vars => Uncrossed(store)'
  BY InvariantIsInductive, StepStaysUncrossed
<1> QED BY <1>1, <1>2, InvariantHolds, PTL DEF Spec
=============================================================================
