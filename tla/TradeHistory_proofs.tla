------------------------ MODULE TradeHistory_proofs ------------------------
(***************************************************************************)
(* Proofs about TradeHistory, for any accounts, orders, page size, number  *)
(* of fills and of loads, and any clock: the inductive invariant, one lemma*)
(* for each action, and what follows: pruning loses no trade of a human    *)
(* being, and the history on screen is an unbroken run of the account's    *)
(* trades but where a cursor of milliseconds cuts some off.                *)
(***************************************************************************)
EXTENDS TradeHistory, FiniteSetTheorems, FunctionTheorems, SequenceTheorems, TLAPS

-----------------------------------------------------------------------------
(* Ranking and flattening.                                                 *)

Distinct(s) == \A m, n \in 1..Len(s) : m # n => s[m] # s[n]

\* B says what comes before a member of S, and r[n] is a member with n - 1 before it.
RanksOf(S, B, r) ==
  /\ IsFiniteSet(S) /\ B \in [S -> SUBSET S]
  /\ \A i \in S : i \notin B[i]
  /\ \A i, j \in S : i # j => i \in B[j] \/ j \in B[i]
  /\ \A i, j, k \in S : i \in B[j] /\ j \in B[k] => i \in B[k]
  /\ r = [n \in 1..Cardinality(S) |-> r[n]]
  /\ \A n \in 1..Cardinality(S) : (\E i \in S : Cardinality(B[i]) = n - 1) =>
       r[n] \in S /\ Cardinality(B[r[n]]) = n - 1

\* In a strict order every place is the place of exactly one member.
LEMMA RanksFit ==
  ASSUME NEW S, NEW B, NEW r, RanksOf(S, B, r)
  PROVE  /\ r \in Seq(S) /\ Len(r) = Cardinality(S) /\ Range(r) = S /\ Distinct(r)
         /\ \A m, n \in 1..Len(r) : m < n => r[m] \in B[r[n]]
<1> USE DEF RanksOf
<1> DEFINE c == Cardinality(S)
           f == [i \in S |-> Cardinality(B[i])]
<1>1. c \in Nat
  BY FS_CardinalityType
<1>2. ASSUME NEW i \in S PROVE IsFiniteSet(B[i]) /\ Cardinality(B[i]) \in 0..(c - 1)
  <2>1. IsFiniteSet(S \ {i}) /\ Cardinality(S \ {i}) = c - 1
    BY FS_RemoveElement
  <2>2. B[i] \in SUBSET (S \ {i})
    OBVIOUS
  <2>3. IsFiniteSet(B[i]) /\ Cardinality(B[i]) <= c - 1
    BY <2>1, <2>2, FS_Subset
  <2>4. Cardinality(B[i]) \in Nat
    BY <2>3, FS_CardinalityType
  <2> QED BY <1>1, <2>3, <2>4
<1>3. ASSUME NEW i \in S, NEW j \in S, i \in B[j] PROVE Cardinality(B[i]) < Cardinality(B[j])
  <2>1. B[i] \in SUBSET B[j] /\ B[i] # B[j]
    BY <1>3
  <2>2. Cardinality(B[i]) <= Cardinality(B[j]) /\ Cardinality(B[i]) # Cardinality(B[j])
    BY <1>2, <2>1, FS_Subset
  <2>3. Cardinality(B[i]) \in Nat /\ Cardinality(B[j]) \in Nat
    BY <1>1, <1>2
  <2> QED BY <2>2, <2>3
<1>4. \A i, j \in S : i # j => Cardinality(B[i]) # Cardinality(B[j])
  <2> SUFFICES ASSUME NEW i \in S, NEW j \in S, i # j PROVE Cardinality(B[i]) # Cardinality(B[j])
    OBVIOUS
  <2>1. Cardinality(B[i]) \in Nat /\ Cardinality(B[j]) \in Nat
    BY <1>1, <1>2
  <2> QED BY <1>3, <2>1
<1>5. \A n \in 1..c : \E i \in S : Cardinality(B[i]) = n - 1
  <2>1. f \in [S -> 0..(c - 1)]
    BY <1>2
  <2>2. f \in Injection(S, 0..(c - 1))
    BY <1>4, <2>1 DEF Injection, IsInjective
  <2>3. IsFiniteSet(0..(c - 1)) /\ Cardinality(0..(c - 1)) = c
    <3>1. 0 \in Int /\ c - 1 \in Int
      BY <1>1
    <3>2. IsFiniteSet(0..(c - 1)) /\ Cardinality(0..(c - 1)) = IF 0 > c - 1 THEN 0 ELSE c - 1 - 0 + 1
      BY <3>1, FS_Interval
    <3> QED BY <1>1, <3>2
  <2>4. f \in Surjection(S, 0..(c - 1))
    BY <2>2, <2>3, FS_Injection
  <2>5. \A v \in 0..(c - 1) : \E i \in S : f[i] = v
    BY <2>4 DEF Surjection
  <2>6. \A n \in 1..c : n - 1 \in 0..(c - 1)
    BY <1>1
  <2> QED BY <2>5, <2>6
<1>6. \A n \in 1..c : r[n] \in S /\ Cardinality(B[r[n]]) = n - 1
  BY <1>5
<1>7. r \in Seq(S) /\ Len(r) = c
  BY <1>1, <1>6
<1>8. Distinct(r)
  <2> SUFFICES ASSUME NEW m \in 1..c, NEW n \in 1..c, m # n PROVE r[m] # r[n]
    BY <1>7 DEF Distinct
  <2> QED BY <1>1, <1>6
<1>9. Range(r) = S
  <2>1. ASSUME NEW i \in S PROVE \E n \in 1..c : r[n] = i
    <3>1. Cardinality(B[i]) + 1 \in 1..c
      BY <1>1, <1>2
    <3>2. Cardinality(B[r[Cardinality(B[i]) + 1]]) = Cardinality(B[i])
      BY <1>2, <1>6, <3>1
    <3> QED BY <1>4, <1>6, <3>1, <3>2
  <2> QED BY <1>6, <1>7, <2>1 DEF Range
<1>10. ASSUME NEW m \in 1..c, NEW n \in 1..c, m < n PROVE r[m] \in B[r[n]]
  <2>1. r[m] \in S /\ r[n] \in S /\ Cardinality(B[r[m]]) = m - 1 /\ Cardinality(B[r[n]]) = n - 1
    BY <1>6
  <2>2. ~(Cardinality(B[r[n]]) < Cardinality(B[r[m]])) /\ r[m] # r[n]
    BY <1>1, <1>10, <2>1
  <2> QED BY <1>3, <2>1, <2>2
<1> QED BY <1>7, <1>8, <1>9, <1>10

LEMMA LeastNumber ==
  ASSUME NEW T \in SUBSET Nat, T # {}
  PROVE  \E n \in T : \A m \in T : n <= m
<1> DEFINE R == OpToRel(<, Nat)
<1>1. IsWellFoundedOn(R, Nat)
  BY NatLessThanWellFounded
<1>2. \A x, y \in Nat : <<x, y>> \in R <=> x < y
  BY DEF OpToRel
<1> HIDE DEF R
<1>3. PICK n \in T : \A y \in T : ~ (<<y, n>> \in R)
  BY <1>1, WFMin
<1>4. \A y \in T : ~(y < n)
  BY <1>2, <1>3
<1> QED BY <1>4

\* Induction on the natural numbers, for a property that a set collects.
LEMMA SetInduction ==
  ASSUME NEW T \in SUBSET Nat, 0 \in T, \A n \in T : n + 1 \in T
  PROVE  T = Nat
<1> SUFFICES ASSUME T # Nat PROVE FALSE
  OBVIOUS
<1>1. PICK n \in Nat \ T : \A m \in Nat \ T : n <= m
  <2>1. Nat \ T \in SUBSET Nat /\ Nat \ T # {}
    OBVIOUS
  <2> QED BY <2>1, LeastNumber
<1>2. n - 1 \in Nat /\ n - 1 \notin Nat \ T
  BY <1>1
<1> QED BY <1>2

LEMMA ConcatFacts ==
  ASSUME NEW A, NEW s \in Seq(A), NEW t \in Seq(A)
  PROVE  /\ s \o t \in Seq(A) /\ Range(s \o t) = Range(s) \cup Range(t)
         /\ Distinct(s) /\ Distinct(t) /\ Range(s) \cap Range(t) = {} => Distinct(s \o t)
<1>1. s \o t \in Seq(A) /\ Range(s \o t) = Range(s) \cup Range(t)
  BY RangeConcatenation
<1>2. /\ Len(s) \in Nat /\ Len(t) \in Nat /\ Len(s \o t) = Len(s) + Len(t)
      /\ \A i \in 1..Len(s) + Len(t) : (s \o t)[i] = IF i <= Len(s) THEN s[i] ELSE t[i - Len(s)]
  BY ConcatProperties
<1>3. (\A i \in 1..Len(s) : s[i] \in Range(s)) /\ (\A i \in 1..Len(t) : t[i] \in Range(t))
  BY DEF Range
<1>4. ASSUME Distinct(s), Distinct(t), Range(s) \cap Range(t) = {} PROVE Distinct(s \o t)
  <2> SUFFICES ASSUME NEW i \in 1..Len(s) + Len(t), NEW j \in 1..Len(s) + Len(t), i < j
               PROVE  (s \o t)[i] # (s \o t)[j]
    BY <1>2 DEF Distinct
  <2>1. CASE j <= Len(s)
    BY <1>2, <1>4, <2>1 DEF Distinct
  <2>2. CASE i > Len(s)
    <3>1. i - Len(s) \in 1..Len(t) /\ j - Len(s) \in 1..Len(t) /\ i - Len(s) # j - Len(s)
      BY <1>2, <2>2
    <3>2. t[i - Len(s)] # t[j - Len(s)]
      BY <1>4, <3>1 DEF Distinct
    <3> QED BY <1>2, <2>2, <3>2
  <2>3. CASE i <= Len(s) /\ j > Len(s)
    <3>1. i \in 1..Len(s) /\ j - Len(s) \in 1..Len(t)
      BY <1>2, <2>3
    <3>2. s[i] \in Range(s) /\ t[j - Len(s)] \in Range(t)
      BY <1>3, <3>1
    <3>3. (s \o t)[i] = s[i] /\ (s \o t)[j] = t[j - Len(s)]
      BY <1>2, <2>3
    <3> QED BY <1>4, <3>2, <3>3
  <2> QED BY <1>2, <2>1, <2>2, <2>3
<1> QED BY <1>1, <1>4

\* The sequence of the sequences joined so far, up to the k-th.
Joins(g, ss, k) == g = [i \in 1..k |-> IF i = 1 THEN ss[i] ELSE g[i - 1] \o ss[i]]

LEMMA JoinsExist ==
  ASSUME NEW ss, NEW k \in Nat
  PROVE  \E g : Joins(g, ss, k)
<1> DEFINE P(n) == \E g : Joins(g, ss, n)
           N == {n \in Nat : P(n)}
<1>1. P(0)
  <2>1. Joins(<<>>, ss, 0)
    BY DEF Joins
  <2> QED BY <2>1
<1>2. ASSUME NEW n \in Nat, P(n) PROVE P(n + 1)
  <2>1. PICK g : Joins(g, ss, n)
    BY <1>2
  <2> DEFINE h == [i \in 1..n + 1 |-> IF i <= n THEN g[i] ELSE IF i = 1 THEN ss[i] ELSE g[i - 1] \o ss[i]]
  <2>2. \A i \in 1..n : h[i] = g[i] /\ g[i] = IF i = 1 THEN ss[i] ELSE g[i - 1] \o ss[i]
    <3> DEFINE f == [i \in 1..n |-> IF i = 1 THEN ss[i] ELSE g[i - 1] \o ss[i]]
    <3>1. g = f
      BY <2>1 DEF Joins
    <3>2. \A i \in 1..n : f[i] = IF i = 1 THEN ss[i] ELSE g[i - 1] \o ss[i]
      OBVIOUS
    <3>3. \A i \in 1..n : i \in 1..n + 1 /\ i <= n
      OBVIOUS
    <3> QED BY <3>1, <3>2, <3>3
  <2>3. ASSUME NEW i \in 1..n + 1 PROVE h[i] = IF i = 1 THEN ss[i] ELSE h[i - 1] \o ss[i]
    <3>1. CASE i <= n
      <4>1. i \in 1..n /\ (i # 1 => i - 1 \in 1..n)
        BY <3>1
      <4>2. /\ h[i] = g[i] /\ (i # 1 => h[i - 1] = g[i - 1])
            /\ g[i] = IF i = 1 THEN ss[i] ELSE g[i - 1] \o ss[i]
        BY <2>2, <4>1
      <4> HIDE DEF h
      <4> QED BY <4>2
    <3>2. CASE ~(i <= n)
      <4>1. h[i] = IF i = 1 THEN ss[i] ELSE g[i - 1] \o ss[i]
        BY <3>2
      <4>2. i # 1 => i - 1 \in 1..n
        BY <3>2
      <4>3. i # 1 => h[i - 1] = g[i - 1]
        BY <2>2, <4>2
      <4> HIDE DEF h
      <4> QED BY <4>1, <4>3
    <3> QED BY <3>1, <3>2
  <2>4. Joins(h, ss, n + 1)
    BY <2>3 DEF Joins
  <2> QED BY <2>4
<1> HIDE DEF P
<1>3. N = Nat
  <2>1. N \in SUBSET Nat /\ 0 \in N /\ \A n \in N : n + 1 \in N
    BY <1>1, <1>2
  <2> HIDE DEF N
  <2> QED BY <2>1, SetInduction
<1>4. P(k)
  BY <1>3
<1> QED BY <1>4 DEF P

\* FlattenSeq on sequences that have nothing in common.
LEMMA FlattenFacts ==
  ASSUME NEW A, NEW ss \in Seq(Seq(A)),
         \A n \in 1..Len(ss) : Distinct(ss[n]),
         \A m, n \in 1..Len(ss) : m # n => Range(ss[m]) \cap Range(ss[n]) = {}
  PROVE  /\ FlattenSeq(ss) \in Seq(A) /\ Distinct(FlattenSeq(ss))
         /\ Range(FlattenSeq(ss)) = UNION {Range(ss[n]) : n \in 1..Len(ss)}
<1> DEFINE k == Len(ss)
           it == CHOOSE g : Joins(g, ss, k)
           upTo(n) == UNION {Range(ss[m]) : m \in 1..n}
           P(n) == it[n] \in Seq(A) /\ Range(it[n]) = upTo(n) /\ Distinct(it[n])
           N == {n \in Nat : n \in 1..k => P(n)}
<1>1. k \in Nat /\ \A n \in 1..k : ss[n] \in Seq(A)
  OBVIOUS
<1>2. CASE k = 0
  <2>1. FlattenSeq(ss) = ss /\ ss = <<>>
    BY <1>2 DEF FlattenSeq
  <2> QED BY <1>2, <2>1 DEF Distinct, Range
<1>3. CASE k # 0
  <2>1. FlattenSeq(ss) = it[k]
    BY <1>3 DEF FlattenSeq, Joins
  <2>2. Joins(it, ss, k)
    BY <1>1, JoinsExist
  <2> HIDE DEF it
  <2>3. \A n \in 1..k : it[n] = IF n = 1 THEN ss[n] ELSE it[n - 1] \o ss[n]
    BY <2>2 DEF Joins
  <2>4. ASSUME NEW n \in Nat, n \in 1..k => P(n), n + 1 \in 1..k PROVE P(n + 1)
    <3>1. CASE n = 0
      <4>1. it[1] = ss[1] /\ 1 \in 1..k
        BY <2>3, <2>4, <3>1
      <4>2. upTo(1) = Range(ss[1])
        <5>1. 1..1 = {1}
          OBVIOUS
        <5> QED BY <5>1
      <4> HIDE DEF upTo
      <4> QED BY <1>1, <3>1, <4>1, <4>2
    <3>2. CASE n # 0
      <4>1. n \in 1..k /\ n + 1 # 1 /\ n + 1 - 1 = n
        BY <1>1, <2>4, <3>2
      <4>2. it[n + 1] = it[n] \o ss[n + 1]
        <5>1. \A m \in 1..k : m # 1 => it[m] = it[m - 1] \o ss[m]
          BY <2>3
        <5> DEFINE m == n + 1
        <5>2. m \in 1..k /\ m # 1 /\ m - 1 = n
          BY <2>4, <4>1
        <5> HIDE DEF m
        <5>3. it[m] = it[m - 1] \o ss[m]
          BY <5>1, <5>2
        <5>4. it[m] = it[n] \o ss[m]
          BY <5>2, <5>3
        <5> QED BY <5>4 DEF m
      <4>3. P(n) /\ ss[n + 1] \in Seq(A) /\ Distinct(ss[n + 1])
        BY <1>1, <2>4, <4>1
      <4>4. upTo(n + 1) = upTo(n) \cup Range(ss[n + 1])
        <5>1. 1..(n + 1) = 1..n \cup {n + 1}
          OBVIOUS
        <5> QED BY <5>1
      <4>5. upTo(n) \cap Range(ss[n + 1]) = {}
        <5>1. \A m \in 1..n : m \in 1..k /\ m # n + 1
          BY <1>1, <2>4
        <5>2. \A m \in 1..n : Range(ss[m]) \cap Range(ss[n + 1]) = {}
          BY <2>4, <5>1
        <5> QED BY <5>2
      <4> HIDE DEF upTo
      <4>6. /\ it[n] \o ss[n + 1] \in Seq(A) /\ Distinct(it[n] \o ss[n + 1])
            /\ Range(it[n] \o ss[n + 1]) = Range(it[n]) \cup Range(ss[n + 1])
        BY <4>3, <4>5, ConcatFacts
      <4> QED BY <4>2, <4>3, <4>4, <4>6
    <3> QED BY <3>1, <3>2
  <2> HIDE DEF P
  <2>6. N = Nat
    <3>1. N \in SUBSET Nat /\ 0 \in N /\ \A n \in N : n + 1 \in N
      BY <1>1, <2>4
    <3> HIDE DEF N
    <3> QED BY <3>1, SetInduction
  <2>7. it[k] \in Seq(A) /\ Range(it[k]) = upTo(k) /\ Distinct(it[k])
    <3>1. k \in 1..k
      BY <1>1, <1>3
    <3>2. P(k)
      BY <1>1, <2>6, <3>1
    <3> QED BY <3>2 DEF P
  <2> QED BY <2>1, <2>7
<1> QED BY <1>2, <1>3

-----------------------------------------------------------------------------
(* The inductive invariant.                                                *)

Placed == {o \in Orders : owner[o] # Nobody}
FillRecords == [maker : Orders, taker : Orders, at : Nat \ {0}, key : 1..MaxFills]
ViewRecords == [id : DOMAIN fills, role : {"maker", "taker"}]

\* The reply the db-writer has not handled is about orders that have been placed.
BacklogFits ==
  \/ backlog = <<>>
  \/ \E taker \in Placed, makers \in SUBSET Placed : \E rest \in SUBSET makers :
       /\ backlog = <<[taker |-> taker, makers |-> makers, rest |-> rest]>>
       /\ IsFiniteSet(makers)

ExchangeFits ==
  /\ owner \in [Orders -> Accounts \cup {Bots, Nobody}]
  /\ rows \in [Orders -> {"none", "open", "closed"}]
  /\ book \subseteq Placed /\ IsFiniteSet(book)
  /\ BacklogFits
  /\ fills \in Seq(FillRecords)
  /\ \A i \in DOMAIN fills : fills[i].maker \in Placed /\ fills[i].taker \in Placed
  /\ table \subseteq DOMAIN fills
  /\ stuck \in BOOLEAN /\ up \in BOOLEAN

\* Transactions have timestamps that rise, and a fill has an id of its own.
FillsInOrder ==
  \A i, j \in DOMAIN fills :
    /\ i < j => fills[i].at <= fills[j].at
    /\ i # j => fills[i].key # fills[j].key

\* A tab that is in use sees no pruning.
UpWhileUsed == account # Unknown \/ activated => up

PastCursor(c) == c = None \/ \E i \in DOMAIN fills : c = CursorOf(i)

LoadRecords ==
  [mine : 1..generation, who : Accounts, read : BOOLEAN, list : Seq(Nat), next : Cursors]
PageRecords ==
  [stage : {"none", "asked", "read"}, mine : 0..generation, who : Accounts \cup {Nobody, Unknown},
   after : Cursors, list : Seq(Nat), next : Cursors]
StateRecords ==
  [status : {"idle", "loading", "ready", "error"}, fills : Seq(ViewRecords), ends : SUBSET Cursors,
   spliced : BOOLEAN]

\* What is under way in this generation is under way for the account that is signed in.
TabFits ==
  /\ account \in Accounts \cup {Nobody, Unknown} /\ activated \in BOOLEAN
  /\ generation \in 0..MaxLoads
  /\ cursor \in Cursors /\ PastCursor(cursor)
  /\ state \in StateRecords
  /\ loads \subseteq LoadRecords
  /\ page \in PageRecords
  /\ account = Unknown => loads = {} /\ page = NoPage
  /\ ~SignedIn => cursor = None /\ state.fills = <<>>
  /\ \A l \in loads : l.mine = generation => l.who = account
  /\ \A l \in loads : PastCursor(l.next)
  /\ page.stage # "none" =>
       /\ page.who \in Accounts /\ page.after # None /\ PastCursor(page.after)
       /\ page.mine = generation => page.who = account
  /\ PastCursor(page.next)
  /\ state.status # "ready" => state.fills = <<>>

\* j is the oldest fill of S.
Oldest(j, S) == j \in S /\ \A k \in S : k = j \/ Newer(k, j)

\* An answer holds the newest fills before the cursor, as the table was when it was
\* read, and its own cursor is that of its last fill.
Answered(list, next, who, after) ==
  /\ Distinct(list) /\ Range(list) \subseteq FillsOf(who)
  /\ \A i \in Range(list) : Before(i, after)
  /\ \A i \in FillsOf(who) \ Range(list) : Before(i, after) =>
       \/ \A k \in Range(list) : Newer(k, i)
       \/ after = None /\ \A k \in Range(list) : Newer(i, k)
  /\ next = None \/ \E j \in Range(list) : next = CursorOf(j) /\ Oldest(j, Range(list))

AnswersFit ==
  /\ \A l \in loads : l.read => Answered(l.list, l.next, l.who, None)
  /\ page.stage = "read" => Answered(page.list, page.next, page.who, page.after)

Unbroken ==
  \A i \in FillsOf(account) \ Shown :
    (\E j \in Shown : Newer(j, i)) /\ (\E j \in Shown : Newer(i, j)) => CutOff(i)

\* The cursor stands at the end of the list it was given with.
ScreenFits ==
  /\ Shown \subseteq FillsOf(account) /\ Distinct(state.fills)
  /\ \A i \in Shown : Range(Views(i, account)) \subseteq Range(state.fills)
  /\ ~state.spliced =>
       /\ Unbroken
       /\ state.status = "ready" /\ cursor # None =>
            \E j \in Shown : cursor = CursorOf(j) /\ Oldest(j, Shown)

ExchangeInvariant == ExchangeFits /\ FillsInOrder /\ HumanTradesSurvive /\ UpWhileUsed
TabInvariant == TabFits /\ AnswersFit /\ ScreenFits
HistoryInvariant == ExchangeInvariant /\ TabInvariant

-----------------------------------------------------------------------------
(* The operators, in a state where the exchange fits.                      *)

LEMMA FillFacts ==
  ASSUME ExchangeFits
  PROVE  /\ Len(fills) \in Nat /\ DOMAIN fills = 1..Len(fills)
         /\ \A i \in DOMAIN fills :
              /\ fills[i] \in FillRecords /\ fills[i].at \in Nat /\ fills[i].at > 0
              /\ fills[i].key \in 1..MaxFills /\ fills[i].key \in Nat /\ fills[i].key > 0
              /\ fills[i].maker \in Placed /\ fills[i].taker \in Placed
         /\ \A who : FillsOf(who) \subseteq DOMAIN fills
<1>1. fills \in Seq(FillRecords)
  BY DEF ExchangeFits
<1>2. Len(fills) \in Nat /\ DOMAIN fills = 1..Len(fills) /\ \A i \in DOMAIN fills : fills[i] \in FillRecords
  BY <1>1
<1>3. MaxFills \in Nat
  BY HistoryAssumption
<1>4. ASSUME NEW i \in DOMAIN fills
      PROVE  /\ fills[i].at \in Nat /\ fills[i].at > 0
             /\ fills[i].key \in 1..MaxFills /\ fills[i].key \in Nat /\ fills[i].key > 0
  <2>1. fills[i].at \in Nat \ {0} /\ fills[i].key \in 1..MaxFills
    BY <1>2 DEF FillRecords
  <2> QED BY <1>3, <2>1
<1>5. \A who : FillsOf(who) \subseteq DOMAIN fills
  BY DEF FillsOf, ExchangeFits
<1> QED BY <1>2, <1>4, <1>5 DEF ExchangeFits

LEMMA DivisionFacts ==
  ASSUME NEW a \in Nat, NEW b \in Nat, NEW m \in Nat \ {0}
  PROVE  /\ a \div m \in Nat /\ m * (a \div m) \in Nat /\ m * (a \div m) <= a
         /\ m * (a \div m) <= b => a \div m <= b \div m
         /\ a <= b => a \div m <= b \div m
  OBVIOUS

LEMMA MsFacts ==
  ASSUME ExchangeFits, NEW i \in DOMAIN fills, NEW j \in DOMAIN fills
  PROVE  /\ Ms(i) \in Nat /\ Micros * Ms(i) \in Nat /\ Micros * Ms(i) <= fills[i].at
         /\ Micros * Ms(j) <= fills[i].at /\ fills[i].at <= fills[j].at => Ms(j) = Ms(i)
         /\ CursorOf(i) \in Cursors /\ CursorOf(i).at = Micros * Ms(i)
         /\ CursorOf(i).key = fills[i].key /\ CursorOf(i) # None
<1>1. fills[i].at \in Nat /\ fills[j].at \in Nat /\ Micros \in Nat \ {0} /\ fills[i].key \in 1..MaxFills
  BY FillFacts, HistoryAssumption
<1>2. MaxFills \in Nat
  BY HistoryAssumption
<1>3. Ms(i) \in Nat /\ Micros * Ms(i) \in Nat /\ Micros * Ms(i) <= fills[i].at /\ Ms(j) \in Nat
  BY <1>1, DivisionFacts DEF Ms
<1>4. Micros * Ms(j) <= fills[i].at => Ms(j) <= Ms(i)
  BY <1>1, DivisionFacts DEF Ms
<1>5. fills[i].at <= fills[j].at => Ms(i) <= Ms(j)
  BY <1>1, DivisionFacts DEF Ms
<1>6. CursorOf(i).at = Micros * Ms(i) /\ CursorOf(i).key = fills[i].key
  BY DEF CursorOf
<1>7. CursorOf(i) \in Cursors
  BY <1>1, <1>2, <1>3 DEF CursorOf, Cursors
<1>8. CursorOf(i) # None
  BY <1>1, <1>2, <1>6 DEF None
<1> QED BY <1>3, <1>4, <1>5, <1>6, <1>7, <1>8

\* Newer is a strict order of the fills.
LEMMA NewerOrders ==
  ASSUME ExchangeFits, FillsInOrder
  PROVE  /\ \A i \in DOMAIN fills : ~Newer(i, i)
         /\ \A i, j \in DOMAIN fills : i # j => Newer(i, j) \/ Newer(j, i)
         /\ \A i, j, k \in DOMAIN fills : Newer(i, j) /\ Newer(j, k) => Newer(i, k)
         /\ \A i, j \in DOMAIN fills : Newer(i, j) => fills[i].at >= fills[j].at
<1>1. \A i \in DOMAIN fills : fills[i].at \in Nat /\ fills[i].key \in Nat
  BY FillFacts
<1>2. \A i, j \in DOMAIN fills : i # j => fills[i].key # fills[j].key
  BY DEF FillsInOrder
<1> QED BY <1>1, <1>2 DEF Newer

LEMMA ViewFacts ==
  ASSUME ExchangeFits, NEW i \in DOMAIN fills, NEW who
  PROVE  /\ Views(i, who) \in Seq(ViewRecords) /\ Distinct(Views(i, who))
         /\ \A v \in Range(Views(i, who)) : v.id = i
         /\ i \in FillsOf(who) => Range(Views(i, who)) # {}
<1> DEFINE m == [id |-> i, role |-> "maker"]
           t == [id |-> i, role |-> "taker"]
<1>1. m \in ViewRecords /\ t \in ViewRecords /\ m # t /\ m.id = i /\ t.id = i
  <2>1. m \in ViewRecords /\ t \in ViewRecords /\ m.id = i /\ t.id = i
    BY DEF ViewRecords
  <2>2. m.role = "maker" /\ t.role = "taker"
    OBVIOUS
  <2>3. "maker" # "taker"
    OBVIOUS
  <2>4. m # t
    BY <2>2, <2>3
  <2> QED BY <2>1, <2>4
<1>2. Views(i, who) = (IF who = owner[fills[i].maker] THEN <<m>> ELSE <<>>)
                      \o (IF who = owner[fills[i].taker] THEN <<t>> ELSE <<>>)
  BY DEF Views
<1> HIDE DEF m, t
<1>3. /\ <<m>> \in Seq(ViewRecords) /\ <<t>> \in Seq(ViewRecords) /\ <<>> \in Seq(ViewRecords)
      /\ Range(<<m>>) = {m} /\ Range(<<t>>) = {t} /\ Range(<<>>) = {}
      /\ Distinct(<<m>>) /\ Distinct(<<t>>) /\ Distinct(<<>>)
  <2>1. <<m>> \in Seq(ViewRecords) /\ <<t>> \in Seq(ViewRecords) /\ <<>> \in Seq(ViewRecords)
    BY <1>1
  <2>2. Range(<<m>>) = {m} /\ Range(<<t>>) = {t} /\ Range(<<>>) = {}
    <3>1. \A x : DOMAIN <<x>> = {1} /\ <<x>>[1] = x
      OBVIOUS
    <3>2. \A x : Range(<<x>>) = {x}
      BY <3>1 DEF Range
    <3>3. Range(<<>>) = {}
      BY DEF Range
    <3> QED BY <3>2, <3>3
  <2>3. Distinct(<<m>>) /\ Distinct(<<t>>) /\ Distinct(<<>>)
    BY DEF Distinct
  <2> QED BY <2>1, <2>2, <2>3
<1>4. PICK a \in Seq(ViewRecords), b \in Seq(ViewRecords) :
         /\ Views(i, who) = a \o b /\ Distinct(a) /\ Distinct(b)
         /\ Range(a) = IF who = owner[fills[i].maker] THEN {m} ELSE {}
         /\ Range(b) = IF who = owner[fills[i].taker] THEN {t} ELSE {}
  BY <1>2, <1>3
<1>5. /\ Views(i, who) \in Seq(ViewRecords) /\ Range(Views(i, who)) = Range(a) \cup Range(b)
      /\ Range(a) \cap Range(b) = {} => Distinct(Views(i, who))
  <2>1. /\ a \o b \in Seq(ViewRecords) /\ Range(a \o b) = Range(a) \cup Range(b)
        /\ Distinct(a) /\ Distinct(b) /\ Range(a) \cap Range(b) = {} => Distinct(a \o b)
    BY ConcatFacts
  <2> QED BY <1>4, <2>1
<1>6. Range(a) \cap Range(b) = {}
  BY <1>1, <1>4
<1>7. i \in FillsOf(who) => who = owner[fills[i].maker] \/ who = owner[fills[i].taker]
  BY DEF FillsOf
<1> QED BY <1>1, <1>4, <1>5, <1>6, <1>7

LEMMA ViewsOfFacts ==
  ASSUME ExchangeFits, NEW list \in Seq(Nat), NEW who,
         Distinct(list), Range(list) \subseteq FillsOf(who)
  PROVE  /\ ViewsOf(list, who) \in Seq(ViewRecords) /\ Distinct(ViewsOf(list, who))
         /\ {v.id : v \in Range(ViewsOf(list, who))} = Range(list)
         /\ \A i \in Range(list) : Range(Views(i, who)) \subseteq Range(ViewsOf(list, who))
<1> DEFINE ss == [n \in DOMAIN list |-> Views(list[n], who)]
<1>1. Len(list) \in Nat /\ DOMAIN list = 1..Len(list)
  OBVIOUS
<1>2. /\ \A n \in 1..Len(list) : list[n] \in Range(list)
      /\ \A i \in Range(list) : \E n \in 1..Len(list) : list[n] = i
  BY <1>1 DEF Range
<1>3. ASSUME NEW n \in 1..Len(list)
      PROVE  /\ list[n] \in FillsOf(who)
             /\ ss[n] = Views(list[n], who) /\ ss[n] \in Seq(ViewRecords) /\ Distinct(ss[n])
             /\ Range(ss[n]) # {} /\ \A v \in Range(ss[n]) : v.id = list[n]
  <2>1. list[n] \in FillsOf(who) /\ list[n] \in DOMAIN fills
    BY <1>2, FillFacts
  <2>2. ss[n] = Views(list[n], who)
    BY <1>1
  <2> HIDE DEF ss
  <2> QED BY <2>1, <2>2, ViewFacts
<1>4. ss \in Seq(Seq(ViewRecords)) /\ Len(ss) = Len(list)
  BY <1>1, <1>3
<1>5. ViewsOf(list, who) = FlattenSeq(ss)
  BY DEF ViewsOf
<1> HIDE DEF ss
<1>6. ASSUME NEW m \in 1..Len(ss), NEW n \in 1..Len(ss), m # n
      PROVE  Range(ss[m]) \cap Range(ss[n]) = {}
  <2>1. list[m] # list[n]
    BY <1>4, <1>6 DEF Distinct
  <2> QED BY <1>3, <1>4, <2>1
<1>7. /\ ViewsOf(list, who) \in Seq(ViewRecords) /\ Distinct(ViewsOf(list, who))
      /\ Range(ViewsOf(list, who)) = UNION {Range(ss[n]) : n \in 1..Len(ss)}
  <2>1. \A n \in 1..Len(ss) : Distinct(ss[n])
    BY <1>3, <1>4
  <2>2. \A m, n \in 1..Len(ss) : m # n => Range(ss[m]) \cap Range(ss[n]) = {}
    BY <1>6
  <2>3. /\ FlattenSeq(ss) \in Seq(ViewRecords) /\ Distinct(FlattenSeq(ss))
        /\ Range(FlattenSeq(ss)) = UNION {Range(ss[n]) : n \in 1..Len(ss)}
    BY <1>4, <2>1, <2>2, FlattenFacts
  <2> QED BY <1>5, <2>3
<1>8. \A i \in Range(list) : Range(Views(i, who)) \subseteq Range(ViewsOf(list, who))
  BY <1>2, <1>3, <1>4, <1>7
<1>9. {v.id : v \in Range(ViewsOf(list, who))} = Range(list)
  <2>1. ASSUME NEW v \in Range(ViewsOf(list, who)) PROVE v.id \in Range(list)
    <3>1. PICK n \in 1..Len(ss) : v \in Range(ss[n])
      BY <1>7
    <3> QED BY <1>2, <1>3, <1>4, <3>1
  <2>2. ASSUME NEW i \in Range(list) PROVE \E v \in Range(ViewsOf(list, who)) : v.id = i
    <3>1. PICK n \in 1..Len(list) : list[n] = i
      BY <1>2
    <3>2. PICK v \in Range(ss[n]) : TRUE
      BY <1>3, <3>1
    <3> QED BY <1>3, <1>4, <1>7, <3>1, <3>2
  <2> QED BY <2>1, <2>2
<1> QED BY <1>7, <1>8, <1>9

\* What the table is asked for comes newest first, each fill once.
LEMMA FoundFacts ==
  ASSUME ExchangeFits, FillsInOrder, NEW S \in SUBSET DOMAIN fills
  PROVE  LET found == Ranked(S, Newer) IN
         /\ found \in Seq(S) /\ Range(found) = S /\ Distinct(found)
         /\ \A m, n \in 1..Len(found) : m < n => Newer(found[m], found[n])
<1> DEFINE found == Ranked(S, Newer)
           B == [i \in S |-> {j \in S : Newer(j, i)}]
<1>1. IsFiniteSet(S)
  <2>1. DOMAIN fills = 1..Len(fills) /\ Len(fills) \in Nat
    BY FillFacts
  <2>2. IsFiniteSet(DOMAIN fills)
    BY <2>1, FS_Interval
  <2> QED BY <2>2, FS_Subset
<1>2. /\ B \in [S -> SUBSET S]
      /\ \A i \in S : i \notin B[i]
      /\ \A i, j \in S : i # j => i \in B[j] \/ j \in B[i]
      /\ \A i, j, k \in S : i \in B[j] /\ j \in B[k] => i \in B[k]
  <2>1. B \in [S -> SUBSET S]
    OBVIOUS
  <2>2. \A i, j \in S : j \in B[i] <=> Newer(j, i)
    OBVIOUS
  <2> HIDE DEF B
  <2> QED BY <2>1, <2>2, NewerOrders
<1>3. found = [n \in 1..Cardinality(S) |-> found[n]]
  <2> DEFINE nth(n) == CHOOSE i \in S : Cardinality({j \in S : Newer(j, i)}) = n - 1
  <2>1. found = [n \in 1..Cardinality(S) |-> nth(n)]
    BY DEF Ranked
  <2> HIDE DEF nth, found
  <2> QED BY <2>1
<1>4. ASSUME NEW n \in 1..Cardinality(S), \E i \in S : Cardinality(B[i]) = n - 1
      PROVE  found[n] \in S /\ Cardinality(B[found[n]]) = n - 1
  <2>1. \A i \in S : B[i] = {j \in S : Newer(j, i)}
    OBVIOUS
  <2>2. found[n] = CHOOSE i \in S : Cardinality({j \in S : Newer(j, i)}) = n - 1
    BY DEF Ranked
  <2>3. \E i \in S : Cardinality({j \in S : Newer(j, i)}) = n - 1
    BY <1>4, <2>1
  <2>4. found[n] \in S /\ Cardinality({j \in S : Newer(j, found[n])}) = n - 1
    BY <2>2, <2>3
  <2> HIDE DEF B
  <2> QED BY <2>1, <2>4
<1> HIDE DEF found, B
<1>5. /\ found \in Seq(S) /\ Len(found) = Cardinality(S) /\ Range(found) = S /\ Distinct(found)
      /\ \A m, n \in 1..Len(found) : m < n => found[m] \in B[found[n]]
  <2>1. RanksOf(S, B, found)
    BY <1>1, <1>2, <1>3, <1>4 DEF RanksOf
  <2> QED BY <2>1, RanksFit
<1>6. \A m, n \in 1..Len(found) : m < n => Newer(found[m], found[n])
  <2> SUFFICES ASSUME NEW m \in 1..Len(found), NEW n \in 1..Len(found), m < n
               PROVE  Newer(found[m], found[n])
    OBVIOUS
  <2>1. found[n] \in S /\ found[m] \in B[found[n]]
    BY <1>5
  <2> QED BY <2>1 DEF B
<1> QED BY <1>5, <1>6 DEF found

LEMMA PageFacts ==
  ASSUME ExchangeFits, FillsInOrder, NEW who, NEW after \in Cursors
  PROVE  LET result == PageOf(who, after) IN
         /\ result.list \in Seq(Nat) /\ result.next \in Cursors /\ PastCursor(result.next)
         /\ Answered(result.list, result.next, who, after)
<1> DEFINE S == {i \in FillsOf(who) : Before(i, after)}
           found == Ranked(S, Newer)
           size == IF Len(found) < PageSize THEN Len(found) ELSE PageSize
           list == SubSeq(found, 1, size)
           next == IF Len(found) > PageSize THEN CursorOf(found[size]) ELSE None
<1>1. PageOf(who, after).list = list /\ PageOf(who, after).next = next
  BY DEF PageOf
<1>2. S \in SUBSET DOMAIN fills /\ DOMAIN fills \subseteq Nat
  BY FillFacts
<1>3. \A i : i \in S <=> i \in FillsOf(who) /\ Before(i, after)
  OBVIOUS
<1> HIDE DEF S
<1>4. /\ found \in Seq(S) /\ Range(found) = S /\ Distinct(found)
      /\ \A m, n \in 1..Len(found) : m < n => Newer(found[m], found[n])
  BY <1>2, FoundFacts
<1> HIDE DEF found
<1>5. Len(found) \in Nat /\ DOMAIN found = 1..Len(found) /\ PageSize \in Nat \ {0}
  BY <1>4, HistoryAssumption
<1>6. /\ size \in 0..Len(found) /\ (Len(found) > PageSize => size = PageSize /\ size \in 1..Len(found))
  <2>1. CASE Len(found) < PageSize
    <3>1. size = Len(found)
      BY <2>1
    <3>2. Len(found) \in Nat /\ PageSize \in Nat \ {0} /\ Len(found) < PageSize
      BY <1>5, <2>1
    <3> HIDE DEF size, list, next
    <3> QED BY <3>1, <3>2
  <2>2. CASE ~(Len(found) < PageSize)
    <3>1. size = PageSize
      BY <2>2
    <3> QED BY <1>5, <2>2, <3>1
  <2> QED BY <2>1, <2>2
<1> HIDE DEF size
<1>7. /\ list \in Seq(S) /\ Len(list) = size /\ \A n \in 1..size : list[n] = found[n]
  <2>1. \A n \in 1..size : found[n] \in S
    BY <1>4, <1>5, <1>6
  <2>2. list = [n \in 1..size |-> found[n]]
    BY <1>4, <1>6
  <2> QED BY <1>6, <2>1, <2>2
<1> HIDE DEF list
<1>8. /\ Range(list) = {found[n] : n \in 1..size} /\ Range(list) \subseteq S
  <2>1. DOMAIN list = 1..size
    BY <1>6, <1>7
  <2> QED BY <1>7, <2>1 DEF Range
<1>9. Distinct(list)
  BY <1>4, <1>6, <1>7 DEF Distinct
<1>10. ASSUME NEW i \in S \ Range(list) PROVE \A k \in Range(list) : Newer(k, i)
  <2>1. PICK n \in 1..Len(found) : found[n] = i
    BY <1>4, <1>5 DEF Range
  <2>2. n > size
    BY <1>5, <1>6, <1>8, <1>10, <2>1
  <2>3. \A m \in 1..size : m \in 1..Len(found) /\ m < n
    BY <1>5, <1>6, <2>2
  <2> QED BY <1>4, <1>8, <2>1, <2>3
<1>11. CASE Len(found) > PageSize
  <2>1. found[size] \in Range(list) /\ next = CursorOf(found[size]) /\ found[size] \in DOMAIN fills
    BY <1>2, <1>6, <1>8, <1>11
  <2>2. \A k \in Range(list) : k = found[size] \/ Newer(k, found[size])
    <3> SUFFICES ASSUME NEW n \in 1..size, n # size PROVE Newer(found[n], found[size])
      BY <1>8
    <3>1. n \in 1..Len(found) /\ size \in 1..Len(found) /\ n < size
      BY <1>5, <1>6, <1>11
    <3> QED BY <1>4, <3>1
  <2>3. next \in Cursors /\ PastCursor(next)
    BY <2>1, MsFacts DEF PastCursor
  <2>4. \E j \in Range(list) : next = CursorOf(j) /\ Oldest(j, Range(list))
    BY <2>1, <2>2 DEF Oldest
  <2> HIDE DEF next
  <2>5. Answered(list, next, who, after)
    BY <1>3, <1>8, <1>9, <1>10, <2>4 DEF Answered
  <2>6. list \in Seq(Nat)
    BY <1>2, <1>7
  <2> QED BY <1>1, <2>3, <2>5, <2>6
<1>12. CASE ~(Len(found) > PageSize)
  <2>1. next = None
    BY <1>12
  <2>2. next \in Cursors /\ PastCursor(next)
    <3>1. MaxFills \in Nat
      BY HistoryAssumption
    <3> QED BY <2>1, <3>1 DEF None, Cursors, PastCursor
  <2> HIDE DEF next
  <2>3. Answered(list, next, who, after)
    BY <1>3, <1>8, <1>9, <1>10, <2>1 DEF Answered
  <2>4. list \in Seq(Nat)
    BY <1>2, <1>7
  <2> QED BY <1>1, <2>2, <2>3, <2>4
<1> QED BY <1>11, <1>12

\* A page goes under the list: what is on screen stays, and nothing is there twice.
LEMMA ExtendedFacts ==
  ASSUME NEW A, state.fills \in Seq(A), NEW views \in Seq(A), Distinct(state.fills), Distinct(views),
         \A v \in A : Ms(v.id) \in Int
  PROVE  /\ Extended(views) \in Seq(A) /\ Distinct(Extended(views))
         /\ Range(Extended(views)) = Range(state.fills) \cup Range(views)
<1> DEFINE L == Len(state.fills)
           all == state.fills \o views
           kept == {n \in DOMAIN all : n <= L \/ all[n] \notin Range(state.fills)}
           ahead(m, n) == Ms(all[m].id) > Ms(all[n].id) \/ (Ms(all[m].id) = Ms(all[n].id) /\ m < n)
           order == Ranked(kept, ahead)
           B == [i \in kept |-> {j \in kept : ahead(j, i)}]
           e == [n \in DOMAIN order |-> all[order[n]]]
<1>1. Extended(views) = e
  BY DEF Extended
<1>2. /\ all \in Seq(A) /\ L \in Nat /\ Len(views) \in Nat /\ Len(all) = L + Len(views)
      /\ DOMAIN all = 1..L + Len(views)
      /\ \A i \in 1..L + Len(views) : all[i] = IF i <= L THEN state.fills[i] ELSE views[i - L]
  BY ConcatProperties
<1>3. /\ DOMAIN state.fills = 1..L /\ DOMAIN views = 1..Len(views)
  OBVIOUS
<1>4. \A n \in kept : n \in 1..L + Len(views) /\ n \in Int /\ all[n] \in A /\ Ms(all[n].id) \in Int
  BY <1>2
<1>5. IsFiniteSet(kept)
  <2>1. IsFiniteSet(1..L + Len(views))
    BY <1>2, FS_Interval
  <2>2. kept \in SUBSET (1..L + Len(views))
    BY <1>4
  <2> HIDE DEF kept
  <2> QED BY <2>1, <2>2, FS_Subset
<1>6. \A n \in 1..L + Len(views) : n \in kept <=> n <= L \/ all[n] \notin Range(state.fills)
  BY <1>2
<1> HIDE DEF all, kept, L
<1>7. /\ B \in [kept -> SUBSET kept]
      /\ \A i \in kept : i \notin B[i]
      /\ \A i, j \in kept : i # j => i \in B[j] \/ j \in B[i]
      /\ \A i, j, k \in kept : i \in B[j] /\ j \in B[k] => i \in B[k]
  <2>1. B \in [kept -> SUBSET kept]
    OBVIOUS
  <2>2. \A i, j \in kept : j \in B[i] <=> ahead(j, i)
    OBVIOUS
  <2>3. \A i \in kept : ~ahead(i, i)
    BY <1>4
  <2>4. \A i, j \in kept : i # j => ahead(i, j) \/ ahead(j, i)
    BY <1>4
  <2>5. \A i, j, k \in kept : ahead(i, j) /\ ahead(j, k) => ahead(i, k)
    BY <1>4
  <2> HIDE DEF B, ahead
  <2> QED BY <2>1, <2>2, <2>3, <2>4, <2>5
<1>8. order = [n \in 1..Cardinality(kept) |-> order[n]]
  <2> DEFINE nth(n) == CHOOSE i \in kept : Cardinality({j \in kept : ahead(j, i)}) = n - 1
  <2>1. order = [n \in 1..Cardinality(kept) |-> nth(n)]
    BY DEF Ranked
  <2> HIDE DEF nth, order
  <2> QED BY <2>1
<1>9. ASSUME NEW n \in 1..Cardinality(kept), \E i \in kept : Cardinality(B[i]) = n - 1
      PROVE  order[n] \in kept /\ Cardinality(B[order[n]]) = n - 1
  <2>1. \A i \in kept : B[i] = {j \in kept : ahead(j, i)}
    OBVIOUS
  <2>2. order[n] = CHOOSE i \in kept : Cardinality({j \in kept : ahead(j, i)}) = n - 1
    BY DEF Ranked
  <2> HIDE DEF ahead
  <2>3. \E i \in kept : Cardinality({j \in kept : ahead(j, i)}) = n - 1
    BY <1>9, <2>1
  <2> HIDE DEF B, order
  <2>4. order[n] \in kept /\ Cardinality({j \in kept : ahead(j, order[n])}) = n - 1
    BY <2>2, <2>3
  <2> QED BY <2>1, <2>4
<1> HIDE DEF order, B
<1>10. /\ order \in Seq(kept) /\ Len(order) = Cardinality(kept) /\ Range(order) = kept
       /\ Distinct(order) /\ \A m, n \in 1..Len(order) : m < n => order[m] \in B[order[n]]
  <2> HIDE DEF ahead, e
  <2>1. RanksOf(kept, B, order)
    BY <1>5, <1>7, <1>8, <1>9 DEF RanksOf
  <2> QED BY <2>1, RanksFit
<1>11. /\ Len(order) \in Nat /\ DOMAIN order = 1..Len(order)
       /\ \A n \in 1..Len(order) : order[n] \in kept /\ e[n] = all[order[n]]
       /\ \A i \in kept : \E n \in 1..Len(order) : order[n] = i
  BY <1>10 DEF Range
<1>12. e \in Seq(A) /\ Len(e) = Len(order) /\ DOMAIN e = 1..Len(order)
  BY <1>4, <1>11
<1> HIDE DEF e
<1>13. \A i, j \in kept : i # j => all[i] # all[j]
  <2> SUFFICES ASSUME NEW i \in kept, NEW j \in kept, i < j PROVE all[i] # all[j]
    BY <1>4
  <2>0. i \in 1..L + Len(views) /\ j \in 1..L + Len(views)
    BY <1>4
  <2>1. CASE j <= L
    <3>1. i \in 1..L /\ j \in 1..L /\ all[i] = state.fills[i] /\ all[j] = state.fills[j]
      BY <1>2, <2>0, <2>1
    <3> QED BY <3>1 DEF Distinct, L
  <2>2. CASE i > L
    <3>1. i - L \in 1..Len(views) /\ j - L \in 1..Len(views) /\ i - L # j - L
      BY <1>2, <2>0, <2>2
    <3>2. all[i] = views[i - L] /\ all[j] = views[j - L]
      BY <1>2, <2>0, <2>2
    <3> QED BY <3>1, <3>2 DEF Distinct
  <2>3. CASE i <= L /\ j > L
    <3>1. all[i] = state.fills[i] /\ i \in 1..L /\ all[j] \notin Range(state.fills)
      BY <1>2, <1>6, <2>0, <2>3
    <3>2. state.fills[i] \in Range(state.fills)
      BY <1>3, <3>1 DEF Range
    <3> QED BY <3>1, <3>2
  <2> QED BY <1>2, <2>0, <2>1, <2>2, <2>3
<1>14. Distinct(e)
  <2> SUFFICES ASSUME NEW m \in 1..Len(order), NEW n \in 1..Len(order), m # n PROVE e[m] # e[n]
    BY <1>12 DEF Distinct
  <2>1. order[m] # order[n]
    BY <1>10 DEF Distinct
  <2> QED BY <1>11, <1>13, <2>1
<1>15. Range(e) = {all[i] : i \in kept}
  <2>1. Range(e) = {e[n] : n \in 1..Len(order)}
    BY <1>12 DEF Range
  <2>2. \A n \in 1..Len(order) : order[n] \in kept /\ e[n] = all[order[n]]
    BY <1>11
  <2>3. \A i \in kept : \E n \in 1..Len(order) : e[n] = all[i]
    BY <1>11
  <2> QED BY <2>1, <2>2, <2>3
<1>16. {all[i] : i \in kept} = Range(state.fills) \cup Range(views)
  <2>1. ASSUME NEW i \in kept PROVE all[i] \in Range(state.fills) \cup Range(views)
    <3>1. CASE i <= L
      <4>1. i \in 1..L /\ all[i] = state.fills[i]
        BY <1>2, <1>4, <3>1
      <4> QED BY <1>3, <4>1 DEF Range
    <3>2. CASE i > L
      <4>1. i - L \in 1..Len(views) /\ all[i] = views[i - L]
        BY <1>2, <1>4, <3>2
      <4> QED BY <1>3, <4>1 DEF Range
    <3> QED BY <1>2, <1>4, <3>1, <3>2
  <2>2. ASSUME NEW v \in Range(state.fills) PROVE \E i \in kept : all[i] = v
    <3>1. PICK i \in 1..L : state.fills[i] = v
      BY <1>3 DEF Range
    <3>2. i \in 1..L + Len(views) /\ i <= L
      BY <1>2
    <3> QED BY <1>2, <1>6, <3>1, <3>2
  <2>3. ASSUME NEW v \in Range(views), v \notin Range(state.fills) PROVE \E i \in kept : all[i] = v
    <3>1. PICK i \in 1..Len(views) : views[i] = v
      BY <1>3 DEF Range
    <3> DEFINE j == L + i
    <3>2. j \in 1..L + Len(views) /\ ~(j <= L) /\ j - L = i
      BY <1>2
    <3> HIDE DEF j
    <3>3. all[j] = v
      BY <1>2, <3>1, <3>2
    <3> QED BY <1>6, <2>3, <3>2, <3>3
  <2> QED BY <2>1, <2>2, <2>3
<1> QED BY <1>1, <1>12, <1>14, <1>15, <1>16

-----------------------------------------------------------------------------
(* The steps of the exchange.                                              *)

\* What an exchange step may do to a tab that is in use: the table grows at its newest end.
Grows ==
  /\ table \subseteq table'
  /\ \A i \in DOMAIN fills : i \in DOMAIN fills' /\ fills'[i] = fills[i]
  /\ \A o \in Placed : owner'[o] = owner[o]
  /\ \A i \in table' \ table : i \in DOMAIN fills' \ DOMAIN fills
  /\ \A i \in DOMAIN fills' \ DOMAIN fills, j \in DOMAIN fills : fills'[i].at > fills[j].at

LEMMA BotsAreNobodyElse ==
  /\ \A who \in Traders \cup {Bots} : who \in Accounts \cup {Bots, Nobody} /\ who # Nobody
  /\ Bots \notin Accounts
  BY HistoryAssumption

\* A new order disturbs none of those that are there.
LEMMA NewOrderKeeps ==
  ASSUME ExchangeInvariant, NEW o \in Orders, NEW who \in Traders \cup {Bots}, owner[o] = Nobody,
         owner' = [owner EXCEPT ![o] = who], rows' = [rows EXCEPT ![o] = "open"],
         UNCHANGED <<fills, table, stuck, up, tab>>,
         book' \subseteq Placed \cup {o}, IsFiniteSet(book'), BacklogFits'
  PROVE  ExchangeInvariant' /\ Grows
<1> USE DEF ExchangeInvariant
<1>1. /\ owner \in [Orders -> Accounts \cup {Bots, Nobody}] /\ rows \in [Orders -> {"none", "open", "closed"}]
      /\ who \in Accounts \cup {Bots, Nobody} /\ who # Nobody
  BY BotsAreNobodyElse DEF ExchangeFits
<1>2. /\ owner' \in [Orders -> Accounts \cup {Bots, Nobody}] /\ rows' \in [Orders -> {"none", "open", "closed"}]
      /\ \A p \in Orders : p # o => owner'[p] = owner[p] /\ rows'[p] = rows[p]
      /\ owner'[o] = who /\ rows'[o] = "open"
  BY <1>1
<1>3. Placed' = Placed \cup {o} /\ \A p \in Placed : p \in Orders /\ p # o
  BY <1>1, <1>2 DEF Placed
<1>4. /\ fills' = fills /\ table' = table /\ stuck' = stuck /\ up' = up
      /\ account' = account /\ activated' = activated
  BY DEF tab
<1>5. ExchangeFits'
  <2>1. ExchangeFits
    OBVIOUS
  <2> QED BY <1>2, <1>3, <1>4, <2>1 DEF ExchangeFits
<1>6. FillsInOrder' /\ UpWhileUsed'
  BY <1>4 DEF FillsInOrder, UpWhileUsed
<1>7. HumanTradesSurvive'
  <2>1. \A i \in DOMAIN fills : fills[i].maker \in Placed /\ fills[i].taker \in Placed
    BY DEF ExchangeFits
  <2> SUFFICES ASSUME NEW i \in DOMAIN fills,
                      {owner'[fills[i].maker], owner'[fills[i].taker]} \cap Accounts # {}
               PROVE  i \in table /\ rows'[fills[i].maker] # "none" /\ rows'[fills[i].taker] # "none"
    BY <1>4 DEF HumanTradesSurvive
  <2>2. i \in table /\ rows[fills[i].maker] # "none" /\ rows[fills[i].taker] # "none"
    BY <1>2, <1>3, <2>1 DEF HumanTradesSurvive
  <2> QED BY <1>2, <1>3, <2>1, <2>2
<1>8. Grows
  BY <1>2, <1>3, <1>4 DEF Grows
<1> QED BY <1>5, <1>6, <1>7, <1>8

LEMMA PlaceKeeps ==
  ASSUME ExchangeInvariant, NEW o \in Orders, NEW who \in Traders \cup {Bots}, Place(o, who)
  PROVE  ExchangeInvariant' /\ Grows
<1>1. /\ owner[o] = Nobody /\ owner' = [owner EXCEPT ![o] = who] /\ rows' = [rows EXCEPT ![o] = "open"]
      /\ UNCHANGED <<fills, table, stuck, up, tab>> /\ backlog' = backlog
      /\ book' = book \cup {o}
  BY DEF Place, Unused
<1>2. book' \subseteq Placed \cup {o} /\ IsFiniteSet(book')
  BY <1>1, FS_AddElement DEF ExchangeInvariant, ExchangeFits
<1>3. Placed \subseteq Placed'
  BY <1>1, BotsAreNobodyElse DEF Placed, ExchangeInvariant, ExchangeFits
<1>4. BacklogFits'
  <2>1. BacklogFits
    BY DEF ExchangeInvariant, ExchangeFits
  <2>2. CASE backlog = <<>>
    BY <1>1, <2>2 DEF BacklogFits
  <2>3. CASE backlog # <<>>
    <3>1. PICK taker \in Placed, makers \in SUBSET Placed : \E rest \in SUBSET makers :
            /\ backlog = <<[taker |-> taker, makers |-> makers, rest |-> rest]>>
            /\ IsFiniteSet(makers)
      BY <2>1, <2>3 DEF BacklogFits
    <3>2. taker \in Placed' /\ makers \in SUBSET Placed'
      BY <1>3
    <3> QED BY <1>1, <3>1, <3>2 DEF BacklogFits
  <2> QED BY <2>2, <2>3
<1> QED BY <1>1, <1>2, <1>4, NewOrderKeeps

LEMMA SweepKeeps ==
  ASSUME ExchangeInvariant, NEW o \in Orders, NEW who \in Traders \cup {Bots},
         NEW makers \in SUBSET book, NEW rest \in SUBSET makers, Sweep(o, who, makers, rest)
  PROVE  ExchangeInvariant' /\ Grows
<1>1. /\ owner[o] = Nobody /\ owner' = [owner EXCEPT ![o] = who] /\ rows' = [rows EXCEPT ![o] = "open"]
      /\ UNCHANGED <<fills, table, stuck, up, tab>>
      /\ book' = (book \ makers) \cup rest
      /\ backlog' = <<[taker |-> o, makers |-> makers, rest |-> rest]>>
  BY DEF Sweep, Unused
<1>2. book \subseteq Placed /\ IsFiniteSet(book)
  BY DEF ExchangeInvariant, ExchangeFits
<1>3. book' \subseteq Placed \cup {o} /\ IsFiniteSet(book')
  <2>1. book' \in SUBSET book
    BY <1>1
  <2> QED BY <1>2, <2>1, FS_Subset
<1>4. Placed \cup {o} \subseteq Placed'
  BY <1>1, BotsAreNobodyElse DEF Placed, ExchangeInvariant, ExchangeFits
<1>5. BacklogFits'
  <2>1. IsFiniteSet(makers)
    BY <1>2, FS_Subset
  <2>2. o \in Placed' /\ makers \in SUBSET Placed' /\ rest \in SUBSET makers
    BY <1>2, <1>4
  <2> QED BY <1>1, <2>1, <2>2 DEF BacklogFits
<1> QED BY <1>1, <1>3, <1>5, NewOrderKeeps

LEMMA SwitchKeeps ==
  ASSUME ExchangeInvariant, Switch
  PROVE  ExchangeInvariant' /\ Grows
<1>1. /\ UNCHANGED <<book, backlog, owner, rows, fills, table, stuck, account, activated>>
      /\ account = Unknown /\ ~activated /\ up' = ~up
  BY DEF Switch, tab
<1>2. ExchangeFits'
  <2>1. ExchangeFits
    BY DEF ExchangeInvariant
  <2>2. BacklogFits'
    BY <1>1, <2>1 DEF ExchangeFits, BacklogFits, Placed
  <2> QED BY <1>1, <2>1, <2>2 DEF ExchangeFits, Placed
<1>3. FillsInOrder' /\ HumanTradesSurvive' /\ UpWhileUsed'
  BY <1>1 DEF ExchangeInvariant, FillsInOrder, HumanTradesSurvive, UpWhileUsed
<1>4. Grows
  BY <1>1 DEF Grows
<1> QED BY <1>2, <1>3, <1>4 DEF ExchangeInvariant

\* A pruned fill has bots on both sides, and a pruned row has no fill that stays.
LEMMA PruneKeeps ==
  ASSUME ExchangeInvariant, Prune
  PROVE  ExchangeInvariant' /\ ~up
<1>1. /\ ~up /\ table' = table \ Noise
      /\ rows' = [o \in Orders |-> IF o \in Orphans THEN "none" ELSE rows[o]]
      /\ UNCHANGED <<book, backlog, owner, fills, stuck, up, account, activated>>
  BY DEF Prune, tab
<1>2. ExchangeFits'
  <2>1. ExchangeFits
    BY DEF ExchangeInvariant
  <2>2. BacklogFits'
    BY <1>1, <2>1 DEF ExchangeFits, BacklogFits, Placed
  <2>3. rows' \in [Orders -> {"none", "open", "closed"}] /\ table' \subseteq DOMAIN fills
    BY <1>1, <2>1 DEF ExchangeFits
  <2> QED BY <1>1, <2>1, <2>2, <2>3 DEF ExchangeFits, Placed
<1>3. FillsInOrder' /\ UpWhileUsed'
  BY <1>1 DEF ExchangeInvariant, FillsInOrder, UpWhileUsed
<1>4. HumanTradesSurvive'
  <2> SUFFICES ASSUME NEW i \in DOMAIN fills,
                      {owner[fills[i].maker], owner[fills[i].taker]} \cap Accounts # {}
               PROVE  i \in table' /\ rows'[fills[i].maker] # "none" /\ rows'[fills[i].taker] # "none"
    BY <1>1 DEF HumanTradesSurvive
  <2>1. i \in table /\ rows[fills[i].maker] # "none" /\ rows[fills[i].taker] # "none"
    BY DEF ExchangeInvariant, HumanTradesSurvive
  <2>2. i \notin Noise
    BY BotsAreNobodyElse DEF Noise
  <2>3. fills[i].maker \notin Orphans /\ fills[i].taker \notin Orphans
    BY <2>1, <2>2 DEF Orphans
  <2>4. fills[i].maker \in Orders /\ fills[i].taker \in Orders
    BY DEF ExchangeInvariant, ExchangeFits, Placed
  <2> QED BY <1>1, <2>1, <2>2, <2>3, <2>4
<1> QED BY <1>1, <1>2, <1>3, <1>4 DEF ExchangeInvariant

LEMMA SetToSeqFacts ==
  ASSUME NEW S, IsFiniteSet(S)
  PROVE  /\ SetToSeq(S) \in [1..Cardinality(S) -> S] /\ Cardinality(S) \in Nat
         /\ DOMAIN SetToSeq(S) = 1..Cardinality(S)
<1>1. Cardinality(S) \in Nat /\ ExistsBijection(1..Cardinality(S), S)
  BY FS_CardinalityType
<1>2. \E g \in [1..Cardinality(S) -> S] : IsInjective(g)
  BY <1>1 DEF ExistsBijection, Bijection, Injection
<1> QED BY <1>1, <1>2 DEF SetToSeq

\* What the transaction writes.
Wrote(taker, makers, at, seq, keys) ==
  /\ fills' = fills \o [n \in DOMAIN seq |->
       [maker |-> seq[n], taker |-> taker, at |-> at, key |-> keys[Len(fills) + 1 + n - 1]]]
  /\ table' = table \cup (Len(fills) + 1)..(Len(fills) + Cardinality(makers))

LEMMA WroteFacts ==
  ASSUME ExchangeInvariant, NEW taker \in Placed, NEW makers \in SUBSET Placed, IsFiniteSet(makers),
         NEW at \in Nat, \A i \in DOMAIN fills : at > fills[i].at, at > 0,
         NEW seq, seq = SetToSeq(makers),
         NEW keys \in [(Len(fills) + 1)..(Len(fills) + Cardinality(makers)) -> 1..MaxFills],
         Wrote(taker, makers, at, seq, keys)
  PROVE  /\ fills' \in Seq(FillRecords)
         /\ DOMAIN fills' = 1..(Len(fills) + Cardinality(makers)) /\ Cardinality(makers) \in Nat
         /\ table' = table \cup (Len(fills) + 1)..(Len(fills) + Cardinality(makers))
         /\ \A i \in DOMAIN fills : fills'[i] = fills[i]
         /\ \A i \in (Len(fills) + 1)..(Len(fills) + Cardinality(makers)) :
              /\ fills'[i].maker \in makers /\ fills'[i].taker = taker
              /\ fills'[i].at = at /\ fills'[i].key = keys[i]
<1> DEFINE L == Len(fills)
           c == Cardinality(makers)
           rec(n) == [maker |-> seq[n], taker |-> taker, at |-> at, key |-> keys[L + 1 + n - 1]]
           new == [n \in DOMAIN seq |-> rec(n)]
<1>1. L \in Nat /\ DOMAIN fills = 1..L /\ fills \in Seq(FillRecords)
  BY FillFacts DEF ExchangeInvariant, ExchangeFits
<1>2. c \in Nat /\ DOMAIN seq = 1..c /\ \A n \in 1..c : seq[n] \in makers
  BY SetToSeqFacts
<1>3. keys \in [(L + 1)..(L + c) -> 1..MaxFills]
  OBVIOUS
<1>4. fills' = fills \o new /\ table' = table \cup (L + 1)..(L + c)
  BY DEF Wrote
<1> HIDE DEF L, c
<1>5. \A n \in 1..c : L + 1 + n - 1 = L + n /\ L + n \in (L + 1)..(L + c)
  BY <1>1, <1>2
<1>6. \A n \in 1..c : rec(n) \in FillRecords
  <2> SUFFICES ASSUME NEW n \in 1..c PROVE rec(n) \in FillRecords
    OBVIOUS
  <2>1. seq[n] \in Orders /\ taker \in Orders /\ at \in Nat \ {0}
    BY <1>2 DEF Placed
  <2>2. keys[L + 1 + n - 1] \in 1..MaxFills
    BY <1>3, <1>5
  <2> QED BY <2>1, <2>2 DEF FillRecords
<1>7. new \in Seq(FillRecords) /\ Len(new) = c /\ \A n \in 1..c : new[n] = rec(n)
  <2>1. new = [n \in 1..c |-> rec(n)]
    BY <1>2
  <2> HIDE DEF new, rec
  <2> QED BY <1>2, <1>6, <2>1
<1>8. \A n \in 1..c : /\ new[n].maker = seq[n] /\ new[n].taker = taker /\ new[n].at = at
                      /\ new[n].key = keys[L + n]
  BY <1>5, <1>7
<1> HIDE DEF new, rec
<1>9. /\ fills' \in Seq(FillRecords) /\ Len(fills') = L + c
      /\ \A i \in 1..(L + c) : fills'[i] = IF i <= L THEN fills[i] ELSE new[i - L]
  <2>1. /\ fills \o new \in Seq(FillRecords) /\ Len(fills \o new) = L + c
        /\ \A i \in 1..(L + c) : (fills \o new)[i] = IF i <= L THEN fills[i] ELSE new[i - L]
    BY <1>1, <1>7, ConcatProperties DEF L
  <2> QED BY <1>4, <2>1
<1>10. DOMAIN fills' = 1..(L + c)
  BY <1>1, <1>2, <1>9
<1>11. \A i \in 1..L : fills'[i] = fills[i]
  BY <1>1, <1>2, <1>9
<1>12. ASSUME NEW i \in (L + 1)..(L + c)
       PROVE  /\ fills'[i].maker \in makers /\ fills'[i].taker = taker
              /\ fills'[i].at = at /\ fills'[i].key = keys[i]
  <2> DEFINE n == i - L
  <2>1. n \in 1..c /\ L + n = i /\ i \in 1..(L + c) /\ ~(i <= L)
    BY <1>1, <1>2
  <2>2. fills'[i] = new[n]
    BY <1>9, <2>1
  <2> HIDE DEF n
  <2>3. /\ new[n].maker = seq[n] /\ new[n].taker = taker /\ new[n].at = at
        /\ new[n].key = keys[L + n] /\ seq[n] \in makers
    BY <1>2, <1>8, <2>1
  <2> QED BY <2>1, <2>2, <2>3
<1> QED BY <1>1, <1>2, <1>4, <1>9, <1>10, <1>11, <1>12 DEF L, c

\* A transaction adds fills that are newer than all others, with ids that none has.
LEMMA WriteKeeps ==
  ASSUME ExchangeInvariant, Write
  PROVE  ExchangeInvariant' /\ Grows
<1> USE DEF ExchangeInvariant
<1>1. /\ up /\ backlog # <<>>
      /\ book' = book /\ owner' = owner /\ up' = up /\ account' = account /\ activated' = activated
  BY DEF Write, tab
<1> DEFINE taker == backlog[1].taker
           makers == backlog[1].makers
           rest == backlog[1].rest
           orders == makers \cup {taker}
           L == Len(fills)
           c == Cardinality(makers)
<1>2. taker \in Placed /\ makers \in SUBSET Placed /\ IsFiniteSet(makers)
  <2>1. PICK t \in Placed, m \in SUBSET Placed : \E r \in SUBSET m :
          backlog = <<[taker |-> t, makers |-> m, rest |-> r]>> /\ IsFiniteSet(m)
    BY <1>1 DEF ExchangeFits, BacklogFits
  <2>2. taker = t /\ makers = m
    BY <2>1
  <2> QED BY <2>1, <2>2
<1>4. CASE \E o \in orders : rows[o] = "none"
  <2>1. UNCHANGED <<backlog, rows, fills, table>> /\ stuck' = TRUE
    BY <1>4 DEF Write
  <2>2. ExchangeFits'
    <3>1. ExchangeFits
      OBVIOUS
    <3>2. BacklogFits'
      BY <1>1, <2>1, <3>1 DEF ExchangeFits, BacklogFits, Placed
    <3> QED BY <1>1, <2>1, <3>1, <3>2 DEF ExchangeFits, Placed
  <2>3. FillsInOrder' /\ HumanTradesSurvive' /\ UpWhileUsed'
    BY <1>1, <2>1 DEF FillsInOrder, HumanTradesSurvive, UpWhileUsed
  <2>4. Grows
    BY <1>1, <2>1 DEF Grows
  <2> QED BY <2>2, <2>3, <2>4
<1>5. CASE ~(\E o \in orders : rows[o] = "none")
  <2>1. PICK at \in {IF fills = <<>> THEN d ELSE fills[Len(fills)].at + d : d \in 1..Micros},
             keys \in {k \in [(L + 1)..(L + c) -> 1..MaxFills] : \A i \in (L + 1)..(L + c) :
                        /\ \A j \in DOMAIN fills : fills[j].key # k[i]
                        /\ \A j \in (L + 1)..(L + c) : i # j => k[i] # k[j]} :
            /\ Wrote(taker, makers, at, SetToSeq(makers), keys)
            /\ rows' = [o \in Orders |-> IF o \in orders \ rest THEN "closed" ELSE rows[o]]
            /\ backlog' = <<>> /\ UNCHANGED stuck
    <3> DEFINE first == Len(fills) + 1
               last == Len(fills) + Cardinality(makers)
    <3>1. PICK at \in {IF fills = <<>> THEN d ELSE fills[Len(fills)].at + d : d \in 1..Micros},
               seq \in {SetToSeq(makers)},
               keys \in {k \in [first..last -> 1..MaxFills] : \A i \in first..last :
                          /\ \A j \in DOMAIN fills : fills[j].key # k[i]
                          /\ \A j \in first..last : i # j => k[i] # k[j]} :
              /\ fills' = fills \o [n \in DOMAIN seq |->
                   [maker |-> seq[n], taker |-> taker, at |-> at, key |-> keys[first + n - 1]]]
              /\ table' = table \cup first..last
              /\ rows' = [o \in Orders |-> IF o \in orders \ rest THEN "closed" ELSE rows[o]]
              /\ backlog' = <<>> /\ UNCHANGED stuck
      BY <1>5 DEF Write
    <3>2. Wrote(taker, makers, at, SetToSeq(makers), keys)
      BY <3>1 DEF Wrote
    <3> QED BY <3>1, <3>2
  <2> HIDE DEF L, c, makers, taker, rest
  <2>2. L \in Nat /\ DOMAIN fills = 1..L /\ \A i \in DOMAIN fills : fills[i].at \in Nat
    BY FillFacts DEF L
  <2>3. at \in Nat /\ at > 0 /\ \A i \in DOMAIN fills : at > fills[i].at
    <3>1. PICK d \in 1..Micros : at = IF fills = <<>> THEN d ELSE fills[L].at + d
      BY <2>1 DEF L
    <3>2. d \in Nat /\ d > 0
      BY HistoryAssumption
    <3>3. CASE fills = <<>>
      <4>1. DOMAIN fills = {} /\ at = d
        BY <3>1, <3>3
      <4> QED BY <3>2, <4>1
    <3>4. CASE fills # <<>>
      <4>1. L \in 1..L /\ L \in DOMAIN fills
        <5>1. fills \in Seq(FillRecords)
          BY DEF ExchangeFits
        <5>2. L # 0
          BY <3>4, <5>1 DEF L
        <5> QED BY <2>2, <5>2
      <4>2. \A i \in DOMAIN fills : i # L => i < L
        BY <2>2
      <4>3. \A i \in DOMAIN fills : fills[i].at <= fills[L].at
        BY <2>2, <4>1, <4>2 DEF FillsInOrder
      <4>4. fills[L].at \in Nat /\ at = fills[L].at + d
        BY <2>2, <3>1, <3>4, <4>1
      <4>5. at \in Nat /\ at > 0 /\ at > fills[L].at
        BY <3>2, <4>4
      <4> QED BY <2>2, <4>3, <4>4, <4>5
    <3> QED BY <3>3, <3>4
  <2>4. /\ keys \in [(L + 1)..(L + c) -> 1..MaxFills]
        /\ \A i \in (L + 1)..(L + c), j \in DOMAIN fills : fills[j].key # keys[i]
        /\ \A i, j \in (L + 1)..(L + c) : i # j => keys[i] # keys[j]
    BY <2>1
  <2>5. /\ fills' \in Seq(FillRecords) /\ DOMAIN fills' = 1..(L + c) /\ c \in Nat
        /\ table' = table \cup (L + 1)..(L + c)
        /\ \A i \in DOMAIN fills : fills'[i] = fills[i]
        /\ \A i \in (L + 1)..(L + c) : /\ fills'[i].maker \in makers /\ fills'[i].taker = taker
                                       /\ fills'[i].at = at /\ fills'[i].key = keys[i]
    BY <1>2, <2>1, <2>3, <2>4, WroteFacts DEF L, c
  <2>6. /\ \A i : i \in DOMAIN fills' <=> i \in DOMAIN fills \/ i \in (L + 1)..(L + c)
        /\ \A i \in DOMAIN fills : i \notin (L + 1)..(L + c)
        /\ \A i \in DOMAIN fills, j \in (L + 1)..(L + c) : i < j
    BY <2>2, <2>5
  <2>7. Grows
    <3>1. table \subseteq DOMAIN fills
      BY DEF ExchangeFits
    <3>2. \A i \in DOMAIN fills' \ DOMAIN fills : fills'[i].at = at
      BY <2>5, <2>6
    <3> QED BY <1>1, <2>3, <2>5, <2>6, <3>1, <3>2 DEF Grows
  <2>8. FillsInOrder'
    <3> SUFFICES ASSUME NEW i \in DOMAIN fills', NEW j \in DOMAIN fills'
                 PROVE  /\ i < j => fills'[i].at <= fills'[j].at
                        /\ i # j => fills'[i].key # fills'[j].key
      BY DEF FillsInOrder
    <3>1. CASE i \in DOMAIN fills /\ j \in DOMAIN fills
      BY <2>5, <3>1 DEF FillsInOrder
    <3>2. CASE i \in DOMAIN fills /\ j \in (L + 1)..(L + c)
      <4>1. fills'[i] = fills[i] /\ fills'[j].at = at /\ fills'[j].key = keys[j]
        BY <2>5, <3>2
      <4>2. fills[i].at \in Nat /\ at > fills[i].at /\ fills[i].key # keys[j]
        BY <2>2, <2>3, <2>4, <3>2
      <4> QED BY <2>3, <4>1, <4>2
    <3>3. CASE i \in (L + 1)..(L + c) /\ j \in DOMAIN fills
      <4>1. fills'[j] = fills[j] /\ fills'[i].key = keys[i] /\ j < i
        BY <2>5, <2>6, <3>3
      <4>2. fills[j].key # keys[i]
        BY <2>4, <3>3
      <4>3. i \in Nat /\ j \in Nat
        BY <2>2, <2>5, <3>3
      <4> QED BY <4>1, <4>2, <4>3
    <3>4. CASE i \in (L + 1)..(L + c) /\ j \in (L + 1)..(L + c)
      BY <2>3, <2>4, <2>5, <3>4
    <3> QED BY <2>6, <3>1, <3>2, <3>3, <3>4
  <2>9. \A o \in Placed : o \in Orders /\ (rows'[o] = rows[o] \/ rows'[o] = "closed")
    BY <2>1 DEF Placed
  <2>10. rows' \in [Orders -> {"none", "open", "closed"}]
    BY <2>1 DEF ExchangeFits
  <2>11. \A i \in DOMAIN fills' : fills'[i].maker \in Placed /\ fills'[i].taker \in Placed
    <3>1. \A i \in DOMAIN fills : fills'[i].maker \in Placed /\ fills'[i].taker \in Placed
      BY <2>5 DEF ExchangeFits
    <3>2. \A i \in (L + 1)..(L + c) : fills'[i].maker \in Placed /\ fills'[i].taker \in Placed
      BY <1>2, <2>5
    <3> QED BY <2>6, <3>1, <3>2
  <2>12. ExchangeFits'
    <3>1. ExchangeFits
      OBVIOUS
    <3>2. table' \subseteq DOMAIN fills'
      BY <2>5, <2>6, <3>1 DEF ExchangeFits
    <3>3. BacklogFits' /\ Placed' = Placed /\ stuck' = stuck
      BY <1>1, <2>1 DEF BacklogFits, Placed
    <3> QED BY <1>1, <2>5, <2>10, <2>11, <3>1, <3>2, <3>3 DEF ExchangeFits
  <2>13. HumanTradesSurvive'
    <3> SUFFICES ASSUME NEW i \in DOMAIN fills',
                        {owner[fills'[i].maker], owner[fills'[i].taker]} \cap Accounts # {}
                 PROVE  i \in table' /\ rows'[fills'[i].maker] # "none" /\ rows'[fills'[i].taker] # "none"
      BY <1>1 DEF HumanTradesSurvive
    <3>1. CASE i \in DOMAIN fills
      <4>1. i \in table /\ rows[fills[i].maker] # "none" /\ rows[fills[i].taker] # "none"
        BY <2>5, <3>1 DEF HumanTradesSurvive
      <4>2. fills[i].maker \in Placed /\ fills[i].taker \in Placed
        BY <3>1 DEF ExchangeFits
      <4> QED BY <2>5, <2>9, <3>1, <4>1, <4>2
    <3>2. CASE i \in (L + 1)..(L + c)
      <4>1. fills'[i].maker \in orders /\ fills'[i].taker \in orders
        BY <2>5, <3>2
      <4>2. rows[fills'[i].maker] # "none" /\ rows[fills'[i].taker] # "none"
        BY <1>5, <4>1
      <4>3. fills'[i].maker \in Placed /\ fills'[i].taker \in Placed
        BY <2>11
      <4> QED BY <2>5, <2>9, <3>2, <4>2, <4>3
    <3> QED BY <2>6, <3>1, <3>2
  <2>14. UpWhileUsed'
    BY <1>1 DEF UpWhileUsed
  <2> QED BY <2>7, <2>8, <2>12, <2>13, <2>14
<1> QED BY <1>4, <1>5

-----------------------------------------------------------------------------
(* The tab, while the exchange goes on.                                    *)

\* What is said of a fill stays true, and a new one is newer than all and behind no cursor.
LEMMA GrownFacts ==
  ASSUME ExchangeFits, ExchangeFits', FillsInOrder, FillsInOrder', Grows
  PROVE  /\ \A i \in DOMAIN fills :
              i \in DOMAIN fills' /\ Ms(i)' = Ms(i) /\ CursorOf(i)' = CursorOf(i)
         /\ \A i, j \in DOMAIN fills : Newer(i, j)' <=> Newer(i, j)
         /\ \A i \in DOMAIN fills : \A c : Before(i, c)' <=> Before(i, c)
         /\ \A i \in DOMAIN fills : \A who : Views(i, who)' = Views(i, who)
         /\ \A who : FillsOf(who) \subseteq FillsOf(who)'
         /\ \A who : \A i \in FillsOf(who)' \ FillsOf(who) : i \in DOMAIN fills' \ DOMAIN fills
         /\ \A i \in DOMAIN fills' \ DOMAIN fills, j \in DOMAIN fills : Newer(i, j)' /\ ~Newer(j, i)'
         /\ \A i \in DOMAIN fills' \ DOMAIN fills, c \in Cursors :
              PastCursor(c) /\ c # None => ~Before(i, c)'
         /\ \A c : PastCursor(c) => PastCursor(c)'
<1>1. \A i \in DOMAIN fills : /\ i \in DOMAIN fills' /\ fills'[i] = fills[i]
                              /\ fills[i].maker \in Placed /\ fills[i].taker \in Placed
                              /\ fills[i].at \in Nat /\ fills[i].key \in Nat
  BY FillFacts DEF Grows
<1>2. \A i \in DOMAIN fills' : fills'[i].at \in Nat
  <2>1. fills' \in Seq(FillRecords)
    BY DEF ExchangeFits
  <2>2. \A i \in DOMAIN fills' : fills'[i] \in FillRecords
    BY <2>1
  <2> QED BY <2>2 DEF FillRecords
<1>3. \A i \in DOMAIN fills :
        /\ owner'[fills'[i].maker] = owner[fills[i].maker]
        /\ owner'[fills'[i].taker] = owner[fills[i].taker]
  BY <1>1 DEF Grows
<1>4. \A i \in DOMAIN fills :
        i \in DOMAIN fills' /\ Ms(i)' = Ms(i) /\ CursorOf(i)' = CursorOf(i)
  BY <1>1 DEF Ms, CursorOf
<1>5. \A i, j \in DOMAIN fills : Newer(i, j)' <=> Newer(i, j)
  BY <1>1 DEF Newer
<1>6. \A i \in DOMAIN fills : \A c : Before(i, c)' <=> Before(i, c)
  BY <1>1 DEF Before
<1>7. \A i \in DOMAIN fills : \A who : Views(i, who)' = Views(i, who)
  BY <1>3 DEF Views
<1>8. \A i \in DOMAIN fills : \A who : i \in table =>
        (i \in FillsOf(who)' <=> i \in FillsOf(who)) /\ i \in table'
  BY <1>3 DEF FillsOf, Grows
<1>9. table \subseteq DOMAIN fills /\ table' \subseteq DOMAIN fills'
  BY DEF ExchangeFits
<1>10. \A who : FillsOf(who) \subseteq FillsOf(who)'
  BY <1>8, <1>9 DEF FillsOf
<1>11. ASSUME NEW who, NEW i \in FillsOf(who)' \ FillsOf(who) PROVE i \in DOMAIN fills' \ DOMAIN fills
  <2>1. i \in table'
    BY DEF FillsOf
  <2>2. i \notin table
    BY <1>8, <1>9
  <2> QED BY <2>1, <2>2 DEF Grows
<1>12. \A i \in DOMAIN fills' \ DOMAIN fills, j \in DOMAIN fills : Newer(i, j)' /\ ~Newer(j, i)'
  <2> SUFFICES ASSUME NEW i \in DOMAIN fills' \ DOMAIN fills, NEW j \in DOMAIN fills
               PROVE  Newer(i, j)' /\ ~Newer(j, i)'
    OBVIOUS
  <2>1. fills'[i].at \in Nat /\ fills'[j].at \in Nat /\ fills'[i].at > fills'[j].at
    BY <1>1, <1>2 DEF Grows
  <2> QED BY <2>1 DEF Newer
<1>13. ASSUME NEW i \in DOMAIN fills' \ DOMAIN fills, NEW c \in Cursors, PastCursor(c), c # None
       PROVE  ~Before(i, c)'
  <2>1. PICK j \in DOMAIN fills : c = CursorOf(j)
    BY <1>13 DEF PastCursor
  <2>2. c.at \in Nat /\ c.at <= fills[j].at
    BY <2>1, MsFacts
  <2>3. fills'[i].at \in Nat /\ fills[j].at \in Nat /\ fills'[i].at > fills[j].at
    BY <1>1, <1>2 DEF Grows
  <2> QED BY <1>13, <2>2, <2>3 DEF Before
<1>14. \A c : PastCursor(c) => PastCursor(c)'
  BY <1>4 DEF PastCursor
<1> QED BY <1>4, <1>5, <1>6, <1>7, <1>10, <1>11, <1>12, <1>13, <1>14

\* An answer stays one: what has come since it was read is newer than all of it.
LEMMA AnsweredGrows ==
  ASSUME ExchangeFits, ExchangeFits', FillsInOrder, FillsInOrder', Grows,
         NEW list, NEW next, NEW who, NEW after \in Cursors, PastCursor(after),
         Answered(list, next, who, after)
  PROVE  Answered(list, next, who, after)'
<1>1. Range(list) \subseteq FillsOf(who) /\ Range(list) \subseteq DOMAIN fills
  BY FillFacts DEF Answered
<1>2. Distinct(list) /\ Range(list) \subseteq FillsOf(who)'
  BY <1>1, GrownFacts DEF Answered
<1>3. \A i \in Range(list) : Before(i, after)'
  BY <1>1, GrownFacts DEF Answered
<1>4. ASSUME NEW i \in FillsOf(who)' \ Range(list), Before(i, after)'
      PROVE  \/ \A k \in Range(list) : Newer(k, i)'
             \/ after = None /\ \A k \in Range(list) : Newer(i, k)'
  <2>1. CASE i \in FillsOf(who)
    <3>1. i \in DOMAIN fills
      BY <2>1, FillFacts
    <3>2. Before(i, after)
      BY <1>4, <3>1, GrownFacts
    <3>3. \/ \A k \in Range(list) : Newer(k, i)
          \/ after = None /\ \A k \in Range(list) : Newer(i, k)
      BY <1>4, <2>1, <3>2 DEF Answered
    <3> QED BY <1>1, <3>1, <3>3, GrownFacts
  <2>2. CASE i \notin FillsOf(who)
    <3>1. i \in DOMAIN fills' \ DOMAIN fills
      BY <2>2, GrownFacts
    <3>2. after = None
      BY <1>4, <3>1, GrownFacts
    <3>3. \A k \in Range(list) : Newer(i, k)'
      BY <1>1, <3>1, GrownFacts
    <3> QED BY <3>2, <3>3
  <2> QED BY <2>1, <2>2
<1>5. next = None \/ \E j \in Range(list) : (next = CursorOf(j) /\ Oldest(j, Range(list)))'
  <2>1. CASE next = None
    BY <2>1
  <2>2. CASE next # None
    <3>1. PICK j \in Range(list) : next = CursorOf(j) /\ Oldest(j, Range(list))
      BY <2>2 DEF Answered
    <3>2. next = CursorOf(j)'
      BY <1>1, <3>1, GrownFacts
    <3>3. \A k \in Range(list) : k = j \/ Newer(k, j)'
      BY <1>1, <3>1, GrownFacts DEF Oldest
    <3> QED BY <3>1, <3>2, <3>3 DEF Oldest
  <2> QED BY <2>1, <2>2
<1> QED BY <1>2, <1>3, <1>4, <1>5 DEF Answered

LEMMA TabStillFits ==
  ASSUME ExchangeFits, ExchangeFits', FillsInOrder, FillsInOrder', Grows, TabFits, UNCHANGED tab
  PROVE  TabFits'
<1>1. /\ account' = account /\ activated' = activated /\ generation' = generation
      /\ cursor' = cursor /\ state' = state /\ loads' = loads /\ page' = page
  BY DEF tab
<1>2. \A c : PastCursor(c) => PastCursor(c)'
  BY GrownFacts
<1>3. PICK p, c : p = page /\ c = cursor
  OBVIOUS
<1>4. PastCursor(cursor)' /\ PastCursor(page.next)'
  <2>1. PastCursor(c) /\ PastCursor(p.next)
    BY <1>3 DEF TabFits
  <2>2. PastCursor(c)' /\ PastCursor(p.next)'
    BY <1>2, <2>1
  <2> QED BY <1>1, <1>3, <2>2 DEF PastCursor
<1>5. page.stage # "none" => PastCursor(page.after)'
  <2>1. SUFFICES ASSUME page.stage # "none" PROVE PastCursor(page.after)'
    OBVIOUS
  <2>2. PastCursor(p.after)
    BY <1>3, <2>1 DEF TabFits
  <2>3. PastCursor(p.after)'
    BY <1>2, <2>2
  <2> QED BY <1>1, <1>3, <2>3 DEF PastCursor
<1>6. \A l \in loads : PastCursor(l.next)'
  BY <1>2 DEF TabFits
<1>7. state \in StateRecords'
  <2>1. DOMAIN fills \subseteq DOMAIN fills'
    BY GrownFacts
  <2>2. ViewRecords \subseteq ViewRecords'
    BY <2>1 DEF ViewRecords
  <2>3. state \in StateRecords
    BY DEF TabFits
  <2>4. state.fills \in Seq(ViewRecords')
    <3>1. state.fills \in Seq(ViewRecords)
      BY <2>3 DEF StateRecords
    <3> QED BY <2>2, <3>1
  <2> QED BY <2>3, <2>4 DEF StateRecords
<1>8. LoadRecords' = LoadRecords /\ PageRecords' = PageRecords
  BY <1>1 DEF LoadRecords, PageRecords
<1> QED BY <1>1, <1>4, <1>5, <1>6, <1>7, <1>8 DEF TabFits, SignedIn

LEMMA ScreenStillFits ==
  ASSUME ExchangeFits, ExchangeFits', FillsInOrder, FillsInOrder', Grows, ScreenFits, UNCHANGED tab
  PROVE  ScreenFits'
<1>1. account' = account /\ cursor' = cursor /\ state' = state /\ Shown' = Shown
  BY DEF tab, Shown
<1>2. PICK a, c, S : a = account /\ c = cursor /\ S = Shown
  OBVIOUS
<1>3. S \subseteq FillsOf(a) /\ S \subseteq DOMAIN fills /\ Distinct(state.fills)
  BY <1>2, FillFacts DEF ScreenFits
<1>4. FillsOf(account) = FillsOf(a) /\ FillsOf(account)' = FillsOf(a)'
  BY <1>1, <1>2
<1>5. Shown' \subseteq FillsOf(account)'
  BY <1>1, <1>2, <1>3, <1>4, GrownFacts
<1>6. \A i \in Shown' : Range(Views(i, account))' \subseteq Range(state'.fills)
  <2>1. \A i \in S : Range(Views(i, a)) \subseteq Range(state.fills)
    BY <1>2 DEF ScreenFits
  <2>2. \A i \in S : Views(i, a)' = Views(i, a)
    BY <1>3, GrownFacts
  <2>3. \A i : Range(Views(i, account))' = Range(Views(i, a)')
    BY <1>1, <1>2
  <2> QED BY <1>1, <1>2, <2>1, <2>2, <2>3
<1>7. ASSUME ~state.spliced PROVE Unbroken'
  <2> SUFFICES ASSUME NEW i \in FillsOf(a)' \ S,
                      NEW j \in S, Newer(j, i)', NEW k \in S, Newer(i, k)'
               PROVE  CutOff(i)'
    BY <1>1, <1>2, <1>4 DEF Unbroken
  <2>1. i \in FillsOf(a)
    <3>1. CASE i \in DOMAIN fills' \ DOMAIN fills
      <4>1. ~Newer(j, i)'
        BY <1>3, <3>1, GrownFacts
      <4> QED BY <4>1
    <3> QED BY <3>1, GrownFacts
  <2>2. i \in DOMAIN fills
    BY <2>1, FillFacts
  <2>3. Newer(j, i) /\ Newer(i, k)
    BY <1>3, <2>2, GrownFacts
  <2>4. CutOff(i)
    BY <1>2, <1>4, <1>7, <2>1, <2>3 DEF ScreenFits, Unbroken
  <2>5. PICK b \in S : /\ CursorOf(b) \in state.ends
                       /\ Newer(b, i) /\ Ms(b) = Ms(i) /\ ~Before(i, CursorOf(b))
    BY <1>2, <2>4 DEF CutOff
  <2>6. Newer(b, i)' /\ Ms(b)' = Ms(i)'
    BY <1>3, <2>2, <2>5, GrownFacts
  <2>7. CursorOf(b)' = CursorOf(b) /\ \A d : Before(i, d)' <=> Before(i, d)
    BY <1>3, <2>2, <2>5, GrownFacts
  <2>8. CursorOf(b)' \in state'.ends /\ ~(Before(i, CursorOf(b))')
    BY <1>1, <2>5, <2>7 DEF Before, CursorOf, Ms
  <2> QED BY <1>1, <1>2, <2>6, <2>8 DEF CutOff
<1>8. ASSUME ~state.spliced, state.status = "ready", cursor # None
      PROVE  \E j \in Shown' : cursor' = CursorOf(j)' /\ Oldest(j, Shown)'
  <2>1. PICK j \in S : c = CursorOf(j) /\ Oldest(j, S)
    BY <1>2, <1>8 DEF ScreenFits
  <2>2. c = CursorOf(j)' /\ \A k \in S : k = j \/ Newer(k, j)'
    BY <1>3, <2>1, GrownFacts DEF Oldest
  <2> QED BY <1>1, <1>2, <2>1, <2>2 DEF Oldest
<1> QED BY <1>1, <1>3, <1>5, <1>6, <1>7, <1>8 DEF ScreenFits

LEMMA TabKeeps ==
  ASSUME ExchangeInvariant, ExchangeInvariant', Grows, TabInvariant, UNCHANGED tab
  PROVE  TabInvariant'
<1>1. ExchangeFits /\ ExchangeFits' /\ FillsInOrder /\ FillsInOrder' /\ TabFits /\ AnswersFit /\ ScreenFits
  BY DEF ExchangeInvariant, TabInvariant
<1>2. TabFits' /\ ScreenFits'
  BY <1>1, TabStillFits, ScreenStillFits
<1>3. loads' = loads /\ page' = page
  BY DEF tab
<1>4. None \in Cursors /\ PastCursor(None)
  BY HistoryAssumption DEF None, Cursors, PastCursor
<1>5. \A l \in loads : l.read => Answered(l.list, l.next, l.who, None)'
  <2> SUFFICES ASSUME NEW l \in loads, l.read PROVE Answered(l.list, l.next, l.who, None)'
    OBVIOUS
  <2>1. Answered(l.list, l.next, l.who, None)
    BY <1>1 DEF AnswersFit
  <2> QED BY <1>1, <1>4, <2>1, AnsweredGrows
<1>6. page.stage = "read" => Answered(page.list, page.next, page.who, page.after)'
  <2> SUFFICES ASSUME page.stage = "read" PROVE Answered(page.list, page.next, page.who, page.after)'
    OBVIOUS
  <2>1. PICK p : p = page
    OBVIOUS
  <2>2. p.after \in Cursors /\ PastCursor(p.after)
    BY <1>1, <2>1 DEF TabFits, PageRecords
  <2>3. Answered(p.list, p.next, p.who, p.after)
    BY <1>1, <2>1 DEF AnswersFit
  <2>4. Answered(p.list, p.next, p.who, p.after)'
    BY <1>1, <2>2, <2>3, AnsweredGrows
  <2>5. p = page'
    BY <1>3, <2>1
  <2> QED BY <2>4, <2>5 DEF Answered
<1>7. AnswersFit'
  BY <1>3, <1>5, <1>6 DEF AnswersFit
<1> QED BY <1>2, <1>7 DEF TabInvariant

\* Pruning finds a tab that has not been used.
LEMMA PruneFindsNoTab ==
  ASSUME HistoryInvariant, ExchangeInvariant', ~up, UNCHANGED <<fills, tab>>
  PROVE  TabInvariant'
<1> USE DEF HistoryInvariant, ExchangeInvariant, TabInvariant
<1>1. account = Unknown /\ Unknown \notin Accounts
  BY HistoryAssumption DEF UpWhileUsed
<1>2. loads = {} /\ page = NoPage /\ cursor = None /\ state.fills = <<>>
  BY <1>1 DEF TabFits, SignedIn
<1>3. /\ account' = account /\ activated' = activated /\ generation' = generation /\ fills' = fills
      /\ cursor' = cursor /\ state' = state /\ loads' = loads /\ page' = page
  BY DEF tab
<1>4. TabFits'
  <2>1. \A c : PastCursor(c)' <=> PastCursor(c)
    BY <1>3 DEF PastCursor, CursorOf, Ms
  <2>2. LoadRecords' = LoadRecords /\ PageRecords' = PageRecords /\ StateRecords' = StateRecords
    BY <1>3 DEF LoadRecords, PageRecords, StateRecords, ViewRecords
  <2>3. PastCursor(cursor)' /\ PastCursor(page.next)'
    BY <1>2, <1>3 DEF PastCursor, NoPage
  <2>4. loads' = {} /\ page'.stage = "none"
    BY <1>2, <1>3 DEF NoPage
  <2>5. TabFits
    OBVIOUS
  <2> QED BY <1>3, <2>2, <2>3, <2>4, <2>5 DEF TabFits, SignedIn
<1>5. AnswersFit'
  BY <1>2, <1>3 DEF AnswersFit, NoPage
<1>6. ScreenFits'
  <2>1. Shown' = {} /\ state'.fills = <<>> /\ cursor' = None
    BY <1>2, <1>3 DEF Shown, Range
  <2>2. Distinct(state'.fills)
    BY <2>1 DEF Distinct
  <2>3. Unbroken'
    BY <2>1 DEF Unbroken
  <2> QED BY <2>1, <2>2, <2>3 DEF ScreenFits
<1> QED BY <1>4, <1>5, <1>6

-----------------------------------------------------------------------------
(* The steps of the tab.                                                   *)

\* Nothing that is asked of the exchange changes while only the tab moves.
LEMMA SameExchange ==
  ASSUME UNCHANGED exchange
  PROVE  /\ \A i, j : (Newer(i, j)' <=> Newer(i, j)) /\ Ms(i)' = Ms(i) /\ CursorOf(i)' = CursorOf(i)
         /\ \A i, who : Views(i, who)' = Views(i, who)
         /\ \A who : FillsOf(who)' = FillsOf(who)
         /\ \A i, c : Before(i, c)' <=> Before(i, c)
         /\ \A c : PastCursor(c)' <=> PastCursor(c)
         /\ \A j, S : Oldest(j, S)' <=> Oldest(j, S)
         /\ \A list, next, who, after :
              Answered(list, next, who, after)' <=> Answered(list, next, who, after)
<1>1. fills' = fills /\ table' = table /\ owner' = owner
  BY DEF exchange
<1>2. /\ \A i, j : (Newer(i, j)' <=> Newer(i, j)) /\ Ms(i)' = Ms(i) /\ CursorOf(i)' = CursorOf(i)
      /\ \A i, who : Views(i, who)' = Views(i, who)
      /\ \A who : FillsOf(who)' = FillsOf(who)
      /\ \A i, c : Before(i, c)' <=> Before(i, c)
  BY <1>1 DEF Newer, Ms, CursorOf, Views, FillsOf, Before
<1>3. \A c : PastCursor(c)' <=> PastCursor(c)
  BY <1>1, <1>2 DEF PastCursor
<1>4. \A j, S : Oldest(j, S)' <=> Oldest(j, S)
  BY <1>2 DEF Oldest
<1>5. \A list, next, who, after :
        Answered(list, next, who, after)' <=> Answered(list, next, who, after)
  BY <1>2, <1>4 DEF Answered
<1> QED BY <1>2, <1>3, <1>4, <1>5

LEMMA ExchangeStays ==
  ASSUME ExchangeInvariant, UNCHANGED exchange, up \/ UNCHANGED <<account, activated>>
  PROVE  ExchangeInvariant'
<1>1. /\ fills' = fills /\ table' = table /\ owner' = owner /\ rows' = rows /\ book' = book
      /\ backlog' = backlog /\ stuck' = stuck /\ up' = up
  BY DEF exchange
<1>2. ExchangeFits'
  <2>1. ExchangeFits
    BY DEF ExchangeInvariant
  <2>2. BacklogFits' /\ Placed' = Placed
    BY <1>1, <2>1 DEF ExchangeFits, BacklogFits, Placed
  <2> QED BY <1>1, <2>1, <2>2 DEF ExchangeFits
<1>3. FillsInOrder' /\ HumanTradesSurvive' /\ UpWhileUsed'
  BY <1>1 DEF ExchangeInvariant, FillsInOrder, HumanTradesSurvive, UpWhileUsed
<1> QED BY <1>2, <1>3 DEF ExchangeInvariant

\* A list that says no more than nothing.
LEMMA EmptyScreenFits ==
  ASSUME state'.fills = <<>>, state'.status # "ready" \/ cursor' = None
  PROVE  ScreenFits'
<1>1. Shown' = {}
  BY DEF Shown, Range
<1>2. Distinct(state'.fills)
  BY DEF Distinct
<1> QED BY <1>1, <1>2 DEF ScreenFits, Unbroken

LEMMA SameScreenFits ==
  ASSUME ScreenFits, UNCHANGED <<exchange, account, state, cursor>>
  PROVE  ScreenFits'
  BY DEF ScreenFits, Unbroken, CutOff, Before, Shown, Oldest, Newer, Ms, CursorOf, Views, FillsOf, exchange

LEMMA NoneFacts ==
  /\ None \in Cursors /\ PastCursor(None)
  /\ NoPage.stage = "none" /\ NoPage.next = None /\ (generation \in Nat => NoPage \in PageRecords)
<1>1. None \in Cursors
  BY HistoryAssumption DEF None, Cursors
<1>2. NoPage.stage = "none" /\ NoPage.next = None /\ PastCursor(None)
  BY DEF NoPage, PastCursor
<1>3. ASSUME generation \in Nat PROVE NoPage \in PageRecords
  <2>1. 0 \in 0..generation /\ <<>> \in Seq(Nat) /\ Nobody \in Accounts \cup {Nobody, Unknown}
    BY <1>3
  <2> QED BY <1>1, <2>1 DEF NoPage, PageRecords
<1> QED BY <1>1, <1>2, <1>3

\* A load begins: what was under way is of an earlier generation.
LEMMA LoadKeeps ==
  ASSUME HistoryInvariant, NEW who \in Accounts, Load(who), UNCHANGED <<exchange, cursor, page>>,
         account' = who, activated' \in BOOLEAN, account = who \/ ~SignedIn
  PROVE  TabInvariant'
<1> USE DEF HistoryInvariant, TabInvariant
<1>1. /\ generation \in Nat /\ generation < MaxLoads /\ generation' = generation + 1
      /\ MaxLoads \in Nat /\ generation' \in 0..MaxLoads
  BY HistoryAssumption DEF Load, TabFits
<1> DEFINE l == [mine |-> generation', who |-> who, read |-> FALSE, list |-> <<>>, next |-> None]
<1>2. loads' = loads \cup {l} /\ page' = page /\ cursor' = cursor
  BY DEF Load
<1>3. l \in LoadRecords' /\ l.mine = generation' /\ l.who = who /\ ~l.read /\ l.next = None
  <2>1. generation' \in 1..generation' /\ <<>> \in Seq(Nat) /\ FALSE \in BOOLEAN
    BY <1>1
  <2> QED BY <2>1, NoneFacts DEF LoadRecords
<1> HIDE DEF l
<1>4. \A k \in loads : k \in LoadRecords' /\ k.mine # generation'
  <2> SUFFICES ASSUME NEW k \in loads PROVE k \in LoadRecords' /\ k.mine # generation'
    OBVIOUS
  <2>1. k \in LoadRecords
    BY DEF TabFits
  <2>2. k.mine \in 1..generation
    BY <2>1 DEF LoadRecords
  <2>3. k.mine \in 1..generation' /\ k.mine # generation'
    BY <1>1, <2>2
  <2> QED BY <2>1, <2>3 DEF LoadRecords
<1>5. page \in PageRecords' /\ page.mine # generation'
  <2>1. page \in PageRecords
    BY DEF TabFits
  <2>2. page.mine \in 0..generation
    BY <2>1 DEF PageRecords
  <2>3. page.mine \in 0..generation' /\ page.mine # generation'
    BY <1>1, <2>2
  <2> QED BY <2>1, <2>3 DEF PageRecords
<1>6. \/ state' = state
      \/ state'.fills = <<>> /\ state'.status = "loading" /\ state' \in StateRecords' /\ state.status # "ready"
  <2>1. CASE state.status = "ready"
    BY <2>1 DEF Load
  <2>2. CASE state.status # "ready"
    <3>1. state' = [status |-> "loading", fills |-> <<>>, ends |-> {}, spliced |-> FALSE]
      BY <2>2 DEF Load, Idle
    <3>2. <<>> \in Seq(ViewRecords')
      OBVIOUS
    <3> QED BY <2>2, <3>1, <3>2 DEF StateRecords
  <2> QED BY <2>1, <2>2
<1>7. StateRecords' = StateRecords
  BY DEF StateRecords, ViewRecords, exchange
<1>8. TabFits'
  <2>1. \A c : PastCursor(c)' <=> PastCursor(c)
    BY SameExchange
  <2>2. PICK c, p : c = cursor /\ p = page
    OBVIOUS
  <2>3. PastCursor(c)' /\ PastCursor(p.next)' /\ (p.stage # "none" => PastCursor(p.after)')
    BY <2>1, <2>2 DEF TabFits
  <2>4. PastCursor(cursor)' /\ PastCursor(page.next)' /\ (page'.stage # "none" => PastCursor(page.after)')
    BY <1>2, <2>2, <2>3 DEF PastCursor
  <2>5. \A k \in loads' : k \in LoadRecords' /\ PastCursor(k.next)' /\ (k.mine = generation' => k.who = who)
    BY <1>2, <1>3, <1>4, <2>1, NoneFacts DEF TabFits
  <2>6. state' \in StateRecords' /\ (state'.status # "ready" => state'.fills = <<>>)
    BY <1>6, <1>7 DEF TabFits
  <2>7. who # Unknown /\ who \in Accounts /\ SignedIn'
    BY HistoryAssumption DEF SignedIn
  <2>8. page'.stage # "none" => page'.who \in Accounts /\ page'.after # None
    BY <1>2 DEF TabFits
  <2>9. cursor' \in Cursors
    BY <1>2 DEF TabFits
  <2> QED BY <1>1, <1>2, <1>5, <2>4, <2>5, <2>6, <2>7, <2>8, <2>9 DEF TabFits
<1>9. AnswersFit'
  <2>1. \A k \in loads' : k.read => Answered(k.list, k.next, k.who, None)'
    BY <1>2, <1>3, SameExchange DEF AnswersFit
  <2>2. page'.stage = "read" => Answered(page.list, page.next, page.who, page.after)'
    <3>1. PICK p : p = page
      OBVIOUS
    <3>2. p.stage = "read" => Answered(p.list, p.next, p.who, p.after)'
      BY <3>1, SameExchange DEF AnswersFit
    <3> QED BY <1>2, <3>1, <3>2 DEF Answered
  <2> QED BY <2>1, <2>2 DEF AnswersFit
<1>10. ScreenFits'
  <2>1. CASE state' = state /\ account = who
    <3>1. UNCHANGED <<exchange, account, state, cursor>>
      BY <1>2, <2>1
    <3> QED BY <3>1, SameScreenFits
  <2>2. CASE state'.fills = <<>> /\ state'.status # "ready"
    BY <2>2, EmptyScreenFits
  <2>3. CASE state' = state /\ account # who
    <3>1. state'.fills = <<>> /\ cursor' = None
      BY <1>2, <2>3 DEF TabFits
    <3> QED BY <3>1, EmptyScreenFits
  <2> QED BY <1>6, <2>1, <2>2, <2>3
<1> QED BY <1>8, <1>9, <1>10

\* The parts of TabFits that are about the loads, the page and the rest of the tab.
LoadsFit ==
  /\ loads \subseteq LoadRecords
  /\ \A l \in loads : PastCursor(l.next) /\ (l.mine = generation => l.who = account)
  /\ \A l \in loads : l.read => Answered(l.list, l.next, l.who, None)
  /\ account = Unknown => loads = {}
PageFits ==
  /\ page \in PageRecords /\ PastCursor(page.next)
  /\ page.stage # "none" =>
       /\ page.who \in Accounts /\ page.after # None /\ PastCursor(page.after)
       /\ page.mine = generation => page.who = account
  /\ page.stage = "read" => Answered(page.list, page.next, page.who, page.after)
  /\ account = Unknown => page = NoPage
SessionFits ==
  /\ account \in Accounts \cup {Nobody, Unknown} /\ activated \in BOOLEAN
  /\ generation \in 0..MaxLoads
ListFits ==
  /\ cursor \in Cursors /\ PastCursor(cursor)
  /\ state \in StateRecords
  /\ ~SignedIn => cursor = None /\ state.fills = <<>>
  /\ state.status # "ready" => state.fills = <<>>
  /\ ScreenFits

LEMMA TabParts == TabInvariant <=> SessionFits /\ LoadsFit /\ PageFits /\ ListFits
  BY DEF TabInvariant, TabFits, AnswersFit, SessionFits, LoadsFit, PageFits, ListFits

LEMMA TabPartsNext == TabInvariant' <=> SessionFits' /\ LoadsFit' /\ PageFits' /\ ListFits'
  BY DEF TabInvariant, TabFits, AnswersFit, SessionFits, LoadsFit, PageFits, ListFits

LEMMA LoadsStay ==
  ASSUME LoadsFit, loads' \subseteq loads, UNCHANGED <<exchange, account, generation>>
  PROVE  LoadsFit'
<1>1. LoadRecords' = LoadRecords
  BY DEF LoadRecords
<1> QED BY <1>1, SameExchange DEF LoadsFit

LEMMA PageStays ==
  ASSUME PageFits, UNCHANGED <<exchange, account, generation, page>>
  PROVE  PageFits'
<1>1. PageRecords' = PageRecords
  BY DEF PageRecords
<1>2. PICK p : p = page
  OBVIOUS
<1>3. /\ PastCursor(p.next)' /\ (p.stage # "none" => PastCursor(p.after)')
      /\ p.stage = "read" => Answered(p.list, p.next, p.who, p.after)'
  BY <1>2, SameExchange DEF PageFits
<1>4. PastCursor(page.next)' /\ (p.stage # "none" => PastCursor(page.after)')
  BY <1>2, <1>3 DEF PastCursor
<1>5. p.stage = "read" => Answered(page.list, page.next, page.who, page.after)'
  BY <1>2, <1>3 DEF Answered
<1> QED BY <1>1, <1>2, <1>4, <1>5 DEF PageFits

LEMMA PageGone ==
  ASSUME generation' \in 0..MaxLoads, page' = NoPage
  PROVE  PageFits'
<1>1. generation' \in Nat
  BY HistoryAssumption
<1>2. NoPage \in PageRecords'
  <2>1. 0 \in 0..generation' /\ <<>> \in Seq(Nat) /\ Nobody \in Accounts \cup {Nobody, Unknown}
    BY <1>1
  <2> QED BY <2>1, NoneFacts DEF NoPage, PageRecords
<1>3. page'.next = None /\ page'.stage = "none"
  BY NoneFacts
<1>4. PastCursor(page.next)'
  BY <1>3 DEF PastCursor
<1> QED BY <1>2, <1>3, <1>4 DEF PageFits

LEMMA ListStays ==
  ASSUME ListFits, UNCHANGED <<exchange, account, cursor, state>>
  PROVE  ListFits'
<1>1. StateRecords' = StateRecords
  BY DEF StateRecords, ViewRecords, exchange
<1>2. ScreenFits'
  BY SameScreenFits DEF ListFits
<1>3. PastCursor(cursor)'
  <2>1. PICK c : c = cursor
    OBVIOUS
  <2>2. PastCursor(c)'
    BY <2>1, SameExchange DEF ListFits
  <2> QED BY <2>1, <2>2 DEF PastCursor
<1> QED BY <1>1, <1>2, <1>3 DEF ListFits, SignedIn

\* The list is gone, and its cursor with it.
LEMMA ListGone ==
  ASSUME cursor' = None, state'.fills = <<>>, state' \in [status : {"idle", "loading", "ready", "error"},
                                                      fills : {<<>>}, ends : SUBSET Cursors, spliced : BOOLEAN]
  PROVE  ListFits'
<1>1. ScreenFits'
  BY EmptyScreenFits
<1>2. PastCursor(cursor)' /\ cursor' \in Cursors
  BY NoneFacts DEF PastCursor
<1>3. state' \in StateRecords'
  <2>1. <<>> \in Seq(ViewRecords')
    OBVIOUS
  <2> QED BY <2>1 DEF StateRecords
<1> QED BY <1>1, <1>2, <1>3 DEF ListFits

LEMMA ReadKeeps ==
  ASSUME HistoryInvariant, NEW l \in loads, Read(l)
  PROVE  TabInvariant'
<1>1. SessionFits /\ LoadsFit /\ PageFits /\ ListFits /\ ExchangeFits /\ FillsInOrder
  BY TabParts DEF HistoryInvariant, ExchangeInvariant
<1> DEFINE result == PageOf(l.who, None)
           k == [l EXCEPT !.read = TRUE, !.list = result.list, !.next = result.next]
<1>2. loads' = (loads \ {l}) \cup {k} /\ UNCHANGED <<exchange, account, activated, generation, cursor, state, page>>
  BY DEF Read
<1>3. l \in LoadRecords /\ (l.mine = generation => l.who = account) /\ account # Unknown
  BY <1>1 DEF LoadsFit
<1>4. /\ result.list \in Seq(Nat) /\ result.next \in Cursors /\ PastCursor(result.next)
      /\ Answered(result.list, result.next, l.who, None)
  BY <1>1, NoneFacts, PageFacts
<1> HIDE DEF result
<1>5. /\ k \in LoadRecords /\ k.mine = l.mine /\ k.who = l.who /\ k.read
      /\ k.list = result.list /\ k.next = result.next
  <2>1. k = [mine |-> l.mine, who |-> l.who, read |-> TRUE, list |-> result.list, next |-> result.next]
    <3>1. PICK list, next : list = result.list /\ next = result.next
      OBVIOUS
    <3>2. PICK mine, who, read, one, two :
            l = [mine |-> mine, who |-> who, read |-> read, list |-> one, next |-> two]
      BY <1>3 DEF LoadRecords
    <3>4. l.mine = mine /\ l.who = who
      BY <3>2
    <3>3. PICK m : m = [l EXCEPT !.read = TRUE, !.list = list, !.next = next]
      OBVIOUS
    <3>5. m = [mine |-> mine, who |-> who, read |-> TRUE, list |-> list, next |-> next]
      BY <3>2, <3>3
    <3> QED BY <3>1, <3>3, <3>4, <3>5
  <2>2. l.mine \in 1..generation /\ l.who \in Accounts
    BY <1>3 DEF LoadRecords
  <2> HIDE DEF k
  <2> QED BY <1>4, <2>1, <2>2 DEF LoadRecords
<1> HIDE DEF k
<1>6. LoadsFit'
  <2>1. LoadRecords' = LoadRecords
    BY <1>2 DEF LoadRecords
  <2>2. PastCursor(k.next) /\ Answered(k.list, k.next, k.who, None)
    BY <1>4, <1>5
  <2>3. \A m \in loads' : m \in loads \/ m = k
    BY <1>2
  <2>4. \A m \in loads' : PastCursor(m.next)' /\ (m.mine = generation => m.who = account)
    BY <1>1, <1>2, <1>3, <1>5, <2>2, <2>3, SameExchange DEF LoadsFit
  <2>5. \A m \in loads' : m.read => Answered(m.list, m.next, m.who, None)'
    BY <1>1, <1>2, <2>2, <2>3, SameExchange DEF LoadsFit
  <2>6. loads' \subseteq LoadRecords
    BY <1>1, <1>2, <1>5 DEF LoadsFit
  <2> QED BY <1>2, <1>3, <2>1, <2>4, <2>5, <2>6 DEF LoadsFit
<1>7. PageFits' /\ ListFits' /\ SessionFits'
  BY <1>1, <1>2, PageStays, ListStays DEF SessionFits
<1> QED BY <1>6, <1>7, TabPartsNext

\* The list that lands was read after the load began, and is of the account it began for.
LEMMA LandedFits ==
  ASSUME ExchangeFits, FillsInOrder, NEW list \in Seq(Nat), NEW next \in Cursors, PastCursor(next),
         Answered(list, next, account, None), account \in Accounts,
         UNCHANGED <<exchange, account>>, cursor' = next,
         state' = [status |-> "ready", fills |-> ViewsOf(list, account), ends |-> {}, spliced |-> FALSE]
  PROVE  ListFits'
<1>1. PICK a, views : a = account /\ views = ViewsOf(list, a)
  OBVIOUS
<1>2. /\ account' = a /\ state'.fills = views /\ state'.status = "ready" /\ state'.spliced = FALSE
      /\ a \in Accounts
  BY <1>1
<1>3. Distinct(list) /\ Range(list) \subseteq FillsOf(a)
  BY <1>1 DEF Answered
<1>4. /\ views \in Seq(ViewRecords) /\ Distinct(views) /\ {v.id : v \in Range(views)} = Range(list)
      /\ \A i \in Range(list) : Range(Views(i, a)) \subseteq Range(views)
  BY <1>1, <1>3, ViewsOfFacts
<1>5. Shown' = Range(list)
  BY <1>2, <1>4 DEF Shown
<1>6. state' \in StateRecords'
  <2>1. ViewRecords' = ViewRecords
    BY DEF ViewRecords, exchange
  <2>2. state' = [status |-> "ready", fills |-> views, ends |-> {}, spliced |-> FALSE]
    BY <1>1
  <2> QED BY <1>4, <2>1, <2>2 DEF StateRecords
<1>7. PastCursor(cursor)' /\ cursor' \in Cursors
  <2>1. PastCursor(next)'
    BY SameExchange
  <2> QED BY <2>1 DEF PastCursor
<1>8. Shown' \subseteq FillsOf(account)' /\ Distinct(state'.fills)
  <2>1. FillsOf(account)' = FillsOf(a)
    BY <1>2 DEF FillsOf, exchange
  <2> QED BY <1>2, <1>3, <1>4, <1>5, <2>1
<1>9. \A i \in Shown' : Range(Views(i, account))' \subseteq Range(state'.fills)
  <2>1. \A i : Views(i, account)' = Views(i, a)
    BY <1>2 DEF Views, exchange
  <2> QED BY <1>2, <1>4, <1>5, <2>1
<1>10. Unbroken'
  <2> SUFFICES ASSUME NEW i \in FillsOf(a) \ Range(list),
                      NEW j \in Range(list), Newer(j, i), NEW k \in Range(list), Newer(i, k)
               PROVE  FALSE
    <3>1. FillsOf(account)' = FillsOf(a)
      BY <1>2 DEF FillsOf, exchange
    <3>2. \A m, n : Newer(m, n)' <=> Newer(m, n)
      BY SameExchange
    <3> QED BY <1>5, <3>1, <3>2 DEF Unbroken
  <2>1. i \in DOMAIN fills /\ j \in DOMAIN fills /\ k \in DOMAIN fills
    BY <1>3, FillFacts
  <2>2. Before(i, None)
    BY DEF Before
  <2>3. \/ \A m \in Range(list) : Newer(m, i)
        \/ \A m \in Range(list) : Newer(i, m)
    BY <1>1, <2>2 DEF Answered
  <2> QED BY <2>1, <2>3, NewerOrders
<1>11. cursor' # None => \E j \in Shown' : cursor' = CursorOf(j)' /\ Oldest(j, Shown)'
  <2> SUFFICES ASSUME next # None PROVE \E j \in Shown' : next = CursorOf(j)' /\ Oldest(j, Shown)'
    OBVIOUS
  <2>1. PICK j \in Range(list) : next = CursorOf(j) /\ Oldest(j, Range(list))
    BY DEF Answered
  <2>2. next = CursorOf(j)' /\ \A k \in Range(list) : k = j \/ Newer(k, j)'
    BY <2>1, SameExchange DEF Oldest
  <2> QED BY <1>5, <2>1, <2>2 DEF Oldest
<1>12. ScreenFits'
  BY <1>2, <1>8, <1>9, <1>10, <1>11 DEF ScreenFits
<1> QED BY <1>2, <1>6, <1>7, <1>12 DEF ListFits, SignedIn

LEMMA LandKeeps ==
  ASSUME HistoryInvariant, NEW l \in loads, Land(l)
  PROVE  TabInvariant'
<1>1. SessionFits /\ LoadsFit /\ PageFits /\ ListFits /\ ExchangeFits /\ FillsInOrder
  BY TabParts DEF HistoryInvariant, ExchangeInvariant
<1>2. loads' = loads \ {l} /\ l.read /\ UNCHANGED <<exchange, account, activated, generation, page>>
  BY DEF Land
<1>3. LoadsFit' /\ PageFits' /\ SessionFits'
  BY <1>1, <1>2, LoadsStay, PageStays DEF SessionFits
<1>4. ListFits'
  <2>1. CASE l.mine = generation
    <3>1. /\ l \in LoadRecords /\ l.who = account /\ PastCursor(l.next)
          /\ Answered(l.list, l.next, l.who, None)
      BY <1>1, <1>2, <2>1 DEF LoadsFit
    <3>2. l.list \in Seq(Nat) /\ l.next \in Cursors /\ account \in Accounts
      BY <3>1 DEF LoadRecords
    <3>3. /\ cursor' = l.next
          /\ state' = [status |-> "ready", fills |-> ViewsOf(l.list, account), ends |-> {}, spliced |-> FALSE]
      BY <2>1, <3>1 DEF Land, Idle
    <3> QED BY <1>1, <1>2, <3>1, <3>2, <3>3, LandedFits
  <2>2. CASE l.mine # generation
    <3>1. UNCHANGED <<exchange, account, cursor, state>>
      BY <1>2, <2>2 DEF Land
    <3> QED BY <1>1, <3>1, ListStays
  <2> QED BY <2>1, <2>2
<1> QED BY <1>3, <1>4, TabPartsNext

LEMMA LoadFailsKeeps ==
  ASSUME HistoryInvariant, NEW l \in loads, LoadFails(l)
  PROVE  TabInvariant'
<1>1. SessionFits /\ LoadsFit /\ PageFits /\ ListFits
  BY TabParts DEF HistoryInvariant
<1>2. loads' = loads \ {l} /\ UNCHANGED <<exchange, account, activated, generation, page>>
  BY DEF LoadFails
<1>3. LoadsFit' /\ PageFits' /\ SessionFits'
  BY <1>1, <1>2, LoadsStay, PageStays DEF SessionFits
<1>4. ListFits'
  <2>1. CASE l.mine = generation
    <3>1. cursor' = None /\ state' = [status |-> "error", fills |-> <<>>, ends |-> {}, spliced |-> FALSE]
      BY <2>1 DEF LoadFails, Idle
    <3> QED BY <3>1, ListGone
  <2>2. CASE l.mine # generation
    <3>1. UNCHANGED <<exchange, account, cursor, state>>
      BY <1>2, <2>2 DEF LoadFails
    <3> QED BY <1>1, <3>1, ListStays
  <2> QED BY <2>1, <2>2
<1> QED BY <1>3, <1>4, TabPartsNext

LEMMA LoadMoreKeeps ==
  ASSUME HistoryInvariant, LoadMore
  PROVE  TabInvariant'
<1>1. SessionFits /\ LoadsFit /\ PageFits /\ ListFits
  BY TabParts DEF HistoryInvariant
<1>2. cursor # None /\ UNCHANGED <<exchange, account, activated, generation, cursor, state, loads>>
  BY DEF LoadMore
<1>3. /\ account \in Accounts /\ account # Unknown /\ cursor \in Cursors /\ PastCursor(cursor)
      /\ generation \in Nat
  BY <1>1, <1>2, HistoryAssumption DEF ListFits, SignedIn, SessionFits
<1>4. PICK a, c, g : a = account /\ c = cursor /\ g = generation
  OBVIOUS
<1>5. page' = [stage |-> "asked", mine |-> g, who |-> a, after |-> c, list |-> <<>>, next |-> None]
  BY <1>4 DEF LoadMore, NoPage
<1>6. g \in 0..generation' /\ a \in Accounts \cup {Nobody, Unknown} /\ <<>> \in Seq(Nat)
  BY <1>2, <1>3, <1>4
<1>7. page' \in PageRecords'
  BY <1>3, <1>4, <1>5, <1>6, NoneFacts DEF PageRecords
<1>8. /\ page'.stage = "asked" /\ page'.who = a /\ page'.after = c /\ page'.next = None
      /\ page'.mine = g
  BY <1>5
<1>9. PastCursor(page.next)' /\ PastCursor(page.after)'
  <2>1. PastCursor(c)'
    BY <1>2, <1>3, <1>4, SameExchange
  <2> QED BY <1>8, <2>1 DEF PastCursor
<1>10. PageFits'
  BY <1>2, <1>3, <1>4, <1>7, <1>8, <1>9 DEF PageFits
<1>11. LoadsFit' /\ ListFits' /\ SessionFits'
  BY <1>1, <1>2, LoadsStay, ListStays DEF SessionFits
<1> QED BY <1>10, <1>11, TabPartsNext

LEMMA ReadPageKeeps ==
  ASSUME HistoryInvariant, ReadPage
  PROVE  TabInvariant'
<1>1. SessionFits /\ LoadsFit /\ PageFits /\ ListFits /\ ExchangeFits /\ FillsInOrder
  BY TabParts DEF HistoryInvariant, ExchangeInvariant
<1>2. page.stage = "asked" /\ UNCHANGED <<exchange, account, activated, generation, cursor, state, loads>>
  BY DEF ReadPage
<1>3. PICK p, list, next : /\ p = page /\ list = PageOf(p.who, p.after).list
                           /\ next = PageOf(p.who, p.after).next
  OBVIOUS
<1>4. /\ p \in PageRecords /\ p.who \in Accounts /\ p.after # None /\ PastCursor(p.after)
      /\ (p.mine = generation => p.who = account) /\ account # Unknown
  BY <1>1, <1>2, <1>3, NoneFacts DEF PageFits
<1>5. p.after \in Cursors /\ p.mine \in 0..generation
  BY <1>4 DEF PageRecords
<1>6. list \in Seq(Nat) /\ next \in Cursors /\ PastCursor(next) /\ Answered(list, next, p.who, p.after)
  BY <1>1, <1>3, <1>5, PageFacts
<1>7. page' = [stage |-> "read", mine |-> p.mine, who |-> p.who, after |-> p.after, list |-> list, next |-> next]
  <2>1. p = [stage |-> p.stage, mine |-> p.mine, who |-> p.who, after |-> p.after,
             list |-> p.list, next |-> p.next]
    BY <1>4 DEF PageRecords
  <2>2. page' = [p EXCEPT !.stage = "read", !.list = list, !.next = next]
    BY <1>3 DEF ReadPage
  <2> QED BY <2>1, <2>2
<1>8. page' \in PageRecords'
  BY <1>2, <1>4, <1>5, <1>6, <1>7 DEF PageRecords
<1>9. /\ page'.stage = "read" /\ page'.who = p.who /\ page'.after = p.after /\ page'.mine = p.mine
      /\ page'.list = list /\ page'.next = next
  BY <1>7
<1>10. PastCursor(page.next)' /\ PastCursor(page.after)'
  <2>1. PastCursor(p.after)' /\ PastCursor(next)'
    BY <1>2, <1>4, <1>6, SameExchange
  <2> QED BY <1>9, <2>1 DEF PastCursor
<1>11. Answered(page.list, page.next, page.who, page.after)'
  <2>1. Answered(list, next, p.who, p.after)'
    BY <1>2, <1>6, SameExchange
  <2> QED BY <1>9, <2>1 DEF Answered
<1>12. PageFits'
  BY <1>2, <1>4, <1>8, <1>9, <1>10, <1>11 DEF PageFits
<1>13. LoadsFit' /\ ListFits' /\ SessionFits'
  BY <1>1, <1>2, LoadsStay, ListStays DEF SessionFits
<1> QED BY <1>12, <1>13, TabPartsNext

LEMMA PageFailsKeeps ==
  ASSUME HistoryInvariant, PageFails
  PROVE  TabInvariant'
<1>1. SessionFits /\ LoadsFit /\ PageFits /\ ListFits
  BY TabParts DEF HistoryInvariant
<1>2. page' = NoPage /\ UNCHANGED <<exchange, account, activated, generation, cursor, state, loads>>
  BY DEF PageFails
<1>3. generation' \in 0..MaxLoads
  BY <1>1, <1>2 DEF SessionFits
<1>4. LoadsFit' /\ ListFits' /\ SessionFits' /\ PageFits'
  BY <1>1, <1>2, <1>3, LoadsStay, ListStays, PageGone DEF SessionFits
<1> QED BY <1>4, TabPartsNext

\* A fill that is missing between two members of S was passed by at one of the cursors E.
CutOffIn(i, S, E) == \E j \in S :
  /\ CursorOf(j) \in E
  /\ Newer(j, i) /\ Ms(j) = Ms(i) /\ ~Before(i, CursorOf(j))

UnbrokenIn(S, E, a) ==
  \A i \in FillsOf(a) \ S :
    (\E j \in S : Newer(j, i)) /\ (\E j \in S : Newer(i, j)) => CutOffIn(i, S, E)

\* What stands before the cursor of a fill is older than the fill.
LEMMA CursorFacts ==
  ASSUME ExchangeFits, NEW i \in DOMAIN fills, NEW j \in DOMAIN fills, NEW k \in DOMAIN fills
  PROVE  /\ Before(i, CursorOf(j)) => Newer(j, i)
         /\ ~Before(i, CursorOf(j)) /\ Newer(j, i) => Ms(j) = Ms(i)
         /\ Before(k, CursorOf(j)) /\ Newer(k, i) => Before(i, CursorOf(j))
<1> DEFINE c == CursorOf(j)
<1>1. /\ c.at \in Nat /\ c.at <= fills[j].at /\ c.key = fills[j].key /\ c # None
      /\ (c.at <= fills[i].at /\ fills[i].at <= fills[j].at => Ms(j) = Ms(i))
  BY MsFacts
<1>2. /\ fills[i].at \in Nat /\ fills[j].at \in Nat /\ fills[k].at \in Nat
      /\ fills[i].key \in Nat /\ fills[j].key \in Nat /\ fills[k].key \in Nat
  BY FillFacts
<1> HIDE DEF c
<1>3. Before(i, c) => Newer(j, i)
  BY <1>1, <1>2 DEF Before, Newer
<1>4. ~Before(i, c) /\ Newer(j, i) => Ms(j) = Ms(i)
  BY <1>1, <1>2 DEF Before, Newer
<1>5. Before(k, c) /\ Newer(k, i) => Before(i, c)
  BY <1>1, <1>2 DEF Before, Newer
<1> QED BY <1>3, <1>4, <1>5 DEF c

\* What was read behind the oldest fill of a list.
Continues(list, next, S, E, a, after) ==
  /\ S \subseteq FillsOf(a) /\ UnbrokenIn(S, E, a)
  /\ \E j \in S : Oldest(j, S) /\ after = CursorOf(j) /\ Answered(list, next, a, CursorOf(j))

\* With the page the list is still one, up to where the next page begins.
Joined(list, next, S, E, a, after) ==
  /\ UnbrokenIn(S \cup Range(list), E \cup {after}, a)
  /\ next = None \/ \E k \in S \cup Range(list) :
                      next = CursorOf(k) /\ Oldest(k, S \cup Range(list))

\* A page that was asked from the end of a list continues it.
LEMMA PageJoins ==
  ASSUME ExchangeFits, FillsInOrder, NEW a, NEW S, NEW E, NEW list, NEW next, NEW after,
         Continues(list, next, S, E, a, after)
  PROVE  Joined(list, next, S, E, a, after)
<1>0. PICK j \in S : Oldest(j, S) /\ after = CursorOf(j) /\ Answered(list, next, a, CursorOf(j))
  BY DEF Continues
<1> USE <1>0
<1> DEFINE L == Range(list)
           c == CursorOf(j)
<1>1. S \subseteq DOMAIN fills /\ L \subseteq FillsOf(a) /\ L \subseteq DOMAIN fills /\ FillsOf(a) \subseteq DOMAIN fills
  BY FillFacts DEF Answered, Continues
<1>2. c # None /\ \A k \in L : Before(k, c) /\ Newer(j, k)
  <2>1. c # None
    BY <1>1, MsFacts
  <2>2. \A k \in L : Before(k, c)
    BY DEF Answered
  <2> QED BY <1>1, <2>1, <2>2, CursorFacts
<1>3. \A k \in S : k = j \/ Newer(k, j)
  BY DEF Oldest
<1>4. \A i \in FillsOf(a) \ L : Before(i, c) => \A k \in L : Newer(k, i)
  BY <1>2 DEF Answered
<1>5. \A i \in DOMAIN fills : /\ ~Before(i, c) /\ Newer(j, i) => Ms(j) = Ms(i)
                              /\ \A k \in L : Newer(k, i) => Before(i, c)
  BY <1>1, <1>2, CursorFacts
<1> HIDE DEF L, c
<1>6. ASSUME NEW i \in FillsOf(a) \ (S \cup L), NEW x \in S \cup L, Newer(x, i),
             NEW y \in S \cup L, Newer(i, y)
      PROVE  CutOffIn(i, S \cup L, E \cup {after})
  <2>1. i \in DOMAIN fills /\ x \in DOMAIN fills /\ y \in DOMAIN fills /\ j \in DOMAIN fills /\ i # j
    BY <1>1
  <2>2. CASE Newer(i, j)
    <3>1. x \in S
      BY <1>1, <1>2, <1>6, <2>1, <2>2, NewerOrders
    <3>2. CutOffIn(i, S, E)
      BY <1>6, <2>2, <3>1 DEF UnbrokenIn, Continues
    <3> QED BY <3>2 DEF CutOffIn
  <2>3. CASE Newer(j, i)
    <3>1. y \in L
      BY <1>1, <1>3, <1>6, <2>1, <2>3, NewerOrders
    <3>2. ~Newer(y, i)
      BY <1>6, <2>1, NewerOrders
    <3>3. ~Before(i, c)
      BY <1>4, <3>1, <3>2
    <3>4. Ms(j) = Ms(i)
      BY <1>5, <2>1, <2>3, <3>3
    <3>5. CursorOf(j) = after /\ c = CursorOf(j)
      BY DEF c
    <3> QED BY <2>3, <3>3, <3>4, <3>5 DEF CutOffIn
  <2> QED BY <2>1, <2>2, <2>3, NewerOrders
<1>7. UnbrokenIn(S \cup L, E \cup {after}, a)
  BY <1>6 DEF UnbrokenIn
<1>8. ASSUME next # None PROVE \E k \in S \cup L : next = CursorOf(k) /\ Oldest(k, S \cup L)
  <2>1. PICK k \in L : next = CursorOf(k) /\ Oldest(k, L)
    BY <1>8 DEF Answered, L
  <2>2. \A d \in L : d = k \/ Newer(d, k)
    BY <2>1 DEF Oldest
  <2>3. \A d \in S : Newer(d, k)
    BY <1>1, <1>2, <1>3, <2>1, NewerOrders
  <2> QED BY <2>1, <2>2, <2>3 DEF Oldest
<1> QED BY <1>7, <1>8 DEF L, Joined

LEMMA PageLandsKeeps ==
  ASSUME HistoryInvariant, PageLands
  PROVE  TabInvariant'
<1>1. SessionFits /\ LoadsFit /\ PageFits /\ ListFits /\ ExchangeFits /\ FillsInOrder
  BY TabParts DEF HistoryInvariant, ExchangeInvariant
<1>2. page.stage = "read" /\ page' = NoPage /\ UNCHANGED <<exchange, account, activated, generation, loads>>
  BY DEF PageLands
<1>3. LoadsFit' /\ SessionFits' /\ PageFits'
  <2>1. generation' \in 0..MaxLoads
    BY <1>1, <1>2 DEF SessionFits
  <2> QED BY <1>1, <1>2, <2>1, LoadsStay, PageGone DEF SessionFits
<1>4. CASE page.mine # generation
  <2>1. UNCHANGED <<exchange, account, cursor, state>>
    BY <1>2, <1>4 DEF PageLands
  <2> QED BY <1>1, <1>3, <2>1, ListStays, TabPartsNext
<1>5. CASE page.mine = generation
  <2>1. PICK p, a, c, S, E : p = page /\ a = account /\ c = cursor /\ S = Shown /\ E = state.ends
    OBVIOUS
  <2>2. /\ p \in PageRecords /\ PastCursor(p.next) /\ a \in Accounts /\ p.who = a /\ p.after # None
        /\ Answered(p.list, p.next, a, p.after)
    BY <1>1, <1>2, <1>5, <2>1 DEF PageFits
  <2>3. p.list \in Seq(Nat) /\ p.next \in Cursors /\ p.after \in Cursors
    BY <2>2 DEF PageRecords
  <2>4. cursor' = p.next /\ account' = a /\ SignedIn' /\ SignedIn
    BY <1>2, <1>5, <2>1, <2>2 DEF PageLands, SignedIn
  <2>5. PastCursor(cursor)' /\ cursor' \in Cursors
    <3>1. PastCursor(p.next)'
      BY <1>2, <2>2, SameExchange
    <3> QED BY <2>3, <2>4, <3>1 DEF PastCursor
  <2>6. StateRecords' = StateRecords /\ ViewRecords' = ViewRecords
    BY <1>2 DEF StateRecords, ViewRecords, exchange
  <2>7. CASE state.status # "ready"
    <3>1. state' = state /\ state'.fills = <<>> /\ state \in StateRecords
      BY <1>1, <1>5, <2>7 DEF PageLands, ListFits
    <3>2. ScreenFits'
      BY <2>7, <3>1, EmptyScreenFits
    <3>3. ListFits'
      BY <2>4, <2>5, <2>6, <3>1, <3>2 DEF ListFits
    <3> QED BY <1>3, <3>3, TabPartsNext
  <2>8. CASE state.status = "ready"
    <3> DEFINE views == ViewsOf(p.list, a)
    <3>1. state' = [state EXCEPT !.fills = Extended(views), !.ends = E \cup {p.after},
                                 !.spliced = state.spliced \/ p.after # c]
      BY <1>5, <2>1, <2>2, <2>8 DEF PageLands
    <3>2. state \in StateRecords /\ ScreenFits
      BY <1>1 DEF ListFits
    <3>3. state.fills \in Seq(ViewRecords) /\ state.spliced \in BOOLEAN /\ E \subseteq Cursors
      BY <2>1, <3>2 DEF StateRecords
    <3>4. Distinct(p.list) /\ Range(p.list) \subseteq FillsOf(a)
      BY <2>2 DEF Answered
    <3>5. /\ views \in Seq(ViewRecords) /\ Distinct(views)
          /\ {v.id : v \in Range(views)} = Range(p.list)
          /\ \A i \in Range(p.list) : Range(Views(i, a)) \subseteq Range(views)
      BY <1>1, <2>3, <3>4, ViewsOfFacts
    <3> HIDE DEF views
    <3>6. PICK e : e = Extended(views)
      OBVIOUS
    <3>7. /\ e \in Seq(ViewRecords) /\ Distinct(e) /\ Range(e) = Range(state.fills) \cup Range(views)
      <4>1. \A v \in ViewRecords : Ms(v.id) \in Int
        <5>1. \A v \in ViewRecords : v.id \in DOMAIN fills
          BY DEF ViewRecords
        <5> QED BY <1>1, <5>1, MsFacts
      <4>2. Distinct(state.fills)
        BY <3>2 DEF ScreenFits
      <4> QED BY <3>3, <3>5, <3>6, <4>1, <4>2, ExtendedFacts
    <3>8. state' = [status |-> "ready", fills |-> e, ends |-> E \cup {p.after},
                    spliced |-> state.spliced \/ p.after # c]
      <4>1. PICK shown, ends, spliced :
              state = [status |-> "ready", fills |-> shown, ends |-> ends, spliced |-> spliced]
        BY <2>8, <3>2 DEF StateRecords
      <4>2. state.spliced = spliced
        BY <4>1
      <4>3. PICK spl : spl = (state.spliced \/ p.after # c)
        OBVIOUS
      <4>4. state' = [state EXCEPT !.fills = e, !.ends = E \cup {p.after}, !.spliced = spl]
        BY <3>1, <3>6, <4>3
      <4>5. state' = [status |-> "ready", fills |-> e, ends |-> E \cup {p.after}, spliced |-> spl]
        BY <4>1, <4>4
      <4> QED BY <4>3, <4>5
    <3>9. /\ state'.status = "ready" /\ state'.fills = e /\ (~state'.spliced => ~state.spliced /\ p.after = c)
          /\ state' \in StateRecords /\ state'.ends = E \cup {p.after}
      <4>1. /\ state'.status = "ready" /\ state'.fills = e /\ state'.ends = E \cup {p.after}
            /\ state'.spliced = (state.spliced \/ p.after # c)
        BY <3>8
      <4>2. (state.spliced \/ p.after # c) \in BOOLEAN
        OBVIOUS
      <4>3. state' \in StateRecords
        BY <2>3, <3>3, <3>7, <3>8, <4>2 DEF StateRecords
      <4> QED BY <4>1, <4>3
    <3>10. Shown' = S \cup Range(p.list)
      <4>1. Shown' = {v.id : v \in Range(e)}
        BY <3>9 DEF Shown
      <4>2. S = {v.id : v \in Range(state.fills)}
        BY <2>1 DEF Shown
      <4> QED BY <3>5, <3>7, <4>1, <4>2
    <3>11. /\ FillsOf(account)' = FillsOf(a) /\ FillsOf(account) = FillsOf(a)
           /\ \A i : Views(i, account)' = Views(i, a) /\ Views(i, account) = Views(i, a)
      BY <1>2, <2>1 DEF FillsOf, Views, exchange
    <3>12. S \subseteq FillsOf(a) /\ Shown' \subseteq FillsOf(account)'
      BY <2>1, <3>2, <3>4, <3>10, <3>11 DEF ScreenFits
    <3>13. \A i \in Shown' : Range(Views(i, account))' \subseteq Range(state'.fills)
      <4>1. \A i \in S : Range(Views(i, a)) \subseteq Range(state.fills)
        BY <2>1, <3>2, <3>11 DEF ScreenFits
      <4> QED BY <3>5, <3>7, <3>9, <3>10, <3>11, <4>1
    <3>14. ASSUME ~state'.spliced
           PROVE  Unbroken' /\ (cursor' # None => \E j \in Shown' : cursor' = CursorOf(j)' /\ Oldest(j, Shown)')
      <4>1. ~state.spliced /\ p.after = c /\ c # None
        BY <2>2, <3>9, <3>14
      <4>2. PICK j \in S : c = CursorOf(j) /\ Oldest(j, S)
        BY <2>1, <2>8, <3>2, <4>1 DEF ScreenFits
      <4>3. UnbrokenIn(S, E, a)
        BY <2>1, <3>2, <4>1 DEF ScreenFits, Unbroken, UnbrokenIn, CutOff, CutOffIn
      <4>4. Answered(p.list, p.next, a, CursorOf(j))
        BY <2>2, <4>1, <4>2
      <4>5. PICK T : T = S \cup Range(p.list)
        OBVIOUS
      <4>6. /\ UnbrokenIn(T, E \cup {p.after}, a)
            /\ p.next = None \/ \E k \in T : p.next = CursorOf(k) /\ Oldest(k, T)
        <5>1. PICK list, next, after : list = p.list /\ next = p.next /\ after = p.after
          OBVIOUS
        <5>2. Continues(list, next, S, E, a, after)
          BY <3>12, <4>1, <4>2, <4>3, <4>4, <5>1 DEF Continues
        <5>4. /\ UnbrokenIn(S \cup Range(list), E \cup {after}, a)
              /\ next = None \/ \E k \in S \cup Range(list) :
                                  next = CursorOf(k) /\ Oldest(k, S \cup Range(list))
          <6>1. Joined(list, next, S, E, a, after)
            BY <1>1, <5>2, PageJoins
          <6> QED BY <6>1 DEF Joined
        <5> QED BY <4>5, <5>1, <5>4
      <4>7. Unbroken'
        <5>1. \A i, k : Newer(i, k)' <=> Newer(i, k)
          BY <1>2, SameExchange
        <5>2. \A i : Ms(i)' = Ms(i)
          BY <1>2, SameExchange
        <5>3. Shown' = T /\ FillsOf(account)' = FillsOf(a)
          BY <3>10, <3>11, <4>5
        <5>4. \A k : CursorOf(k)' = CursorOf(k)
          BY <1>2, SameExchange
        <5>5. \A i, k : Before(i, CursorOf(k))' <=> Before(i, CursorOf(k))
          BY <1>2 DEF Before, CursorOf, Ms, exchange
        <5>6. \A i : CutOffIn(i, T, E \cup {p.after}) => CutOff(i)'
          BY <3>9, <5>1, <5>2, <5>3, <5>4, <5>5 DEF CutOffIn, CutOff
        <5> QED BY <4>6, <5>1, <5>3, <5>6 DEF UnbrokenIn, Unbroken
      <4>8. cursor' # None => \E k \in Shown' : cursor' = CursorOf(k)' /\ Oldest(k, Shown)'
        <5>1. Shown' = T
          BY <3>10, <4>5
        <5>2. \A k : (CursorOf(k)' = CursorOf(k)) /\ (Oldest(k, T)' <=> Oldest(k, T))
          BY <1>2, SameExchange
        <5>3. \A k : Oldest(k, Shown)' <=> Oldest(k, T)'
          BY <5>1 DEF Oldest
        <5> QED BY <2>4, <4>6, <5>1, <5>2, <5>3
      <4> QED BY <4>7, <4>8
    <3>15. ScreenFits'
      BY <3>7, <3>9, <3>12, <3>13, <3>14 DEF ScreenFits
    <3>16. ListFits'
      BY <2>4, <2>5, <2>6, <3>9, <3>15 DEF ListFits
    <3> QED BY <1>3, <3>16, TabPartsNext
  <2> QED BY <2>7, <2>8
<1> QED BY <1>4, <1>5

-----------------------------------------------------------------------------
(* The session.                                                            *)

LEMMA ActivateKeeps ==
  ASSUME HistoryInvariant, Activate
  PROVE  TabInvariant'
<1>1. SessionFits /\ LoadsFit /\ PageFits /\ ListFits
  BY TabParts DEF HistoryInvariant
<1>2. activated' = TRUE /\ UNCHANGED <<exchange, account, cursor, page>>
  BY DEF Activate
<1>3. CASE SignedIn
  <2>1. PICK who : who = account
    OBVIOUS
  <2>2. who \in Accounts /\ Load(who) /\ account' = who /\ activated' \in BOOLEAN /\ account = who
    BY <1>2, <1>3, <2>1 DEF Activate, SignedIn
  <2> QED BY <1>2, <2>2, LoadKeeps
<1>4. CASE ~SignedIn
  <2>1. UNCHANGED <<generation, loads, state>>
    BY <1>4 DEF Activate
  <2>2. SessionFits'
    BY <1>1, <1>2, <2>1 DEF SessionFits
  <2>3. LoadsFit' /\ PageFits' /\ ListFits'
    BY <1>1, <1>2, <2>1, LoadsStay, PageStays, ListStays
  <2> QED BY <2>2, <2>3, TabPartsNext
<1> QED BY <1>3, <1>4

LEMMA RefreshKeeps ==
  ASSUME HistoryInvariant, Refresh
  PROVE  TabInvariant'
<1>1. UNCHANGED <<exchange, account, activated, cursor, page>> /\ activated \in BOOLEAN
  BY DEF Refresh, HistoryInvariant, TabInvariant, TabFits
<1>2. PICK who : who = account
  OBVIOUS
<1>3. who \in Accounts /\ Load(who) /\ account' = who /\ activated' \in BOOLEAN /\ account = who
  BY <1>1, <1>2 DEF Refresh, SignedIn
<1> QED BY <1>1, <1>3, LoadKeeps

\* Nothing is under way in this generation while nobody is signed in.
LEMMA SignInKeeps ==
  ASSUME HistoryInvariant, NEW who \in Accounts, SignIn(who)
  PROVE  TabInvariant'
<1>1. SessionFits /\ LoadsFit /\ PageFits /\ ListFits
  BY TabParts DEF HistoryInvariant
<1>2. account' = who /\ ~SignedIn /\ UNCHANGED <<exchange, activated, cursor, page>> /\ activated' \in BOOLEAN
  BY <1>1 DEF SignIn, SessionFits
<1>3. CASE activated
  <2>1. Load(who)
    BY <1>3 DEF SignIn
  <2> QED BY <1>2, <2>1, LoadKeeps
<1>4. CASE ~activated
  <2>1. UNCHANGED <<generation, loads, state>>
    BY <1>4 DEF SignIn
  <2>2. who # Unknown /\ who \in Accounts \cup {Nobody, Unknown}
    BY HistoryAssumption
  <2>3. SessionFits'
    BY <1>1, <1>2, <2>1, <2>2 DEF SessionFits
  <2>4. LoadsFit'
    <3>1. LoadRecords' = LoadRecords
      BY <2>1 DEF LoadRecords
    <3>2. \A l \in loads : l.mine # generation
      <4>1. \A l \in loads : l.who \in Accounts
        BY <1>1 DEF LoadsFit, LoadRecords
      <4> QED BY <1>1, <1>2, <4>1 DEF LoadsFit, SignedIn
    <3> QED BY <1>1, <1>2, <2>1, <2>2, <3>1, <3>2, SameExchange DEF LoadsFit
  <2>5. PageFits'
    <3>1. PageRecords' = PageRecords
      BY <2>1 DEF PageRecords
    <3>2. page.stage # "none" => page.mine # generation
      BY <1>1, <1>2 DEF PageFits, SignedIn
    <3>3. PICK p : p = page
      OBVIOUS
    <3>4. /\ PastCursor(p.next)' /\ (p.stage # "none" => PastCursor(p.after)')
          /\ p.stage = "read" => Answered(p.list, p.next, p.who, p.after)'
      BY <1>1, <1>2, <3>3, SameExchange DEF PageFits
    <3>5. page' = p
      BY <1>2, <3>3
    <3>6. PastCursor(page.next)' /\ (p.stage # "none" => PastCursor(page.after)')
      BY <3>4, <3>5 DEF PastCursor
    <3>7. p.stage = "read" => Answered(page.list, page.next, page.who, page.after)'
      BY <3>4, <3>5 DEF Answered
    <3> QED BY <1>1, <1>2, <2>1, <2>2, <3>1, <3>2, <3>3, <3>5, <3>6, <3>7 DEF PageFits
  <2>6. ListFits'
    <3>1. cursor' = None /\ state'.fills = <<>> /\ state \in StateRecords
      BY <1>1, <1>2, <2>1 DEF ListFits
    <3>2. state' \in [status : {"idle", "loading", "ready", "error"}, fills : {<<>>},
                           ends : SUBSET Cursors, spliced : BOOLEAN]
      BY <2>1, <3>1 DEF StateRecords
    <3> QED BY <3>1, <3>2, ListGone
  <2> QED BY <2>3, <2>4, <2>5, <2>6, TabPartsNext
<1> QED BY <1>3, <1>4

\* Everything that is under way becomes a matter of an earlier generation.
LEMMA SignOutKeeps ==
  ASSUME HistoryInvariant, SignOut
  PROVE  TabInvariant'
<1>1. SessionFits /\ LoadsFit /\ PageFits /\ ListFits
  BY TabParts DEF HistoryInvariant
<1>2. /\ account' = Nobody /\ activated' = FALSE /\ generation' = generation + 1
      /\ cursor' = None /\ state' = Idle /\ UNCHANGED <<exchange, loads, page>>
  BY DEF SignOut
<1>3. generation \in Nat /\ generation' \in 0..MaxLoads /\ Nobody # Unknown
  BY <1>1, HistoryAssumption DEF SessionFits, SignOut, Nobody, Unknown
<1>4. SessionFits'
  BY <1>2, <1>3 DEF SessionFits
<1>5. \A l \in loads : l \in LoadRecords' /\ l.mine # generation'
  <2> SUFFICES ASSUME NEW l \in loads PROVE l \in LoadRecords' /\ l.mine # generation'
    OBVIOUS
  <2>1. l \in LoadRecords
    BY <1>1 DEF LoadsFit
  <2>2. l.mine \in 1..generation
    BY <2>1 DEF LoadRecords
  <2>3. l.mine \in 1..generation' /\ l.mine # generation'
    BY <1>2, <1>3, <2>2
  <2> QED BY <2>1, <2>3 DEF LoadRecords
<1>6. LoadsFit'
  BY <1>1, <1>2, <1>3, <1>5, SameExchange DEF LoadsFit
<1>7. PICK p : p = page
  OBVIOUS
<1>8. p \in PageRecords' /\ p.mine # generation'
  <2>1. p \in PageRecords
    BY <1>1, <1>7 DEF PageFits
  <2>2. p.mine \in 0..generation
    BY <2>1 DEF PageRecords
  <2>3. p.mine \in 0..generation' /\ p.mine # generation'
    BY <1>2, <1>3, <2>2
  <2> QED BY <2>1, <2>3 DEF PageRecords
<1>9. PageFits'
  <2>1. /\ PastCursor(p.next)' /\ (p.stage # "none" => PastCursor(p.after)')
        /\ p.stage = "read" => Answered(p.list, p.next, p.who, p.after)'
    BY <1>1, <1>2, <1>7, SameExchange DEF PageFits
  <2>2. page' = p
    BY <1>2, <1>7
  <2>3. PastCursor(page.next)' /\ (p.stage # "none" => PastCursor(page.after)')
    BY <2>1, <2>2 DEF PastCursor
  <2>4. p.stage = "read" => Answered(page.list, page.next, page.who, page.after)'
    BY <2>1, <2>2 DEF Answered
  <2> QED BY <1>1, <1>2, <1>3, <1>7, <1>8, <2>2, <2>3, <2>4 DEF PageFits
<1>10. ListFits'
  <2>1. state' = [status |-> "idle", fills |-> <<>>, ends |-> {}, spliced |-> FALSE]
    BY <1>2 DEF Idle
  <2> QED BY <1>2, <2>1, ListGone
<1> QED BY <1>4, <1>6, <1>9, <1>10, TabPartsNext

-----------------------------------------------------------------------------
(* The theorems.                                                           *)

LEMMA HistoryStarts == Init => HistoryInvariant
<1> SUFFICES ASSUME Init PROVE HistoryInvariant
  OBVIOUS
<1>1. /\ book = {} /\ backlog = <<>> /\ owner = [o \in Orders |-> Nobody]
      /\ rows = [o \in Orders |-> "none"] /\ fills = <<>> /\ table = {} /\ stuck = FALSE /\ up = TRUE
      /\ account = Unknown /\ activated = FALSE /\ generation = 0
      /\ cursor = None /\ state = Idle /\ loads = {} /\ page = NoPage
  BY DEF Init
<1>2. DOMAIN fills = {} /\ fills \in Seq(FillRecords)
  BY <1>1
<1>3. ExchangeFits
  <2>1. IsFiniteSet({})
    BY FS_EmptySet
  <2> QED BY <1>1, <1>2, <2>1 DEF ExchangeFits, BacklogFits
<1>4. ExchangeInvariant
  BY <1>1, <1>2, <1>3 DEF ExchangeInvariant, FillsInOrder, HumanTradesSurvive, UpWhileUsed
<1>5. SessionFits
  <2>1. MaxLoads \in Nat
    BY HistoryAssumption
  <2>2. generation \in 0..MaxLoads
    BY <1>1, <2>1
  <2> QED BY <1>1, <2>2 DEF SessionFits
<1>6. LoadsFit
  BY <1>1 DEF LoadsFit
<1>7. PageFits
  <2>1. page \in PageRecords
    BY <1>1, NoneFacts
  <2> QED BY <1>1, <2>1, NoneFacts DEF PageFits
<1>8. ListFits
  <2>1. state = [status |-> "idle", fills |-> <<>>, ends |-> {}, spliced |-> FALSE]
    BY <1>1 DEF Idle
  <2>2. <<>> \in Seq(ViewRecords)
    OBVIOUS
  <2>3. state \in StateRecords /\ state.fills = <<>> /\ state.status = "idle"
    BY <2>1, <2>2 DEF StateRecords
  <2>4. Shown = {}
    BY <2>3 DEF Shown, Range
  <2>5. Distinct(state.fills)
    BY <2>3 DEF Distinct
  <2>6. ScreenFits
    BY <1>1, <2>4, <2>5 DEF ScreenFits, Unbroken
  <2> QED BY <1>1, <2>3, <2>6, NoneFacts DEF ListFits
<1> QED BY <1>4, <1>5, <1>6, <1>7, <1>8, TabParts DEF HistoryInvariant

LEMMA TradingKeeps ==
  ASSUME HistoryInvariant, Trading
  PROVE  HistoryInvariant'
<1> USE DEF HistoryInvariant
<1>1. ASSUME NEW o \in Orders, NEW who \in Traders \cup {Bots}, Place(o, who)
      PROVE  HistoryInvariant'
  <2>1. ExchangeInvariant' /\ Grows
    BY <1>1, PlaceKeeps
  <2> QED BY <1>1, <2>1, TabKeeps DEF Place
<1>2. ASSUME NEW o \in Orders, NEW who \in Traders \cup {Bots},
             NEW makers \in SUBSET book \ {{}}, NEW rest \in SUBSET makers, Sweep(o, who, makers, rest)
      PROVE  HistoryInvariant'
  <2>1. ExchangeInvariant' /\ Grows
    BY <1>2, SweepKeeps
  <2> QED BY <1>2, <2>1, TabKeeps DEF Sweep
<1>3. CASE Write
  <2>1. ExchangeInvariant' /\ Grows
    BY <1>3, WriteKeeps
  <2> QED BY <1>3, <2>1, TabKeeps DEF Write
<1>4. CASE Switch
  <2>1. ExchangeInvariant' /\ Grows
    BY <1>4, SwitchKeeps
  <2> QED BY <1>4, <2>1, TabKeeps DEF Switch
<1>5. CASE Prune
  <2>1. ExchangeInvariant' /\ ~up
    BY <1>5, PruneKeeps
  <2>2. UNCHANGED <<fills, tab>>
    BY <1>5 DEF Prune
  <2> QED BY <2>1, <2>2, PruneFindsNoTab
<1> QED BY <1>1, <1>2, <1>3, <1>4, <1>5 DEF Trading

LEMMA HistorySteps ==
  ASSUME HistoryInvariant, [Next]_vars
  PROVE  HistoryInvariant'
<1>1. ExchangeInvariant /\ UpWhileUsed
  BY DEF HistoryInvariant, ExchangeInvariant
<1>2. CASE Trading
  BY <1>2, TradingKeeps
<1>3. CASE Activate
  <2>1. ExchangeInvariant'
    BY <1>1, <1>3, ExchangeStays DEF Activate
  <2> QED BY <1>3, <2>1, ActivateKeeps DEF HistoryInvariant
<1>4. CASE Refresh
  <2>1. ExchangeInvariant'
    BY <1>1, <1>4, ExchangeStays DEF Refresh
  <2> QED BY <1>4, <2>1, RefreshKeeps DEF HistoryInvariant
<1>5. ASSUME NEW l \in loads, Read(l) PROVE HistoryInvariant'
  <2>1. ExchangeInvariant'
    BY <1>1, <1>5, ExchangeStays DEF Read
  <2> QED BY <1>5, <2>1, ReadKeeps DEF HistoryInvariant
<1>6. ASSUME NEW l \in loads, Land(l) PROVE HistoryInvariant'
  <2>1. ExchangeInvariant'
    BY <1>1, <1>6, ExchangeStays DEF Land
  <2> QED BY <1>6, <2>1, LandKeeps DEF HistoryInvariant
<1>7. ASSUME NEW l \in loads, LoadFails(l) PROVE HistoryInvariant'
  <2>1. ExchangeInvariant'
    BY <1>1, <1>7, ExchangeStays DEF LoadFails
  <2> QED BY <1>7, <2>1, LoadFailsKeeps DEF HistoryInvariant
<1>8. CASE LoadMore
  <2>1. ExchangeInvariant'
    BY <1>1, <1>8, ExchangeStays DEF LoadMore
  <2> QED BY <1>8, <2>1, LoadMoreKeeps DEF HistoryInvariant
<1>9. CASE ReadPage
  <2>1. ExchangeInvariant'
    BY <1>1, <1>9, ExchangeStays DEF ReadPage
  <2> QED BY <1>9, <2>1, ReadPageKeeps DEF HistoryInvariant
<1>10. CASE PageLands
  <2>1. ExchangeInvariant'
    BY <1>1, <1>10, ExchangeStays DEF PageLands
  <2> QED BY <1>10, <2>1, PageLandsKeeps DEF HistoryInvariant
<1>11. CASE PageFails
  <2>1. ExchangeInvariant'
    BY <1>1, <1>11, ExchangeStays DEF PageFails
  <2> QED BY <1>11, <2>1, PageFailsKeeps DEF HistoryInvariant
<1>12. CASE SignOut
  <2>1. ExchangeInvariant'
    BY <1>1, <1>12, ExchangeStays DEF SignOut
  <2> QED BY <1>12, <2>1, SignOutKeeps DEF HistoryInvariant
<1>13. ASSUME NEW who \in Accounts, SignIn(who) PROVE HistoryInvariant'
  <2>1. ExchangeInvariant'
    BY <1>1, <1>13, ExchangeStays DEF SignIn
  <2> QED BY <1>13, <2>1, SignInKeeps DEF HistoryInvariant
<1>14. CASE UNCHANGED vars
  <2>1. UNCHANGED exchange /\ UNCHANGED <<account, activated, generation, cursor, state, loads, page>>
    BY <1>14 DEF vars, tab
  <2>2. ExchangeInvariant'
    BY <1>1, <2>1, ExchangeStays
  <2>3. SessionFits /\ LoadsFit /\ PageFits /\ ListFits
    BY TabParts DEF HistoryInvariant
  <2>4. SessionFits' /\ LoadsFit' /\ PageFits' /\ ListFits'
    BY <2>1, <2>3, LoadsStay, PageStays, ListStays DEF SessionFits
  <2> QED BY <2>2, <2>4, TabPartsNext DEF HistoryInvariant
<1> QED BY <1>2, <1>3, <1>4, <1>5, <1>6, <1>7, <1>8, <1>9, <1>10, <1>11, <1>12, <1>13, <1>14 DEF Next

\* The inductive invariant: the rows are those of orders that were placed, fills are in the
\* order of their timestamps, an answer under way is the newest part of the table before its
\* cursor, what is under way in this generation is of the account that is signed in, and the
\* cursor stands at the end of the list it came with.
THEOREM HistoryInvariantHolds == Spec => []HistoryInvariant
<1>1. Init => HistoryInvariant
  BY HistoryStarts
<1>2. HistoryInvariant /\ [Next]_vars => HistoryInvariant'
  BY HistorySteps
<1> QED BY <1>1, <1>2, PTL DEF Spec

\* The rows, the fills, the session, the list and the requests under way have their types,
\* and a tab without a session shows nothing and keeps no cursor.
THEOREM HistoryIsTyped == Spec => []TypeOK
<1>1. HistoryInvariant => TypeOK
  <2> SUFFICES ASSUME HistoryInvariant PROVE TypeOK
    OBVIOUS
  <2> USE DEF HistoryInvariant, ExchangeInvariant, TabInvariant
  <2>1. book \subseteq Orders
    BY DEF ExchangeFits, Placed
  <2>2. Len(backlog) <= 1
    <3>1. backlog = <<>> \/ \E reply : backlog = <<reply>>
      BY DEF ExchangeFits, BacklogFits
    <3>2. CASE backlog = <<>>
      BY <3>2
    <3>3. CASE \E reply : backlog = <<reply>>
      BY <3>3
    <3> QED BY <3>1, <3>2, <3>3
  <2>3. /\ owner \in [Orders -> Accounts \cup {Bots, Nobody}]
        /\ rows \in [Orders -> {"none", "open", "closed"}]
        /\ fills \in Seq(FillRecords) /\ table \subseteq DOMAIN fills
        /\ {stuck, up, activated} \subseteq BOOLEAN /\ generation \in 0..MaxLoads
        /\ account \in Accounts \cup {Nobody, Unknown} /\ cursor \in Cursors
        /\ (~SignedIn => cursor = None /\ state.fills = <<>>)
    BY DEF ExchangeFits, TabFits
  <2>4. state.status \in {"idle", "loading", "ready", "error"} /\ state.fills \in Seq(ViewRecords)
    BY DEF TabFits, StateRecords
  <2>5. \A l \in loads : l.mine \in 1..MaxLoads /\ l.who \in Accounts
    <3> SUFFICES ASSUME NEW l \in loads PROVE l.mine \in 1..MaxLoads /\ l.who \in Accounts
      OBVIOUS
    <3>1. l.mine \in 1..generation /\ l.who \in Accounts
      BY DEF TabFits, LoadRecords
    <3>2. MaxLoads \in Nat
      BY HistoryAssumption
    <3> QED BY <2>3, <3>1, <3>2
  <2>6. page.stage \in {"none", "asked", "read"} /\ page.after \in Cursors
    BY DEF TabFits, PageRecords
  <2> QED BY <2>1, <2>2, <2>3, <2>4, <2>5, <2>6 DEF TypeOK, FillRecords, ViewRecords
<1> QED BY <1>1, HistoryInvariantHolds, PTL

\* Whatever a visitor does (refreshes, further pages, failures, signing out and in as someone
\* else) while trades go on, the history on screen is theirs, holds each side of each trade
\* once, and leaves out no trade between two that it shows, but those that the cursor of a
\* page passed by in its millisecond; unless a page was added to a list it was not asked from.
THEOREM HistoryStaysUnbroken == Spec => []HistoryIsUnbroken
<1>1. HistoryInvariant => HistoryIsUnbroken
  <2> SUFFICES ASSUME HistoryInvariant PROVE HistoryIsUnbroken
    OBVIOUS
  <2>1. ScreenFits /\ state \in StateRecords
    BY DEF HistoryInvariant, TabInvariant, TabFits
  <2>2. state.fills \in Seq(ViewRecords)
    BY <2>1 DEF StateRecords
  <2>3. PICK s : s = state.fills
    OBVIOUS
  <2>4. Len(s) \in Nat /\ DOMAIN s = 1..Len(s)
    BY <2>2, <2>3
  <2>5. ASSUME NEW i \in Shown, NEW v \in Range(Views(i, account))
        PROVE  Cardinality({n \in DOMAIN s : s[n] = v}) = 1
    <3>1. v \in Range(s)
      BY <2>1, <2>3 DEF ScreenFits
    <3>2. PICK n \in 1..Len(s) : s[n] = v
      BY <2>4, <3>1 DEF Range
    <3>3. {m \in DOMAIN s : s[m] = v} = {n}
      BY <2>1, <2>3, <2>4, <3>2 DEF ScreenFits, Distinct
    <3> QED BY <3>3, FS_Singleton
  <2> QED BY <2>1, <2>3, <2>5 DEF HistoryIsUnbroken, ScreenFits, Unbroken
<1> QED BY <1>1, HistoryInvariantHolds, PTL

\* However trading and pruning alternate, and whatever is left in the stream of a stack that
\* goes down, every fill with a human being on one side stays in the table, with its orders.
THEOREM PruningKeepsHumanTrades == Spec => []HumanTradesSurvive
<1>1. HistoryInvariant => HumanTradesSurvive
  BY DEF HistoryInvariant, ExchangeInvariant
<1> QED BY <1>1, HistoryInvariantHolds, PTL

=============================================================================
