------------------------- MODULE MarketMaker_proofs -------------------------
(***************************************************************************)
(* Proofs about the market maker.                                          *)
(*                                                                         *)
(* QuoteCycle, whatever the price, the spread, the skew, the step, the     *)
(* inventory and the lag of the rows: a ladder never crosses itself, so the*)
(* quotes of a cycle never trade with each other; they trade with a resting*)
(* order of the maker only if the cycle could not cancel it; and the state *)
(* keeps its shape.                                                        *)
(*                                                                         *)
(* RequestGate, the gate of its HTTP client, for any number of requests and*)
(* slots, of expired sessions and failed fetches: no slot and no wake-up is*)
(* lost.                                                                   *)
(***************************************************************************)
EXTENDS QuoteCycle, RequestGate, FiniteSetTheorems, WellFoundedInduction, TLAPS

-----------------------------------------------------------------------------
(* The grid.                                                               *)

\* The nearest power of two exists.
LEMMA OctaveType ==
  ASSUME NEW mark \in Nat \ {0}
  PROVE  Octave(mark) \in Octaves
<1> DEFINE S == {o \in Octaves : o * o <= 2 * mark * mark}
<1>1. 1 \in S
  <2>1. 1 <= mark * mark
    OBVIOUS
  <2> QED  BY <2>1 DEF Octaves
<1>2. S \subseteq Octaves
  OBVIOUS
<1>3. \E x \in S : \A y \in S : x >= y
  BY <1>1, <1>2, SMTT(60) DEF Octaves
<1>4. Max(S) \in S
  BY <1>3 DEF Max
<1> QED  BY <1>4 DEF Octave

LEMMA GridType ==
  ASSUME NEW mark \in Nat \ {0}
  PROVE  GridSize(mark) \in Nat \ {0}
<1> DEFINE x == (2 * Octave(mark) * LevelStepBps + BPS) \div (2 * BPS)
<1>1. Octave(mark) \in Nat
  BY OctaveType DEF Octaves
<1>2. 2 * Octave(mark) * LevelStepBps + BPS \in Int
  BY <1>1, LadderAssumption DEF BPS
<1>3. x \in Int
  BY <1>2 DEF BPS
<1> HIDE DEF x
<1>4. \E m \in {1, x} : \A y \in {1, x} : m >= y
  BY <1>3
<1>5. Max({1, x}) \in {1, x} /\ \A y \in {1, x} : Max({1, x}) >= y
  BY <1>4 DEF Max
<1> QED  BY <1>3, <1>5 DEF GridSize, x

-----------------------------------------------------------------------------
(* The touch.                                                              *)

\* What is rounded down stays at or below, what is rounded up at or above.
LEMMA RoundingSpreads ==
  ASSUME NEW bid \in Int, NEW ask \in Int, bid < ask, NEW cell \in Nat \ {0}
  PROVE  bid \div cell < -((-ask) \div cell)
<1> DEFINE q == bid \div cell
           r == (-ask) \div cell
<1>1. q \in Int /\ r \in Int /\ q * cell <= bid /\ r * cell <= -ask
  OBVIOUS
<1> HIDE DEF q, r
<1>2. (q + r) * cell < 0
  BY <1>1
<1>3. q + r < 0
  BY <1>1, <1>2
<1> QED  BY <1>1, <1>3 DEF q, r

LEMMA RefsApart ==
  ASSUME NEW mark \in Nat \ {0}, NEW held \in Int
  PROVE  /\ BidRef(mark, held) \in Int /\ AskRef(mark, held) \in Int
         /\ BidRef(mark, held) < AskRef(mark, held)
<1> DEFINE n == NormalisedInventory(mark, held)
           spread == SpreadBps * MaxInventory
           mid == Scale - 2 * n * SkewBps
<1>1. n \in Int
  <2>1. held * mark \in Int
    OBVIOUS
  <2> QED  BY <2>1, LadderAssumption DEF NormalisedInventory
<1>2. spread \in Nat \ {0} /\ mid \in Int
  <2>1. spread \in Nat \ {0}
    BY LadderAssumption
  <2>2. 2 * n * SkewBps \in Int /\ Scale \in Int
    BY <1>1, LadderAssumption DEF Scale, BPS
  <2> QED  BY <2>1, <2>2
<1>3. BidRef(mark, held) = mark * (mid - spread)
  <2>1. Scale \in Int /\ 2 * n * SkewBps \in Int
    BY <1>1, LadderAssumption DEF Scale, BPS
  <2>2. Scale - spread - 2 * n * SkewBps = mid - spread
    BY <1>2, <2>1
  <2> QED  BY <2>2 DEF BidRef
<1>4. AskRef(mark, held) = mark * (mid + spread)
  <2>1. Scale \in Int /\ 2 * n * SkewBps \in Int
    BY <1>1, LadderAssumption DEF Scale, BPS
  <2>2. Scale + spread - 2 * n * SkewBps = mid + spread
    BY <1>2, <2>1
  <2> QED  BY <2>2 DEF AskRef
<1> HIDE DEF spread, mid
<1> QED  BY <1>2, <1>3, <1>4

\* The best bid is below the best ask, both on the grid.
LEMMA TouchesApart ==
  ASSUME NEW mark \in Nat \ {0}, NEW held \in Int
  PROVE  /\ Touch("LONG", mark, held) \in Int /\ Touch("SHORT", mark, held) \in Int
         /\ Touch("LONG", mark, held) < Touch("SHORT", mark, held)
<1> DEFINE grid == GridSize(mark)
           cell == grid * Scale
           bid == BidRef(mark, held)
           ask == AskRef(mark, held)
           q == bid \div cell
           r == (-ask) \div cell
<1>1. grid \in Nat \ {0}
  BY GridType
<1>2. Scale \in Nat \ {0}
  BY LadderAssumption DEF Scale, BPS
<1>3. cell \in Nat \ {0}
  <2> HIDE DEF grid
  <2> QED  BY <1>1, <1>2
<1>4. bid \in Int /\ ask \in Int /\ bid < ask
  BY RefsApart
<1>5. q \in Int /\ r \in Int /\ q < -r
  <2> HIDE DEF cell, bid, ask
  <2>1. q < -r
    BY <1>3, <1>4, RoundingSpreads
  <2> QED  BY <1>3, <1>4, <2>1
<1>6. Touch("LONG", mark, held) = grid * q /\ Touch("SHORT", mark, held) = -(grid * r)
  BY DEF Touch, FloorTo, CeilTo
<1> HIDE DEF grid, q, r
<1>7. grid * q \in Int /\ grid * r \in Int
  BY <1>1, <1>5
<1>8. grid * q < -(grid * r)
  <2>1. grid * (q + r) < 0
    BY <1>1, <1>5
  <2>2. grid * (q + r) = grid * q + grid * r
    BY <1>1, <1>5
  <2> QED  BY <1>7, <2>1, <2>2
<1> QED  BY <1>6, <1>7, <1>8

-----------------------------------------------------------------------------
(* The ladder.                                                             *)

\* No bid of a ladder meets an ask of it, for every price the maker can quote
\* at, every inventory and every configuration (quote-ladder.ts buildLadder).
THEOREM LadderNeverCrosses ==
  ASSUME NEW mark \in Nat \ {0}, NEW held \in Int,
         NEW b \in BuildLadder(mark, held), NEW a \in BuildLadder(mark, held),
         b.side = "LONG", a.side = "SHORT"
  PROVE  b.price < a.price
<1> DEFINE grid == GridSize(mark)
           low == Touch("LONG", mark, held)
           high == Touch("SHORT", mark, held)
<1>1. grid \in Nat \ {0}
  BY GridType
<1>2. low \in Int /\ high \in Int /\ low < high
  BY TouchesApart
<1>3. PICK i \in 0..Levels - 1 : b = QuoteAt("LONG", Rung("LONG", i, mark, held))
  BY DEF BuildLadder, LadderOf, QuoteAt
<1>4. PICK j \in 0..Levels - 1 : a = QuoteAt("SHORT", Rung("SHORT", j, mark, held))
  BY DEF BuildLadder, LadderOf, QuoteAt
<1>5. b.price = low + (-1) * i * grid /\ a.price = high + 1 * j * grid
  BY <1>3, <1>4 DEF QuoteAt, Rung, Direction
<1>6. i \in Nat /\ j \in Nat
  BY LadderAssumption
<1> HIDE DEF grid, low, high
<1>7. i * grid \in Nat /\ j * grid \in Nat
  BY <1>1, <1>6
<1>8. (-1) * i * grid = -(i * grid) /\ 1 * j * grid = j * grid
  BY <1>1, <1>6
<1> QED  BY <1>2, <1>5, <1>7, <1>8

-----------------------------------------------------------------------------
(* The cycle.                                                              *)

\* What a cycle is planned from: a price of the index, and a position that no
\* more trades than have happened have moved.
Inputs ==
  /\ index \in Prices
  /\ anchorOld \in BOOLEAN /\ (~anchorOld => anchor \in Prices)
  /\ events \in 0..MaxEvents
  /\ inventory \in -events..events

CycleInvariant == Inputs /\ QuotesNeverCross

LEMMA InitInputs == Init => CycleInvariant
  BY CycleAssumption DEF Init, CycleInvariant, Inputs, QuotesNeverCross

LEMMA PublishedKeepsInputs ==
  ASSUME Inputs, Published, UNCHANGED index
  PROVE  anchorOld' \in BOOLEAN /\ (~anchorOld' => anchor' \in Prices)
  BY DEF Inputs, Published

\* What counts as an event leaves the position within the events.
LEMMA HappensBounds ==
  ASSUME Inputs, Happens, UNCHANGED inventory
  PROVE  events' \in 0..MaxEvents /\ inventory' \in -events'..events'
<1>1. events \in Nat /\ MaxEvents \in Nat /\ events' = events + 1 /\ events < MaxEvents
  BY CycleAssumption DEF Inputs, Happens
<1>2. inventory \in Int /\ -events <= inventory /\ inventory <= events
  BY <1>1 DEF Inputs
<1> QED  BY <1>1, <1>2

LEMMA HappensKeepsInputs ==
  ASSUME Inputs, Happens, UNCHANGED <<index, inventory, anchor>>,
         anchorOld' \in BOOLEAN, anchorOld' = anchorOld \/ anchorOld' = TRUE
  PROVE  Inputs'
<1>1. index' \in Prices /\ (~anchorOld' => anchor' \in Prices)
  BY DEF Inputs
<1> QED  BY <1>1, HappensBounds DEF Inputs

LEMMA InsertKeepsInputs ==
  ASSUME Inputs, NEW quote, Insert(quote), UNCHANGED index
  PROVE  UNCHANGED inventory /\ anchorOld' \in BOOLEAN /\ (~anchorOld' => anchor' \in Prices)
<1>1. Published /\ UNCHANGED inventory
  BY DEF Insert
<1> QED  BY <1>1, PublishedKeepsInputs

LEMMA CancelKeepsInputs ==
  ASSUME Inputs, NEW s, CancelInEngine(s), UNCHANGED index
  PROVE  UNCHANGED inventory /\ anchorOld' \in BOOLEAN /\ (~anchorOld' => anchor' \in Prices)
<1>1. CASE s \in Live
  <2>1. Published /\ UNCHANGED inventory
    BY <1>1 DEF CancelInEngine
  <2> QED  BY <2>1, PublishedKeepsInputs
<1>2. CASE s \notin Live
  BY <1>2 DEF CancelInEngine, Inputs, book, feed
<1> QED  BY <1>1, <1>2

\* The ladder a cycle is planned from does not cross itself.
LEMMA PlansNeverCross ==
  ASSUME Inputs, Plan
  PROVE  QuotesNeverCross'
<1>1. anchor \in Prices /\ anchor \in Nat \ {0}
  BY CycleAssumption DEF Plan, Inputs
<1>2. inventory \in Int /\ inventory \in -MaxEvents..MaxEvents
  <2>1. MaxEvents \in Nat /\ events \in Nat /\ events <= MaxEvents
    BY CycleAssumption DEF Inputs
  <2>2. inventory \in Int /\ -events <= inventory /\ inventory <= events
    BY <2>1 DEF Inputs
  <2> QED  BY <2>1, <2>2
<1>3. Ladder[anchor][inventory] = BuildLadder(anchor, inventory)
  BY <1>1, <1>2 DEF Ladder
<1>4. places' \subseteq BuildLadder(anchor, inventory)
  BY <1>3 DEF Plan, ToPlace
<1> QED  BY <1>1, <1>2, <1>4, LadderNeverCrosses DEF QuotesNeverCross

\* Only a plan adds to the quotes of a cycle.
LEMMA NextKeepsQuotes ==
  ASSUME CycleInvariant, [Next]_vars
  PROVE  QuotesNeverCross'
<1> USE DEF CycleInvariant
<1>1. CASE Plan
  BY <1>1, PlansNeverCross
<1>2. ASSUME places' \subseteq places PROVE QuotesNeverCross'
  BY <1>2 DEF QuotesNeverCross
<1>3. CASE UNCHANGED vars
  BY <1>2, <1>3 DEF vars, cycle
<1>4. CASE Pull \/ Step \/ Start \/ Stop \/ Die \/ Written \/ IndexAges \/ AnchorAges \/ Disconnect \/ Reconnect
  BY <1>2, <1>4 DEF Pull, Step, Start, Stop, Die, Written, IndexAges, AnchorAges, Disconnect, Reconnect, cycle
<1>5. ASSUME NEW s, Cancel(s) PROVE QuotesNeverCross'
  BY <1>2, <1>5 DEF Cancel
<1>6. ASSUME NEW q, Place(q) PROVE QuotesNeverCross'
  BY <1>2, <1>6 DEF Place
<1>7. ASSUME NEW q, Arrive(q) PROVE QuotesNeverCross'
  BY <1>2, <1>7 DEF Arrive, cycle
<1>8. ASSUME NEW p, SpotUpdate(p) PROVE QuotesNeverCross'
  BY <1>2, <1>8 DEF SpotUpdate, cycle
<1>9. ASSUME NEW side, Trade(side) PROVE QuotesNeverCross'
  BY <1>2, <1>9 DEF Trade, cycle
<1> QED  BY <1>1, <1>3, <1>4, <1>5, <1>6, <1>7, <1>8, <1>9 DEF Next, Maker

LEMMA NextKeepsInputs ==
  ASSUME CycleInvariant, [Next]_vars
  PROVE  Inputs'
<1> USE CycleAssumption DEF CycleInvariant, Inputs, Happens
<1>1. CASE UNCHANGED vars
  BY <1>1 DEF vars, feed, book
<1>2. CASE Pull \/ Plan \/ Step
  BY <1>2 DEF Pull, Plan, Step, feed, book
<1>3. CASE Start
  BY <1>3 DEF Start, book
<1>4. CASE Stop \/ Die
  BY <1>4, HappensKeepsInputs DEF Stop, Die, feed, book
<1>5. CASE Written
  BY <1>5 DEF Written, feed
<1>6. CASE IndexAges \/ AnchorAges \/ Disconnect \/ Reconnect
  <2>1. CASE IndexAges
    <3>1. anchorOld' \in BOOLEAN /\ (anchorOld' = anchorOld \/ anchorOld' = TRUE)
      BY <2>1 DEF IndexAges
    <3> QED  BY <2>1, <3>1, HappensKeepsInputs DEF IndexAges, book
  <2>2. CASE Disconnect
    BY <2>2, HappensKeepsInputs DEF Disconnect, book
  <2>3. CASE AnchorAges \/ Reconnect
    BY <2>3 DEF AnchorAges, Reconnect, book
  <2> QED  BY <1>6, <2>1, <2>2, <2>3
<1>7. ASSUME NEW s, Cancel(s) PROVE Inputs'
  <2>1. CASE CancelInEngine(s) /\ UNCHANGED <<missed, events>>
    BY <1>7, <2>1, CancelKeepsInputs DEF Cancel
  <2>2. CASE Happens /\ UNCHANGED <<book, feed>>
    BY <1>7, <2>2, HappensKeepsInputs DEF Cancel, book, feed
  <2> QED  BY <1>7, <2>1, <2>2 DEF Cancel
<1>8. ASSUME NEW q, Place(q) PROVE Inputs'
  <2>1. CASE Insert(q) /\ UNCHANGED events
    BY <1>8, <2>1, InsertKeepsInputs DEF Place
  <2>2. CASE Happens /\ UNCHANGED <<book, feed>>
    BY <1>8, <2>2, HappensKeepsInputs DEF Place, book, feed
  <2> QED  BY <1>8, <2>1, <2>2 DEF Place
<1>9. ASSUME NEW q, Arrive(q) PROVE Inputs'
  <2>1. CASE Insert(q)
    BY <1>9, <2>1, InsertKeepsInputs DEF Arrive
  <2>2. CASE UNCHANGED <<book, feed>>
    BY <1>9, <2>2 DEF Arrive, book, feed
  <2> QED  BY <1>9, <2>1, <2>2 DEF Arrive
<1>10. ASSUME NEW p \in Prices, SpotUpdate(p) PROVE Inputs'
  <2>1. events' \in 0..MaxEvents /\ inventory' \in -events'..events'
    <3>1. CASE UNCHANGED events
      BY <1>10, <3>1 DEF SpotUpdate, book
    <3>2. CASE Happens
      BY <1>10, <3>2, HappensBounds DEF SpotUpdate, book
    <3> QED  BY <1>10, <3>1, <3>2 DEF SpotUpdate
  <2>2. index' \in Prices /\ anchorOld' \in BOOLEAN /\ (~anchorOld' => anchor' \in Prices)
    BY <1>10 DEF SpotUpdate
  <2> QED  BY <2>1, <2>2
<1>11. ASSUME NEW side \in Sides, Trade(side) PROVE Inputs'
  <2>1. events' \in 0..MaxEvents /\ UNCHANGED index
    BY <1>11 DEF Trade
  <2>2. inventory' \in -events'..events'
    <3>1. inventory' = inventory - 1 \/ inventory' = inventory + 1
      BY <1>11 DEF Trade
    <3>2. events' = events + 1 /\ events \in Nat
      BY <1>11 DEF Trade
    <3> QED  BY <3>1, <3>2
  <2>3. anchorOld' \in BOOLEAN /\ (~anchorOld' => anchor' \in Prices)
    BY <1>11, <2>1, PublishedKeepsInputs DEF Trade
  <2> QED  BY <2>1, <2>2, <2>3
<1> QED
  BY <1>1, <1>2, <1>3, <1>4, <1>5, <1>6, <1>7, <1>8, <1>9, <1>10, <1>11 DEF Next, Maker

\* The quotes of one cycle never trade with each other, for every set of index
\* prices, every configuration of the ladder, any lag of the rows and any
\* failures and crashes (maker.ts cycle, quote-ladder.ts buildLadder).
THEOREM CyclesNeverCrossThemselves == Spec => []QuotesNeverCross
<1>1. CycleInvariant /\ [Next]_vars => CycleInvariant'
  BY NextKeepsQuotes, NextKeepsInputs DEF CycleInvariant
<1>2. CycleInvariant => QuotesNeverCross
  BY DEF CycleInvariant
<1> QED  BY InitInputs, <1>1, <1>2, PTL DEF Spec
-----------------------------------------------------------------------------
(* The matching of a quote.                                                *)

Quotes == [side : Sides, price : Nat \ {0}, qty : Nat \ {0}]
Replies == Slots \X Nat

BookTyped ==
  /\ orders \in [Slots -> Orders] /\ rows \in [Slots -> Nat] /\ log \in Seq(Replies)
  /\ inventory \in Int

MatchStart(quote) == [left |-> quote.qty, orders |-> orders, log |-> log]
MatchNext(quote, m) ==
  IF Foremost(quote, m.orders) = {} THEN m
  ELSE Filled(m, CHOOSE s \in Foremost(quote, m.orders) : TRUE)

LEMMA LeastNumber ==
  ASSUME NEW T \in SUBSET Nat, T # {}
  PROVE  \E n \in T : \A m \in T : n <= m
<1> DEFINE R == OpToRel(<, Nat)
<1>1. IsWellFoundedOn(R, Nat)
  BY NatLessThanWellFounded
<1>2. \A x, y \in Nat : <<x, y>> \in R <=> x < y
  BY DEF OpToRel
<1> HIDE DEF R
<1>3. PICK n \in T : \A y \in T : ~ (<<y, n>> \in R)
  BY <1>1, WFMin
<1>4. \A y \in T : ~(y < n)
  BY <1>2, <1>3
<1> QED BY <1>4

\* Induction on the natural numbers, for a property that a set collects.
LEMMA SetInduction ==
  ASSUME NEW T \in SUBSET Nat, 0 \in T, \A n \in T : n + 1 \in T
  PROVE  T = Nat
<1> SUFFICES ASSUME T # Nat PROVE FALSE
  OBVIOUS
<1>1. PICK n \in Nat \ T : \A m \in Nat \ T : n <= m
  <2>1. Nat \ T \in SUBSET Nat /\ Nat \ T # {}
    OBVIOUS
  <2> QED BY <2>1, LeastNumber
<1>2. n - 1 \in Nat /\ n - 1 \notin Nat \ T
  BY <1>1
<1> QED BY <1>2

\* The matches the loop goes through.
Runs(m, quote, n) ==
  m = [i \in 0..n |-> IF i = 0 THEN MatchStart(quote) ELSE MatchNext(quote, m[i - 1])]

LEMMA RunsExist ==
  ASSUME NEW quote
  PROVE  \A n \in Nat : \E m : Runs(m, quote, n)
<1> DEFINE N == {n \in Nat : \E m : Runs(m, quote, n)}
<1>1. 0 \in N
  <2> DEFINE m == [i \in 0..0 |-> MatchStart(quote)]
  <2>1. m = [i \in 0..0 |-> IF i = 0 THEN MatchStart(quote) ELSE MatchNext(quote, m[i - 1])]
    OBVIOUS
  <2> QED  BY <2>1 DEF Runs
<1>2. ASSUME NEW n \in N PROVE n + 1 \in N
  <2>1. PICK m : Runs(m, quote, n)
    BY <1>2
  <2> DEFINE k == [i \in 0..(n + 1) |-> IF i = 0 THEN MatchStart(quote) ELSE MatchNext(quote, m[i - 1])]
  <2>2. \A i \in 0..n : k[i] = m[i]
    BY <2>1 DEF Runs
  <2>3. \A i \in 0..(n + 1) : i # 0 => i - 1 \in 0..n
    OBVIOUS
  <2>4. k = [i \in 0..(n + 1) |-> IF i = 0 THEN MatchStart(quote) ELSE MatchNext(quote, k[i - 1])]
    BY <2>2, <2>3
  <2>5. n + 1 \in Nat
    OBVIOUS
  <2> QED  BY <2>4, <2>5 DEF Runs
<1>3. N \in SUBSET Nat
  OBVIOUS
<1>4. N = Nat
  <2> HIDE DEF N
  <2> QED  BY <1>1, <1>2, <1>3, SetInduction
<1> QED  BY <1>4

LEMMA MatchedRuns ==
  ASSUME NEW quote, quote.qty \in Nat
  PROVE  \E m : /\ m[0] = MatchStart(quote)
                /\ \A i \in Nat : i < quote.qty => m[i + 1] = MatchNext(quote, m[i])
                /\ Matched(quote) = m[quote.qty]
<1> DEFINE Q(h) == h = [i \in 0..quote.qty |-> IF i = 0 THEN MatchStart(quote) ELSE MatchNext(quote, h[i - 1])]
           m == CHOOSE h : Q(h)
<1>1. Matched(quote) = m[quote.qty]
  BY DEF Matched, MatchStart, MatchNext
<1>2. \E h : Q(h)
  BY RunsExist DEF Runs
<1> HIDE DEF Q
<1>3. Q(m)
  BY <1>2
<1> HIDE DEF m
<1>4. m = [i \in 0..quote.qty |-> IF i = 0 THEN MatchStart(quote) ELSE MatchNext(quote, m[i - 1])]
  BY <1>3 DEF Q
<1>5. m[0] = MatchStart(quote)
  BY <1>4
<1>6. ASSUME NEW i \in Nat, i < quote.qty PROVE m[i + 1] = MatchNext(quote, m[i])
  <2>1. i + 1 \in 0..quote.qty /\ i + 1 # 0 /\ (i + 1) - 1 = i
    BY <1>6
  <2> QED  BY <1>4, <2>1
<1> QED  BY <1>1, <1>5, <1>6

\* An order is as it was, but for what has been matched of it.
LeftOf(o, was, can) ==
  /\ o \in Orders /\ o.side = was.side /\ o.price = was.price
  /\ o.left <= was.left /\ (o.left < was.left => can)

\* What is true of a match in progress: only orders that cross have been touched,
\* and all that happened to them is that there is less of them.
MatchOK(quote, m) ==
  /\ m.left \in Nat /\ m.log \in Seq(Replies) /\ DOMAIN m.orders = Slots
  /\ \A s \in Slots : LeftOf(m.orders[s], orders[s], s \in Crossed(quote, orders))

LEMMA OrderFields ==
  ASSUME NEW o \in Orders
  PROVE  /\ o.left \in Nat /\ o.price \in Nat /\ o.side \in Sides \cup {"none"}
         /\ o.left > 0 => o.side \in Sides /\ o \in [side : Sides, price : Nat, left : Nat]
  BY DEF Orders, Free

LEMMA LowerMin ==
  ASSUME NEW a \in Nat, NEW b \in Nat
  PROVE  /\ Min({a, b}) \in Nat /\ Min({a, b}) <= a /\ Min({a, b}) <= b
         /\ a > 0 /\ b > 0 => Min({a, b}) > 0
<1>1. \E x \in {a, b} : \A y \in {a, b} : x <= y
  OBVIOUS
<1>2. Min({a, b}) \in {a, b} /\ \A y \in {a, b} : Min({a, b}) <= y
  BY <1>1 DEF Min
<1> QED  BY <1>2

LEMMA MatchStarts ==
  ASSUME BookTyped, NEW quote \in Quotes
  PROVE  MatchOK(quote, MatchStart(quote))
<1>1. \A s \in Slots : LeftOf(orders[s], orders[s], s \in Crossed(quote, orders))
  BY OrderFields DEF BookTyped, LeftOf
<1> QED  BY <1>1 DEF MatchStart, MatchOK, BookTyped, Quotes

LEMMA FillKeeps ==
  ASSUME BookTyped, NEW quote \in Quotes, NEW m, MatchOK(quote, m),
         NEW s \in Crossed(quote, m.orders)
  PROVE  MatchOK(quote, Filled(m, s))
<1> DEFINE n == Min({m.left, m.orders[s].left})
           k == Filled(m, s)
           left == m.orders[s].left - n
<1>1. s \in Slots /\ m.orders[s] \in Orders /\ m.orders[s].left > 0 /\ m.left \in Nat
  BY DEF Crossed, MatchOK, LeftOf
<1>2. m.orders[s].left \in Nat /\ m.orders[s] \in [side : Sides, price : Nat, left : Nat]
  BY <1>1, OrderFields
<1>3. n \in Nat /\ n <= m.left /\ n <= m.orders[s].left
  BY <1>1, <1>2, LowerMin
<1>4. orders[s] \in Orders /\ orders[s].left \in Nat /\ m.orders[s].left <= orders[s].left
  BY <1>1, OrderFields DEF MatchOK, LeftOf, BookTyped
<1>5. s \in Crossed(quote, orders)
  <2>1. orders[s].left > 0 /\ orders[s].side = m.orders[s].side /\ orders[s].price = m.orders[s].price
    BY <1>1, <1>2, <1>4 DEF MatchOK, LeftOf
  <2> QED  BY <1>1, <2>1 DEF Crossed
<1>6. CASE n = 0
  BY <1>6 DEF Filled
<1>7. CASE n # 0
  <2>1. k = [left |-> m.left - n, orders |-> [m.orders EXCEPT ![s].left = @ - n],
             log |-> Append(m.log, <<s, m.orders[s].left - n>>)]
    BY <1>7 DEF Filled
  <2> HIDE DEF n
  <2>2. left \in Nat /\ left <= orders[s].left /\ m.left - n \in Nat
    BY <1>1, <1>2, <1>3, <1>4
  <2>3. k.left \in Nat /\ DOMAIN k.orders = Slots
    BY <2>1, <2>2 DEF MatchOK
  <2>4. k.log \in Seq(Replies)
    <3>1. <<s, left>> \in Replies
      BY <1>1, <2>2 DEF Replies
    <3> QED  BY <2>1, <3>1 DEF MatchOK
  <2>5. \A t \in Slots : t # s => k.orders[t] = m.orders[t]
    BY <2>1 DEF MatchOK
  <2>6. LeftOf(k.orders[s], orders[s], s \in Crossed(quote, orders))
    <3>1. k.orders[s] = [m.orders[s] EXCEPT !.left = left]
      BY <1>1, <2>1 DEF MatchOK
    <3>2. k.orders[s].side = m.orders[s].side /\ k.orders[s].price = m.orders[s].price /\ k.orders[s].left = left
      BY <1>2, <3>1
    <3>3. k.orders[s] \in [side : Sides, price : Nat, left : Nat]
      BY <1>2, <2>2, <3>1
    <3>4. m.orders[s].side = orders[s].side /\ m.orders[s].price = orders[s].price
      BY <1>1 DEF MatchOK, LeftOf
    <3> QED  BY <1>5, <2>2, <3>2, <3>3, <3>4 DEF LeftOf, Orders
  <2>7. \A t \in Slots : LeftOf(k.orders[t], orders[t], t \in Crossed(quote, orders))
    BY <2>5, <2>6 DEF MatchOK
  <2> QED  BY <2>3, <2>4, <2>7 DEF MatchOK
<1> QED  BY <1>6, <1>7

LEMMA MatchGoesOn ==
  ASSUME BookTyped, NEW quote \in Quotes, NEW m, MatchOK(quote, m)
  PROVE  MatchOK(quote, MatchNext(quote, m))
<1>1. CASE Foremost(quote, m.orders) = {}
  BY <1>1 DEF MatchNext
<1>2. CASE Foremost(quote, m.orders) # {}
  <2> DEFINE s == CHOOSE s \in Foremost(quote, m.orders) : TRUE
  <2>1. s \in Crossed(quote, m.orders)
    BY <1>2 DEF Foremost
  <2>2. MatchNext(quote, m) = Filled(m, s)
    BY <1>2 DEF MatchNext
  <2> HIDE DEF s
  <2> QED  BY <2>1, <2>2, FillKeeps
<1> QED  BY <1>1, <1>2

\* What a quote is matched with crosses it, and is the same order with less left.
LEMMA MatchedTouchesWhatCrosses ==
  ASSUME BookTyped, NEW quote \in Quotes
  PROVE  MatchOK(quote, Matched(quote))
<1>1. quote.qty \in Nat
  BY DEF Quotes
<1>2. PICK m : /\ m[0] = MatchStart(quote)
               /\ \A i \in Nat : i < quote.qty => m[i + 1] = MatchNext(quote, m[i])
               /\ Matched(quote) = m[quote.qty]
  BY <1>1, MatchedRuns
<1> DEFINE N == {i \in Nat : i <= quote.qty => MatchOK(quote, m[i])}
<1>3. 0 \in N
  BY <1>2, MatchStarts
<1>4. ASSUME NEW i \in N PROVE i + 1 \in N
  <2>1. CASE i < quote.qty
    <3>1. MatchOK(quote, m[i])
      BY <1>1, <2>1
    <3>2. MatchOK(quote, MatchNext(quote, m[i]))
      BY <3>1, MatchGoesOn
    <3>3. m[i + 1] = MatchNext(quote, m[i])
      BY <1>2, <2>1
    <3> QED  BY <3>2, <3>3
  <2>2. CASE ~(i < quote.qty)
    BY <1>1, <2>2
  <2> QED  BY <2>1, <2>2
<1>5. N \in SUBSET Nat
  OBVIOUS
<1>6. N = Nat
  <2> HIDE DEF N
  <2> QED  BY <1>3, <1>4, <1>5, SetInduction
<1> QED  BY <1>1, <1>2, <1>6

-----------------------------------------------------------------------------
(* The steps and the book.                                                 *)

\* Of what the cycle has read nothing comes back, and what is left of it has
\* the side and the price it had.
Eased ==
  \A s \in seen : orders'[s].left > 0 =>
    /\ orders[s].left > 0
    /\ orders'[s].side = orders[s].side /\ orders'[s].price = orders[s].price

CycleTyped ==
  /\ anchor \in Prices \cup {0} /\ connected \in BOOLEAN /\ running \in BOOLEAN
  /\ indexAge \in {"new", "echoed", "old"}
  /\ phase \in {"idle", "pulling", "crossing", "placing", "sweeping", "off"}
  /\ seen \subseteq Slots /\ cancels \subseteq Slots /\ later \subseteq Slots /\ missed \subseteq Slots
  /\ places \subseteq Quotes /\ stray \subseteq Quotes

\* Nothing the cycle has read crosses a quote that is still to be placed, unless
\* it is still being cancelled or could not be.
Clear == \A q \in places : Crossed(q, orders) \cap seen \subseteq cancels \cup missed

\* Nothing is placed before what crosses is gone, and nothing after.
PhasesApart ==
  /\ phase = "placing" => cancels = {}
  /\ phase \notin {"crossing", "placing"} => places = {}

QuoteInvariant == CycleInvariant /\ BookTyped /\ CycleTyped /\ Clear /\ PhasesApart

LEMMA AppendReply ==
  ASSUME BookTyped, NEW s \in Slots, NEW n \in Nat
  PROVE  Append(log, <<s, n>>) \in Seq(Replies)
<1>1. <<s, n>> \in Replies
  BY DEF Replies
<1> QED  BY <1>1 DEF BookTyped

\* An order is replaced by one that has less left.
LEMMA LessLeft ==
  ASSUME BookTyped, NEW s \in Slots, orders[s].left > 0, NEW n \in Nat, n <= orders[s].left,
         orders' = [orders EXCEPT ![s].left = n]
  PROVE  /\ orders' \in [Slots -> Orders]
         /\ orders'[s].left = n /\ orders'[s].side = orders[s].side /\ orders'[s].price = orders[s].price
         /\ \A t \in Slots : t # s => orders'[t] = orders[t]
         /\ seen \subseteq Slots => Eased
<1>1. orders[s] \in [side : Sides, price : Nat, left : Nat]
  BY OrderFields DEF BookTyped
<1>2. DOMAIN orders = Slots /\ DOMAIN orders' = Slots
  BY DEF BookTyped
<1>3. orders'[s] = [orders[s] EXCEPT !.left = n]
  BY <1>2
<1>4. orders'[s].left = n /\ orders'[s].side = orders[s].side /\ orders'[s].price = orders[s].price
  BY <1>1, <1>3
<1>5. orders'[s] \in Orders
  <2>1. orders'[s] \in [side : Sides, price : Nat, left : Nat]
    BY <1>1, <1>3
  <2> QED  BY <2>1 DEF Orders
<1>6. \A t \in Slots : t # s => orders'[t] = orders[t]
  BY <1>2
<1>7. orders' \in [Slots -> Orders]
  <2>1. orders' = [t \in Slots |-> orders'[t]]
    BY <1>2
  <2>2. \A t \in Slots : orders'[t] \in Orders
    BY <1>5, <1>6 DEF BookTyped
  <2> QED  BY <2>1, <2>2
<1>8. seen \subseteq Slots => Eased
  BY <1>4, <1>6 DEF Eased
<1> QED  BY <1>4, <1>6, <1>7, <1>8

LEMMA InsertBook ==
  ASSUME BookTyped, seen \subseteq Slots, NEW quote \in Quotes, Insert(quote)
  PROVE  BookTyped' /\ Eased /\ OwnMatches \subseteq Crossed(quote, orders)
<1> DEFINE k == Matched(quote)
           new(slot) == [side |-> quote.side, price |-> quote.price, left |-> k.left]
<1>1. MatchOK(quote, k)
  BY MatchedTouchesWhatCrosses
<1>2. PICK slot \in FreeSlots : /\ orders' = [k.orders EXCEPT ![slot] = new(slot)]
                                /\ log' = Append(k.log, <<slot, k.left>>)
                                /\ UNCHANGED <<rows, inventory>>
  BY DEF Insert
<1> HIDE DEF k
<1>3. slot \in Slots /\ slot \notin seen /\ orders[slot].left = 0
  BY <1>2 DEF FreeSlots, Free
<1>4. DOMAIN k.orders = Slots /\ k.left \in Nat /\ k.log \in Seq(Replies)
  BY <1>1 DEF MatchOK
<1>5. orders'[slot] = new(slot) /\ \A t \in Slots : t # slot => orders'[t] = k.orders[t]
  BY <1>2, <1>3, <1>4
<1>6. new(slot) \in Orders
  <2>1. quote.side \in Sides /\ quote.price \in Nat
    BY DEF Quotes
  <2> QED  BY <1>4, <2>1 DEF Orders
<1> HIDE DEF new
<1>7. orders' \in [Slots -> Orders]
  <2>1. orders' = [t \in Slots |-> orders'[t]]
    BY <1>2, <1>4
  <2>2. \A t \in Slots : orders'[t] \in Orders
    BY <1>1, <1>5, <1>6 DEF MatchOK, LeftOf
  <2> QED  BY <2>1, <2>2
<1>8. log' \in Seq(Replies)
  <2>1. <<slot, k.left>> \in Replies
    BY <1>3, <1>4 DEF Replies
  <2> QED  BY <1>2, <1>4, <2>1
<1>9. BookTyped'
  BY <1>2, <1>7, <1>8 DEF BookTyped
<1>10. Eased
  <2> SUFFICES ASSUME NEW s \in seen, orders'[s].left > 0
               PROVE  /\ orders[s].left > 0
                      /\ orders'[s].side = orders[s].side /\ orders'[s].price = orders[s].price
    BY DEF Eased
  <2>1. s \in Slots /\ orders'[s] = k.orders[s]
    BY <1>3, <1>5
  <2>2. k.orders[s].left \in Nat /\ orders[s].left \in Nat
    BY <1>1, <2>1, OrderFields DEF MatchOK, LeftOf, BookTyped
  <2> QED  BY <1>1, <2>1, <2>2 DEF MatchOK, LeftOf
<1>11. OwnMatches \subseteq Crossed(quote, orders)
  <2> SUFFICES ASSUME NEW s \in OwnMatches PROVE s \in Crossed(quote, orders)
    OBVIOUS
  <2>1. s \in Slots /\ orders[s].left > 0 /\ orders'[s].left < orders[s].left
    BY DEF OwnMatches, Live
  <2>2. s # slot
    BY <1>3, <2>1
  <2>3. k.orders[s].left < orders[s].left
    BY <1>5, <2>1, <2>2
  <2> QED  BY <1>1, <2>1, <2>3 DEF MatchOK, LeftOf
<1> QED  BY <1>9, <1>10, <1>11

LEMMA CancelBook ==
  ASSUME BookTyped, seen \subseteq Slots, NEW s \in Slots, CancelInEngine(s)
  PROVE  BookTyped' /\ Eased /\ ~(orders'[s].left > 0)
<1>1. CASE s \in Live
  <2>1. orders' = [orders EXCEPT ![s].left = 0] /\ log' = Append(log, <<s, 0>>) /\ UNCHANGED <<rows, inventory>>
    BY <1>1 DEF CancelInEngine
  <2>2. orders[s].left > 0 /\ orders[s].left \in Nat
    BY <1>1, OrderFields DEF Live, BookTyped
  <2>3. orders' \in [Slots -> Orders] /\ orders'[s].left = 0 /\ Eased
    <3>1. PICK n \in Nat : n = 0
      OBVIOUS
    <3>2. n <= orders[s].left /\ orders' = [orders EXCEPT ![s].left = n]
      BY <2>1, <2>2, <3>1
    <3> QED  BY <2>2, <3>1, <3>2, LessLeft
  <2>4. log' \in Seq(Replies)
    BY <2>1, AppendReply
  <2> QED  BY <2>1, <2>3, <2>4 DEF BookTyped
<1>2. CASE s \notin Live
  <2>1. UNCHANGED book
    BY <1>2 DEF CancelInEngine
  <2> QED  BY <1>2, <2>1 DEF book, BookTyped, Eased, Live
<1> QED  BY <1>1, <1>2

LEMMA WrittenBook ==
  ASSUME BookTyped, seen \subseteq Slots, Written
  PROVE  BookTyped' /\ Eased
<1> DEFINE s == Head(log)[1]
           last == \A i \in DOMAIN Tail(log) : Tail(log)[i][1] # s
<1>1. /\ log # <<>> /\ rows' = [rows EXCEPT ![s] = Head(log)[2]] /\ log' = Tail(log)
      /\ orders' = (IF orders[s].left = 0 /\ last THEN [orders EXCEPT ![s] = Free] ELSE orders)
      /\ UNCHANGED inventory
  BY DEF Written
<1>2. Head(log) \in Replies /\ Tail(log) \in Seq(Replies)
  BY <1>1 DEF BookTyped
<1>3. s \in Slots /\ Head(log)[2] \in Nat
  BY <1>2 DEF Replies
<1> HIDE DEF s, last
<1>4. rows' \in [Slots -> Nat]
  BY <1>1, <1>3 DEF BookTyped
<1>5. Free \in Orders /\ Free.left = 0
  BY DEF Orders, Free
<1>6. orders' \in [Slots -> Orders]
  BY <1>1, <1>3, <1>5 DEF BookTyped
<1>7. \A t \in Slots : orders'[t] = orders[t] \/ orders'[t] = Free
  BY <1>1, <1>3 DEF BookTyped
<1>8. Eased
  BY <1>5, <1>7 DEF Eased
<1> QED  BY <1>1, <1>2, <1>4, <1>6, <1>8 DEF BookTyped

LEMMA TradeBook ==
  ASSUME BookTyped, seen \subseteq Slots, NEW side \in Sides, Trade(side)
  PROVE  BookTyped' /\ Eased
<1>1. PICK s \in Live : /\ orders' = [orders EXCEPT ![s].left = @ - 1]
                        /\ log' = Append(log, <<s, orders[s].left - 1>>)
  BY DEF Trade
<1>2. s \in Slots /\ orders[s].left > 0 /\ orders[s].left \in Nat
  BY <1>1, OrderFields DEF Live, BookTyped
<1>3. PICK n \in Nat : n = orders[s].left - 1 /\ n <= orders[s].left
  BY <1>2
<1>4. orders' = [orders EXCEPT ![s].left = n] /\ log' = Append(log, <<s, n>>)
  BY <1>1, <1>3
<1>5. orders' \in [Slots -> Orders] /\ Eased
  BY <1>2, <1>3, <1>4, LessLeft
<1>6. log' \in Seq(Replies)
  BY <1>2, <1>4, AppendReply
<1>7. rows' = rows /\ inventory' \in Int
  BY DEF Trade, BookTyped
<1> QED  BY <1>5, <1>6, <1>7 DEF BookTyped

LEMMA SameBook ==
  ASSUME BookTyped, UNCHANGED book
  PROVE  BookTyped' /\ Eased
  BY DEF book, BookTyped, Eased

\* What the cycle had cleared stays clear.
LEMMA EasedKeepsClear ==
  ASSUME Clear, BookTyped, Eased, seen \subseteq Slots, places' \subseteq places, seen' = seen,
         cancels \cup missed \subseteq cancels' \cup missed'
  PROVE  Clear'
<1> SUFFICES ASSUME NEW q \in places', NEW s \in Crossed(q, orders') \cap seen'
             PROVE  s \in cancels' \cup missed'
  BY DEF Clear
<1>1. s \in seen /\ s \in Slots /\ q \in places
  OBVIOUS
<1>2. orders'[s].left > 0
  BY DEF Crossed
<1>3. s \in Crossed(q, orders)
  BY <1>1, <1>2 DEF Crossed, Eased
<1> QED  BY <1>1, <1>3 DEF Clear

-----------------------------------------------------------------------------
(* The cycle and its quotes.                                               *)

LEMMA LaddersAreQuotes ==
  ASSUME NEW mark \in Nat \ {0}, NEW held \in Int
  PROVE  BuildLadder(mark, held) \subseteq Quotes
<1> SUFFICES ASSUME NEW q \in BuildLadder(mark, held) PROVE q \in Quotes
  OBVIOUS
<1>1. PICK side \in Sides : q \in LadderOf(side, mark, held)
  BY DEF BuildLadder, Sides
<1>2. PICK i \in 0..Levels - 1 : Rung(side, i, mark, held) > 0 /\ q = QuoteAt(side, Rung(side, i, mark, held))
  BY <1>1 DEF LadderOf
<1> DEFINE p == Rung(side, i, mark, held)
<1>3. p \in Nat \ {0}
  <2> DEFINE touch == Touch(side, mark, held)
             grid == GridSize(mark)
             d == Direction(side)
  <2>1. touch \in Int /\ grid \in Nat /\ d \in Int /\ i \in Int
    BY <1>1, TouchesApart, GridType DEF Sides, Direction
  <2>2. p = touch + d * i * grid
    BY DEF Rung
  <2> HIDE DEF touch, grid, d, p
  <2>3. p \in Int
    BY <2>1, <2>2
  <2> QED  BY <1>2, <2>3 DEF p
<1> HIDE DEF p
<1>4. RoundQty(p) \in Nat \ {0}
  <2> DEFINE x == BaseNotional \div p
  <2>1. x \in Int
    BY <1>3, LadderAssumption
  <2> HIDE DEF x
  <2>2. \E m \in {1, x} : \A y \in {1, x} : m >= y
    BY <2>1
  <2>3. Max({1, x}) \in {1, x} /\ \A y \in {1, x} : Max({1, x}) >= y
    BY <2>2 DEF Max
  <2> QED  BY <2>1, <2>3 DEF RoundQty, x
<1>5. q = [side |-> side, price |-> p, qty |-> RoundQty(p)]
  BY <1>2 DEF p, QuoteAt
<1> QED  BY <1>3, <1>4, <1>5 DEF Quotes

\* A plan is made of the ladder of an anchor that is fresh.
LEMMA PlansAreQuotes ==
  ASSUME Inputs, Plan
  PROVE  places' \subseteq Quotes
<1>1. anchor \in Prices /\ anchor \in Nat \ {0}
  BY CycleAssumption DEF Plan, Inputs
<1>2. inventory \in Int /\ inventory \in -MaxEvents..MaxEvents
  <2>1. MaxEvents \in Nat /\ events \in Nat /\ events <= MaxEvents
    BY CycleAssumption DEF Inputs
  <2>2. inventory \in Int /\ -events <= inventory /\ inventory <= events
    BY <2>1 DEF Inputs
  <2> QED  BY <2>1, <2>2
<1>3. Ladder[anchor][inventory] = BuildLadder(anchor, inventory)
  BY <1>1, <1>2 DEF Ladder
<1>4. places' \subseteq BuildLadder(anchor, inventory)
  BY <1>3 DEF Plan, ToPlace
<1> QED  BY <1>1, <1>2, <1>4, LaddersAreQuotes

\* What is read is of the slots, and so is what is cancelled of it.
LEMMA PlanCycle ==
  ASSUME QuoteInvariant, Plan
  PROVE  CycleTyped' /\ Clear' /\ PhasesApart'
<1>1. PICK adopted : /\ cancels' = CrossingOf(places')
                     /\ later' = {o.id : o \in ToCancel(Resting, adopted)} \ cancels'
  BY DEF Plan
<1>2. /\ seen' = OpenOrders /\ missed' = {} /\ phase' = "crossing"
      /\ UNCHANGED <<index, feed, book, running, stray, events>>
  BY DEF Plan
<1>3. places' \subseteq Quotes
  BY PlansAreQuotes DEF QuoteInvariant, CycleInvariant
<1>4. \A r \in Resting : r.id \in OpenOrders /\ r.side = orders[r.id].side /\ r.price = orders[r.id].price
  BY DEF Resting
<1>5. seen' \subseteq Slots /\ cancels' \subseteq Slots /\ later' \subseteq Slots
  <2>1. OpenOrders \subseteq Slots
    BY DEF OpenOrders
  <2>2. cancels' \subseteq OpenOrders
    BY <1>1, <1>4 DEF CrossingOf
  <2>3. later' \subseteq OpenOrders
    BY <1>1, <1>4 DEF ToCancel
  <2> QED  BY <1>2, <2>1, <2>2, <2>3
<1>6. CycleTyped'
  BY <1>2, <1>3, <1>5 DEF QuoteInvariant, CycleTyped, feed
<1>7. Clear'
  <2> SUFFICES ASSUME NEW q \in places', NEW s \in Crossed(q, orders') \cap seen'
               PROVE  s \in cancels'
    BY DEF Clear
  <2>1. orders' = orders
    BY <1>2 DEF book
  <2>2. s \in OpenOrders /\ orders[s].left > 0 /\ orders[s].side # q.side
    BY <1>2, <2>1 DEF Crossed
  <2>3. orders[s].side \in Sides /\ orders[s].price \in Nat /\ q.side \in Sides /\ q.price \in Nat
    BY <1>3, <2>2, OrderFields DEF QuoteInvariant, BookTyped, OpenOrders, Quotes
  <2>4. IF orders[s].side = "LONG" THEN orders[s].price >= q.price ELSE orders[s].price <= q.price
    <3>1. s \in Crossed(q, orders)
      BY <2>1
    <3> QED  BY <2>2, <2>3, <3>1 DEF Crossed, Sides
  <2>5. PICK r \in Resting : r.id = s
    <3> DEFINE r == [id |-> s, side |-> orders[s].side, price |-> orders[s].price, left |-> rows[s]]
    <3>1. r \in Resting
      BY <2>2 DEF Resting
    <3>2. r.id = s
      OBVIOUS
    <3> QED  BY <3>1, <3>2
  <2>6. r.side = orders[s].side /\ r.price = orders[s].price
    BY <1>4, <2>5
  <2>7. r \in {o \in Resting : \E p \in places' :
                 /\ p.side # o.side
                 /\ IF o.side = "LONG" THEN o.price >= p.price ELSE o.price <= p.price}
    BY <2>2, <2>4, <2>6
  <2> QED  BY <1>1, <2>5, <2>7 DEF CrossingOf
<1>8. PhasesApart'
  BY <1>2 DEF PhasesApart
<1> QED  BY <1>6, <1>7, <1>8

LEMMA StepCycle ==
  ASSUME QuoteInvariant, Step
  PROVE  CycleTyped' /\ Clear' /\ PhasesApart'
<1>1. /\ UNCHANGED <<index, feed, book, running, places, stray, events>>
      /\ (seen' = {} /\ missed' = {} /\ phase' \in {"idle", "off"}) \/ UNCHANGED <<seen, missed>>
  BY DEF Step
<1>2. CASE phase = "crossing" /\ cancels = {} /\ phase' = "placing" /\ UNCHANGED <<cancels, later>>
  <2>1. seen' = seen /\ missed' = missed /\ orders' = orders /\ places' = places
    BY <1>1, <1>2 DEF book
  <2>2. Clear'
    BY <1>2, <2>1 DEF QuoteInvariant, Clear, Crossed
  <2>3. CycleTyped'
    BY <1>1, <1>2, <2>1 DEF QuoteInvariant, CycleTyped, feed
  <2>4. PhasesApart'
    BY <1>2 DEF PhasesApart
  <2> QED  BY <2>2, <2>3, <2>4
<1>3. CASE phase = "placing" /\ places = {} /\ phase' = "sweeping" /\ cancels' = later /\ later' = {}
  <2>1. places' = {} /\ seen' \subseteq seen /\ missed' \subseteq missed
    BY <1>1, <1>3
  <2>2. CycleTyped'
    BY <1>1, <1>3, <2>1 DEF QuoteInvariant, CycleTyped, feed
  <2> QED  BY <1>3, <2>1, <2>2 DEF Clear, PhasesApart
<1>4. CASE /\ phase \in {"sweeping", "pulling"} /\ cancels = {} /\ UNCHANGED <<cancels, later>>
           /\ phase' \in {"idle", "off"}
  <2>1. places' = {} /\ seen' \subseteq seen /\ missed' \subseteq missed
    BY <1>1, <1>4 DEF QuoteInvariant, PhasesApart
  <2>2. CycleTyped'
    BY <1>1, <1>4, <2>1 DEF QuoteInvariant, CycleTyped, feed
  <2> QED  BY <1>4, <2>1, <2>2 DEF Clear, PhasesApart
<1> QED  BY <1>2, <1>3, <1>4 DEF Step, Continue

\* One of the deletes: what it was for is gone, or it is known to have failed.
LEMMA CancelCycle ==
  ASSUME QuoteInvariant, NEW s \in cancels, Cancel(s)
  PROVE  BookTyped' /\ CycleTyped' /\ Clear' /\ PhasesApart'
<1>1. /\ cancels' = cancels \ {s} /\ UNCHANGED <<index, phase, running, seen, places, later, stray>>
      /\ s \in Slots /\ seen \subseteq Slots /\ BookTyped
  BY DEF Cancel, QuoteInvariant, CycleTyped
<1>2. PhasesApart'
  BY <1>1 DEF QuoteInvariant, PhasesApart
<1>3. CASE CancelInEngine(s) /\ UNCHANGED <<missed, events>>
  <2>1. BookTyped' /\ Eased /\ ~(orders'[s].left > 0)
    BY <1>1, <1>3, CancelBook
  <2>2. Clear'
    <3> SUFFICES ASSUME NEW q \in places', NEW t \in Crossed(q, orders') \cap seen'
                 PROVE  t \in cancels' \cup missed'
      BY DEF Clear
    <3>1. t \in seen /\ q \in places /\ orders'[t].left > 0 /\ t # s
      BY <1>1, <2>1 DEF Crossed
    <3>2. t \in Crossed(q, orders)
      BY <2>1, <3>1 DEF Crossed, Eased
    <3>3. t \in cancels \cup missed
      BY <3>1, <3>2 DEF QuoteInvariant, Clear
    <3> QED  BY <1>1, <1>3, <3>1, <3>3
  <2>3. CycleTyped'
    BY <1>1, <1>3 DEF QuoteInvariant, CycleInvariant, Inputs, CycleTyped, CancelInEngine, Published, feed
  <2> QED  BY <1>2, <2>1, <2>2, <2>3
<1>4. CASE missed' = missed \cup {s} /\ UNCHANGED <<book, feed>>
  <2>1. BookTyped' /\ Eased
    BY <1>1, <1>4, SameBook
  <2>2. Clear'
    BY <1>1, <1>4, <2>1, EasedKeepsClear DEF QuoteInvariant
  <2>3. CycleTyped'
    BY <1>1, <1>4 DEF QuoteInvariant, CycleTyped, feed
  <2> QED  BY <1>2, <2>1, <2>2, <2>3
<1> QED  BY <1>3, <1>4 DEF Cancel

LEMMA InsertCycle ==
  ASSUME QuoteInvariant, NEW quote \in Quotes, Insert(quote), UNCHANGED <<index, phase, running, seen, cancels, later, missed>>,
         places' \subseteq places, stray' \subseteq stray
  PROVE  BookTyped' /\ CycleTyped' /\ Clear' /\ PhasesApart'
<1>1. BookTyped' /\ Eased
  BY InsertBook DEF QuoteInvariant, CycleTyped
<1>2. Clear'
  BY <1>1, EasedKeepsClear DEF QuoteInvariant, CycleTyped
<1>3. Published
  BY DEF Insert
<1>4. CycleTyped'
  BY <1>3 DEF QuoteInvariant, CycleInvariant, Inputs, CycleTyped, Published
<1>5. PhasesApart'
  BY DEF QuoteInvariant, PhasesApart
<1> QED  BY <1>1, <1>2, <1>4, <1>5

LEMMA PlaceCycle ==
  ASSUME QuoteInvariant, NEW quote \in places, Place(quote)
  PROVE  BookTyped' /\ CycleTyped' /\ Clear' /\ PhasesApart'
<1>1. /\ places' = places \ {quote} /\ quote \in Quotes
      /\ UNCHANGED <<index, phase, running, seen, cancels, later, missed, stray>>
  BY DEF Place, QuoteInvariant, CycleTyped
<1>2. CASE Insert(quote)
  BY <1>1, <1>2, InsertCycle
<1>3. CASE UNCHANGED <<book, feed>>
  <2>1. BookTyped' /\ Eased
    BY <1>3, SameBook DEF QuoteInvariant
  <2>2. Clear'
    BY <1>1, <2>1, EasedKeepsClear DEF QuoteInvariant, CycleTyped
  <2>3. CycleTyped' /\ PhasesApart'
    BY <1>1, <1>3 DEF QuoteInvariant, CycleTyped, PhasesApart, feed
  <2> QED  BY <2>1, <2>2, <2>3
<1> QED  BY <1>2, <1>3 DEF Place

LEMMA ArriveCycle ==
  ASSUME QuoteInvariant, NEW quote \in stray, Arrive(quote)
  PROVE  BookTyped' /\ CycleTyped' /\ Clear' /\ PhasesApart'
<1>1. stray' = stray \ {quote} /\ quote \in Quotes /\ UNCHANGED <<index, cycle, events>>
  BY DEF Arrive, QuoteInvariant, CycleTyped
<1>2. CASE Insert(quote)
  BY <1>1, <1>2, InsertCycle DEF cycle
<1>3. CASE UNCHANGED <<book, feed>>
  <2>1. BookTyped' /\ Eased
    BY <1>3, SameBook DEF QuoteInvariant
  <2>2. Clear'
    BY <1>1, <2>1, EasedKeepsClear DEF QuoteInvariant, CycleTyped, cycle
  <2>3. CycleTyped' /\ PhasesApart'
    BY <1>1, <1>3 DEF QuoteInvariant, CycleTyped, PhasesApart, feed, cycle
  <2> QED  BY <2>1, <2>2, <2>3
<1> QED  BY <1>2, <1>3 DEF Arrive

\* A step that leaves the cycle to itself.
LEMMA SameCycle ==
  ASSUME QuoteInvariant, BookTyped', Eased, UNCHANGED <<cycle, stray>>,
         anchor' \in Prices \cup {0}, connected' \in BOOLEAN, indexAge' \in {"new", "echoed", "old"}
  PROVE  BookTyped' /\ CycleTyped' /\ Clear' /\ PhasesApart'
<1>1. Clear'
  BY EasedKeepsClear DEF QuoteInvariant, CycleTyped, cycle
<1> QED  BY <1>1 DEF QuoteInvariant, CycleTyped, PhasesApart, cycle

\* A process that starts, stops, dies or pulls its orders has no quote to place.
LEMMA RestartCycle ==
  ASSUME QuoteInvariant, Pull \/ Start \/ Stop \/ Die
  PROVE  BookTyped' /\ CycleTyped' /\ Clear' /\ PhasesApart'
<1>1. UNCHANGED book /\ BookTyped'
  BY SameBook DEF Pull, Start, Stop, Die, QuoteInvariant, book
<1>2. places' = {} /\ phase' \in {"idle", "pulling", "off"}
  BY DEF Pull, Start, Stop, Die, QuoteInvariant, PhasesApart
<1>3. OpenOrders \subseteq Slots
  BY DEF OpenOrders
<1>4. CASE Pull
  BY <1>1, <1>2, <1>3, <1>4 DEF Pull, QuoteInvariant, CycleTyped, Clear, PhasesApart, feed
<1>5. CASE Start
  BY <1>1, <1>2, <1>5 DEF Start, QuoteInvariant, CycleTyped, Clear, PhasesApart
<1>6. CASE Stop \/ Die
  <2>1. stray' \subseteq Quotes
    BY <1>6 DEF Stop, Die, QuoteInvariant, CycleTyped
  <2>2. seen' = {} /\ later' = {} /\ missed' = {} /\ cancels' \subseteq Slots /\ running' = FALSE /\ UNCHANGED feed
    BY <1>3, <1>6 DEF Stop, Die
  <2> QED  BY <1>1, <1>2, <2>1, <2>2 DEF QuoteInvariant, CycleTyped, Clear, PhasesApart, feed
<1> QED  BY <1>4, <1>5, <1>6

LEMMA NextKeepsCycle ==
  ASSUME QuoteInvariant, [Next]_vars
  PROVE  BookTyped' /\ CycleTyped' /\ Clear' /\ PhasesApart'
<1> DEFINE Kept == BookTyped' /\ CycleTyped' /\ Clear' /\ PhasesApart'
<1>1. /\ BookTyped /\ seen \subseteq Slots
      /\ index \in Prices /\ anchor \in Prices \cup {0} /\ connected \in BOOLEAN
      /\ indexAge \in {"new", "echoed", "old"}
  BY DEF QuoteInvariant, CycleInvariant, Inputs, CycleTyped
<1>2. CASE UNCHANGED vars
  <2>1. BookTyped' /\ Eased
    BY <1>1, <1>2, SameBook DEF vars
  <2> QED  BY <1>1, <1>2, <2>1, SameCycle DEF vars, feed
<1>3. CASE Pull \/ Start \/ Stop \/ Die
  BY <1>3, RestartCycle
<1>4. CASE Plan \/ Step
  <2>1. BookTyped'
    BY <1>1, <1>4, SameBook DEF Plan, Step
  <2> QED  BY <1>4, <2>1, PlanCycle, StepCycle
<1>5. CASE Written
  <2>1. BookTyped' /\ Eased
    BY <1>1, <1>5, WrittenBook
  <2>2. UNCHANGED <<feed, cycle, stray>>
    BY <1>5 DEF Written
  <2> QED  BY <1>1, <2>1, <2>2, SameCycle DEF feed
<1>6. CASE IndexAges \/ AnchorAges \/ Disconnect \/ Reconnect
  <2>1. BookTyped' /\ Eased
    BY <1>1, <1>6, SameBook DEF IndexAges, AnchorAges, Disconnect, Reconnect
  <2>2. /\ UNCHANGED <<cycle, stray, anchor>> /\ connected' \in BOOLEAN
        /\ indexAge' \in {"new", "echoed", "old"}
    BY <1>1, <1>6 DEF IndexAges, AnchorAges, Disconnect, Reconnect
  <2> QED  BY <1>1, <2>1, <2>2, SameCycle
<1>7. ASSUME NEW s \in cancels, Cancel(s) PROVE Kept
  BY <1>7, CancelCycle
<1>8. ASSUME NEW q \in places, Place(q) PROVE Kept
  BY <1>8, PlaceCycle
<1>9. ASSUME NEW q \in stray, Arrive(q) PROVE Kept
  BY <1>9, ArriveCycle
<1>10. ASSUME NEW p \in Prices, SpotUpdate(p) PROVE Kept
  <2>1. BookTyped' /\ Eased
    BY <1>1, <1>10, SameBook DEF SpotUpdate
  <2>2. /\ UNCHANGED <<cycle, stray>> /\ anchor' \in Prices \cup {0} /\ connected' \in BOOLEAN
        /\ indexAge' \in {"new", "echoed", "old"}
    BY <1>1, <1>10 DEF SpotUpdate
  <2> QED  BY <2>1, <2>2, SameCycle
<1>11. ASSUME NEW side \in Sides, Trade(side) PROVE Kept
  <2>1. BookTyped' /\ Eased
    BY <1>1, <1>11, TradeBook
  <2>2. /\ UNCHANGED <<cycle, stray>> /\ anchor' \in Prices \cup {0} /\ connected' \in BOOLEAN
        /\ indexAge' \in {"new", "echoed", "old"}
    BY <1>1, <1>11 DEF Trade, Published
  <2> QED  BY <2>1, <2>2, SameCycle
<1> QED
  BY <1>2, <1>3, <1>4, <1>5, <1>6, <1>7, <1>8, <1>9, <1>10, <1>11 DEF Next, Maker

LEMMA InitQuotes == Init => QuoteInvariant
<1> SUFFICES ASSUME Init PROVE QuoteInvariant
  OBVIOUS
<1>1. BookTyped
  BY DEF Init, BookTyped, Orders, Free, Replies
<1>2. CycleTyped /\ Clear /\ PhasesApart
  BY DEF Init, CycleTyped, Clear, PhasesApart
<1> QED  BY <1>1, <1>2, InitInputs DEF QuoteInvariant

LEMMA NextKeepsQuoteInvariant == QuoteInvariant /\ [Next]_vars => QuoteInvariant'
  BY NextKeepsQuotes, NextKeepsInputs, NextKeepsCycle DEF QuoteInvariant, CycleInvariant

LEMMA QuoteInvariantHolds == Spec => []QuoteInvariant
  BY InitQuotes, NextKeepsQuoteInvariant, PTL DEF Spec

\* The state of the maker, the feed and the book has the shape TypeOK gives it,
\* whatever the ladder, the index prices and the number of orders: the loop that
\* matches a quote leaves orders behind, and every ladder is one of quotes that
\* have a price and a size (quote-ladder.ts buildLadder, maker.ts cycle).
THEOREM CycleIsTyped == Spec => []TypeOK
<1>1. QuoteInvariant => TypeOK
  <2> SUFFICES ASSUME QuoteInvariant PROVE TypeOK
    OBVIOUS
  <2>1. index \in Prices /\ anchor \in Prices \cup {0} /\ inventory \in Int
    BY DEF QuoteInvariant, CycleInvariant, Inputs, CycleTyped, BookTyped
  <2>2. {connected, anchorOld, running} \subseteq BOOLEAN /\ indexAge \in {"new", "echoed", "old"}
    BY DEF QuoteInvariant, CycleInvariant, Inputs, CycleTyped
  <2>3. \A s \in Slots : orders[s] \in Orders /\ rows[s] \in Nat
    BY DEF QuoteInvariant, BookTyped
  <2>4. \A i \in DOMAIN log : log[i] \in Slots \X Nat
    BY DEF QuoteInvariant, BookTyped, Replies
  <2>5. /\ phase \in {"idle", "pulling", "crossing", "placing", "sweeping", "off"}
        /\ UNION {seen, cancels, later, missed} \subseteq Slots
    BY DEF QuoteInvariant, CycleTyped
  <2>6. \A q \in places \cup stray : q \in [side : Sides, price : Nat \ {0}, qty : Nat \ {0}]
    BY DEF QuoteInvariant, CycleTyped, Quotes
  <2> QED  BY <2>1, <2>2, <2>3, <2>4, <2>5, <2>6 DEF TypeOK
<1> QED  BY <1>1, QuoteInvariantHolds, PTL

\* A quote of a cycle trades with an order of the maker's own only when the
\* cycle could not have cancelled that order: it was not listed when the cycle
\* read its orders, or its delete failed (maker.ts cycle: what crosses is
\* cancelled before anything is placed).  It holds for every lag of the rows.
THEOREM QuotesCrossOnlyTheUnseen == Spec => CrossesOnlyWhatItCouldNotSee
<1>1. QuoteInvariant /\ [Next]_vars =>
        [\A q \in places : Place(q) => OwnMatches \cap (seen \ missed) = {}]_vars
  <2> SUFFICES ASSUME QuoteInvariant, NEW q \in places, Place(q)
               PROVE  OwnMatches \cap (seen \ missed) = {}
    OBVIOUS
  <2>1. phase = "placing" /\ cancels = {} /\ q \in Quotes /\ BookTyped /\ seen \subseteq Slots
    BY DEF Place, QuoteInvariant, PhasesApart, CycleTyped
  <2>2. CASE Insert(q)
    <3>1. OwnMatches \subseteq Crossed(q, orders)
      BY <2>1, <2>2, InsertBook
    <3> QED  BY <2>1, <3>1 DEF QuoteInvariant, Clear
  <2>3. CASE UNCHANGED <<book, feed>>
    <3>1. \A s \in Slots : orders[s].left \in Nat
      BY <2>1, OrderFields DEF BookTyped
    <3> QED  BY <2>3, <3>1 DEF book, OwnMatches, Live
  <2> QED  BY <2>2, <2>3 DEF Place
<1>2. [][QuoteInvariant /\ [Next]_vars]_vars =>
        [][\A q \in places : Place(q) => OwnMatches \cap (seen \ missed) = {}]_vars
  BY <1>1, PTL
<1> QED  BY <1>2, QuoteInvariantHolds, PTL DEF Spec, CrossesOnlyWhatItCouldNotSee

-----------------------------------------------------------------------------
(* RequestGate.                                                            *)

\* Who is at an await, in and out of the gate.
Stages == {"idle", "queued", "woken", "sent", "signing", "retrying", "queuedAgain", "wokenAgain",
           "sentAgain", "unwinding", "done"}
Held   == {"sent", "signing", "retrying", "queuedAgain", "wokenAgain", "sentAgain", "unwinding"}

-----------------------------------------------------------------------------
(* Types.                                                                  *)

\* A call that waits stands in the queue exactly once, and nobody else does.
InLine ==
  /\ \A i \in DOMAIN waiting : waiting[i] \in Queued
  /\ \A i, j \in DOMAIN waiting : waiting[i] = waiting[j] => i = j
  /\ \A c \in Queued : \E i \in DOMAIN waiting : waiting[i] = c

Shape ==
  /\ active \in Nat
  /\ waiting \in Seq(Calls)
  /\ pc \in [Calls -> Stages]
  /\ carried \in [Calls -> Sessions \cup {None}]
  /\ result \in [Calls -> {"none", "ok", "refused", "broken"}]
  /\ cookie \in Sessions \cup {None} /\ userId \in BOOLEAN
  /\ signIn \in {"none", "signin", "signup", "body"}
  /\ session \in Sessions /\ account \in BOOLEAN
  /\ breaks \in 0..MaxBreaks

\* The counter is the number of slots taken, and no slot is free while a call
\* waits that nobody is going to wake.
Counted ==
  /\ active = Cardinality(Inside) + Cardinality(InsideTwice)
  /\ waiting # <<>> => active + Cardinality(Woken) >= Limit

GateInvariant == Shape /\ InLine /\ Counted

-----------------------------------------------------------------------------
(* What a call's move does to the sets the counter counts.                 *)

LEMMA SetsAreFinite ==
  ASSUME Shape
  PROVE  /\ IsFiniteSet(Inside) /\ IsFiniteSet(InsideTwice) /\ IsFiniteSet(Woken)
         /\ Cardinality(Inside) \in Nat /\ Cardinality(InsideTwice) \in Nat
         /\ Cardinality(Woken) \in Nat
<1>1. Inside \subseteq Calls /\ InsideTwice \subseteq Calls /\ Woken \subseteq Calls
  BY DEF Inside, InsideTwice, Woken
<1>2. IsFiniteSet(Calls)
  BY GateAssumption
<1>3. IsFiniteSet(Inside) /\ IsFiniteSet(InsideTwice) /\ IsFiniteSet(Woken)
  BY <1>1, <1>2, FS_Subset
<1> QED  BY <1>3, FS_CardinalityType

\* Joining and leaving change a cardinality by one.
LEMMA Joins ==
  ASSUME NEW S, IsFiniteSet(S), NEW c, c \notin S
  PROVE  Cardinality(S \cup {c}) = Cardinality(S) + 1
  BY FS_AddElement

LEMMA Leaves ==
  ASSUME NEW S, IsFiniteSet(S), NEW c \in S
  PROVE  Cardinality(S \ {c}) = Cardinality(S) - 1
  BY FS_RemoveElement

\* A step that moves nobody in, out or up keeps the account.
LEMMA SameSets ==
  ASSUME GateInvariant, UNCHANGED gate, Inside' = Inside, InsideTwice' = InsideTwice,
         Woken' = Woken, Queued' = Queued
  PROVE  InLine' /\ Counted'
  BY DEF GateInvariant, InLine, Counted, gate

-----------------------------------------------------------------------------
(* The gate.                                                               *)

\* Coming to the gate, for the first time or for the retry.
LEMMA AskKeepsTheAccount ==
  ASSUME GateInvariant, NEW c \in Calls, NEW queued, NEW sent, Ask(c, queued, sent),
         \/ pc[c] = "idle" /\ queued = "queued" /\ sent = "sent"
         \/ pc[c] = "retrying" /\ queued = "queuedAgain" /\ sent = "sentAgain"
  PROVE  /\ pc' \in [Calls -> Stages] /\ carried' \in [Calls -> Sessions \cup {None}]
         /\ active' \in Nat /\ waiting' \in Seq(Calls)
         /\ InLine' /\ Counted'
<1> USE DEF GateInvariant
<1>0. pc \in [Calls -> Stages] /\ waiting \in Seq(Calls) /\ active \in Nat
  BY DEF Shape
<1>1. Limit \in Nat
  BY GateAssumption
<1>2. CASE active >= Limit
  <2>1. waiting' = Append(waiting, c) /\ pc' = [pc EXCEPT ![c] = queued] /\ UNCHANGED <<active, carried>>
    BY <1>2 DEF Ask
  <2>2. pc' \in [Calls -> Stages] /\ waiting' \in Seq(Calls)
    BY <1>0, <2>1 DEF Stages
  <2>3. Inside' = Inside /\ InsideTwice' = InsideTwice /\ Woken' = Woken
    BY <1>0, <2>1 DEF Inside, InsideTwice, Woken
  <2>4. Queued' = Queued \cup {c} /\ c \notin Queued
    BY <1>0, <2>1 DEF Queued
  <2>5. InLine'
    <3>1. /\ DOMAIN waiting = 1..Len(waiting) /\ Len(waiting) \in Nat
          /\ DOMAIN waiting' = 1..Len(waiting) + 1
          /\ waiting'[Len(waiting) + 1] = c
          /\ \A i \in DOMAIN waiting : waiting'[i] = waiting[i]
      BY <1>0, <2>1
    <3>2. \A i \in DOMAIN waiting : waiting[i] # c
      BY <2>4 DEF InLine
    <3>3. \A i \in DOMAIN waiting' : i \in DOMAIN waiting \/ i = Len(waiting) + 1
      BY <3>1
    <3>4. DOMAIN waiting \subseteq DOMAIN waiting' /\ Len(waiting) + 1 \in DOMAIN waiting'
      BY <3>1
    <3>5. \A i \in DOMAIN waiting' : waiting'[i] \in Queued'
      BY <2>4, <3>1, <3>3 DEF InLine
    <3>6. ASSUME NEW i \in DOMAIN waiting', NEW j \in DOMAIN waiting', waiting'[i] = waiting'[j] PROVE i = j
      BY <3>1, <3>2, <3>3, <3>6 DEF InLine
    <3>7. ASSUME NEW d \in Queued' PROVE \E i \in DOMAIN waiting' : waiting'[i] = d
      <4>1. CASE d = c
        BY <3>1, <3>4, <4>1
      <4>2. CASE d \in Queued
        <5>1. PICK i \in DOMAIN waiting : waiting[i] = d
          BY <4>2 DEF InLine
        <5> QED  BY <5>1, <3>1, <3>4
      <4> QED  BY <2>4, <4>1, <4>2
    <3> QED  BY <3>5, <3>6, <3>7 DEF InLine
  <2>6. Counted'
    <3>1. active + Cardinality(Woken) >= Limit
      BY <1>0, <1>1, <1>2, SetsAreFinite
    <3> QED  BY <2>1, <2>3, <3>1 DEF Counted
  <2> QED  BY <1>0, <2>1, <2>2, <2>5, <2>6 DEF Shape
<1>3. CASE ~(active >= Limit)
  <2>1. /\ active' = active + 1 /\ pc' = [pc EXCEPT ![c] = sent] /\ UNCHANGED waiting
        /\ carried' = [carried EXCEPT ![c] = cookie]
    BY <1>3 DEF Ask
  <2>2. pc' \in [Calls -> Stages] /\ carried' \in [Calls -> Sessions \cup {None}] /\ active' \in Nat
    BY <1>0, <2>1 DEF Stages, Shape
  <2>3. Queued' = Queued /\ Woken' = Woken
    BY <1>0, <2>1 DEF Queued, Woken
  <2>4. InLine'
    BY <2>1, <2>3 DEF InLine
  <2>5. Cardinality(Inside') + Cardinality(InsideTwice') = Cardinality(Inside) + Cardinality(InsideTwice) + 1
    <3>1. CASE pc[c] = "idle" /\ sent = "sent"
      <4>1. Inside' = Inside \cup {c} /\ c \notin Inside /\ InsideTwice' = InsideTwice
        BY <1>0, <2>1, <3>1 DEF Inside, InsideTwice
      <4> QED  BY <4>1, SetsAreFinite, Joins
    <3>2. CASE pc[c] = "retrying" /\ sent = "sentAgain"
      <4>1. Inside' = Inside /\ InsideTwice' = InsideTwice \cup {c} /\ c \notin InsideTwice
        BY <1>0, <2>1, <3>2 DEF Inside, InsideTwice
      <4> QED  BY <4>1, SetsAreFinite, Joins
    <3> QED  BY <3>1, <3>2
  <2>6. Counted'
    <3>1. active' + Cardinality(Woken) >= active + Cardinality(Woken)
      BY <1>0, <2>1, SetsAreFinite
    <3>2. waiting' # <<>> => active' + Cardinality(Woken') >= Limit
      BY <1>0, <1>1, <2>1, <2>3, <3>1, SetsAreFinite DEF Counted
    <3> QED  BY <2>1, <2>5, <3>2 DEF Counted
  <2> QED  BY <2>1, <2>2, <2>4, <2>6, <1>0
<1> QED  BY <1>2, <1>3

\* Leaving it: the first in line is woken, and the slot is his.
LEMMA LeavingKeepsTheAccount ==
  ASSUME GateInvariant, NEW c \in Calls, NEW next, LeavesTo(c, next),
         \/ pc[c] = "sent" /\ next = "done"
         \/ pc[c] = "unwinding" /\ next = "done"
         \/ pc[c] = "sentAgain" /\ next = "unwinding"
  PROVE  /\ pc' \in [Calls -> Stages]
         /\ active' \in Nat /\ waiting' \in Seq(Calls)
         /\ InLine' /\ Counted'
<1> USE DEF GateInvariant
<1>0. pc \in [Calls -> Stages] /\ waiting \in Seq(Calls) /\ active \in Nat
  BY DEF Shape
<1>1. Limit \in Nat
  BY GateAssumption
<1>2. active' = active - 1 /\ active' \in Nat
  <2>1. c \in Inside
    BY DEF Inside
  <2>2. Cardinality(Inside) # 0
    BY <2>1, SetsAreFinite, FS_EmptySet
  <2>3. active >= 1
    BY <2>2, SetsAreFinite DEF Counted
  <2> QED  BY <1>0, <2>3 DEF LeavesTo
<1>3. ASSUME NEW h, h # c,
             \A d \in Calls : pc'[d] = IF d = c THEN next
                                      ELSE IF d = h THEN (IF pc[d] = "queued" THEN "woken" ELSE "wokenAgain")
                                      ELSE pc[d],
             h \in Calls => h \in Queued
      PROVE  Cardinality(Inside') + Cardinality(InsideTwice') = Cardinality(Inside) + Cardinality(InsideTwice) - 1
  <2>1. CASE next = "done" /\ pc[c] \in {"sent", "unwinding"}
    <3>1. Inside' = Inside \ {c} /\ c \in Inside /\ InsideTwice' = InsideTwice
      BY <1>0, <1>3, <2>1 DEF Inside, InsideTwice, Queued
    <3> QED  BY <3>1, SetsAreFinite, Leaves
  <2>2. CASE next = "unwinding" /\ pc[c] = "sentAgain"
    <3>1. Inside' = Inside /\ InsideTwice' = InsideTwice \ {c} /\ c \in InsideTwice
      BY <1>0, <1>3, <2>2 DEF Inside, InsideTwice, Queued
    <3> QED  BY <3>1, SetsAreFinite, Leaves
  <2> QED  BY <2>1, <2>2
<1>4. CASE waiting = <<>>
  <2>1. UNCHANGED waiting /\ pc' = [pc EXCEPT ![c] = next]
    BY <1>4 DEF LeavesTo
  <2>2. PICK h : h \notin Calls
    <3>1. \E h : h \notin Calls
      BY NoSetContainsEverything
    <3> QED  BY <3>1
  <2>3. Cardinality(Inside') + Cardinality(InsideTwice') = Cardinality(Inside) + Cardinality(InsideTwice) - 1
    BY <1>0, <1>3, <2>1, <2>2
  <2>4. Queued' = Queued
    BY <1>0, <2>1 DEF Queued
  <2>5. pc' \in [Calls -> Stages]
    BY <1>0, <2>1 DEF Stages
  <2>6. InLine'
    BY <2>1, <2>4 DEF InLine
  <2>7. Counted'
    BY <1>2, <1>4, <2>1, <2>3, SetsAreFinite DEF Counted
  <2> QED  BY <1>0, <1>2, <2>1, <2>5, <2>6, <2>7
<1>5. CASE waiting # <<>>
  <2> DEFINE h == Head(waiting)
  <2>1. /\ h = waiting[1] /\ 1 \in DOMAIN waiting
        /\ DOMAIN waiting = 1..Len(waiting) /\ Len(waiting) \in Nat \ {0}
        /\ DOMAIN Tail(waiting) = 1..Len(waiting) - 1
        /\ \A i \in 1..Len(waiting) - 1 : Tail(waiting)[i] = waiting[i + 1]
        /\ Tail(waiting) \in Seq(Calls)
    BY <1>0, <1>5
  <2>2. h \in Queued
    BY <2>1 DEF InLine
  <2>3. h \in Calls /\ h # c
    BY <2>2 DEF Queued
  <2> HIDE DEF h
  <2>4. /\ waiting' = Tail(waiting)
        /\ pc' = [pc EXCEPT ![c] = next, ![h] = IF @ = "queued" THEN "woken" ELSE "wokenAgain"]
    BY <1>5 DEF LeavesTo, h
  <2>5. \A d \in Calls : pc'[d] = IF d = c THEN next
                                 ELSE IF d = h THEN (IF pc[d] = "queued" THEN "woken" ELSE "wokenAgain")
                                 ELSE pc[d]
    BY <1>0, <2>3, <2>4
  <2>6. pc' \in [Calls -> Stages]
    BY <1>0, <2>3, <2>4 DEF Stages
  <2>7. Cardinality(Inside') + Cardinality(InsideTwice') = Cardinality(Inside) + Cardinality(InsideTwice) - 1
    BY <1>3, <2>2, <2>3, <2>5
  <2>8. Queued' = Queued \ {h}
    BY <2>2, <2>5 DEF Queued
  <2>9. Woken' = Woken \cup {h} /\ h \notin Woken
    BY <2>2, <2>3, <2>5 DEF Queued, Woken
  <2>10. Cardinality(Woken') = Cardinality(Woken) + 1
    BY <2>9, SetsAreFinite, Joins
  <2>11. Counted'
    <3>1. active' + Cardinality(Woken') >= Limit
      BY <1>0, <1>1, <1>2, <1>5, <2>10, SetsAreFinite DEF Counted
    <3>2. active' = Cardinality(Inside') + Cardinality(InsideTwice')
      BY <1>2, <2>7, SetsAreFinite DEF Counted
    <3> QED  BY <3>1, <3>2 DEF Counted
  <2>12. InLine'
    <3>1. \A i \in DOMAIN waiting' : i + 1 \in DOMAIN waiting /\ waiting'[i] = waiting[i + 1] /\ i + 1 # 1
      BY <2>1, <2>4
    <3>2. \A i \in DOMAIN waiting : i = 1 \/ (i - 1 \in DOMAIN waiting' /\ waiting'[i - 1] = waiting[i])
      BY <2>1, <2>4
    <3>3. \A i \in DOMAIN waiting : waiting[i] = h => i = 1
      BY <2>1 DEF InLine
    <3>4. \A i \in DOMAIN waiting' : waiting'[i] \in Queued'
      BY <2>8, <3>1, <3>3 DEF InLine
    <3>5. ASSUME NEW i \in DOMAIN waiting', NEW j \in DOMAIN waiting', waiting'[i] = waiting'[j] PROVE i = j
      <4>1. i + 1 = j + 1
        BY <3>1, <3>5 DEF InLine
      <4>2. i \in Nat /\ j \in Nat
        BY <2>1, <2>4
      <4> QED  BY <4>1, <4>2
    <3>6. ASSUME NEW d \in Queued' PROVE \E i \in DOMAIN waiting' : waiting'[i] = d
      <4>1. d \in Queued /\ d # h
        BY <2>8, <3>6
      <4>2. PICK i \in DOMAIN waiting : waiting[i] = d
        BY <4>1 DEF InLine
      <4>3. i # 1
        BY <2>1, <4>1, <4>2
      <4> QED  BY <3>2, <4>2, <4>3
    <3> QED  BY <3>4, <3>5, <3>6 DEF InLine
  <2> QED  BY <1>2, <2>1, <2>4, <2>6, <2>11, <2>12
<1> QED  BY <1>4, <1>5

\* A woken call takes its slot.
LEMMA WakingKeepsTheAccount ==
  ASSUME GateInvariant, NEW c \in Calls, Wake(c)
  PROVE  GateInvariant'
<1> USE DEF GateInvariant
<1>0. pc \in [Calls -> Stages] /\ active \in Nat /\ Limit \in Nat
  BY GateAssumption DEF Shape
<1>1. active' = active + 1 /\ carried' = [carried EXCEPT ![c] = cookie]
      /\ UNCHANGED <<waiting, result, jar, server, breaks>>
  BY DEF Wake, WakeAs
<1>2. /\ pc' \in [Calls -> Stages] /\ Queued' = Queued /\ Woken' = Woken \ {c} /\ c \in Woken
      /\ Cardinality(Inside') + Cardinality(InsideTwice') = Cardinality(Inside) + Cardinality(InsideTwice) + 1
  <2>1. CASE WakeAs(c, "woken", "sent")
    <3>1. pc[c] = "woken" /\ pc' = [pc EXCEPT ![c] = "sent"]
      BY <2>1 DEF WakeAs
    <3>2. Inside' = Inside \cup {c} /\ c \notin Inside /\ InsideTwice' = InsideTwice
      BY <1>0, <3>1 DEF Inside, InsideTwice
    <3>3. Queued' = Queued /\ Woken' = Woken \ {c} /\ c \in Woken /\ pc' \in [Calls -> Stages]
      BY <1>0, <3>1 DEF Queued, Woken, Stages
    <3> QED  BY <3>2, <3>3, SetsAreFinite, Joins
  <2>2. CASE WakeAs(c, "wokenAgain", "sentAgain")
    <3>1. pc[c] = "wokenAgain" /\ pc' = [pc EXCEPT ![c] = "sentAgain"]
      BY <2>2 DEF WakeAs
    <3>2. Inside' = Inside /\ InsideTwice' = InsideTwice \cup {c} /\ c \notin InsideTwice
      BY <1>0, <3>1 DEF Inside, InsideTwice
    <3>3. Queued' = Queued /\ Woken' = Woken \ {c} /\ c \in Woken /\ pc' \in [Calls -> Stages]
      BY <1>0, <3>1 DEF Queued, Woken, Stages
    <3> QED  BY <3>2, <3>3, SetsAreFinite, Joins
  <2> QED  BY <2>1, <2>2 DEF Wake
<1>3. Shape'
  <2>1. UNCHANGED <<waiting, result, cookie, userId, signIn, session, account, breaks>>
    BY <1>1 DEF jar, server
  <2>2. carried' \in [Calls -> Sessions \cup {None}]
    BY <1>1 DEF Shape
  <2>3. active' \in Nat
    BY <1>0, <1>1
  <2> QED  BY <1>2, <2>1, <2>2, <2>3 DEF Shape
<1>4. InLine'
  BY <1>1, <1>2 DEF InLine
<1>5. Counted'
  <2>1. Cardinality(Woken') = Cardinality(Woken) - 1
    BY <1>2, SetsAreFinite, Leaves
  <2> QED  BY <1>0, <1>1, <1>2, <2>1, SetsAreFinite DEF Counted
<1> QED  BY <1>3, <1>4, <1>5

-----------------------------------------------------------------------------
(* The requests and the sign-in.                                           *)

LEMMA InitAccount == GateInit => GateInvariant
<1> SUFFICES ASSUME GateInit PROVE GateInvariant
  OBVIOUS
<1>1. Inside = {} /\ InsideTwice = {} /\ Queued = {}
  BY DEF GateInit, Inside, InsideTwice, Queued
<1>2. Shape
  <2>1. 1 \in Sessions /\ breaks \in 0..MaxBreaks
    BY GateAssumption DEF GateInit, Sessions
  <2>2. waiting \in Seq(Calls) /\ active \in Nat
    BY DEF GateInit
  <2>3. pc \in [Calls -> Stages] /\ carried \in [Calls -> Sessions \cup {None}]
        /\ result \in [Calls -> {"none", "ok", "refused", "broken"}]
    BY DEF GateInit, Stages
  <2> QED  BY <2>1, <2>2, <2>3 DEF GateInit, Shape
<1>3. InLine
  BY <1>1 DEF GateInit, InLine
<1>4. Counted
  BY <1>1, FS_EmptySet DEF GateInit, Counted
<1> QED  BY <1>2, <1>3, <1>4 DEF GateInvariant

\* A call that comes to the gate, and one that leaves it.
LEMMA CallsKeepTheAccount ==
  ASSUME GateInvariant, NEW c \in Calls,
         Call(c) \/ Retry(c) \/ Accepted(c) \/ RetryAnswered(c) \/ Unwind(c) \/ Breaks(c)
  PROVE  GateInvariant'
<1>0. Shape
  BY DEF GateInvariant
<1>1. CASE Call(c) \/ Retry(c)
  <2>1. /\ pc' \in [Calls -> Stages] /\ carried' \in [Calls -> Sessions \cup {None}]
        /\ active' \in Nat /\ waiting' \in Seq(Calls) /\ InLine' /\ Counted'
    BY <1>1, AskKeepsTheAccount DEF Call, Retry
  <2>2. UNCHANGED <<result, jar, server, breaks>>
    BY <1>1 DEF Call, Retry
  <2>3. Shape'
    BY <1>0, <2>1, <2>2 DEF Shape, jar, server
  <2> QED  BY <2>1, <2>3 DEF GateInvariant
<1>2. CASE Accepted(c) \/ RetryAnswered(c) \/ Unwind(c) \/ Breaks(c)
  <2>1. PICK next :
          /\ LeavesTo(c, next)
          /\ \/ pc[c] = "sent" /\ next = "done"
             \/ pc[c] = "unwinding" /\ next = "done"
             \/ pc[c] = "sentAgain" /\ next = "unwinding"
    BY <1>2 DEF Accepted, RetryAnswered, Unwind, Breaks
  <2>2. /\ pc' \in [Calls -> Stages] /\ active' \in Nat /\ waiting' \in Seq(Calls)
        /\ InLine' /\ Counted'
    BY <2>1, LeavingKeepsTheAccount
  <2>3. UNCHANGED <<carried, jar, server>>
    BY <1>2 DEF Accepted, RetryAnswered, Unwind, Breaks
  <2>4. result' \in [Calls -> {"none", "ok", "refused", "broken"}]
    BY <1>0, <1>2 DEF Accepted, RetryAnswered, Unwind, Breaks, Shape
  <2>5. breaks' \in 0..MaxBreaks
    BY <1>0, <1>2, GateAssumption DEF Accepted, RetryAnswered, Unwind, Breaks, Shape
  <2>6. Shape'
    BY <1>0, <2>2, <2>3, <2>4, <2>5 DEF Shape, jar, server
  <2> QED  BY <2>2, <2>6 DEF GateInvariant
<1> QED  BY <1>1, <1>2

\* Steps that leave everybody where he is, or inside.
LEMMA OthersKeepTheAccount ==
  ASSUME GateInvariant,
         \/ \E c \in Calls : Refused(c)
         \/ SigningIn \/ SignInBreaks \/ Expire \/ UNCHANGED gateVars
  PROVE  GateInvariant'
<1>0. Shape
  BY DEF GateInvariant
<1>1. CASE \E c \in Calls : Refused(c)
  <2>1. PICK c \in Calls : Refused(c)
    BY <1>1
  <2>2. /\ pc[c] = "sent" /\ pc' = [pc EXCEPT ![c] = "signing"]
        /\ UNCHANGED <<gate, carried, result, userId, server, breaks>>
        /\ cookie' = None /\ JoinSignIn
    BY <2>1 DEF Refused
  <2>3. Inside' = Inside /\ InsideTwice' = InsideTwice /\ Woken' = Woken /\ Queued' = Queued
    BY <1>0, <2>2 DEF Shape, Inside, InsideTwice, Woken, Queued
  <2>4. Shape'
    BY <1>0, <2>2 DEF Shape, Stages, gate, server, JoinSignIn
  <2> QED  BY <2>2, <2>3, <2>4, SameSets DEF GateInvariant
<1>2. CASE SigningIn /\ UNCHANGED calls
  <2>1. Inside' = Inside /\ InsideTwice' = InsideTwice /\ Woken' = Woken /\ Queued' = Queued
    BY <1>2 DEF calls, Inside, InsideTwice, Woken, Queued
  <2>2. CASE Boot \/ SignInAnswered \/ SignUpAnswered
    <3>1. UNCHANGED gate
      BY <2>2 DEF Boot, SignInAnswered, SignUpAnswered
    <3>2. Shape'
      BY <1>0, <1>2, <2>2 DEF Shape, Boot, SignInAnswered, SignUpAnswered, gate, calls, server
    <3> QED  BY <2>1, <3>1, <3>2, SameSets DEF GateInvariant
  <2>3. CASE SignInEnds
    <3>1. UNCHANGED gate
      BY <2>3 DEF SignInEnds
    <3>2. Shape'
      BY <1>0, <1>2, <2>3 DEF Shape, SignInEnds, gate, calls, server
    <3> QED  BY <2>1, <3>1, <3>2, SameSets DEF GateInvariant
  <2> QED  BY <1>2, <2>2, <2>3 DEF SigningIn
<1>3. CASE SignInEnds
  <2>1. /\ pc' = [c \in Calls |-> IF pc[c] = "signing" THEN "retrying" ELSE pc[c]]
        /\ UNCHANGED <<gate, carried, result, cookie, server, breaks>>
        /\ signIn' = "none" /\ userId' = TRUE
    BY <1>3 DEF SignInEnds
  <2>2. Inside' = Inside /\ InsideTwice' = InsideTwice /\ Woken' = Woken /\ Queued' = Queued
    BY <2>1 DEF Inside, InsideTwice, Woken, Queued
  <2>3. Shape'
    BY <1>0, <2>1 DEF Shape, Stages, gate, server
  <2> QED  BY <2>1, <2>2, <2>3, SameSets DEF GateInvariant
<1>4. CASE SignInBreaks
  <2>1. /\ pc' = [c \in Calls |-> IF pc[c] = "signing" THEN "unwinding" ELSE pc[c]]
        /\ result' = [c \in Calls |-> IF pc[c] = "signing" THEN "broken" ELSE result[c]]
        /\ UNCHANGED <<gate, carried, cookie, userId, server>>
        /\ signIn' = "none" /\ breaks' = breaks + 1 /\ breaks < MaxBreaks
    BY <1>4 DEF SignInBreaks
  <2>2. Inside' = Inside /\ InsideTwice' = InsideTwice /\ Woken' = Woken /\ Queued' = Queued
    BY <2>1 DEF Inside, InsideTwice, Woken, Queued
  <2>3. Shape'
    <3>1. breaks' \in 0..MaxBreaks
      BY <1>0, <2>1, GateAssumption DEF Shape
    <3> QED  BY <1>0, <2>1, <3>1 DEF Shape, Stages, gate, server
  <2> QED  BY <2>1, <2>2, <2>3, SameSets DEF GateInvariant
<1>5. CASE Expire \/ UNCHANGED gateVars
  <2>1. UNCHANGED <<gate, calls, jar, account, breaks>>
    BY <1>5 DEF Expire, gateVars, server
  <2>2. Inside' = Inside /\ InsideTwice' = InsideTwice /\ Woken' = Woken /\ Queued' = Queued
    BY <2>1 DEF calls, Inside, InsideTwice, Woken, Queued
  <2>3. session' \in Sessions
    BY <1>0, <1>5, GateAssumption DEF Shape, Sessions, Expire, gateVars, server
  <2>4. Shape'
    BY <1>0, <2>1, <2>3 DEF Shape, gate, calls, jar
  <2> QED  BY <2>1, <2>2, <2>4, SameSets DEF GateInvariant
<1>6. SigningIn => SignInEnds \/ (SigningIn /\ UNCHANGED calls)
  BY DEF SigningIn, Boot, SignInAnswered, SignUpAnswered
<1> QED  BY <1>1, <1>2, <1>3, <1>4, <1>5, <1>6

LEMMA NextKeepsTheAccount == GateInvariant /\ [GateNext]_gateVars => GateInvariant'
  BY WakingKeepsTheAccount, CallsKeepTheAccount, OthersKeepTheAccount DEF GateNext, Proceed

-----------------------------------------------------------------------------
(* The theorems.                                                           *)

\* The state of the gate, of its calls and of the shared sign-in keeps its shape.
THEOREM GateTypes == GateSpec => []GateTypeOK
<1>1. GateInvariant => GateTypeOK
  <2> SUFFICES ASSUME GateInvariant PROVE GateTypeOK
    OBVIOUS
  <2>1. waiting \in Seq(Queued)
    <3>1. waiting \in Seq(Calls) /\ \A i \in DOMAIN waiting : waiting[i] \in Queued
      BY DEF GateInvariant, Shape, InLine
    <3> QED  BY <3>1
  <2> QED  BY <2>1 DEF GateInvariant, Shape, GateTypeOK, Stages
<1> QED  BY InitAccount, NextKeepsTheAccount, <1>1, PTL DEF GateSpec

\* For any number of requests and slots: no path out of a task, thrown errors
\* and retries included, loses a slot or a wake-up (api-client.ts createGate).
THEOREM NoSlotIsLost == GateSpec => []SlotsAreAccounted
<1>1. GateInvariant => SlotsAreAccounted
  <2> SUFFICES ASSUME GateInvariant PROVE SlotsAreAccounted
    OBVIOUS
  <2>1. \A c \in Queued : \E i \in DOMAIN waiting :
          waiting[i] = c /\ \A j \in DOMAIN waiting : waiting[j] = c => j = i
    BY DEF GateInvariant, InLine
  <2> QED  BY <2>1 DEF GateInvariant, Counted, SlotsAreAccounted
<1> QED  BY InitAccount, NextKeepsTheAccount, <1>1, PTL DEF GateSpec
=============================================================================
