--------------------------- MODULE PriceTimeBook ---------------------------
(***************************************************************************)
(* What the engine's order book promises, whatever way it is kept: an order*)
(* trades with all it can reach, in price-time priority, before any of it  *)
(* rests.  Orders are known by their arrival rank.  A step is described by *)
(* what it takes from the resting orders, not by how it walks them;        *)
(* ExchangeEngine is checked to implement this module.                     *)
(***************************************************************************)
EXTENDS PositionMath, Functions

CONSTANTS Prices, Sizes   \* of the orders that arrive

VARIABLES
  resting,   \* arrival rank -> the order's type, price and what it has left
  arrivals   \* rank of the next order

bookVars == <<resting, arrivals>>

BookTypeOK ==
  /\ arrivals \in Nat
  /\ DOMAIN resting \subseteq {i \in Nat : i < arrivals}
  /\ \A i \in DOMAIN resting :
       /\ resting[i].type \in PositionTypes
       /\ resting[i].price \in Prices
       /\ resting[i].left \in Nat \ {0}

Reaches(type, bound, price) == IF type = LONG THEN price <= bound ELSE price >= bound

Better(type, p1, p2) == IF type = SHORT THEN p1 < p2 ELSE p1 > p2

Before(i, j) ==
  /\ resting[i].type = resting[j].type
  /\ \/ Better(resting[i].type, resting[i].price, resting[j].price)
     \/ resting[i].price = resting[j].price /\ i < j

Left(book, i) == IF i \in DOMAIN book THEN book[i].left ELSE 0

\* What the step takes from the resting order i.
Taken(i) == Left(resting, i) - Left(resting', i)

Untouched(i) == i \in DOMAIN resting' /\ resting'[i] = resting[i]

\* What rests is what rested, or less of it, and the orders in `new`.
OnlyTakes(new) ==
  /\ DOMAIN resting' \subseteq DOMAIN resting \cup new
  /\ \A i \in DOMAIN resting \cap DOMAIN resting' :
       /\ resting'[i].type = resting[i].type
       /\ resting'[i].price = resting[i].price
       /\ resting'[i].left \in 1..resting[i].left

InPriority ==
  \A i, j \in DOMAIN resting :
    Before(i, j) /\ ~Untouched(j) => i \notin DOMAIN resting'

Reachable(type, bound) ==
  {i \in DOMAIN resting : resting[i].type = Opposite(type) /\ Reaches(type, bound, resting[i].price)}

Filled(type, bound) == SumFunction([i \in Reachable(type, bound) |-> Taken(i)])

\* An order of the given size trades with what its bound reaches: all of it, or until it is filled.
Trade(type, bound, size) ==
  /\ InPriority
  /\ \A i \in DOMAIN resting \ Reachable(type, bound) : Untouched(i)
  /\ Filled(type, bound) \in 0..size
  /\ Filled(type, bound) < size => Reachable(type, bound) \cap DOMAIN resting' = {}

BookInit ==
  /\ resting = [i \in {} |-> 0]
  /\ arrivals = 1

Limit(type, price, size) ==
  /\ Trade(type, price, size)
  /\ IF Filled(type, price) < size
       THEN /\ OnlyTakes({arrivals})
            /\ arrivals \in DOMAIN resting'
            /\ resting'[arrivals] = [type |-> type, price |-> price,
                                     left |-> size - Filled(type, price)]
       ELSE OnlyTakes({})
  /\ arrivals' = arrivals + 1

\* A market order reaches from the best price to some price of the other side and never rests.
Market(type, size) ==
  /\ \E i \in DOMAIN resting :
       resting[i].type = Opposite(type) /\ Trade(type, resting[i].price, size)
  /\ OnlyTakes({})
  /\ arrivals' = arrivals + 1

Withdraw(i) ==
  /\ i \notin DOMAIN resting'
  /\ \A j \in DOMAIN resting \ {i} : Untouched(j)
  /\ OnlyTakes({})
  /\ arrivals' = arrivals

BookNext ==
  \/ \E type \in PositionTypes, price \in Prices, size \in Sizes : Limit(type, price, size)
  \/ \E type \in PositionTypes, size \in Sizes : Market(type, size)
  \/ \E i \in DOMAIN resting : Withdraw(i)

BookSpec == BookInit /\ [][BookNext]_bookVars

\* No bid reaches an ask.
NotCrossed ==
  \A i, j \in DOMAIN resting :
    resting[i].type = LONG /\ resting[j].type = SHORT => resting[i].price < resting[j].price
=============================================================================
