--------------------------- MODULE ExchangeEngine ---------------------------
(***************************************************************************)
(* The matching engine of apps/engine/src/services/exchange-engine.ts: the *)
(* order book of one market, the accounts that trade on it, and one action *)
(* per request that `handle` serves.  The engine is a single-threaded      *)
(* consumer of its request stream, so a request is one atomic step here.   *)
(*                                                                         *)
(* The book is kept by the position type of the orders that rest on it:    *)
(* orderbook[LONG] are the bids, orderbook[SHORT] the asks, and            *)
(* matchLongOrder and matchShortOrder, which differ only in the direction  *)
(* of the price order, are one operator.  An order id is the rank at which *)
(* the order was accepted; it stands for the uuid.  `createdAt` is read    *)
(* from the clock when an order starts to rest, so in a level's openOrders *)
(* it follows the position in the list (the clock is taken as monotone).   *)
(*                                                                         *)
(* A level's availableQty is a sum of doubles that is kept apart from its  *)
(* orders and compared with zero, so its roundings are kept (InDoubles).   *)
(* The model stays where they lose nothing: EngineAssumption has all the   *)
(* orders of a run add up to no more units than a double counts exactly.   *)
(* No other sum of quantities is larger than that one.  Decimal quantities *)
(* such as 0.1 and 0.2 are outside of it: see LevelOffersWhatRests.        *)
(***************************************************************************)
EXTENDS PositionMath, SequencesExt, FiniteSetsExt, TLC

CONSTANTS
  Users,            \* account ids
  LimitPrices,      \* prices a limit order may carry
  Quantities,       \* quantities an order may carry
  Margins,          \* initialMargin values; 0 is an order sent without equity
  Slippages,        \* slippage percentages of market orders
  Deposits,         \* amounts of an onramp
  SpotPrices,       \* index prices the poller may deliver
  SeedPrice,        \* lastTradedPrice and indexPrice a market is created with
  AllowedLeverage,  \* the market's leverage cap
  ExactUpTo,        \* whole quantities up to here are doubles (2^53)
  MaxOrders,        \* bound: accepted orders
  MaxDeposited,     \* bound: what one account may deposit in all
  MaxFundings       \* bound: funding rounds

ASSUME EngineAssumption ==
  /\ LimitPrices \subseteq Nat \ {0}
  /\ Quantities \subseteq Nat \ {0}
  /\ Margins \subseteq Nat
  /\ Slippages \subseteq 0..100
  /\ Deposits \subseteq Nat \ {0}
  /\ SpotPrices \subseteq Nat \ {0}
  /\ SeedPrice \in Nat \ {0}
  /\ AllowedLeverage \in Nat \ {0}
  /\ MaxOrders \in Nat /\ MaxDeposited \in Nat /\ MaxFundings \in Nat
  /\ ExactUpTo \in Nat /\ \A q \in Quantities : MaxOrders * q <= ExactUpTo

VARIABLES
  store,      \* the engine's TStore, for one market
  nextId,     \* id of the next order to be accepted
  fundings,   \* funding rounds so far
  reply,      \* the rows the last request produced for the writer
  deposited,  \* history: what each account has deposited
  traded      \* history: the accounts that have appeared in a fill

vars == <<store, nextId, fundings, reply, deposited, traded>>

-----------------------------------------------------------------------------
(* The order book.                                                         *)

Remaining(open) == open.qty - open.filledQty

\* A sum or a difference of quantities, as a double holds it.
InDoubles(qty) == NearestDouble(ExactUpTo, qty)

\* Time priority: getFirstCreatedOrder.
FirstCreated(level) == Head(level.openOrders)

\* A mutant of BetterPrice: the ladder is walked from the wrong end.
BetterPriceSwapped(restingType, p1, p2) == IF restingType = SHORT THEN p1 > p2 ELSE p1 < p2

\* Does the price p1 of a resting order come before p2?  Asks are walked up, bids down.
BetterPrice(restingType, p1, p2) == IF restingType = SHORT THEN p1 < p2 ELSE p1 > p2

OfferedPrices(side) == {p \in DOMAIN side : side[p].availableQty > 0}

\* Price priority: getNextBestAskPrice, getNextBestBidPrice.
BestPrice(restingType, prices) ==
  CHOOSE p \in prices : \A q \in prices \ {p} : BetterPrice(restingType, p, q)

\* The matching loop runs while the next best price is within the order's
\* bound, which is in hundredths of a price because slippage is a percentage.
WithinBound(takerType, price, bound) ==
  IF takerType = LONG THEN 100 * price <= bound ELSE 100 * price >= bound

\* What the taker may hit of the book as it is now.
MatchPrices(s, taker) ==
  {p \in OfferedPrices(s.orderbook[Opposite(taker.type)]) : WithinBound(taker.type, p, taker.bound)}

\* qty is taken from the first order of a level: a filled order leaves the
\* level, a level left with nothing leaves the side.
Consume(side, price, qty) ==
  LET level == side[price]
      open  == FirstCreated(level)
      left  == Remaining(open) - qty
      offered == InDoubles(level.availableQty - qty)
      partly == [open EXCEPT !.filledQty = @ + qty,
                             !.margin = RelativeMargin(@, Remaining(open), left)]
      orders == IF left = 0 THEN Tail(level.openOrders)
                            ELSE <<partly>> \o Tail(level.openOrders)
  IN  IF left = 0 /\ offered <= 0
        THEN [p \in DOMAIN side \ {price} |-> side[p]]
        ELSE [side EXCEPT ![price] = [availableQty |-> offered, openOrders |-> orders]]

\* A mutant of AddToBook: the level grows by the whole order, not by what it has left.
AddToBookWhole(side, price, open) ==
  IF price \in DOMAIN side
    THEN [side EXCEPT ![price] = [availableQty |-> @.availableQty + open.qty,
                                  openOrders |-> Append(@.openOrders, open)]]
    ELSE side @@ (price :> [availableQty |-> open.qty, openOrders |-> <<open>>])

AddToBook(side, price, open) ==
  IF price \in DOMAIN side
    THEN [side EXCEPT ![price] = [availableQty |-> InDoubles(@.availableQty + Remaining(open)),
                                  openOrders |-> Append(@.openOrders, open)]]
    ELSE [p \in DOMAIN side \cup {price} |->
            IF p = price THEN [availableQty |-> Remaining(open), openOrders |-> <<open>>] ELSE side[p]]

-----------------------------------------------------------------------------
(* Positions: one-way netting, one position an account.                    *)

Position(type, qty, margin, averagePrice, liquidationType) ==
  [type |-> type, qty |-> qty, margin |-> margin, averagePrice |-> averagePrice,
   liquidationPrice |-> LiquidationPrice(margin, qty, liquidationType, averagePrice)]

\* More of the same type.  The old quantity is averaged with the total, not with what was added.
Increased(old, qty, margin, price) ==
  Position(old.type, old.qty + qty, old.margin + margin,
           WeightedAveragePrice(old.qty, old.averagePrice, old.qty + qty, price),
           old.type)

\* The opposite type: the position shrinks, closes or changes type.
Netted(s, u, type, qty, margin, price) ==
  LET old  == s.positions[u]
      rest == old.qty - qty
      left == Abs(rest)
      average == WeightedAveragePrice(old.qty, old.averagePrice, left, price)
      move == s.lastTradedPrice - average
      pnl  == IF old.type = LONG THEN move * qty ELSE -(move * qty)
      needed == CASE rest = 0 -> old.margin
                  [] rest > 0 -> RelativeMargin(old.margin, old.qty, left)
                  [] rest < 0 -> RelativeMargin(margin, qty, left)
      netType == IF rest < 0 THEN type ELSE old.type
  IN  [s EXCEPT
        !.collateral[u] = [available |-> @.available + pnl + needed,
                           locked    |-> @.locked - needed],
        !.positions = IF rest = 0
          THEN [v \in DOMAIN @ \ {u} |-> @[v]]
          ELSE [@ EXCEPT ![u] = Position(netType, left, needed, average, type)]]

CreatePosition(s, u, type, qty, margin, price) ==
  IF u \notin DOMAIN s.positions
    THEN [s EXCEPT !.positions = [v \in DOMAIN @ \cup {u} |->
            IF v = u THEN Position(type, qty, margin, price, type) ELSE @[v]]]
  ELSE IF s.positions[u].type = type
    THEN [s EXCEPT !.positions[u] = Increased(@, qty, margin, price)]
  ELSE Netted(s, u, type, qty, margin, price)

-----------------------------------------------------------------------------
(* Matching.  `m` is the match in progress: the store, what is left of the *)
(* taker's order, what it has paid, and the fills and order_updates for the*)
(* writer.                                                                 *)

OrderUpdate(id, status, filledQty) == [orderId |-> id, status |-> status, filledQty |-> filledQty]

\* One iteration of the matching loop: the taker meets the next resting order.
MatchNext(taker, m) ==
  LET side  == Opposite(taker.type)
      price == BestPrice(side, MatchPrices(m.store, taker))
      open  == FirstCreated(m.store.orderbook[side][price])
      qty   == Min({Remaining(open), m.remaining})
      hit == [m.store EXCEPT !.lastTradedPrice = price,
                                 !.orderbook[side] = Consume(@, price, qty)]
      margin == RelativeMargin(open.margin, open.qty, qty)
      status == IF qty = Remaining(open) THEN "filled" ELSE "partially_filled"
  IN  IF m.remaining = 0 \/ MatchPrices(m.store, taker) = {} THEN m ELSE
      [store     |-> CreatePosition(hit, open.userId, side, qty, margin, price),
       remaining |-> m.remaining - qty,
       paid      |-> m.paid + price * qty,
       fills     |-> Append(m.fills, [makerId |-> open.userId, takerId |-> taker.userId,
                                      makerOrderId |-> open.orderId, qty |-> qty,
                                      takerOrderId |-> taker.id, price |-> price]),
       updates   |-> Append(m.updates,
                            OrderUpdate(open.orderId, status, open.filledQty + qty))]

\* A mutant of TakerPosition: the order's whole quantity is booked, not what was filled.
TakerPositionWhole(taker, s, filled, paid) ==
  IF filled = 0 THEN s
  ELSE CreatePosition(s, taker.userId, taker.type, taker.qty, taker.margin,
                      RoundedQuotient(paid, filled))

\* The taker's own position, once, at the average price of all its fills.
TakerPosition(taker, s, filled, paid) ==
  IF filled = 0 THEN s
  ELSE CreatePosition(s, taker.userId, taker.type, filled,
                      RelativeMargin(taker.margin, taker.qty, filled),
                      RoundedQuotient(paid, filled))

\* What a limit order has left rests on the book; what a market order has left is dropped.
Rest(taker, s, remaining) ==
  IF remaining = 0 \/ taker.kind = "market" THEN s
  ELSE [s EXCEPT !.orderbook[taker.type] = AddToBook(@, taker.price,
          [orderId |-> taker.id, userId |-> taker.userId, qty |-> taker.qty,
           filledQty |-> taker.qty - remaining,
           margin |-> RelativeMargin(taker.margin, taker.qty, remaining)])]

\* A mutant of TakerStatus: a market order's remainder is reported as if it rested.
TakerStatusResting(taker, remaining) ==
  IF remaining = 0 THEN "filled"
  ELSE IF remaining < taker.qty THEN "partially_filled" ELSE "open"

TakerStatus(taker, remaining) ==
  CASE remaining = 0 -> "filled"
    [] remaining > 0 /\ taker.kind = "market" -> "cancelled"
    [] remaining > 0 /\ taker.kind = "limit" /\ remaining < taker.qty -> "partially_filled"
    [] OTHER -> "open"

\* The loops of matchLongOrder and matchShortOrder.  An iteration that is not
\* the last takes an order off the book, which holds only orders older than the taker.
MatchLoop(taker, s) ==
  LET m[i \in 0..taker.id] ==
        IF i = 0 THEN [store |-> s, remaining |-> taker.qty, paid |-> 0, fills |-> <<>>, updates |-> <<>>]
                 ELSE MatchNext(taker, m[i - 1])
  IN  m[taker.id]

\* What matchOrder does once the loop is over.
Settled(taker, m) ==
  LET filled == taker.qty - m.remaining
  IN  [store   |-> Rest(taker, TakerPosition(taker, m.store, filled, m.paid), m.remaining),
       fills   |-> m.fills,
       updates |-> Append(m.updates,
                          OrderUpdate(taker.id, TakerStatus(taker, m.remaining), filled))]

\* matchOrder: the store and the writer's rows after a taker's order.
MatchOrder(taker, s) == Settled(taker, MatchLoop(taker, s))

-----------------------------------------------------------------------------
(* placeOrder.                                                             *)

\* An opposite-side order is taken as risk reducing when it leaves no more
\* than the position it meets; it then needs no margin.
RiskReducing(s, o) ==
  /\ o.userId \in DOMAIN s.positions
  /\ s.positions[o.userId].type # o.type
  /\ s.positions[o.userId].qty >= o.qty - s.positions[o.userId].qty

MarginTaken(s, o) == IF RiskReducing(s, o) THEN 0 ELSE o.margin

HasMatch(s, o) == OfferedPrices(s.orderbook[Opposite(o.type)]) # {}

\* The worst price the order accepts, in hundredths: its limit, or the best opposite price and slippage.
PriceBound(s, o) ==
  LET best == BestPrice(Opposite(o.type), OfferedPrices(s.orderbook[Opposite(o.type)]))
  IN  CASE o.kind = "limit" -> 100 * o.price
        [] o.kind = "market" /\ o.type = LONG  -> best * (100 + o.slippage)
        [] o.kind = "market" /\ o.type = SHORT -> best * (100 - o.slippage)

Accepted(s, o) ==
  /\ o.margin # 0 \/ RiskReducing(s, o)
  /\ s.collateral[o.userId].available >= MarginTaken(s, o)
  /\ o.kind = "market" => HasMatch(s, o)
  /\ RiskReducing(s, o) \/ PriceBound(s, o) * o.qty <= 100 * AllowedLeverage * o.margin

\* A mutant of LockMargin: the margin is taken and not locked.
LockMarginOnlyTakes(s, u, margin) == [s EXCEPT !.collateral[u].available = @ - margin]

\* What placeOrder locks is the margin as it was sent; what the order rests
\* with, and gives back when cancelled, is rounded to hundredths (RelativeMargin).
LockMargin(s, u, margin) ==
  [s EXCEPT !.collateral[u] = [available |-> @.available - margin, locked |-> @.locked + margin]]

PlaceOrder(s, id, o) ==
  LET margin == MarginTaken(s, o)
      taker == [id |-> id, userId |-> o.userId, type |-> o.type, kind |-> o.kind,
                price |-> o.price, qty |-> o.qty, margin |-> margin,
                bound |-> PriceBound(s, o)]
  IN  MatchOrder(taker, LockMargin(s, o.userId, margin))

-----------------------------------------------------------------------------
(* liqudationChecks: accounts are visited in the order they were created;  *)
(* an account whose liquidation price the spot price has reached is closed *)
(* with a market order, and skipped when the opposite side is empty.       *)

\* A mutant of Crossed: a SHORT is taken for a LONG.
CrossedOneSided(position, price) == position.liquidationPrice >= price

Crossed(position, price) ==
  IF position.type = LONG THEN position.liquidationPrice >= price
                          ELSE position.liquidationPrice <= price

LiquidationOrder(s, u) ==
  [userId |-> u, type |-> Opposite(s.positions[u].type), kind |-> "market", price |-> 0,
   slippage |-> 100, qty |-> s.positions[u].qty, margin |-> 0]

\* `w` is the sweep in progress.
LiquidateIfCrossed(price, w, u) ==
  LET o == LiquidationOrder(w.store, u)
      r == PlaceOrder(w.store, w.nextId, o)
  IN  IF /\ u \in DOMAIN w.store.positions
         /\ Crossed(w.store.positions[u], price)
         /\ Accepted(w.store, o)
        THEN [store |-> r.store, nextId |-> w.nextId + 1, fills |-> w.fills \o r.fills,
              updates |-> w.updates \o r.updates]
        ELSE w

Sweep(s, id, price) ==
  LET w[i \in 0..Len(s.users)] ==
        IF i = 0 THEN [store |-> s, nextId |-> id, fills |-> <<>>, updates |-> <<>>]
                 ELSE LiquidateIfCrossed(price, w[i - 1], s.users[i])
  IN  w[Len(s.users)]

-----------------------------------------------------------------------------
(* Requests.                                                               *)

NoSide == [p \in {} |-> 0]

Init ==
  /\ store = [orderbook |-> [t \in PositionTypes |-> NoSide],
              lastTradedPrice |-> SeedPrice, indexPrice |-> SeedPrice,
              users |-> <<>>, collateral |-> <<>>, positions |-> <<>>]
  /\ nextId = 1
  /\ fundings = 0
  /\ reply = [fills |-> <<>>, updates |-> <<>>]
  /\ deposited = [u \in Users |-> 0]
  /\ traded = {}

\* A mutant of WithUser: the account is created whether it exists or not.
WithUserAgain(s, u) ==
  [s EXCEPT !.users = Append(@, u), !.collateral = @ @@ (u :> [available |-> 0, locked |-> 0])]

\* An account is created by the first request that names it.
WithUser(s, u) ==
  IF u \in ToSet(s.users) THEN s
  ELSE [s EXCEPT !.users = Append(@, u),
                 !.collateral = [v \in DOMAIN @ \cup {u} |->
                   IF v = u THEN [available |-> 0, locked |-> 0] ELSE @[v]]]

Replied(fills, updates) ==
  /\ reply' = [fills |-> fills, updates |-> updates]
  /\ traded' = traded \cup UNION {{f.makerId, f.takerId} : f \in ToSet(fills)}

\* init_balance and get_balances.
InitBalance(u) ==
  /\ u \notin ToSet(store.users)
  /\ store' = WithUser(store, u)
  /\ Replied(<<>>, <<>>)
  /\ UNCHANGED <<nextId, fundings, deposited>>

Onramp(u, amount) ==
  /\ deposited[u] + amount <= MaxDeposited
  /\ store' = [WithUser(store, u) EXCEPT !.collateral[u].available = @ + amount]
  /\ deposited' = [deposited EXCEPT ![u] = @ + amount]
  /\ Replied(<<>>, <<>>)
  /\ UNCHANGED <<nextId, fundings>>

OrderRequests ==
  [userId : Users, type : PositionTypes, kind : {"limit"}, price : LimitPrices,
   slippage : {0}, qty : Quantities, margin : Margins]
  \cup
  [userId : Users, type : PositionTypes, kind : {"market"}, price : {0},
   slippage : Slippages, qty : Quantities, margin : Margins]

CreateOrder(o) ==
  LET s == WithUser(store, o.userId)
      r == PlaceOrder(s, nextId, o)
  IN  /\ nextId <= MaxOrders
      /\ Accepted(s, o)
      /\ store' = r.store
      /\ nextId' = nextId + 1
      /\ Replied(r.fills, r.updates)
      /\ UNCHANGED <<fundings, deposited>>

\* placeOrder throws.  The only trace is the account that `handle` created
\* before; a refusal of a known account changes nothing and is no step.
RefuseOrder(o) ==
  LET s == WithUser(store, o.userId)
  IN  /\ o.userId \notin ToSet(store.users)
      /\ ~Accepted(s, o)
      /\ store' = s
      /\ Replied(<<>>, <<>>)
      /\ UNCHANGED <<nextId, fundings, deposited>>

\* The i-th order resting at `price` is cancelled; an order that is not on the book is refused.
CancelOrder(type, price, i) ==
  LET level == store.orderbook[type][price]
      open  == level.openOrders[i]
      orders == RemoveAt(level.openOrders, i)
      offered == InDoubles(level.availableQty - Remaining(open))
      side == store.orderbook[type]
  IN  /\ store' = [store EXCEPT
           !.collateral[open.userId] = [available |-> @.available + open.margin,
                                        locked |-> @.locked - open.margin],
           !.orderbook[type] =
             IF offered <= 0 \/ orders = <<>>
               THEN [p \in DOMAIN side \ {price} |-> side[p]]
               ELSE [@ EXCEPT ![price] = [availableQty |-> offered, openOrders |-> orders]]]
      /\ Replied(<<>>,
                 <<OrderUpdate(open.orderId, "cancelled", open.filledQty)>>)
      /\ UNCHANGED <<nextId, fundings, deposited>>

SpotPriceUpdate(price) ==
  LET w == Sweep([store EXCEPT !.indexPrice = price], nextId, price)
  IN  /\ store' = w.store
      /\ nextId' = w.nextId
      /\ Replied(w.fills, w.updates)
      /\ UNCHANGED <<fundings, deposited>>

\* What a position is paid for the gap between the last trade and the index.
\* (The engine does not round this amount; in whole units it is exact under FundingIsExact.)
Funding(position) ==
  NearestQuotient(position.qty * store.lastTradedPrice
                    * (store.lastTradedPrice - store.indexPrice), store.indexPrice)

\* A mutant of Funded: both sides pay.
FundedBothPay(position) ==
  Position(position.type, position.qty, position.margin - Funding(position),
           position.averagePrice, position.type)

Funded(position) ==
  LET margin == IF position.type = LONG THEN position.margin - Funding(position)
                                        ELSE position.margin + Funding(position)
  IN  Position(position.type, position.qty, margin, position.averagePrice, position.type)

DisperseFundingRate ==
  /\ fundings < MaxFundings
  /\ fundings' = fundings + 1
  /\ store' = [store EXCEPT !.positions = [u \in DOMAIN @ |-> Funded(@[u])]]
  /\ Replied(<<>>, <<>>)
  /\ UNCHANGED <<nextId, deposited>>

Next ==
  \/ \E u \in Users : InitBalance(u)
  \/ \E u \in Users, amount \in Deposits : Onramp(u, amount)
  \/ \E o \in OrderRequests : CreateOrder(o)
  \/ \E o \in OrderRequests : RefuseOrder(o)
  \/ \E type \in PositionTypes : \E price \in DOMAIN store.orderbook[type] :
       \E i \in DOMAIN store.orderbook[type][price].openOrders : CancelOrder(type, price, i)
  \/ \E price \in SpotPrices : SpotPriceUpdate(price)
  \/ DisperseFundingRate

Spec == Init /\ [][Next]_vars

-----------------------------------------------------------------------------
(* What must be true of the engine between two requests.                   *)

Book(type) == UNION {ToSet(store.orderbook[type][p].openOrders) : p \in DOMAIN store.orderbook[type]}

\* The state has the shape store.ts declares, accounts and book refer to each other.
TypeOK ==
  /\ \A t \in PositionTypes : \A p \in DOMAIN store.orderbook[t] :
       /\ p \in LimitPrices
       /\ \A o \in ToSet(store.orderbook[t][p].openOrders) :
            o.userId \in ToSet(store.users) /\ o.orderId \in 1..(nextId - 1) /\ o.margin \in Nat
  /\ store.lastTradedPrice \in LimitPrices \cup {SeedPrice}
  /\ store.indexPrice \in SpotPrices \cup {SeedPrice}
  /\ store.users \in Seq(Users) /\ IsInjective(store.users)
  /\ DOMAIN store.collateral = ToSet(store.users)
  /\ DOMAIN store.positions \subseteq ToSet(store.users)
  /\ \A u \in DOMAIN store.collateral :
       store.collateral[u].available \in Int /\ store.collateral[u].locked \in Int
  /\ \A u \in DOMAIN store.positions :
       store.positions[u].type \in PositionTypes /\ store.positions[u].qty \in Nat \ {0}
  /\ nextId \in Nat \ {0} /\ fundings \in 0..MaxFundings
  /\ deposited \in [Users -> 0..MaxDeposited] /\ traded \subseteq Users

\* Every level offers exactly what its orders have left: availableQty, which
\* matching and cancelling adjust apart from the orders, never drifts from
\* them; no order is listed twice, and no level stays behind empty.  It holds
\* while the quantities add up exactly (EngineAssumption).  In decimals they
\* do not: 0.1 and 0.2 add up to 0.30000000000000004, the two fills leave
\* 2.8e-17 of it, and the level that exchange-engine.ts:568 says should not
\* occur stays behind without an order, as its side's best price.
LevelOffersWhatRests ==
  \A t \in PositionTypes : \A p \in DOMAIN store.orderbook[t] :
    LET level  == store.orderbook[t][p]
        orders == ToSet(level.openOrders)
    IN  /\ orders # {} /\ IsInjective([i \in DOMAIN level.openOrders |-> level.openOrders[i].orderId])
        /\ \A o \in orders : o.filledQty < o.qty
        /\ level.availableQty = SumFunction([o \in orders |-> Remaining(o)])

\* Every long is somebody's short.  The maker's side of a trade is booked at
\* each fill and the taker's once at the end, through netting that adds,
\* shrinks, closes and flips positions; open interest must still balance.
OpenInterestBalanced ==
  LET Held(type) == SumFunctionOnSet([u \in DOMAIN store.positions |-> store.positions[u].qty],
                      {u \in DOMAIN store.positions : store.positions[u].type = type})
  IN  Held(LONG) = Held(SHORT)

\* Until an account first trades, its equity is what it deposited, and what is
\* locked is what its resting orders would give back when cancelled, but for
\* half a hundredth for each order that was accepted: the margin is locked as
\* it was sent and given back rounded, so 33.333 leaves 0.003 locked for good.
UntradedMarginIsCovered ==
  \A u \in ToSet(store.users) \ traded :
    LET c == store.collateral[u]
        resting == {o \in Book(LONG) \cup Book(SHORT) : o.userId = u}
    IN  /\ c.available + c.locked = deposited[u]
        /\ 2 * Abs(c.locked - SumFunction([o \in resting |-> o.margin])) <= Cent * (nextId - 1)

\* The rows the writer is told to store agree with the book the request
\* leaves: the last order_update of an order carries what it has filled, and
\* an order is on the book exactly while that status lets it be cancelled.
WriterAgreesWithBook ==
  LET rows == reply.updates
      LastOf(i) == \A j \in DOMAIN rows : rows[j].orderId = rows[i].orderId => j <= i
  IN  \A i \in DOMAIN rows : LastOf(i) =>
        LET onBook == {o \in Book(LONG) \cup Book(SHORT) : o.orderId = rows[i].orderId}
        IN  IF rows[i].status \in {"open", "partially_filled"}
              THEN onBook # {} /\ \A o \in onBook : o.filledQty = rows[i].filledQty
              ELSE onBook = {}

\* A sweep takes exactly the positions the price has reached: an account that
\* nobody traded with during the sweep is closed by it if and only if its
\* liquidation price was reached, its collateral is not negative, and there
\* was something on the opposite side when the sweep was done with it.
SweepTakesCrossedPositions ==
  [][(\E price \in SpotPrices : SpotPriceUpdate(price)) =>
       LET makers == {f.makerId : f \in ToSet(reply'.fills)}
           takers == {f.takerId : f \in ToSet(reply'.fills)}
       IN  \A u \in DOMAIN store.positions \ makers :
             LET held == store.positions[u]
                 crossed == IF held.type = LONG
                              THEN held.liquidationPrice >= store'.indexPrice
                              ELSE held.liquidationPrice <= store'.indexPrice
             IN  /\ u \in takers => crossed
                 /\ (crossed /\ u \notin takers) =>
                      \/ store.collateral[u].available < 0
                      \/ DOMAIN store'.orderbook[held.type] = {}]_vars

\* Funding only moves margin between accounts: what one side pays the other
\* receives.  It rests on balanced open interest, which nothing in the funding
\* loop looks at.  (Stated where no payment has to be rounded.)
FundingIsExact ==
  \A p \in LimitPrices \cup {SeedPrice}, i \in SpotPrices \cup {SeedPrice} : (p * (p - i)) % i = 0

PositionMargins(positions) == SumFunction([u \in DOMAIN positions |-> positions[u].margin])

FundingIsZeroSum ==
  [][FundingIsExact /\ DisperseFundingRate =>
       PositionMargins(store'.positions) = PositionMargins(store.positions)]_vars

-----------------------------------------------------------------------------
(* The book as its users see it: PriceTimeBook, over what each order has left. *)

RestingIn(s) ==
  LET AtPrice(t, p) == {[orderId |-> o.orderId, type |-> t, price |-> p, left |-> Remaining(o)]
                          : o \in ToSet(s.orderbook[t][p].openOrders)}
      rows == UNION {UNION {AtPrice(t, p) : p \in DOMAIN s.orderbook[t]} : t \in PositionTypes}
  IN  [id \in {r.orderId : r \in rows} |->
         LET row == CHOOSE r \in rows : r.orderId = id
         IN  [type |-> row.type, price |-> row.price, left |-> row.left]]

RestingOrders == RestingIn(store)

-----------------------------------------------------------------------------
(* What the comments and tests of the engine say, and the code does not do.*)

\* exchange-engine.ts:379: the liquidation price is on the losing side of the
\* average price, below it for a LONG and above it for a SHORT.
LiquidationPriceOnLosingSide ==
  \A u \in DOMAIN store.positions :
    LET held == store.positions[u]
    IN  IF held.type = LONG THEN held.liquidationPrice <= held.averagePrice
                            ELSE held.liquidationPrice >= held.averagePrice
=============================================================================
