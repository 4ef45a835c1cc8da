------------------------------ MODULE OrderTicket ------------------------------
(***************************************************************************)
(* The two forms of the terminal that place orders: the ticket             *)
(* (order-form.tsx, order-payload.ts) and the dialog that closes a         *)
(* position (account-tabs.tsx, positions.tsx).  Both read a screen that    *)
(* lags behind the engine, send POST /order, which is not idempotent, and  *)
(* say afterwards what became of the order (fill-toast.tsx) from an answer *)
(* that may be missing.  What the engine does with the order is            *)
(* placeOrder's admission; how much of it is matched is left to chance     *)
(* here, ExchangeEngine is its model.                                      *)
(*                                                                         *)
(* A position is a signed quantity.  Money is counted finer than the step  *)
(* the ticket rounds its margin to: what is free is a double that nobody   *)
(* rounds, and may lie between two steps.  The last bit of a product or a  *)
(* quotient of doubles is left out, the form and the engine divide exactly.*)
(***************************************************************************)
EXTENDS Integers

CONSTANTS
  Prices,    \* bound: the prices the book quotes and the ticket takes
  Last,      \* bound: the price of the last trade, 0 if there has been none
  Funds,     \* bound: the collateral other business leaves free
  Unit,      \* the amounts of money that make the price of one unit of quantity at a price of 1
  Grain,     \* the amounts of money that make the 1e-8 roundMarginUp rounds to
  Slippages, \* bound: the percents typed into the slippage field, 0 for none
  Sizes,     \* bound: the quantities typed
  Positions, \* bound: what other hands make of the position, signed
  Leverages, \* bound: the leverages chosen
  Cap,       \* the market's maxLeverage
  MaxOrders, \* bound: orders sent from this screen
  MaxMoves   \* bound: times the engine's side changes by other hands

ASSUME TicketAssumption ==
  /\ Prices \subseteq Nat \ {0} /\ Last \in Nat /\ Funds \subseteq Nat /\ Slippages \subseteq Nat
  /\ {Unit, Grain} \subseteq Nat \ {0}
  /\ Sizes \subseteq Nat /\ Positions \subseteq Int /\ Leverages \subseteq 1..Cap
  /\ {Cap, MaxOrders} \subseteq Nat \ {0} /\ MaxMoves \in Nat

VARIABLES
  engine,  \* the account's position and free collateral, the best bid and ask
  screen,  \* the same, as the browser has them
  form,    \* the fields of the ticket
  ticket,  \* whether it asks for confirmation, the order it waits for, and what it complains of
  dialog,  \* whether the close dialog is open, and the failure it shows
  closing, \* the order of the close under way, 0 for none
  orders,  \* every order sent: what was sent, what became of it, what was said of it
  moves    \* changes by other hands so far

forms == <<form, ticket, dialog, closing>>
vars == <<engine, screen, forms, orders, moves>>

Sides == {"LONG", "SHORT"}
Abs(n) == IF n < 0 THEN -n ELSE n
Side(pos) == IF pos > 0 THEN "LONG" ELSE "SHORT"
Opposite(side) == IF side = "LONG" THEN "SHORT" ELSE "LONG"
Signed(side, qty) == IF side = "LONG" THEN qty ELSE -qty
Ids == 1..MaxOrders

\* A side nobody quotes is 0.
Quotes == Prices \cup {0}
Worlds == {w \in [pos : Positions, available : Funds, bid : Quotes, ask : Quotes] :
             w.bid > 0 /\ w.ask > 0 => w.bid < w.ask}

NoTicket == [confirming |-> FALSE, request |-> 0, said |-> "nothing"]
NoDialog == [open |-> FALSE, failure |-> "nothing", request |-> 0]

-----------------------------------------------------------------------------
(* What the ticket makes of its fields.                                    *)

\* A market order is sized by the book, the side it takes first, then the
\* other, and by the last trade when nobody quotes.
MarketBasis ==
  LET first  == IF form.side = "LONG" THEN screen.ask ELSE screen.bid
      second == IF form.side = "LONG" THEN screen.bid ELSE screen.ask
  IN  IF first > 0 THEN first ELSE IF second > 0 THEN second ELSE Last

EffectivePrice == IF form.type = "limit" THEN form.price ELSE MarketBasis

\* The margin is notional / leverage; it is compared before it is rounded.
CanSubmit ==
  /\ form.qty > 0 /\ EffectivePrice > 0
  /\ Unit * EffectivePrice * form.qty <= screen.available * form.leverage

\* A mutant of RoundMarginUp: to the step below.
RoundMarginDown(notional, leverage) == Grain * (notional \div (leverage * Grain))

\* To the step above.
RoundMarginUp(notional, leverage) == Grain * (-((-notional) \div (leverage * Grain)))

ToWholePercent(typed) == IF typed < 1 THEN 1 ELSE typed

\* A mutant of BuildOrderPayload: the slippage goes with every order.
PayloadWithSlippage ==
  [type     |-> form.type,
   side     |-> form.side,
   qty      |-> form.qty,
   price    |-> IF form.type = "limit" THEN form.price ELSE 0,
   slippage |-> ToWholePercent(form.slippage),
   equity   |-> RoundMarginUp(Unit * EffectivePrice * form.qty, form.leverage)]

BuildOrderPayload ==
  [type     |-> form.type,
   side     |-> form.side,
   qty      |-> form.qty,
   price    |-> IF form.type = "limit" THEN form.price ELSE 0,
   slippage |-> IF form.type = "limit" THEN 0 ELSE ToWholePercent(form.slippage),
   equity   |-> RoundMarginUp(Unit * EffectivePrice * form.qty, form.leverage)]

\* The full size the row shows, the other way, at the market, without margin.
BuildClosePayload ==
  [type |-> "market", side |-> Opposite(Side(screen.pos)), qty |-> Abs(screen.pos),
   price |-> 0, slippage |-> 1, equity |-> 0]

-----------------------------------------------------------------------------
(* The engine.                                                             *)

\* A mutant of RiskReducing: any order of the other side is.
AnyOpposite(o) == engine.pos # 0 /\ o.side # Side(engine.pos)

\* An order of the other side, up to twice the position.
RiskReducing(o) ==
  /\ engine.pos # 0 /\ o.side # Side(engine.pos)
  /\ Abs(engine.pos) >= o.qty - Abs(engine.pos)

InitialMargin(o) == IF RiskReducing(o) THEN 0 ELSE o.equity

\* The worst price the order accepts, in hundredths; no percentage is too large.
Bound(o) ==
  IF o.type = "limit" THEN 100 * o.price
  ELSE IF o.side = "LONG" THEN engine.ask * (100 + o.slippage)
  ELSE engine.bid * (100 - o.slippage)

Matchable(o) == o.type = "limit" \/ (IF o.side = "LONG" THEN engine.ask ELSE engine.bid) > 0

\* The leverage cap of placeOrder.
WithinCap(o) == RiskReducing(o) \/ Unit * Bound(o) * o.qty <= 100 * Cap * InitialMargin(o)

Admits(o) ==
  /\ o.equity = 0 => RiskReducing(o)
  /\ InitialMargin(o) <= engine.available
  /\ Matchable(o)
  /\ WithinCap(o)

\* A market order takes something, a limit order if it crosses.
Fills(o) ==
  IF IF o.side = "LONG" THEN engine.ask > 0 /\ engine.ask * 100 <= Bound(o)
                        ELSE engine.bid > 0 /\ engine.bid * 100 >= Bound(o)
  THEN 1..o.qty ELSE {0}

\* What a fill against the position releases and realises is the engine's affair.
Leaves(o, filled) ==
  {engine.available - InitialMargin(o)} \cup
  (IF filled > 0 /\ engine.pos # 0 /\ o.side # Side(engine.pos) THEN Funds ELSE {})

\* The engine is no longer what the orders under way were made for.
Aged(all) == [i \in Ids |-> [all[i] EXCEPT !.fresh = FALSE]]

Refuse(i) ==
  /\ orders[i].state = "coming" /\ ~Admits(orders[i].order)
  /\ orders' = [orders EXCEPT ![i].state = "refused", ![i].fresh = FALSE]
  /\ UNCHANGED <<engine, screen, forms, moves>>

Place(i) ==
  /\ orders[i].state = "coming" /\ Admits(orders[i].order)
  /\ \E filled \in Fills(orders[i].order) :
       /\ orders' = [Aged(orders) EXCEPT ![i].state = "placed", ![i].filled = filled]
       /\ \E free \in Leaves(orders[i].order, filled) :
            engine' = [engine EXCEPT !.pos = @ + Signed(orders[i].order.side, filled),
                                     !.available = free]
  /\ UNCHANGED <<screen, forms, moves>>

-----------------------------------------------------------------------------
(* The screen.                                                             *)

NoOrder == [type |-> "none", side |-> "LONG", qty |-> 0, price |-> 0, slippage |-> 0, equity |-> 0]
Unsent == [state |-> "unused", from |-> "none", order |-> NoOrder, filled |-> 0,
           waiting |-> FALSE, said |-> "nothing", fresh |-> FALSE, astray |-> FALSE]

Init ==
  /\ engine \in Worlds /\ screen = engine
  /\ form = [side |-> "LONG", type |-> "limit", price |-> Last, slippage |-> 1, qty |-> 0, leverage |-> Cap]
  /\ ticket = NoTicket /\ dialog = NoDialog /\ closing = 0
  /\ orders = [i \in Ids |-> Unsent]
  /\ moves = 0

\* Fills of resting orders, liquidations, deposits, cancels and other traders.
Moves ==
  /\ moves < MaxMoves /\ moves' = moves + 1
  /\ \E w \in Worlds :
       /\ w # engine
       /\ \/ w.pos = engine.pos /\ w.available = engine.available
          \/ w.bid = engine.bid /\ w.ask = engine.ask
       /\ engine' = w
  /\ orders' = Aged(orders)
  /\ UNCHANGED <<screen, forms>>

\* The feeds.  A position that is gone takes its row, and the row's dialog, with it.
SeesAccount ==
  /\ <<screen.pos, screen.available>> # <<engine.pos, engine.available>>
  /\ screen' = [screen EXCEPT !.pos = engine.pos, !.available = engine.available]
  /\ dialog' = IF engine.pos = 0 THEN NoDialog ELSE dialog
  /\ UNCHANGED <<engine, form, ticket, closing, orders, moves>>

SeesBook ==
  /\ <<screen.bid, screen.ask>> # <<engine.bid, engine.ask>>
  /\ screen' = [screen EXCEPT !.bid = engine.bid, !.ask = engine.ask]
  /\ UNCHANGED <<engine, forms, orders, moves>>

\* Nothing behind an open dialog takes input.
Behind == ~ticket.confirming /\ ~dialog.open

\* Any edit takes back what the ticket last complained of.
Edited(next) ==
  /\ Behind /\ form' = next
  /\ ticket' = [ticket EXCEPT !.said = "nothing"]
  /\ UNCHANGED <<engine, screen, dialog, closing, orders, moves>>

Edit ==
  \/ \E side \in Sides : Edited([form EXCEPT !.side = side])
  \/ \E type \in {"limit", "market"} : Edited([form EXCEPT !.type = type])
  \/ \E price \in Prices : Edited([form EXCEPT !.price = price])
  \/ \E typed \in Slippages : Edited([form EXCEPT !.slippage = typed])
  \/ \E qty \in Sizes : Edited([form EXCEPT !.qty = qty])
  \/ \E leverage \in Leverages : Edited([form EXCEPT !.leverage = leverage])

\* The share of the free collateral, at this leverage and price, rounded down.
PctQty(pct) == (screen.available * pct * form.leverage) \div (100 * Unit * EffectivePrice)

SetPct ==
  /\ EffectivePrice > 0
  /\ \E pct \in {25, 50, 75, 100} : Edited([form EXCEPT !.qty = PctQty(pct)])

OpenConfirm ==
  /\ Behind /\ CanSubmit
  /\ ticket' = [ticket EXCEPT !.confirming = TRUE]
  /\ UNCHANGED <<engine, screen, form, dialog, closing, orders, moves>>

\* Not while the order is under way.
Dismiss ==
  /\ ticket.confirming /\ ticket.request = 0
  /\ ticket' = [ticket EXCEPT !.confirming = FALSE]
  /\ UNCHANGED <<engine, screen, form, dialog, closing, orders, moves>>

\* The request leaves; whether the screen it was made of was true is kept for
\* the properties.
Sends(i, from, payload) ==
  /\ orders[i].state = "unused" /\ \A j \in 1..(i - 1) : orders[j].state # "unused"
  /\ orders' = [orders EXCEPT ![i] = [Unsent EXCEPT !.state = "coming", !.from = from,
                                        !.order = payload, !.waiting = TRUE, !.fresh = (screen = engine)]]

Submit(i) ==
  /\ ticket.confirming /\ ticket.request = 0 /\ CanSubmit
  /\ Sends(i, "ticket", BuildOrderPayload)
  /\ ticket' = [ticket EXCEPT !.request = i, !.said = "nothing"]
  /\ UNCHANGED <<engine, screen, form, dialog, closing, moves>>

\* The viewport crosses the breakpoint: the ticket moves between the rail and
\* the sheet, and is another instance.
Remount ==
  /\ ticket' = NoTicket
  /\ form' = [form EXCEPT !.side = "LONG", !.type = "limit", !.slippage = 1, !.qty = 0, !.leverage = Cap]
  /\ <<form, ticket>>' # <<form, ticket>>
  /\ UNCHANGED <<engine, screen, dialog, closing, orders, moves>>

OpenClose ==
  /\ Behind /\ screen.pos # 0
  /\ dialog' = [dialog EXCEPT !.open = TRUE]
  /\ UNCHANGED <<engine, screen, form, ticket, closing, orders, moves>>

\* Escape and a click outside work while the close is under way, too.
DismissClose ==
  /\ dialog.open
  /\ dialog' = [dialog EXCEPT !.open = FALSE, !.failure = "nothing"]
  /\ UNCHANGED <<engine, screen, form, ticket, closing, orders, moves>>

\* The other tabs take the row away while they are shown, and bring another.
SwitchTab ==
  /\ Behind /\ dialog # NoDialog
  /\ dialog' = NoDialog
  /\ UNCHANGED <<engine, screen, form, ticket, closing, orders, moves>>

Close(i) ==
  /\ dialog.open /\ closing = 0
  /\ Sends(i, "close", BuildClosePayload)
  /\ closing' = i
  /\ dialog' = [dialog EXCEPT !.failure = "nothing", !.request = i]
  /\ UNCHANGED <<engine, screen, form, ticket, moves>>

-----------------------------------------------------------------------------
(* The answer.                                                             *)

OutcomeFromResult(i) ==
  IF orders[i].filled >= orders[i].order.qty THEN "filled"
  ELSE IF orders[i].filled > 0 THEN "partial"
  ELSE IF orders[i].order.type = "market" THEN "cancelled" ELSE "resting"

Succeeded(said) == said \in {"filled", "partial", "cancelled", "resting"}

\* What submitOrder makes of the answer, if the ticket that sent it is still there.
TicketAfter(i, said) ==
  IF ticket.request # i THEN ticket
  ELSE IF said = "nothing" THEN [ticket EXCEPT !.request = 0]
  ELSE [NoTicket EXCEPT !.said = IF Succeeded(said) THEN "nothing" ELSE said]

FormAfter(i, said) ==
  IF ticket.request = i /\ Succeeded(said) THEN [form EXCEPT !.qty = 0] ELSE form

\* What onClose makes of it, if the row is still there: the dialog need not be open.
DialogAfter(i, said) ==
  IF dialog.request # i THEN dialog
  ELSE IF said = "nothing" THEN [dialog EXCEPT !.request = 0]
  ELSE IF Succeeded(said) THEN NoDialog
  ELSE [dialog EXCEPT !.failure = said, !.request = 0]

\* The promise settles.
Lands(i, state, said, astray) ==
  /\ orders' = [orders EXCEPT ![i].state = state, ![i].waiting = FALSE, ![i].said = said,
                              ![i].astray = astray]
  /\ ticket' = TicketAfter(i, said) /\ form' = FormAfter(i, said)
  /\ dialog' = DialogAfter(i, said) /\ closing' = IF closing = i THEN 0 ELSE closing
  /\ UNCHANGED <<engine, screen, moves>>

\* 200 with the engine's result, or 400 with the engine's words.
Answered(i) ==
  /\ orders[i].waiting /\ orders[i].state \in {"placed", "refused"}
  /\ Lands(i, orders[i].state, IF orders[i].state = "placed" THEN OutcomeFromResult(i) ELSE "rejected", FALSE)

\* A mutant of Unanswered: only the engine's own silence is taken for one.
UnansweredSaysRejected(i) ==
  orders[i].waiting /\ Lands(i, orders[i].state, "rejected", FALSE)

\* ENGINE_TIMEOUT, NETWORK and TIMEOUT, whatever has become of the order.
Unanswered(i) ==
  orders[i].waiting /\ Lands(i, orders[i].state, "unknown", FALSE)

\* It did not get to the engine: the network was down, the backend's database
\* was (500), or the session had ended (401).
NotDelivered(i) ==
  /\ orders[i].waiting /\ orders[i].state = "coming"
  /\ \E said \in {"unknown", "rejected", "nothing"} : Lands(i, "never", said, FALSE)

\* The session ends elsewhere and takes the request with it: CANCELLED is silent.
Abandoned(i) ==
  orders[i].waiting /\ Lands(i, orders[i].state, "nothing", FALSE)

\* An answer that is not about the order: a proxy's 5xx, which has no code, a
\* body of another shape, or the engine's ok: false about an order it applied.
Astray(i) ==
  orders[i].waiting /\ Lands(i, orders[i].state, "rejected", TRUE)

Next ==
  \/ Moves \/ SeesAccount \/ SeesBook
  \/ Edit \/ SetPct \/ OpenConfirm \/ Dismiss \/ Remount \/ OpenClose \/ DismissClose \/ SwitchTab
  \/ \E i \in Ids :
       \/ Submit(i) \/ Close(i) \/ Refuse(i) \/ Place(i)
       \/ Answered(i) \/ Unanswered(i) \/ NotDelivered(i) \/ Abandoned(i) \/ Astray(i)

Spec == Init /\ [][Next]_vars

-----------------------------------------------------------------------------
(* Properties.                                                             *)

Said == {"nothing", "filled", "partial", "cancelled", "resting", "rejected", "unknown"}

\* CreateOrderSchema: a limit order has a price and no slippage, a market order
\* a slippage and no price; the margin may be left out.
Schema ==
  {o \in [type : {"limit", "market"}, side : Sides, qty : Nat \ {0}, price : Nat, slippage : Nat, equity : Nat] :
     IF o.type = "limit" THEN o.price > 0 /\ o.slippage = 0 ELSE o.price = 0 /\ o.slippage > 0}

\* The state is well formed, every order sent fits the schema the two sides
\* share, and a close is sent without margin.
TypeOK ==
  /\ {engine, screen} \subseteq [pos : Int, available : Nat, bid : Quotes, ask : Quotes]
  /\ form \in [side : Sides, type : {"limit", "market"}, price : Prices \cup {Last}, slippage : Slippages \cup {1},
               qty : Nat, leverage : 1..Cap]
  /\ ticket \in [confirming : BOOLEAN, request : 0..MaxOrders, said : {"nothing", "rejected", "unknown"}]
  /\ dialog \in [open : BOOLEAN, failure : {"nothing", "rejected", "unknown"}, request : 0..MaxOrders]
  /\ closing \in 0..MaxOrders
  /\ \A i \in Ids :
       /\ orders[i].state \in {"unused", "coming", "refused", "placed", "never"}
       /\ orders[i].state # "unused" => orders[i].order \in Schema
       /\ orders[i].filled \in 0..orders[i].order.qty
       /\ orders[i].said \in Said
       /\ orders[i].from = "close" => orders[i].order.equity = 0
  /\ moves \in 0..MaxMoves

\* A close is built from the size on the screen and decided on the size in the
\* engine.  However the two have come apart - another close that was reported
\* as not confirmed, a liquidation, a fill on another device - it never leaves
\* the account with more exposure than it found (placeOrder's admission of
\* orders without margin).
CloseNeverAddsRisk ==
  [][\A i \in Ids :
       /\ orders[i].from = "close"
       /\ orders[i].state = "coming" /\ orders'[i].state = "placed"
       => Abs(engine'.pos) <= Abs(engine.pos)]_vars

\* What is said of an order is what became of it: it is called rejected only if
\* it does not exist and will not come to exist (or if the answer was none of
\* the engine's), and called filled, partly filled or resting as it was
\* (order-form.tsx submitOrder, errors.ts isOutcomeUnknown).
OutcomeIsTruthful ==
  \A i \in Ids :
    LET o == orders[i]
    IN  /\ o.said = "rejected" => o.state \in {"refused", "never"} \/ o.astray
        /\ Succeeded(o.said) =>
             /\ o.state = "placed"
             /\ o.said = CASE o.filled = o.order.qty -> "filled"
                           [] o.filled = 0           -> IF o.order.type = "limit" THEN "resting" ELSE "cancelled"
                           [] OTHER                  -> "partial"

\* What is free covers the margin, but not the margin rounded up.
ShortByRounding(o) ==
  ~RiskReducing(o) /\ engine.available < o.equity /\ o.equity < engine.available + Grain

\* An order of the ticket that finds the engine as the screen showed it is
\* refused for three reasons only: nobody quotes the side it would take; it is
\* a market buy whose leverage is above the cap at the worst price its slippage
\* allows, the ticket's margin being for the price it showed; or the form
\* compared what is free with the margin before rounding it up and the engine
\* compares it with what was sent, and the rounding alone makes the difference
\* (order-form.tsx insufficient, order-payload.ts roundMarginUp, placeOrder).
FreshTicketIsAdmitted ==
  [][\A i \in Ids :
       LET o == orders[i].order
       IN  /\ orders[i].from = "ticket" /\ orders[i].fresh
           /\ orders[i].state = "coming" /\ orders'[i].state = "refused"
           => \/ o.type = "market" /\ (~Matchable(o) \/ (o.side = "LONG" /\ ~WithinCap(o)))
              \/ ShortByRounding(o)]_vars
=============================================================================
