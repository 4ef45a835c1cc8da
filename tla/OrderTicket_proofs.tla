-------------------------- MODULE OrderTicket_proofs --------------------------
(***************************************************************************)
(* Proofs about the two forms that place orders: for any prices, sizes,    *)
(* leverages, positions and number of orders, every order sent fits the    *)
(* schema, what is said of an order is what became of it, a close never    *)
(* adds exposure, and an order made of a screen that shows the engine as it*)
(* is is taken, but for three reasons.                                     *)
(***************************************************************************)
EXTENDS OrderTicket, TLAPS

-----------------------------------------------------------------------------
(* Types.                                                                  *)

World == [pos : Int, available : Nat, bid : Quotes, ask : Quotes]
Form == [side : Sides, type : {"limit", "market"}, price : Prices \cup {Last},
         slippage : Slippages \cup {1}, qty : Nat, leverage : 1..Cap]
Complaints == {"nothing", "rejected", "unknown"}
Ticket == [confirming : BOOLEAN, request : 0..MaxOrders, said : Complaints]
Dialog == [open : BOOLEAN, failure : Complaints, request : 0..MaxOrders]

Payload == [type : {"none", "limit", "market"}, side : Sides, qty : Nat, price : Nat,
            slippage : Nat, equity : Nat]
Order == [state : {"unused", "coming", "refused", "placed", "never"},
          from : {"none", "ticket", "close"}, order : Payload, filled : Nat,
          waiting : BOOLEAN, said : Said, fresh : BOOLEAN, astray : BOOLEAN]

\* OutcomeIsTruthful of one order.
Truthful(o) ==
  /\ o.said = "rejected" => o.state \in {"refused", "never"} \/ o.astray
  /\ Succeeded(o.said) =>
       /\ o.state = "placed"
       /\ o.said = CASE o.filled = o.order.qty -> "filled"
                     [] o.filled = 0           -> IF o.order.type = "limit" THEN "resting" ELSE "cancelled"
                     [] OTHER                  -> "partial"

\* What holds of every order at any time.
Sound(o) ==
  /\ o \in Order
  /\ o.state # "unused" => o.order \in Schema
  /\ o.filled \in 0..o.order.qty
  /\ o.from = "close" => o.order.equity = 0
  /\ Truthful(o)

Orders == DOMAIN orders = Ids /\ orders = [i \in Ids |-> orders[i]] /\ \A i \in Ids : Sound(orders[i])

\* The dialog belongs to the row of a position.
Forms ==
  /\ engine \in World /\ screen \in World
  /\ form \in Form /\ ticket \in Ticket /\ dialog \in Dialog
  /\ closing \in 0..MaxOrders /\ moves \in 0..MaxMoves
  /\ dialog.open => screen.pos # 0

TicketInvariant == Orders /\ Forms

-----------------------------------------------------------------------------
(* Arithmetic.                                                             *)

\* Dividing by a positive number and rounding down keeps a natural number one.
LEMMA QuotientType ==
  ASSUME NEW n \in Nat, NEW d \in Nat \ {0}
  PROVE  n \div d \in Nat
  OBVIOUS

LEMMA UnitTypes == Unit \in Nat \ {0} /\ Grain \in Nat \ {0}
BY TicketAssumption

LEMMA ProductType ==
  ASSUME NEW m \in Nat \ {0}, NEW n \in Nat \ {0}
  PROVE  m * n \in Nat \ {0}
  OBVIOUS

LEMMA RoundMarginUpType ==
  ASSUME NEW n \in Nat, NEW d \in Nat \ {0}
  PROVE  RoundMarginUp(n, d) \in Nat
<1> DEFINE e == d * Grain
           q == (-n) \div e
<1>1. e \in Nat \ {0}
  BY UnitTypes, ProductType
<1> HIDE DEF e
<1>2. q \in Int /\ q * e <= -n
  BY <1>1
<1> HIDE DEF q
<1>3. -q \in Nat
  BY <1>1, <1>2
<1>4. Grain * (-q) \in Nat
  BY <1>3, UnitTypes
<1> QED  BY <1>4 DEF RoundMarginUp, q, e

LEMMA FieldTypes ==
  ASSUME Forms
  PROVE  /\ screen.ask \in Nat /\ screen.bid \in Nat /\ form.price \in Nat
         /\ form.slippage \in Nat /\ form.leverage \in Nat \ {0}
<1>1. Quotes \subseteq Nat /\ Prices \cup {Last} \subseteq Nat /\ Slippages \cup {1} \subseteq Nat
      /\ Cap \in Nat
  BY TicketAssumption DEF Quotes
<1>2. screen.ask \in Quotes /\ screen.bid \in Quotes
  BY DEF Forms, World
<1>3. form.price \in Prices \cup {Last} /\ form.slippage \in Slippages \cup {1} /\ form.leverage \in 1..Cap
  BY DEF Forms, Form
<1>4. form.leverage \in Nat \ {0}
  BY <1>1, <1>3
<1>5. form.price \in Nat /\ form.slippage \in Nat
  BY <1>1, <1>3, Zenon
<1>6. screen.ask \in Nat /\ screen.bid \in Nat
  BY <1>1, <1>2, Zenon
<1> QED  BY <1>4, <1>5, <1>6

LEMMA EffectivePriceType ==
  ASSUME Forms
  PROVE  EffectivePrice \in Nat
<1>1. Last \in Nat
  BY TicketAssumption
<1>2. screen.ask \in Nat /\ screen.bid \in Nat /\ form.price \in Nat
  BY FieldTypes
<1>3. MarketBasis \in Nat
  BY <1>1, <1>2 DEF MarketBasis
<1> QED  BY <1>2, <1>3 DEF EffectivePrice

LEMMA PctQtyType ==
  ASSUME Forms, EffectivePrice > 0, NEW pct \in {25, 50, 75, 100}
  PROVE  PctQty(pct) \in Nat
<1>1. screen.available \in Nat /\ form.leverage \in Nat
  BY FieldTypes DEF Forms, World
<1>2. screen.available * pct * form.leverage \in Nat
  <2>1. screen.available * pct \in Nat
    BY <1>1
  <2> QED  BY <1>1, <2>1
<1>3. 100 * Unit * EffectivePrice \in Nat \ {0}
  <2>1. 100 * Unit \in Nat \ {0} /\ EffectivePrice \in Nat \ {0}
    BY UnitTypes, EffectivePriceType
  <2> QED  BY <2>1, ProductType
<1> QED  BY <1>2, <1>3, QuotientType DEF PctQty

-----------------------------------------------------------------------------
(* What is sent fits the schema.                                           *)

LEMMA OrderPayloadFits ==
  ASSUME Forms, CanSubmit
  PROVE  BuildOrderPayload \in Schema
<1>1. /\ form.type \in {"limit", "market"} /\ form.side \in Sides /\ form.qty \in Nat \ {0}
      /\ form.leverage \in Nat \ {0} /\ form.slippage \in Nat /\ form.price \in Nat
  BY FieldTypes DEF Forms, Form, CanSubmit
<1>2. EffectivePrice \in Nat \ {0}
  BY EffectivePriceType DEF CanSubmit
<1>3. RoundMarginUp(Unit * EffectivePrice * form.qty, form.leverage) \in Nat
  <2>1. Unit * EffectivePrice * form.qty \in Nat
    BY <1>1, <1>2, UnitTypes, ProductType
  <2> QED  BY <1>1, <2>1, RoundMarginUpType
<1>4. ToWholePercent(form.slippage) \in Nat \ {0}
  BY <1>1 DEF ToWholePercent
<1>5. form.type = "limit" => form.price > 0
  BY <1>1, <1>2 DEF EffectivePrice
<1> QED  BY <1>1, <1>3, <1>4, <1>5 DEF BuildOrderPayload, Schema

LEMMA ClosePayloadFits ==
  ASSUME Forms, screen.pos # 0
  PROVE  BuildClosePayload \in Schema /\ BuildClosePayload.equity = 0
<1>1. screen.pos \in Int
  BY DEF Forms, World
<1>2. Abs(screen.pos) \in Nat \ {0}
  BY <1>1 DEF Abs
<1>3. Opposite(Side(screen.pos)) \in Sides
  BY DEF Opposite, Side, Sides
<1> QED  BY <1>2, <1>3 DEF BuildClosePayload, Schema

-----------------------------------------------------------------------------
(* The life of an order.                                                   *)

\* A step that changes one order, and perhaps whether the others are fresh.
LEMMA OneOrderChanges ==
  ASSUME Orders, NEW i \in Ids, NEW f, DOMAIN f = Ids, f = [j \in Ids |-> f[j]], Sound(f[i]),
         \A j \in Ids \ {i} : f[j] = orders[j] \/ f[j] = [orders[j] EXCEPT !.fresh = FALSE]
  PROVE  \A j \in Ids : Sound(f[j])
<1> SUFFICES ASSUME NEW j \in Ids PROVE Sound(f[j])
  OBVIOUS
<1>1. Sound(orders[j])
  BY DEF Orders
<1>2. Sound([orders[j] EXCEPT !.fresh = FALSE])
  BY <1>1 DEF Sound, Order, Truthful
<1> QED  BY <1>1, <1>2

\* A request leaves: nothing has been said of it and nothing has become of it.
LEMMA SendsSound ==
  ASSUME Orders, NEW i \in Ids, NEW from \in {"ticket", "close"}, NEW payload \in Schema,
         from = "close" => payload.equity = 0, Sends(i, from, payload)
  PROVE  Orders'
<1> DEFINE true == screen = engine
           o == [Unsent EXCEPT !.state = "coming", !.from = from, !.order = payload, !.waiting = TRUE,
                               !.fresh = true]
<1>0. true \in BOOLEAN
  OBVIOUS
<1>1. payload \in Payload
  BY DEF Schema, Payload
<1>2. payload.qty \in Nat
  BY DEF Schema
<1> HIDE DEF true
<1>3. /\ o.state = "coming" /\ o.from = from /\ o.order = payload /\ o.filled = 0
      /\ o.said = "nothing"
  BY DEF Unsent
<1>4. o \in Order
  <2>1. NoOrder \in Payload
    BY DEF NoOrder, Payload, Sides
  <2>2. Unsent \in Order
    BY <2>1 DEF Unsent, Order, Said
  <2> QED  BY <1>0, <1>1, <2>2 DEF Order
<1>5. Sound(o)
  <2> HIDE DEF o
  <2> QED  BY <1>2, <1>3, <1>4 DEF Sound, Truthful, Succeeded
<1> HIDE DEF o
<1>6. orders' = [orders EXCEPT ![i] = o]
  BY DEF Sends, o, true
<1>7. DOMAIN orders' = Ids /\ orders' = [j \in Ids |-> orders'[j]] /\ orders'[i] = o
      /\ \A j \in Ids \ {i} : orders'[j] = orders[j]
  BY <1>6 DEF Orders
<1> QED  BY <1>5, <1>7, OneOrderChanges DEF Orders

\* The engine refuses it or takes it.
LEMMA RefuseSound ==
  ASSUME Orders, NEW i \in Ids, Refuse(i)
  PROVE  Orders'
<1> DEFINE o == [orders[i] EXCEPT !.state = "refused", !.fresh = FALSE]
<1>1. Sound(orders[i]) /\ orders[i].state = "coming"
  BY DEF Orders, Refuse
<1>2. Sound(o)
  BY <1>1 DEF Sound, Order, Truthful
<1>3. DOMAIN orders' = Ids /\ orders' = [j \in Ids |-> orders'[j]] /\ orders'[i] = o
      /\ \A j \in Ids \ {i} : orders'[j] = orders[j]
  BY DEF Orders, Refuse
<1> HIDE DEF o
<1> QED  BY <1>2, <1>3, OneOrderChanges DEF Orders

LEMMA FillsType ==
  ASSUME NEW o, o.qty \in Nat
  PROVE  Fills(o) \subseteq 0..o.qty
  BY DEF Fills

LEMMA PlaceSound ==
  ASSUME Orders, NEW i \in Ids, Place(i)
  PROVE  Orders'
<1>1. PICK filled \in Fills(orders[i].order) :
         orders' = [Aged(orders) EXCEPT ![i].state = "placed", ![i].filled = filled]
  BY DEF Place
<1> DEFINE o == [orders[i] EXCEPT !.fresh = FALSE, !.state = "placed", !.filled = filled]
<1>2. Sound(orders[i]) /\ orders[i].state = "coming"
  BY DEF Orders, Place
<1>3. filled \in 0..orders[i].order.qty /\ filled \in Nat
  <2>1. orders[i].order.qty \in Nat
    BY <1>2 DEF Sound, Schema
  <2> QED  BY <2>1, FillsType
<1>4. Sound(o)
  BY <1>2, <1>3 DEF Sound, Order, Truthful
<1>5. DOMAIN orders' = Ids /\ orders' = [j \in Ids |-> orders'[j]] /\ orders'[i] = o
      /\ \A j \in Ids \ {i} : orders'[j] = [orders[j] EXCEPT !.fresh = FALSE]
  BY <1>1 DEF Orders, Aged
<1> HIDE DEF o
<1> QED  BY <1>4, <1>5, OneOrderChanges DEF Orders

\* The engine's side moves: the orders under way are no longer fresh.
LEMMA AgedSound ==
  ASSUME Orders, orders' = Aged(orders)
  PROVE  Orders'
<1> SUFFICES ASSUME NEW j \in Ids PROVE Sound(orders'[j])
  BY DEF Orders, Aged
<1>1. Sound(orders[j]) /\ orders'[j] = [orders[j] EXCEPT !.fresh = FALSE]
  BY DEF Orders, Aged
<1> QED  BY <1>1 DEF Sound, Order, Truthful

\* What is said when the promise settles is true of the order.
LEMMA LandsSound ==
  ASSUME Orders, NEW i \in Ids, NEW state \in {"unused", "coming", "refused", "placed", "never"},
         NEW said \in Said, NEW astray \in BOOLEAN, Lands(i, state, said, astray),
         state = "unused" => orders[i].state = "unused",
         orders[i].state = "unused" => state = "unused",
         Truthful([orders[i] EXCEPT !.state = state, !.waiting = FALSE, !.said = said, !.astray = astray])
  PROVE  Orders'
<1> DEFINE o == [orders[i] EXCEPT !.state = state, !.waiting = FALSE, !.said = said, !.astray = astray]
<1>1. Sound(orders[i])
  BY DEF Orders
<1>2. Sound(o)
  <2>1. o \in Order
    BY <1>1 DEF Sound, Order
  <2> QED  BY <1>1, <2>1 DEF Sound, Order
<1>3. DOMAIN orders' = Ids /\ orders' = [j \in Ids |-> orders'[j]] /\ orders'[i] = o
      /\ \A j \in Ids \ {i} : orders'[j] = orders[j]
  BY DEF Orders, Lands
<1> HIDE DEF o
<1> QED  BY <1>2, <1>3, OneOrderChanges DEF Orders

\* The five ways in which the promise settles.
Settles(i) == Answered(i) \/ Unanswered(i) \/ NotDelivered(i) \/ Abandoned(i) \/ Astray(i)

LEMMA SettlesLands ==
  ASSUME Orders, NEW i \in Ids, Settles(i)
  PROVE  \E state \in {"unused", "coming", "refused", "placed", "never"}, said \in Said, astray \in BOOLEAN :
           /\ Lands(i, state, said, astray)
           /\ state = orders[i].state \/ (orders[i].state = "coming" /\ state = "never")
           /\ Truthful([orders[i] EXCEPT !.state = state, !.waiting = FALSE, !.said = said, !.astray = astray])
<1>1. Sound(orders[i])
  BY DEF Orders
<1>2. orders[i] \in Order /\ orders[i].state \in {"unused", "coming", "refused", "placed", "never"}
  BY <1>1 DEF Sound, Order
<1>3. CASE Answered(i)
  <2>1. CASE orders[i].state = "placed"
    <3> DEFINE said == OutcomeFromResult(i)
    <3>1. Lands(i, "placed", said, FALSE)
      BY <1>3, <2>1 DEF Answered
    <3>2. /\ orders[i].order.qty \in Nat \ {0} /\ orders[i].filled \in 0..orders[i].order.qty
          /\ orders[i].order.type \in {"limit", "market"}
      BY <1>1, <2>1 DEF Sound, Schema
    <3>3. said = CASE orders[i].filled = orders[i].order.qty -> "filled"
                   [] orders[i].filled = 0 ->
                        IF orders[i].order.type = "limit" THEN "resting" ELSE "cancelled"
                   [] OTHER -> "partial"
      <4> DEFINE filled == orders[i].filled
                 qty == orders[i].order.qty
      <4>1. filled \in Nat /\ qty \in Nat /\ qty > 0 /\ filled <= qty
        BY <3>2
      <4>2. CASE filled = qty
        <5>1. filled >= qty /\ filled # 0
          BY <4>1, <4>2
        <5> QED  BY <4>2, <5>1 DEF OutcomeFromResult
      <4>3. CASE filled # qty /\ filled > 0
        <5>1. ~(filled >= qty) /\ filled # 0
          BY <4>1, <4>3
        <5> QED  BY <4>3, <5>1 DEF OutcomeFromResult
      <4>4. CASE filled = 0
        <5>1. ~(filled >= qty) /\ ~(filled > 0) /\ filled # qty
          BY <4>1, <4>4
        <5>2. said = IF orders[i].order.type = "limit" THEN "resting" ELSE "cancelled"
          BY <3>2, <5>1 DEF OutcomeFromResult
        <5> QED  BY <4>4, <5>1, <5>2
      <4> QED  BY <4>1, <4>2, <4>3, <4>4
    <3>4. said \in {"filled", "partial", "cancelled", "resting"}
      BY <3>3
    <3> HIDE DEF said
    <3>5. Truthful([orders[i] EXCEPT !.state = "placed", !.waiting = FALSE, !.said = said, !.astray = FALSE])
      BY <1>2, <3>3, <3>4 DEF Truthful, Order
    <3> QED  BY <2>1, <3>1, <3>4, <3>5 DEF Said
  <2>2. CASE orders[i].state = "refused"
    <3>1. Lands(i, "refused", "rejected", FALSE)
      BY <1>3, <2>2 DEF Answered
    <3>2. Truthful([orders[i] EXCEPT !.state = "refused", !.waiting = FALSE, !.said = "rejected", !.astray = FALSE])
      BY <1>2 DEF Truthful, Order, Succeeded
    <3> QED  BY <2>2, <3>1, <3>2 DEF Said
  <2> QED  BY <1>3, <2>1, <2>2 DEF Answered
<1>4. ASSUME NEW state \in {"unused", "coming", "refused", "placed", "never"},
             NEW said \in {"nothing", "unknown"}
      PROVE  /\ said \in Said
             /\ Truthful([orders[i] EXCEPT !.state = state, !.waiting = FALSE, !.said = said, !.astray = FALSE])
  BY <1>2 DEF Truthful, Order, Succeeded, Said
<1>5. CASE Unanswered(i)
  BY <1>2, <1>4, <1>5 DEF Unanswered
<1>6. CASE Abandoned(i)
  BY <1>2, <1>4, <1>6 DEF Abandoned
<1>7. CASE NotDelivered(i)
  <2>1. PICK said \in {"unknown", "rejected", "nothing"} : Lands(i, "never", said, FALSE)
    BY <1>7 DEF NotDelivered
  <2>2. Truthful([orders[i] EXCEPT !.state = "never", !.waiting = FALSE, !.said = said, !.astray = FALSE])
    BY <1>2 DEF Truthful, Order, Succeeded
  <2> QED  BY <1>7, <2>1, <2>2 DEF NotDelivered, Said
<1>8. CASE Astray(i)
  <2>1. Truthful([orders[i] EXCEPT !.state = orders[i].state, !.waiting = FALSE, !.said = "rejected", !.astray = TRUE])
    BY <1>2 DEF Truthful, Order, Succeeded
  <2> QED  BY <1>2, <1>8, <2>1 DEF Astray, Said
<1> QED  BY <1>3, <1>5, <1>6, <1>7, <1>8 DEF Settles

-----------------------------------------------------------------------------
(* The screen.                                                             *)

ScreenMoves ==
  \/ SeesAccount \/ SeesBook \/ Edit \/ SetPct \/ OpenConfirm \/ Dismiss \/ Remount
  \/ OpenClose \/ DismissClose \/ SwitchTab

LEMMA InitTypes == Init => TicketInvariant
<1> SUFFICES ASSUME Init PROVE TicketInvariant
  OBVIOUS
<1>1. NoOrder \in Payload /\ Unsent \in Order
  BY DEF NoOrder, Payload, Sides, Unsent, Order, Said
<1>2. Sound(Unsent)
  BY <1>1 DEF Sound, Truthful, Succeeded, Unsent, NoOrder
<1>3. Orders
  BY <1>2 DEF Init, Orders
<1>4. engine \in World /\ screen \in World
  BY TicketAssumption DEF Init, Worlds, World
<1>5. form \in Form
  BY TicketAssumption DEF Init, Form, Sides
<1>6. ticket \in Ticket /\ dialog \in Dialog /\ closing \in 0..MaxOrders /\ moves \in 0..MaxMoves /\ ~dialog.open
  BY TicketAssumption DEF Init, NoTicket, NoDialog, Ticket, Dialog, Complaints
<1> QED  BY <1>3, <1>4, <1>5, <1>6 DEF TicketInvariant, Forms

\* An edit of one field.
LEMMA EditsKeepTypes ==
  ASSUME Forms, NEW next \in Form, Edited(next)
  PROVE  Forms'
<1>1. ticket' \in Ticket
  BY DEF Forms, Edited, Ticket, Complaints
<1> QED  BY <1>1 DEF Forms, Edited

LEMMA FieldsKeepTypes ==
  ASSUME Forms, Edit \/ SetPct
  PROVE  Forms'
<1>0. form \in Form
  BY DEF Forms
<1>1. CASE Edit
  <2>1. CASE \E side \in Sides : Edited([form EXCEPT !.side = side])
    <3>1. PICK side \in Sides : Edited([form EXCEPT !.side = side])
      BY <2>1
    <3>2. [form EXCEPT !.side = side] \in Form
      BY <1>0 DEF Form
    <3> QED  BY <3>1, <3>2, EditsKeepTypes
  <2>2. CASE \E type \in {"limit", "market"} : Edited([form EXCEPT !.type = type])
    <3>1. PICK type \in {"limit", "market"} : Edited([form EXCEPT !.type = type])
      BY <2>2
    <3>2. [form EXCEPT !.type = type] \in Form
      BY <1>0 DEF Form
    <3> QED  BY <3>1, <3>2, EditsKeepTypes
  <2>3. CASE \E price \in Prices : Edited([form EXCEPT !.price = price])
    <3>1. PICK price \in Prices : Edited([form EXCEPT !.price = price])
      BY <2>3
    <3>2. [form EXCEPT !.price = price] \in Form
      BY <1>0 DEF Form
    <3> QED  BY <3>1, <3>2, EditsKeepTypes
  <2>4. CASE \E typed \in Slippages : Edited([form EXCEPT !.slippage = typed])
    <3>1. PICK typed \in Slippages : Edited([form EXCEPT !.slippage = typed])
      BY <2>4
    <3>2. [form EXCEPT !.slippage = typed] \in Form
      BY <1>0 DEF Form
    <3> QED  BY <3>1, <3>2, EditsKeepTypes
  <2>5. CASE \E qty \in Sizes : Edited([form EXCEPT !.qty = qty])
    <3>1. PICK qty \in Sizes : Edited([form EXCEPT !.qty = qty])
      BY <2>5
    <3>2. [form EXCEPT !.qty = qty] \in Form
      BY <1>0, TicketAssumption DEF Form
    <3> QED  BY <3>1, <3>2, EditsKeepTypes
  <2>6. CASE \E leverage \in Leverages : Edited([form EXCEPT !.leverage = leverage])
    <3>1. PICK leverage \in Leverages : Edited([form EXCEPT !.leverage = leverage])
      BY <2>6
    <3>2. leverage \in 1..Cap
      BY TicketAssumption
    <3>3. [form EXCEPT !.leverage = leverage] \in Form
      BY <1>0, <3>2 DEF Form
    <3> QED  BY <3>1, <3>3, EditsKeepTypes
  <2> QED  BY <1>1, <2>1, <2>2, <2>3, <2>4, <2>5, <2>6 DEF Edit
<1>2. CASE SetPct
  <2>1. PICK pct \in {25, 50, 75, 100} : Edited([form EXCEPT !.qty = PctQty(pct)])
    BY <1>2 DEF SetPct
  <2>2. PctQty(pct) \in Nat
    BY <1>2, PctQtyType DEF SetPct
  <2>3. [form EXCEPT !.qty = PctQty(pct)] \in Form
    BY <1>0, <2>2 DEF Form
  <2> QED  BY <2>1, <2>3, EditsKeepTypes
<1> QED  BY <1>1, <1>2

LEMMA ScreenKeepsTypes ==
  ASSUME Forms, ScreenMoves
  PROVE  Forms' /\ UNCHANGED orders
<1>0. NoTicket \in Ticket /\ NoDialog \in Dialog /\ ~NoDialog.open
  BY TicketAssumption DEF NoTicket, NoDialog, Ticket, Dialog, Complaints
<1>1. CASE SeesAccount
  <2>1. /\ screen' = [screen EXCEPT !.pos = engine.pos, !.available = engine.available]
        /\ dialog' = IF engine.pos = 0 THEN NoDialog ELSE dialog
        /\ UNCHANGED <<engine, form, ticket, closing, orders, moves>>
    BY <1>1 DEF SeesAccount
  <2>2. screen' \in World /\ screen'.pos = engine.pos
    BY <2>1 DEF Forms, World
  <2>3. dialog' \in Dialog /\ (dialog'.open => screen'.pos # 0)
    BY <1>0, <2>1, <2>2 DEF Forms
  <2> QED  BY <2>1, <2>2, <2>3 DEF Forms
<1>2. CASE SeesBook
  <2>1. screen' \in World /\ screen'.pos = screen.pos
    BY <1>2 DEF SeesBook, Forms, World
  <2> QED  BY <1>2, <2>1 DEF SeesBook, Forms, forms
<1>3. CASE Edit \/ SetPct
  BY <1>3, FieldsKeepTypes DEF Edit, SetPct, Edited
<1>4. CASE OpenConfirm \/ Dismiss
  <2>1. ticket' \in Ticket /\ UNCHANGED <<engine, screen, form, dialog, closing, orders, moves>>
    BY <1>4 DEF OpenConfirm, Dismiss, Forms, Ticket
  <2> QED  BY <2>1 DEF Forms
<1>5. CASE Remount
  <2>1. Cap \in 1..Cap /\ "LONG" \in Sides
    BY TicketAssumption DEF Sides
  <2>2. form' \in Form /\ ticket' \in Ticket /\ UNCHANGED <<engine, screen, dialog, closing, orders, moves>>
    BY <1>0, <1>5, <2>1 DEF Remount, Forms, Form
  <2> QED  BY <2>2 DEF Forms
<1>6. CASE OpenClose
  <2>1. dialog' \in Dialog /\ UNCHANGED <<engine, screen, form, ticket, closing, orders, moves>> /\ screen.pos # 0
    BY <1>6 DEF OpenClose, Forms, Dialog
  <2> QED  BY <2>1 DEF Forms
<1>7. CASE DismissClose \/ SwitchTab
  <2>1. /\ dialog' \in Dialog /\ ~dialog'.open
        /\ UNCHANGED <<engine, screen, form, ticket, closing, orders, moves>>
    BY <1>0, <1>7 DEF DismissClose, SwitchTab, Forms, Dialog, Complaints
  <2> QED  BY <2>1 DEF Forms
<1> QED  BY <1>1, <1>2, <1>3, <1>4, <1>5, <1>6, <1>7 DEF ScreenMoves

-----------------------------------------------------------------------------
(* The orders and the engine's side.                                       *)

LEMMA MovesKeepTypes ==
  ASSUME TicketInvariant, Moves
  PROVE  TicketInvariant'
<1>1. PICK w \in Worlds : engine' = w
  BY DEF Moves
<1>2. engine' \in World
  <2>1. Positions \subseteq Int /\ Funds \subseteq Nat
    BY TicketAssumption
  <2>2. w.pos \in Positions /\ w.available \in Funds /\ w.bid \in Quotes /\ w.ask \in Quotes
        /\ w = [pos |-> w.pos, available |-> w.available, bid |-> w.bid, ask |-> w.ask]
    BY DEF Worlds
  <2>3. w.pos \in Int /\ w.available \in Nat
    BY <2>1, <2>2, Zenon
  <2> QED  BY <1>1, <2>2, <2>3 DEF World
<1>3. moves' \in 0..MaxMoves
  BY TicketAssumption DEF TicketInvariant, Forms, Moves
<1>4. Orders'
  BY AgedSound DEF TicketInvariant, Moves
<1> QED  BY <1>2, <1>3, <1>4 DEF TicketInvariant, Forms, Moves, forms

LEMMA SubmitKeepsTypes ==
  ASSUME TicketInvariant, NEW i \in Ids, Submit(i)
  PROVE  TicketInvariant'
<1>1. Forms /\ Orders
  BY DEF TicketInvariant
<1>2. BuildOrderPayload \in Schema /\ Sends(i, "ticket", BuildOrderPayload)
  BY <1>1, OrderPayloadFits DEF Submit
<1>3. Orders'
  BY <1>1, <1>2, SendsSound
<1>4. ticket' \in Ticket
  <2>1. i \in 0..MaxOrders
    BY TicketAssumption DEF Ids
  <2> QED  BY <1>1, <2>1 DEF Forms, Submit, Ticket, Complaints
<1> QED  BY <1>1, <1>3, <1>4 DEF TicketInvariant, Forms, Submit

LEMMA CloseKeepsTypes ==
  ASSUME TicketInvariant, NEW i \in Ids, Close(i)
  PROVE  TicketInvariant'
<1>1. Forms /\ Orders
  BY DEF TicketInvariant
<1>2. BuildClosePayload \in Schema /\ BuildClosePayload.equity = 0 /\ Sends(i, "close", BuildClosePayload)
  BY <1>1, ClosePayloadFits DEF Close, Forms
<1>3. Orders'
  BY <1>1, <1>2, SendsSound
<1>4. dialog' \in Dialog /\ closing' \in 0..MaxOrders /\ dialog'.open = dialog.open
  <2>1. i \in 0..MaxOrders
    BY TicketAssumption DEF Ids
  <2> QED  BY <1>1, <2>1 DEF Forms, Close, Dialog, Complaints
<1> QED  BY <1>1, <1>3, <1>4 DEF TicketInvariant, Forms, Close

LEMMA RefuseKeepsTypes ==
  ASSUME TicketInvariant, NEW i \in Ids, Refuse(i)
  PROVE  TicketInvariant'
<1>1. Orders'
  BY RefuseSound DEF TicketInvariant
<1> QED  BY <1>1 DEF TicketInvariant, Forms, Refuse, forms

\* What is free after a fill is never negative: the margin asked is checked
\* against it.
LEMMA PlaceKeepsTypes ==
  ASSUME TicketInvariant, NEW i \in Ids, Place(i)
  PROVE  TicketInvariant'
<1> DEFINE o == orders[i].order
<1>1. Orders /\ Forms
  BY DEF TicketInvariant
<1>2. /\ o.side \in Sides /\ o.qty \in Nat /\ o.equity \in Nat
      /\ Admits(o)
  BY <1>1 DEF Orders, Sound, Schema, Place
<1>3a. PICK filled \in Fills(o) :
         \E free \in Leaves(o, filled) :
           engine' = [engine EXCEPT !.pos = @ + Signed(o.side, filled), !.available = free]
  BY DEF Place
<1>3. PICK free \in Leaves(o, filled) :
        engine' = [engine EXCEPT !.pos = @ + Signed(o.side, filled), !.available = free]
  BY <1>3a
<1> HIDE DEF o
<1>4. engine \in World /\ engine.pos \in Int /\ engine.available \in Nat
  BY <1>1 DEF Forms, World
<1>5. engine.pos + Signed(o.side, filled) \in Int
  <2>1. filled \in Nat
    BY <1>2, FillsType
  <2> QED  BY <1>4, <2>1 DEF Signed
<1>6. free \in Nat
  <2>1. InitialMargin(o) \in Nat /\ InitialMargin(o) <= engine.available
    BY <1>2 DEF InitialMargin, Admits
  <2>2. Funds \subseteq Nat
    BY TicketAssumption
  <2>3. engine.available - InitialMargin(o) \in Nat
    BY <1>4, <2>1
  <2>4. free = engine.available - InitialMargin(o) \/ free \in Funds
    BY DEF Leaves
  <2> QED  BY <2>2, <2>3, <2>4, Zenon
<1>7. engine' \in World
  BY <1>3, <1>4, <1>5, <1>6 DEF World
<1>8. Orders'
  BY <1>1, PlaceSound
<1> QED  BY <1>1, <1>7, <1>8 DEF TicketInvariant, Forms, Place, forms

LEMMA SettlesKeepsTypes ==
  ASSUME TicketInvariant, NEW i \in Ids, Settles(i)
  PROVE  TicketInvariant'
<1>1. Orders /\ Forms
  BY DEF TicketInvariant
<1>2. PICK state \in {"unused", "coming", "refused", "placed", "never"}, said \in Said, astray \in BOOLEAN :
        /\ Lands(i, state, said, astray)
        /\ state = orders[i].state \/ (orders[i].state = "coming" /\ state = "never")
        /\ Truthful([orders[i] EXCEPT !.state = state, !.waiting = FALSE, !.said = said, !.astray = astray])
  BY <1>1, SettlesLands
<1>3. Orders'
  BY <1>1, <1>2, LandsSound
<1>4. ticket \in Ticket /\ dialog \in Dialog /\ form \in Form /\ closing \in 0..MaxOrders
  BY <1>1 DEF Forms
<1>5. NoTicket \in Ticket /\ NoDialog \in Dialog /\ ~NoDialog.open /\ 0 \in 0..MaxOrders
  BY TicketAssumption DEF NoTicket, NoDialog, Ticket, Dialog, Complaints
<1>6. ~Succeeded(said) => said \in Complaints
  BY DEF Said, Succeeded, Complaints
<1>7. ticket' \in Ticket
  <2>1. [ticket EXCEPT !.request = 0] \in Ticket
    BY <1>4, <1>5 DEF Ticket
  <2>2. [NoTicket EXCEPT !.said = IF Succeeded(said) THEN "nothing" ELSE said] \in Ticket
    BY <1>5, <1>6 DEF Ticket, Complaints
  <2> QED  BY <1>2, <1>4, <2>1, <2>2 DEF Lands, TicketAfter
<1>8. form' \in Form
  <2>1. [form EXCEPT !.qty = 0] \in Form
    BY <1>4 DEF Form
  <2> QED  BY <1>2, <1>4, <2>1 DEF Lands, FormAfter
<1>9. dialog' \in Dialog /\ (dialog'.open => dialog.open)
  <2>1. /\ [dialog EXCEPT !.request = 0] \in Dialog
        /\ [dialog EXCEPT !.request = 0].open = dialog.open
    BY <1>4, <1>5 DEF Dialog
  <2>2. ~Succeeded(said) => /\ [dialog EXCEPT !.failure = said, !.request = 0] \in Dialog
                            /\ [dialog EXCEPT !.failure = said, !.request = 0].open = dialog.open
    BY <1>4, <1>5, <1>6 DEF Dialog
  <2> QED  BY <1>2, <1>4, <1>5, <2>1, <2>2 DEF Lands, DialogAfter
<1>10. closing' \in 0..MaxOrders /\ UNCHANGED <<engine, screen, moves>>
  BY <1>2, <1>4, <1>5 DEF Lands
<1> QED  BY <1>1, <1>3, <1>7, <1>8, <1>9, <1>10 DEF TicketInvariant, Forms

-----------------------------------------------------------------------------
(* The invariant.                                                          *)

OrderMoves(i) == Submit(i) \/ Close(i) \/ Refuse(i) \/ Place(i) \/ Settles(i)

LEMMA StepSplit ==
  ASSUME [Next]_vars
  PROVE  \/ UNCHANGED vars
         \/ Moves
         \/ ScreenMoves
         \/ \E i \in Ids : OrderMoves(i)
BY DEF Next, OrderMoves, Settles, ScreenMoves

LEMMA StepKeepsInvariant ==
  ASSUME TicketInvariant, [Next]_vars
  PROVE  TicketInvariant'
<1>1. CASE UNCHANGED vars
  BY <1>1 DEF TicketInvariant, Orders, Forms, vars, forms
<1>2. CASE Moves
  BY <1>2, MovesKeepTypes
<1>3. CASE ScreenMoves
  BY <1>3, ScreenKeepsTypes DEF TicketInvariant, Orders
<1>4. ASSUME NEW i \in Ids, OrderMoves(i)
      PROVE  TicketInvariant'
  BY <1>4, SubmitKeepsTypes, CloseKeepsTypes, RefuseKeepsTypes, PlaceKeepsTypes, SettlesKeepsTypes
     DEF OrderMoves
<1> QED  BY <1>1, <1>2, <1>3, <1>4, StepSplit

LEMMA InvariantHolds == Spec => []TicketInvariant
<1>1. TicketInvariant /\ [Next]_vars => TicketInvariant'
  BY StepKeepsInvariant
<1> QED  BY <1>1, InitTypes, PTL DEF Spec

\* Every order the two forms send fits CreateOrderSchema, and a close is sent
\* without margin; whatever is typed, however large the slippage, and however
\* the screen lags.
THEOREM OrdersFitTheSchema == Spec => []TypeOK
<1>1. TicketInvariant => TypeOK
  <2> SUFFICES ASSUME TicketInvariant PROVE TypeOK
    OBVIOUS
  <2>1. /\ {engine, screen} \subseteq [pos : Int, available : Nat, bid : Quotes, ask : Quotes]
        /\ form \in [side : Sides, type : {"limit", "market"}, price : Prices \cup {Last},
                     slippage : Slippages \cup {1}, qty : Nat, leverage : 1..Cap]
        /\ ticket \in [confirming : BOOLEAN, request : 0..MaxOrders, said : {"nothing", "rejected", "unknown"}]
        /\ dialog \in [open : BOOLEAN, failure : {"nothing", "rejected", "unknown"}, request : 0..MaxOrders]
        /\ closing \in 0..MaxOrders /\ moves \in 0..MaxMoves
    BY DEF TicketInvariant, Forms, World, Form, Ticket, Dialog, Complaints
  <2>2. \A i \in Ids :
          /\ orders[i].state \in {"unused", "coming", "refused", "placed", "never"}
          /\ orders[i].state # "unused" => orders[i].order \in Schema
          /\ orders[i].filled \in 0..orders[i].order.qty
          /\ orders[i].said \in Said
          /\ orders[i].from = "close" => orders[i].order.equity = 0
    BY DEF TicketInvariant, Orders, Sound, Order
  <2> QED  BY <2>1, <2>2 DEF TypeOK
<1> QED  BY <1>1, InvariantHolds, PTL

\* What the terminal says of an order is what became of it: rejected only if it
\* does not exist and never will, unless the answer was none of the engine's.
THEOREM WhatIsSaidIsTrue == Spec => []OutcomeIsTruthful
<1>1. TicketInvariant => OutcomeIsTruthful
  BY DEF TicketInvariant, Orders, Sound, Truthful, OutcomeIsTruthful
<1> QED  BY <1>1, InvariantHolds, PTL

-----------------------------------------------------------------------------
(* A close never adds exposure.                                            *)

\* An order without margin is admitted only against a position at least half its size.
LEMMA WithoutMarginItReduces ==
  ASSUME NEW o, o.qty \in Nat, o.side \in Sides, o.equity = 0, Admits(o),
         NEW filled \in 0..o.qty, engine.pos \in Int
  PROVE  Abs(engine.pos + Signed(o.side, filled)) <= Abs(engine.pos)
<1>1. engine.pos # 0 /\ o.side # Side(engine.pos) /\ Abs(engine.pos) >= o.qty - Abs(engine.pos)
  BY DEF Admits, RiskReducing
<1>2. CASE engine.pos > 0
  <2>1. o.side = "SHORT" /\ Abs(engine.pos) = engine.pos
    BY <1>1, <1>2 DEF Side, Sides, Abs
  <2>2. Signed(o.side, filled) = -filled
    BY <2>1 DEF Signed
  <2> QED  BY <1>1, <1>2, <2>1, <2>2 DEF Abs
<1>3. CASE engine.pos < 0
  <2>1. o.side = "LONG" /\ Abs(engine.pos) = -engine.pos
    BY <1>1, <1>3 DEF Side, Sides, Abs
  <2>2. Signed(o.side, filled) = filled
    BY <2>1 DEF Signed
  <2> QED  BY <1>1, <1>3, <2>1, <2>2 DEF Abs
<1> QED  BY <1>1, <1>2, <1>3

\* An order that was coming and is placed was placed by the engine.
LEMMA OnlyPlacePlaces ==
  ASSUME TicketInvariant, [Next]_vars, NEW i \in Ids, orders[i].state = "coming", orders'[i].state = "placed"
  PROVE  Place(i)
<1>0. orders = [j \in Ids |-> orders[j]] /\ Orders /\ \A j \in Ids : orders[j] \in Order
  BY DEF TicketInvariant, Orders, Sound
<1>10. \A j \in Ids : [orders[j] EXCEPT !.fresh = FALSE].state = orders[j].state
  BY <1>0 DEF Order
<1>1. ~UNCHANGED orders
  OBVIOUS
<1>2. ~Moves
  BY <1>0, <1>10 DEF Moves, Aged
<1>3. ~ScreenMoves
  BY <1>1, ScreenKeepsTypes DEF TicketInvariant
<1>4. PICK j \in Ids : OrderMoves(j)
  BY <1>1, <1>2, <1>3, StepSplit DEF vars
<1>5. ~Submit(j) /\ ~Close(j)
  BY <1>0 DEF Submit, Close, Sends
<1>6. ~Refuse(j)
  <2> SUFFICES ASSUME orders' = [orders EXCEPT ![j].state = "refused", ![j].fresh = FALSE] PROVE FALSE
    BY DEF Refuse
  <2>1. orders[j] \in Order
    BY <1>0
  <2>2. orders'[j].state = "refused"
    BY <1>0, <2>1 DEF Order
  <2>3. i # j => orders'[i] = orders[i]
    BY <1>0
  <2> QED  BY <2>2, <2>3
<1>7. ~Settles(j)
  <2> SUFFICES ASSUME Settles(j) PROVE FALSE
    OBVIOUS
  <2>1. PICK state \in {"unused", "coming", "refused", "placed", "never"}, said \in Said, astray \in BOOLEAN :
          /\ Lands(j, state, said, astray)
          /\ state = orders[j].state \/ (orders[j].state = "coming" /\ state = "never")
          /\ Truthful([orders[j] EXCEPT !.state = state, !.waiting = FALSE, !.said = said, !.astray = astray])
    BY <1>0, SettlesLands
  <2>2. orders[j] \in Order
    BY <1>0
  <2>3. orders'[j].state = state
    BY <1>0, <2>1, <2>2 DEF Lands, Order
  <2>4. i # j => orders'[i] = orders[i]
    BY <1>0, <2>1 DEF Lands
  <2> QED  BY <2>1, <2>3, <2>4
<1>8. Place(j)
  BY <1>4, <1>5, <1>6, <1>7 DEF OrderMoves
<1>9. i = j
  <2>1. PICK filled : orders' = [Aged(orders) EXCEPT ![j].state = "placed", ![j].filled = filled]
    BY <1>8 DEF Place
  <2>2. i # j => orders'[i].state = orders[i].state
    BY <1>0, <1>10, <2>1 DEF Aged
  <2> QED  BY <2>2
<1> QED  BY <1>8, <1>9

\* However the size on the screen and the size in the engine have come apart, a
\* close is refused or leaves no more exposure than it found.
THEOREM CloseReduces == Spec => CloseNeverAddsRisk
<1> DEFINE Reduces ==
      \A i \in Ids :
         /\ orders[i].from = "close"
         /\ orders[i].state = "coming" /\ orders'[i].state = "placed"
         => Abs(engine'.pos) <= Abs(engine.pos)
<1>1. TicketInvariant /\ [Next]_vars => Reduces
  <2> SUFFICES ASSUME TicketInvariant, [Next]_vars, NEW i \in Ids, orders[i].from = "close",
                      orders[i].state = "coming", orders'[i].state = "placed"
               PROVE  Abs(engine'.pos) <= Abs(engine.pos)
    BY DEF Reduces
  <2> DEFINE o == orders[i].order
  <2>1. Place(i)
    BY OnlyPlacePlaces
  <2>2. o.qty \in Nat /\ o.side \in Sides /\ o.equity = 0 /\ engine.pos \in Int /\ engine \in World
    BY DEF TicketInvariant, Orders, Sound, Schema, Forms, World
  <2>3. Admits(o)
    BY <2>1 DEF Place
  <2>4. PICK filled \in Fills(o) :
          \E free : engine' = [engine EXCEPT !.pos = @ + Signed(o.side, filled), !.available = free]
    BY <2>1 DEF Place
  <2> HIDE DEF o
  <2>5. engine'.pos = engine.pos + Signed(o.side, filled)
    BY <2>2, <2>4 DEF World
  <2>6. filled \in 0..o.qty
    BY <2>2, FillsType
  <2> QED  BY <2>2, <2>3, <2>5, <2>6, WithoutMarginItReduces
<1>2. [][TicketInvariant /\ [Next]_vars]_vars => [][Reduces]_vars
  BY <1>1, PTL
<1> QED  BY <1>1, InvariantHolds, PTL DEF Spec, CloseNeverAddsRisk

-----------------------------------------------------------------------------
(* A ticket that is fresh is admitted.                                     *)

\* The margin covers the notional at the leverage, and where what is free was
\* enough before rounding, rounding asks for less than one step more.
LEMMA RoundMarginUpBounds ==
  ASSUME NEW n \in Nat \ {0}, NEW d \in Nat \ {0}
  PROVE  /\ RoundMarginUp(n, d) \in Nat \ {0}
         /\ n <= RoundMarginUp(n, d) * d
         /\ \A a \in Nat : n <= a * d => RoundMarginUp(n, d) < a + Grain
<1> DEFINE e == d * Grain
           q == (-n) \div e
           m == Grain * (-q)
<1>0. RoundMarginUp(n, d) = m
  BY DEF RoundMarginUp
<1>1. e \in Nat \ {0} /\ Grain \in Nat \ {0}
  BY UnitTypes, ProductType
<1>2. q \in Int /\ q * e <= -n /\ -n < (q + 1) * e
  <2> HIDE DEF e
  <2> QED  BY <1>1
<1> HIDE DEF q
<1>3. -q \in Nat \ {0}
  <2> HIDE DEF e
  <2> QED  BY <1>1, <1>2
<1>4. m \in Nat \ {0}
  BY <1>1, <1>3, ProductType
<1>5. n <= m * d
  <2>1. m * d = -(q * e)
    BY <1>1, <1>2
  <2>2. m * d \in Nat /\ q * e \in Int
    BY <1>1, <1>2, <1>4
  <2> HIDE DEF m, e
  <2> QED  BY <1>2, <2>1, <2>2
<1>6. ASSUME NEW a \in Nat, n <= a * d PROVE m < a + Grain
  <2>1. (q + 1) * e + a * d = (a + Grain - m) * d
    BY <1>1, <1>2
  <2>2. (q + 1) * e \in Int /\ a * d \in Nat
    BY <1>1, <1>2
  <2>3. (q + 1) * e + a * d > 0
    <3> HIDE DEF e
    <3> QED  BY <1>2, <1>6, <2>2
  <2>4. PICK x \in Int : x = a + Grain - m
    BY <1>1, <1>4
  <2>5. x * d > 0
    BY <2>1, <2>3, <2>4
  <2>6. x > 0
    BY <2>5
  <2> HIDE DEF m
  <2> QED  BY <1>1, <1>4, <2>4, <2>6
<1> HIDE DEF m
<1> QED  BY <1>0, <1>4, <1>5, <1>6

\* The order is one the ticket may send to this engine: some price and leverage
\* account for its margin, and the collateral is there.
FitsAt(w, o, p, lev) ==
  /\ o.equity = RoundMarginUp(Unit * p * o.qty, lev)
  /\ Unit * p * o.qty <= w.available * lev
  /\ o.type = "limit" => p = o.price
  /\ o.type = "market" /\ o.side = "SHORT" /\ w.bid > 0 => p = w.bid

Fits(w, o) == \E p \in Nat \ {0} : \E lev \in 1..Cap : FitsAt(w, o, p, lev)

FreshAt(all, i) == all[i].from = "ticket" /\ all[i].fresh /\ all[i].state = "coming"
FreshFits == \A i \in Ids : FreshAt(orders, i) => Fits(engine, orders[i].order)

\* Nothing but a submit makes an order fresh, and the engine moves only when none is.
LEMMA StaysFresh ==
  ASSUME FreshFits, UNCHANGED engine,
         \A i \in Ids : FreshAt(orders', i) => FreshAt(orders, i) /\ orders'[i].order = orders[i].order
  PROVE  FreshFits'
<1> SUFFICES ASSUME NEW i \in Ids, FreshAt(orders', i) PROVE Fits(engine', orders'[i].order)
  BY DEF FreshFits, FreshAt
<1>1. Fits(engine, orders[i].order) /\ orders'[i].order = orders[i].order
  BY DEF FreshFits
<1> QED  BY <1>1 DEF Fits, FitsAt

LEMMA SubmitFits ==
  ASSUME Forms, CanSubmit, screen = engine
  PROVE  Fits(engine, BuildOrderPayload)
<1> DEFINE o == BuildOrderPayload
           p == EffectivePrice
           lev == form.leverage
<1>1. /\ o.type = form.type /\ o.side = form.side /\ o.qty = form.qty
      /\ o.price = (IF form.type = "limit" THEN form.price ELSE 0)
      /\ o.equity = RoundMarginUp(Unit * p * form.qty, lev)
  BY DEF BuildOrderPayload
<1>2. p \in Nat \ {0} /\ lev \in 1..Cap
  BY EffectivePriceType DEF CanSubmit, Forms, Form
<1>3. Unit * p * o.qty <= engine.available * lev
  BY <1>1 DEF CanSubmit
<1>4. o.type = "limit" => p = o.price
  BY <1>1 DEF EffectivePrice
<1>5. o.type = "market" /\ o.side = "SHORT" /\ engine.bid > 0 => p = engine.bid
  BY <1>1 DEF EffectivePrice, MarketBasis
<1> HIDE DEF o, p, lev
<1>6. FitsAt(engine, o, p, lev)
  BY <1>1, <1>3, <1>4, <1>5 DEF FitsAt
<1> QED  BY <1>2, <1>6 DEF Fits, o

LEMMA StepKeepsFits ==
  ASSUME TicketInvariant, FreshFits, [Next]_vars
  PROVE  FreshFits'
<1>0. DOMAIN orders = Ids /\ \A j \in Ids : orders[j] \in Order
  BY DEF TicketInvariant, Orders, Sound
<1>1. CASE UNCHANGED vars
  BY <1>1, StaysFresh DEF vars, FreshAt
<1>2. ASSUME orders' = Aged(orders) PROVE FreshFits'
  <2>1. \A j \in Ids : orders'[j].fresh = FALSE
    BY <1>0, <1>2 DEF Aged, Order
  <2> QED  BY <2>1 DEF FreshFits, FreshAt
<1>3. CASE Moves
  BY <1>2, <1>3 DEF Moves
<1>4. CASE ScreenMoves
  <2>1. UNCHANGED engine
    BY <1>4 DEF ScreenMoves, SeesAccount, SeesBook, Edit, SetPct, Edited, OpenConfirm, Dismiss, Remount,
                OpenClose, DismissClose, SwitchTab
  <2>2. UNCHANGED orders
    BY <1>4, ScreenKeepsTypes DEF TicketInvariant
  <2> QED  BY <2>1, <2>2, StaysFresh DEF FreshAt
<1>5. ASSUME NEW i \in Ids, \A j \in Ids \ {i} : orders'[j] = orders[j], UNCHANGED engine,
             FreshAt(orders', i) => Fits(engine, orders'[i].order)
      PROVE  FreshFits'
  BY <1>5 DEF FreshFits, FreshAt
<1>6. ASSUME NEW i \in Ids, Submit(i) PROVE FreshFits'
  <2> DEFINE true == screen = engine
  <2>1. /\ Forms /\ CanSubmit /\ UNCHANGED engine /\ \A j \in Ids \ {i} : orders'[j] = orders[j]
        /\ orders'[i] = [Unsent EXCEPT !.state = "coming", !.from = "ticket", !.order = BuildOrderPayload,
                                       !.waiting = TRUE, !.fresh = true]
    BY <1>0, <1>6 DEF Submit, Sends, TicketInvariant
  <2> HIDE DEF true
  <2>2. orders'[i].order = BuildOrderPayload /\ orders'[i].fresh = true
    BY <2>1 DEF Unsent
  <2>3. FreshAt(orders', i) => Fits(engine, orders'[i].order)
    BY <2>1, <2>2, SubmitFits DEF FreshAt, true
  <2> QED  BY <1>5, <2>1, <2>3
<1>7. ASSUME NEW i \in Ids, Close(i) PROVE FreshFits'
  <2> DEFINE true == screen = engine
  <2>1. /\ UNCHANGED engine /\ \A j \in Ids \ {i} : orders'[j] = orders[j]
        /\ orders'[i] = [Unsent EXCEPT !.state = "coming", !.from = "close", !.order = BuildClosePayload,
                                       !.waiting = TRUE, !.fresh = true]
    BY <1>0, <1>7 DEF Close, Sends
  <2> HIDE DEF true
  <2>2. orders'[i].from = "close"
    BY <2>1 DEF Unsent
  <2> QED  BY <1>5, <2>1, <2>2 DEF FreshAt
<1>8. ASSUME NEW i \in Ids, Refuse(i) PROVE FreshFits'
  <2>1. /\ UNCHANGED engine /\ \A j \in Ids \ {i} : orders'[j] = orders[j]
        /\ orders'[i] = [orders[i] EXCEPT !.state = "refused", !.fresh = FALSE]
    BY <1>0, <1>8 DEF Refuse
  <2>2. orders'[i].state = "refused"
    BY <1>0, <2>1 DEF Order
  <2> QED  BY <1>5, <2>1, <2>2 DEF FreshAt
<1>9. ASSUME NEW i \in Ids, Place(i) PROVE FreshFits'
  <2>1. PICK filled : orders' = [Aged(orders) EXCEPT ![i].state = "placed", ![i].filled = filled]
    BY <1>9 DEF Place
  <2>2. \A j \in Ids : orders'[j].fresh = FALSE
    BY <1>0, <2>1 DEF Aged, Order
  <2> QED  BY <2>2 DEF FreshFits, FreshAt
<1>10. ASSUME NEW i \in Ids, Settles(i) PROVE FreshFits'
  <2>1. PICK state \in {"unused", "coming", "refused", "placed", "never"}, said \in Said, astray \in BOOLEAN :
          /\ Lands(i, state, said, astray)
          /\ state = orders[i].state \/ (orders[i].state = "coming" /\ state = "never")
          /\ Truthful([orders[i] EXCEPT !.state = state, !.waiting = FALSE, !.said = said, !.astray = astray])
    BY <1>10, SettlesLands DEF TicketInvariant
  <2>2. /\ UNCHANGED engine /\ \A j \in Ids \ {i} : orders'[j] = orders[j]
        /\ orders'[i] = [orders[i] EXCEPT !.state = state, !.waiting = FALSE, !.said = said, !.astray = astray]
    BY <1>0, <2>1 DEF Lands
  <2>3. /\ orders'[i].state = state /\ orders'[i].from = orders[i].from
        /\ orders'[i].fresh = orders[i].fresh /\ orders'[i].order = orders[i].order
    BY <1>0, <2>2 DEF Order
  <2>4. FreshAt(orders', i) => Fits(engine, orders'[i].order)
    BY <2>1, <2>3 DEF FreshFits, FreshAt
  <2> QED  BY <1>5, <2>2, <2>4
<1>11. ASSUME NEW i \in Ids, OrderMoves(i) PROVE FreshFits'
  BY <1>6, <1>7, <1>8, <1>9, <1>10, <1>11 DEF OrderMoves
<1> QED  BY <1>1, <1>3, <1>4, <1>11, StepSplit

\* An order that was coming and is refused was refused by the engine.
LEMMA OnlyRefuseRefuses ==
  ASSUME TicketInvariant, [Next]_vars, NEW i \in Ids, orders[i].state = "coming", orders'[i].state = "refused"
  PROVE  ~Admits(orders[i].order)
<1>0. DOMAIN orders = Ids /\ \A j \in Ids : orders[j] \in Order
  BY DEF TicketInvariant, Orders, Sound
<1>1. ~UNCHANGED orders
  OBVIOUS
<1>2. ~Moves
  <2>1. [orders[i] EXCEPT !.fresh = FALSE].state = orders[i].state
    BY <1>0 DEF Order
  <2> QED  BY <2>1 DEF Moves, Aged
<1>3. ~ScreenMoves
  BY <1>1, ScreenKeepsTypes DEF TicketInvariant
<1>4. PICK j \in Ids : OrderMoves(j)
  BY <1>1, <1>2, <1>3, StepSplit DEF vars
<1>5. ~Submit(j) /\ ~Close(j)
  BY <1>0 DEF Submit, Close, Sends
<1>6. ~Place(j)
  <2> SUFFICES ASSUME NEW filled,
                      orders' = [Aged(orders) EXCEPT ![j].state = "placed", ![j].filled = filled]
               PROVE  FALSE
    BY DEF Place
  <2>1. orders'[i].state \in {"placed", orders[i].state}
    BY <1>0 DEF Aged, Order
  <2> QED  BY <2>1
<1>7. ~Settles(j)
  <2> SUFFICES ASSUME Settles(j) PROVE FALSE
    OBVIOUS
  <2>1. PICK state \in {"unused", "coming", "refused", "placed", "never"}, said \in Said, astray \in BOOLEAN :
          /\ Lands(j, state, said, astray)
          /\ state = orders[j].state \/ (orders[j].state = "coming" /\ state = "never")
          /\ Truthful([orders[j] EXCEPT !.state = state, !.waiting = FALSE, !.said = said, !.astray = astray])
    BY SettlesLands DEF TicketInvariant
  <2>2. orders'[j].state = state
    BY <1>0, <2>1 DEF Lands, Order
  <2>3. i # j => orders'[i] = orders[i]
    BY <1>0, <2>1 DEF Lands
  <2> QED  BY <2>1, <2>2, <2>3
<1>8. Refuse(j)
  BY <1>4, <1>5, <1>6, <1>7 DEF OrderMoves
<1>9. i = j
  BY <1>0, <1>8 DEF Refuse
<1> QED  BY <1>8, <1>9 DEF Refuse

\* The margin of an order that fits is enough at the price it is for, and what is
\* free covers it or is less than one step short.
LEMMA MarginCovers ==
  ASSUME NEW o, o.qty \in Nat \ {0}, engine.available \in Nat,
         NEW p \in Nat \ {0}, NEW lev \in 1..Cap, FitsAt(engine, o, p, lev)
  PROVE  /\ o.equity \in Nat \ {0} /\ o.equity < engine.available + Grain
         /\ Unit * p * o.qty <= Cap * o.equity
<1> DEFINE n == Unit * p * o.qty
           q == o.qty
           e == o.equity
           a == engine.available
<1>1. n \in Nat \ {0}
  <2>1. n = Unit * p * q /\ q \in Nat \ {0}
    OBVIOUS
  <2> HIDE DEF n, q
  <2>2. Unit * p \in Nat \ {0}
    BY UnitTypes, ProductType
  <2> QED  BY <2>1, <2>2, ProductType
<1>2. lev \in Nat \ {0} /\ Cap \in Nat /\ lev <= Cap
  BY TicketAssumption
<1>3. e = RoundMarginUp(n, lev) /\ n <= a * lev /\ a \in Nat
  BY DEF FitsAt
<1> HIDE DEF n, q, e, a
<1>4. e \in Nat \ {0} /\ n <= e * lev /\ e < a + Grain
  BY <1>1, <1>2, <1>3, RoundMarginUpBounds
<1>5. e * lev <= Cap * e
  BY <1>2, <1>4
<1>6. n <= Cap * e
  BY <1>1, <1>2, <1>4, <1>5
<1> QED  BY <1>4, <1>6 DEF n, q, e, a

\* A price that is no worse than the margin's keeps the leverage within the cap.
LEMMA BetterPriceWithinCap ==
  ASSUME NEW u \in Nat, NEW q \in Nat, NEW p \in Nat, NEW b \in Int, b <= 100 * p,
         NEW c \in Nat, u * p * q <= c
  PROVE  u * b * q <= 100 * c
<1>1. u * q \in Nat /\ u * p * q = (u * q) * p /\ u * b * q = (u * q) * b
  OBVIOUS
<1>2. PICK w \in Nat : w = u * q
  BY <1>1
<1>3. w * p <= c /\ u * b * q = w * b
  BY <1>1, <1>2
<1>4. w * b <= w * (100 * p)
  OBVIOUS
<1>5. w * (100 * p) = 100 * (w * p) /\ w * p \in Nat /\ w * b \in Int
  OBVIOUS
<1> QED  BY <1>3, <1>4, <1>5

\* An order that fits is refused only as FreshTicketIsAdmitted says.
LEMMA FitIsAdmitted ==
  ASSUME Forms, NEW o \in Schema, Fits(engine, o), ~Admits(o)
  PROVE  \/ o.type = "market" /\ (~Matchable(o) \/ (o.side = "LONG" /\ ~WithinCap(o)))
         \/ ShortByRounding(o)
<1>1. /\ o.qty \in Nat \ {0} /\ o.side \in Sides /\ o.type \in {"limit", "market"}
      /\ o.slippage \in Nat /\ o.price \in Nat /\ engine.available \in Nat
  BY DEF Schema, Forms, World
<1>2. PICK p \in Nat \ {0} : \E lev \in 1..Cap : FitsAt(engine, o, p, lev)
  BY DEF Fits
<1>3. PICK lev \in 1..Cap : FitsAt(engine, o, p, lev)
  BY <1>2
<1>4. /\ o.equity \in Nat \ {0} /\ o.equity < engine.available + Grain
      /\ Unit * p * o.qty <= Cap * o.equity
  BY <1>1, <1>3, MarginCovers
<1>5. CASE InitialMargin(o) > engine.available
  <2>1. ~RiskReducing(o) /\ InitialMargin(o) = o.equity
    BY <1>1, <1>5 DEF InitialMargin
  <2> QED  BY <1>1, <1>4, <1>5, <2>1 DEF ShortByRounding
<1>6. CASE ~(InitialMargin(o) > engine.available)
  <2>1. InitialMargin(o) \in Nat
    BY <1>4 DEF InitialMargin
  <2>2. ~Matchable(o) \/ ~WithinCap(o)
    BY <1>1, <1>4, <1>6, <2>1 DEF Admits
  <2>3. engine.ask \in Nat /\ engine.bid \in Nat /\ Bound(o) \in Int
    <3>1. Quotes \subseteq Nat
      BY TicketAssumption DEF Quotes
    <3>2. engine.ask \in Nat /\ engine.bid \in Nat
      BY <3>1 DEF Forms, World
    <3> QED  BY <1>1, <3>2 DEF Bound
  <2>4. ASSUME Bound(o) <= 100 * p PROVE WithinCap(o)
    <3>1. CASE RiskReducing(o)
      BY <3>1 DEF WithinCap
    <3>2. CASE ~RiskReducing(o)
      <4>1. PICK q, b, c : q = o.qty /\ b = Bound(o) /\ c = Cap * o.equity
        OBVIOUS
      <4>2. c \in Nat
        <5>1. Cap \in Nat
          BY TicketAssumption
        <5> QED  BY <1>4, <4>1, <5>1
      <4>3. q \in Nat /\ b \in Int /\ b <= 100 * p /\ Unit * p * q <= c /\ Unit \in Nat /\ p \in Nat
        BY <1>1, <1>4, <2>3, <2>4, <4>1, UnitTypes
      <4>4. Unit * b * q <= 100 * c
        BY <4>2, <4>3, BetterPriceWithinCap
      <4>5. InitialMargin(o) = o.equity
        BY <3>2 DEF InitialMargin
      <4>6. 100 * c = 100 * Cap * InitialMargin(o)
        <5>1. Cap \in Nat
          BY TicketAssumption
        <5> QED  BY <1>4, <4>1, <4>5, <5>1
      <4> QED  BY <4>1, <4>4, <4>6 DEF WithinCap
    <3> QED  BY <3>1, <3>2
  <2>5. o.type = "market"
    <3> SUFFICES ASSUME o.type = "limit" PROVE FALSE
      BY <1>1
    <3>1. Bound(o) = 100 * p
      BY <1>3 DEF FitsAt, Bound
    <3>2. WithinCap(o)
      BY <2>3, <2>4, <3>1
    <3> QED  BY <2>2, <3>2 DEF Matchable
  <2>6. CASE o.side = "SHORT" /\ Matchable(o)
    <3>1. engine.bid > 0 /\ p = engine.bid
      BY <1>3, <2>5, <2>6 DEF Matchable, FitsAt
    <3>2. Bound(o) = p * (100 - o.slippage)
      BY <2>5, <2>6, <3>1 DEF Bound
    <3>3. p * (100 - o.slippage) <= 100 * p
      BY <1>1
    <3> QED  BY <2>2, <2>4, <2>6, <3>2, <3>3
  <2> QED  BY <1>1, <2>2, <2>5, <2>6 DEF Sides
<1> QED  BY <1>5, <1>6

\* When the engine is as the screen showed it, an order of the ticket is refused
\* only because nobody quotes the side it would take, because it is a market
\* buy whose leverage exceeds the cap at the worst price its slippage allows, or
\* because what is free covers the margin and, by less than one step, not the
\* margin rounded up (order-payload.ts roundMarginUp, placeOrder); for any prices,
\* quantities, leverages and positions and any step of the rounding.
THEOREM FreshOrdersAreTaken == Spec => FreshTicketIsAdmitted
<1> DEFINE Taken ==
      \A i \in Ids :
        LET o == orders[i].order
        IN  /\ orders[i].from = "ticket" /\ orders[i].fresh
            /\ orders[i].state = "coming" /\ orders'[i].state = "refused"
            => \/ o.type = "market" /\ (~Matchable(o) \/ (o.side = "LONG" /\ ~WithinCap(o)))
               \/ ShortByRounding(o)
<1>1. Init => FreshFits
  BY DEF Init, FreshFits, FreshAt, Unsent
<1>2. TicketInvariant /\ FreshFits /\ [Next]_vars => FreshFits'
  BY StepKeepsFits
<1>3. TicketInvariant /\ FreshFits /\ [Next]_vars => Taken
  <2> SUFFICES ASSUME TicketInvariant, FreshFits, [Next]_vars, NEW i \in Ids,
                      orders[i].from = "ticket", orders[i].fresh,
                      orders[i].state = "coming", orders'[i].state = "refused"
               PROVE  LET o == orders[i].order
                      IN  \/ o.type = "market" /\ (~Matchable(o) \/ (o.side = "LONG" /\ ~WithinCap(o)))
                          \/ ShortByRounding(o)
    BY DEF Taken
  <2> DEFINE o == orders[i].order
  <2>1. ~Admits(o)
    BY OnlyRefuseRefuses
  <2>2. Fits(engine, o) /\ o \in Schema /\ Forms
    BY DEF FreshFits, FreshAt, TicketInvariant, Orders, Sound
  <2> HIDE DEF o
  <2>3. \/ o.type = "market" /\ (~Matchable(o) \/ (o.side = "LONG" /\ ~WithinCap(o)))
        \/ ShortByRounding(o)
    BY <2>1, <2>2, FitIsAdmitted
  <2> QED  BY <2>3 DEF o
<1>4. Spec => []FreshFits
  BY <1>1, <1>2, InvariantHolds, PTL DEF Spec
<1>5. [][TicketInvariant /\ FreshFits /\ [Next]_vars]_vars => [][Taken]_vars
  BY <1>3, PTL
<1> QED  BY <1>4, <1>5, InvariantHolds, PTL DEF Spec, FreshTicketIsAdmitted
=============================================================================
