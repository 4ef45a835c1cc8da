----------------------------- MODULE QuoteCycle -----------------------------
(***************************************************************************)
(* The market maker at work on one market: its cycle (maker.ts), the feed it *)
(* takes its anchor from (market-feed.ts), the taker that trades against it*)
(* (taker.ts), and what they run on: the price poller, the engine's book of*)
(* the maker's orders and the rows the db-writer makes of its replies.     *)
(*                                                                         *)
(* A cycle reads the anchor from the feed, its open orders from Postgres and *)
(* its position from the engine; none of them is as recent as the book.    *)
(***************************************************************************)
EXTENDS QuoteLadder

CONSTANTS
  Prices,       \* the prices of the index
  Slots,        \* 1..n, bound: the maker's orders that can be alive or not yet written
  MaxEvents,    \* bound: changes of the index, silences of the poller, trades of the taker, requests
                \* that fail, losses of the feed's socket, and restarts, all together
  MaxLag        \* bound: replies the db-writer may be behind with

ASSUME CycleAssumption ==
  /\ Prices \subseteq Nat \ {0}
  /\ Slots \subseteq Nat
  /\ {MaxEvents, MaxLag} \subseteq Nat

VARIABLES
  index,      \* the engine: the market's spot price
  indexAge,   \* since it accepted a spot price: "new", "echoed" when a frame that an order
              \* caused has carried it to the feed again, "old" after staleMs
  connected,  \* the feed's socket
  anchor,     \* the feed: indexPrice, 0 when none has been seen
  anchorOld,  \* the feed: indexPriceAt is more than staleMs ago
  orders,     \* the engine: slot -> the order in it
  rows,       \* Postgres: slot -> what is left of the order as far as the row says
  log,        \* engine replies that the db-writer has not written: <<slot, left>>
  inventory,  \* the engine: the maker's signed position
  phase,      \* the await of the cycle the maker is at
  running,
  seen,       \* cycle: the ids of the orders it has read
  cancels,    \* cycle: deletes it waits for
  places,     \* cycle: quotes it is going to place or waits for
  later,      \* cycle: orders to cancel when the quotes are placed
  stray,      \* posts of a process that is gone
  missed,     \* the ids whose delete has failed in this cycle
  events      \* how many of what MaxEvents bounds have happened

feed   == <<indexAge, connected, anchor, anchorOld>>
book   == <<orders, rows, log, inventory>>
cycle  == <<phase, running, seen, cancels, places, later, missed>>
vars == <<index, feed, book, cycle, stray, events>>

Free == [side |-> "none", price |-> 0, left |-> 0]

Init ==
  /\ index \in Prices /\ indexAge = "new"
  /\ connected = TRUE /\ anchor = 0 /\ anchorOld = TRUE
  /\ orders = [s \in Slots |-> Free] /\ rows = [s \in Slots |-> 0]
  /\ log = <<>> /\ inventory = 0
  /\ phase = "idle" /\ running = TRUE
  /\ seen = {} /\ cancels = {} /\ places = {} /\ later = {} /\ missed = {}
  /\ stray = {} /\ events = 0

Happens == events < MaxEvents /\ events' = events + 1

-----------------------------------------------------------------------------
(* The engine and the db-writer.                                           *)

\* Every reply to an order has ws-server publish the state of the market, and the
\* feed takes the price in it for a new one.
Published ==
  /\ IF connected
       THEN /\ anchor' = index /\ anchorOld' = FALSE
            /\ indexAge' = IF indexAge = "new" THEN "echoed" ELSE indexAge
       ELSE UNCHANGED <<anchor, anchorOld, indexAge>>
  /\ UNCHANGED connected

Live == {s \in Slots : orders[s].left > 0}
FreeSlots == {s \in Slots \ (seen \cup cancels) : orders[s] = Free}

\* The orders that an incoming one can be matched with, in the book as it is.
Crossed(quote, at) ==
  {s \in Slots : /\ at[s].left > 0 /\ at[s].side # quote.side
                 /\ IF quote.side = "LONG" THEN at[s].price <= quote.price
                                           ELSE at[s].price >= quote.price}

\* The first of them: the best price, and the oldest at that price.
Foremost(quote, at) ==
  {a \in Crossed(quote, at) : \A b \in Crossed(quote, at) \ {a} :
     \/ IF quote.side = "LONG" THEN at[a].price < at[b].price ELSE at[a].price > at[b].price
     \/ at[a].price = at[b].price /\ a < b}

\* A mutant of Filled: the maker order is asked for all the taker wants.
FilledBeyond(acc, s) ==
  [left   |-> 0,
   orders |-> [acc.orders EXCEPT ![s].left = @ - acc.left],
   log    |-> Append(acc.log, <<s, acc.orders[s].left>>)]

\* What is left to match, the orders and the replies, when one more order is matched.
Filled(acc, s) ==
  LET n == Min({acc.left, acc.orders[s].left})
  IN IF n = 0 THEN acc
     ELSE [left   |-> acc.left - n,
           orders |-> [acc.orders EXCEPT ![s].left = @ - n],
           log    |-> Append(acc.log, <<s, acc.orders[s].left - n>>)]

\* The matching loop: the foremost order is met, until there is none or nothing
\* is left to match.  Every iteration but the last takes some of the quantity.
Matched(quote) ==
  LET m[i \in 0..quote.qty] ==
        IF i = 0 THEN [left |-> quote.qty, orders |-> orders, log |-> log]
        ELSE IF Foremost(quote, m[i - 1].orders) = {} THEN m[i - 1]
        ELSE Filled(m[i - 1], CHOOSE s \in Foremost(quote, m[i - 1].orders) : TRUE)
  IN  m[quote.qty]

\* A limit order of the maker: what crosses is matched, the rest of it rests.
\* Trading with itself leaves the maker's position as it is.
Insert(quote) ==
  \E slot \in {s \in FreeSlots : \A t \in FreeSlots : s <= t} :
    LET matched == Matched(quote)
    IN /\ orders' = [matched.orders EXCEPT ![slot] =
                       [side |-> quote.side, price |-> quote.price, left |-> matched.left]]
       /\ log' = Append(matched.log, <<slot, matched.left>>)
       /\ Published
       /\ UNCHANGED <<rows, inventory>>

\* cancelOrder of the engine; an order that is gone is "Order not found".
CancelInEngine(s) ==
  IF s \in Live
    THEN /\ orders' = [orders EXCEPT ![s].left = 0]
         /\ log' = Append(log, <<s, 0>>)
         /\ Published
         /\ UNCHANGED <<rows, inventory>>
    ELSE UNCHANGED <<book, feed>>

\* The db-writer writes the next reply.  A slot is free again once its order is
\* gone and the last of its replies is written.
Written ==
  /\ log # <<>>
  /\ LET s == Head(log)[1]
         last == \A i \in DOMAIN Tail(log) : Tail(log)[i][1] # s
     IN /\ rows' = [rows EXCEPT ![s] = Head(log)[2]]
        /\ log' = Tail(log)
        /\ orders' = IF orders[s].left = 0 /\ last
                       THEN [orders EXCEPT ![s] = Free] ELSE orders
  /\ UNCHANGED <<index, feed, inventory, cycle, stray, events>>

\* getOpenOrdersForMarket: the rows that say open or partially filled.
OpenOrders == {s \in Slots : rows[s] > 0}

Resting == {[id |-> s, side |-> orders[s].side, price |-> orders[s].price, left |-> rows[s]] :
              s \in OpenOrders}

-----------------------------------------------------------------------------
(* The index, the poller and the feed.                                     *)

\* A tick of the poller that has had a message since the last one.
SpotUpdate(price) ==
  /\ index' = price /\ indexAge' = "new"
  /\ IF price = index THEN UNCHANGED events ELSE Happens
  /\ IF connected THEN anchor' = price /\ anchorOld' = FALSE
                  ELSE UNCHANGED <<anchor, anchorOld>>
  /\ UNCHANGED <<connected, book, cycle, stray>>

\* It has had none for staleMs: it sends null, which the engine refuses.
IndexAges ==
  /\ indexAge # "old"
  /\ Happens
  /\ indexAge' = "old"
  /\ anchorOld' = (anchorOld \/ indexAge = "new")
  /\ UNCHANGED <<index, connected, anchor, book, cycle, stray>>

\* No frame for staleMs.
AnchorAges ==
  /\ ~anchorOld
  /\ indexAge = "old" \/ ~connected
  /\ anchorOld' = TRUE
  /\ UNCHANGED <<index, indexAge, connected, anchor, book, cycle, stray, events>>

\* The feed's socket closes, and three seconds later another is opened.
Disconnect ==
  /\ connected
  /\ connected' = FALSE
  /\ Happens
  /\ UNCHANGED <<index, indexAge, anchor, anchorOld, book, cycle, stray>>

Reconnect ==
  /\ ~connected
  /\ connected' = TRUE
  /\ UNCHANGED <<index, indexAge, anchor, anchorOld, book, cycle, stray, events>>

-----------------------------------------------------------------------------
(* The taker.                                                              *)

\* It buys or sells the smallest size, from the best price of the side it hits.
Trade(side) ==
  /\ ~anchorOld
  /\ Len(log) < MaxLag
  /\ Happens
  /\ \E s \in Live :
       /\ orders[s].side # side
       /\ \A t \in Live : orders[t].side # side =>
            IF side = "LONG" THEN orders[s].price <= orders[t].price
                             ELSE orders[s].price >= orders[t].price
       /\ orders' = [orders EXCEPT ![s].left = @ - 1]
       /\ log' = Append(log, <<s, orders[s].left - 1>>)
  /\ inventory' = IF side = "LONG" THEN inventory - 1 ELSE inventory + 1
  /\ Published
  /\ UNCHANGED <<index, rows, cycle, stray>>

-----------------------------------------------------------------------------
(* The maker.                                                              *)

\* The ladder and its gap, for every price and every position the bounds allow.
Ladder == [p \in Prices |-> [i \in -MaxEvents..MaxEvents |-> BuildLadder(p, i)]]
Gap == [p \in Prices |-> GridSize(p)]

\* The anchor is too old to quote on: every order that is listed is cancelled.
Pull ==
  /\ phase = "idle" /\ running
  /\ anchorOld
  /\ phase' = "pulling" /\ cancels' = OpenOrders
  /\ UNCHANGED <<index, feed, book, running, seen, places, later, missed, stray, events>>

\* What the cycle makes of the orders it has read: the rungs that have one already.
AdoptedOf(resting) == Adopted(Ladder[anchor][inventory], resting, Gap[anchor])

\* A mutant of CrossingOf: nothing is cancelled before the new quotes are placed.
CrossingOfNone(quotes) == {}

\* What the new quotes would trade against, of all the cycle has read.
CrossingOf(quotes) ==
  {o.id : o \in {r \in Resting : \E q \in quotes :
     /\ q.side # r.side
     /\ IF r.side = "LONG" THEN r.price >= q.price ELSE r.price <= q.price}}

\* The anchor, the orders and the position are read, and the cycle is planned: the
\* code takes the anchor before it awaits the other two, here all three are read at
\* once, so a ladder around an anchor that moved during that await is left out.
Plan ==
  /\ phase = "idle" /\ running
  /\ ~anchorOld
  /\ \E adopted \in {AdoptedOf(Resting)} :
       /\ places' = ToPlace(Ladder[anchor][inventory], adopted)
       /\ cancels' = CrossingOf(places')
       /\ later' = {o.id : o \in ToCancel(Resting, adopted)} \ cancels'
  /\ seen' = OpenOrders /\ missed' = {}
  /\ phase' = "crossing"
  /\ UNCHANGED <<index, feed, book, running, stray, events>>

\* One of the deletes is answered; that it failed is only a line in the log.
Cancel(s) ==
  /\ s \in cancels
  /\ Len(log) < MaxLag
  /\ cancels' = cancels \ {s}
  /\ \/ CancelInEngine(s) /\ UNCHANGED <<missed, events>>
     \/ Happens /\ missed' = missed \cup {s} /\ UNCHANGED <<book, feed>>
  /\ UNCHANGED <<index, phase, running, seen, places, later, stray>>

\* One of the posts is answered; that it failed is only a line in the log.
Place(quote) ==
  /\ phase = "placing" /\ quote \in places
  /\ Len(log) < MaxLag
  /\ places' = places \ {quote}
  /\ \/ Insert(quote) /\ UNCHANGED events
     \/ Happens /\ UNCHANGED <<book, feed>>
  /\ UNCHANGED <<index, phase, running, seen, cancels, later, missed, stray>>

\* What crossed is gone: place.  All is placed: cancel the rest.  All is cancelled: wait.
Continue ==
  \/ /\ phase = "crossing" /\ cancels = {}
     /\ phase' = "placing"
     /\ UNCHANGED <<cancels, later>>
  \/ /\ phase = "placing" /\ places = {}
     /\ phase' = "sweeping" /\ cancels' = later /\ later' = {}
  \/ /\ phase \in {"sweeping", "pulling"} /\ cancels = {}
     /\ phase' = IF running THEN "idle" ELSE "off"
     /\ UNCHANGED <<cancels, later>>

Step ==
  /\ Continue
  /\ IF phase' \in {"idle", "off"} THEN seen' = {} /\ missed' = {} ELSE UNCHANGED <<seen, missed>>
  /\ UNCHANGED <<index, feed, book, running, places, stray, events>>

\* stop(): the loop ends and what is listed is cancelled, while the posts of the
\* cycle that was under way are still on their way.
Stop ==
  /\ running
  /\ Happens
  /\ running' = FALSE
  /\ stray' = IF phase = "placing" THEN stray \cup places ELSE stray
  /\ phase' = "pulling" /\ cancels' = OpenOrders
  /\ places' = {} /\ later' = {} /\ seen' = {} /\ missed' = {}
  /\ UNCHANGED <<index, feed, book>>

\* The process dies, and with it everything but the requests it has sent.
Die ==
  /\ running
  /\ Happens
  /\ running' = FALSE
  /\ stray' = IF phase = "placing" THEN stray \cup places ELSE stray
  /\ phase' = "off" /\ cancels' = {}
  /\ places' = {} /\ later' = {} /\ seen' = {} /\ missed' = {}
  /\ UNCHANGED <<index, feed, book>>

\* A new process knows nothing, not even the price.
Start ==
  /\ phase = "off"
  /\ phase' = "idle" /\ running' = TRUE
  /\ anchor' = 0 /\ anchorOld' = TRUE /\ connected' = TRUE
  /\ UNCHANGED <<index, indexAge, book, seen, cancels, places, later, missed, stray, events>>

\* A post of a process that is gone arrives, or never does.
Arrive(quote) ==
  /\ quote \in stray
  /\ Len(log) < MaxLag
  /\ stray' = stray \ {quote}
  /\ Insert(quote) \/ UNCHANGED <<book, feed>>
  /\ UNCHANGED <<index, cycle, events>>

-----------------------------------------------------------------------------
Maker ==
  \/ Pull \/ Plan \/ Step \/ Start
  \/ \E s \in cancels : Cancel(s)
  \/ \E q \in places : Place(q)

Next ==
  \/ Maker \/ Stop \/ Die
  \/ \E q \in stray : Arrive(q)
  \/ Written
  \/ \E p \in Prices : SpotUpdate(p)
  \/ IndexAges \/ AnchorAges \/ Disconnect \/ Reconnect
  \/ \E side \in Sides : Trade(side)

\* The loop of the maker runs as long as its process does, which is started
\* again; the db-writer writes what there is.
Spec == Init /\ [][Next]_vars /\ WF_vars(Maker) /\ WF_vars(Written)

-----------------------------------------------------------------------------
(* Properties.                                                             *)

Orders == {Free} \cup [side : Sides, price : Nat, left : Nat]

TypeOK ==
  /\ index \in Prices /\ anchor \in Prices \cup {0}
  /\ {connected, anchorOld, running} \subseteq BOOLEAN /\ indexAge \in {"new", "echoed", "old"}
  /\ \A s \in Slots : orders[s] \in Orders /\ rows[s] \in Nat
  /\ \A i \in DOMAIN log : log[i] \in Slots \X Nat
  /\ inventory \in Int
  /\ phase \in {"idle", "pulling", "crossing", "placing", "sweeping", "off"}
  /\ UNION {seen, cancels, later, missed} \subseteq Slots
  /\ \A q \in places \cup stray : q \in [side : Sides, price : Nat \ {0}, qty : Nat \ {0}]

\* The quotes of one cycle never trade with each other, whatever the anchor
\* and the inventory have done to the ladder.
QuotesNeverCross ==
  \A b, a \in places : b.side = "LONG" /\ a.side = "SHORT" => b.price < a.price

\* The orders of the maker that the step has matched while one of its quotes went in.
OwnMatches == {s \in Live : orders'[s].left < orders[s].left}

\* A quote only ever trades with an order of the maker's own that this cycle
\* could not have cancelled: one that Postgres did not list when the cycle read
\* it, or one whose delete failed.
CrossesOnlyWhatItCouldNotSee ==
  [][\A q \in places : Place(q) => OwnMatches \cap (seen \ missed) = {}]_vars

\* Every rung is on the book with about its size, and nothing else is.
LadderIsWhole ==
  /\ anchor # 0
  /\ \A q \in Ladder[anchor][inventory] : \E s \in Live :
       /\ orders[s].side = q.side
       /\ WithinTolerance(orders[s], q, Gap[anchor]) /\ ~SizeDrifted(orders[s], q)
  /\ Cardinality(Live) = Cardinality(Ladder[anchor][inventory])

\* Reconciliation converges: however far the rows were behind, whatever failed,
\* was doubled, filled or left by a process that died, once the anchor stays
\* fresh and those things stop happening the ladder is whole and there is one;
\* and when the feed goes silent for good, nothing of the ladder is left to
\* trade against (maker.ts cycle, reconcileLadder).
LadderFollowsTheFeed ==
  /\ <>[](~anchorOld) => <>[]LadderIsWhole
  /\ <>[](anchorOld) => <>[](Live = {})
=============================================================================
