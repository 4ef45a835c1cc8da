# A specification of the perpetuals exchange

TLA+ modules of the exchange in `src/`, the TLC runs that check them, and
theorems about them that TLAPS proves. `PROJECT.json` lists components, runs,
hazards, findings and theorems, and maps every definition to the source lines it
stands for.

## The system

```
browser ── REST ──> backend ──xAdd──> request stream ──> engine ──xAdd──> reply stream
   ^                  |                ^      ^             |                |   |   |
   |                  v                |      |             v                |   |   |
   |              Postgres <──────────-│──────│──── snapshots (S3)           |   |   |
   |                  ^          price-poller scheduler                      |   |   |
   |                  └───────────────────── db-writer <─────────────────────┘   |   |
   |                                          backend (resolves the promise) <───┘   |
   └──────────── WebSocket ───────────────── ws-server <─────────────────────────────┘
```

| Part | State it keeps | Operations | What makes it correct |
|---|---|---|---|
| matching engine (`apps/engine/.../exchange-engine.ts`, `store.ts`) | books, accounts (available, locked), positions, prices; all in memory | `init_balance`, `onramp`, `create_order`, `cancel_order`, `spot_price_update` (liquidation sweep), `funding_rate_dispersal`, `backup_store`, queries | price-time priority; an uncrossed book; levels that offer what rests on them; every long is somebody's short; margin is given back; a sweep closes what the price reached; what the writer is told is what is on the book |
| engine process (`engine/src/index.ts`, `engine-comms.ts`, `upload-file.ts`) | recovered ids, the entry in hand; outside it the consumer group and the snapshots | start-up, `runRecovery`, `handlePendingEntries`, `readOneBatch`, `uploadToS3` | no request is passed by; what recovery replayed is not applied again from the pending list; the engine comes to listen |
| backend (`backend-comms.ts`, `order-service.ts`, `auth-controllers.ts`) | promise resolvers; rows of `orders` | `createOrder`, `cancelOrder`, `settleRejectedOrder`, timeouts, queries, the paging of fills; sign-up, sign-in, sign-out | a refused order does not stay pending, an accepted one is not retired; a page misses no fill |
| db-writer (`setup-comms.ts`, `writer.ts`) | `processed_events`, `orders`, `fills` | pending entries, reads, one transaction a reply | no reply is lost, no fill is stored twice, rows say what the engine said |
| ws-server | per-market window and newest state; topics of a socket | private events and prints at once, market state coalesced, tickets | the newest state is published; prints are never dropped |
| web market feed (`market-feed-core.ts`, `market-feed.tsx`) | book, tape, buffer, socket, timers | connect, frame, snapshot, drain, disconnect, retry, hide, switch market | the book never goes back; the tape holds the newest prints; the feed recovers after every drop |
| web user feed (`user-feed.tsx`, `user-feed-core.ts`, `orders.tsx`, `positions.tsx`, `account.tsx`) | open orders, positions, balances; sockets, buffer, loads | connect, resync, event reducers, loads, optimistic cancel, deposit, toast | the screen settles on what the engine holds; a fill is announced once |
| web session (`session-provider.tsx`, `require-session.tsx`, `http.ts`) | identity, flags that outlive a navigation; the cookie | `me`, sign-in, sign-out, the 401 interceptor, the guard | who is shown is whose cookie is sent; the end of a session is said once; nobody is left behind the guard |
| order ticket and close dialog (`order-form.tsx`, `order-payload.ts`, `account-tabs.tsx`) | the fields, the order under way | edit, confirm, submit, close, what is said of the answer | what is said is what happened; a close adds no exposure |
| trade history (`history.tsx`, `fill-view.ts`, `prune-bots.ts`) | fills, a cursor, loads under way | load, page, refresh; pruning | an unbroken run of the account's own fills; trades of humans survive |
| market maker (`maker.ts`, `quote-ladder.ts`, `taker.ts`, `market-feed.ts`) | the anchor; everything else it reads back | reconcile cycle, taker, stop, restart | one whole ladder that follows the feed and does not trade with itself |
| market maker API client (`api-client.ts`) | the gate, the cookie, the sign-in under way | `get`, `post`, `del`, sign-in and retry after a 401 | no slot and no wake-up is lost |
| price-poller, scheduler | the last price; two cron jobs | append to the request stream | a price is sent again before it is called stale |
| packages/db, packages/shared | schema; wire schemas, `runStreamLoop` | validation; reconnection | what both sides of a message agree on |

What is hard: two processes write an order's row and neither waits for the
other; the engine's state is rebuilt from a snapshot, a replay and a pending
list that overlap; Redis delivers at least once and not in order across a
restart; the engine's book, its accounts and its positions are adjusted
separately and must agree; a liquidation sweep trades against accounts it has yet
to visit; the browser joins snapshots that are read at one moment with events
that arrive at others, over sockets that drop, behind tabs that are hidden;
orders are not idempotent and their answers get lost; the bot decides on
readings that lag behind the book it trades on.

## Modules

| Module | Models |
|---|---|
| `PositionMath` | margins, averages and liquidation prices, rounded like `toFixed(2)` on a finer unit of money; what a double makes of a sum of quantities |
| `ExchangeEngine` | the engine: one market, one atomic action per request (`handle` is synchronous, the process single-threaded) |
| `PriceTimeBook` | abstract: what the book promises its users, step by step, whatever way it is kept |
| `EngineBook` | the engine as an implementation of `PriceTimeBook`: the refinement mapping |
| `MCExchangeEngine`, `MCEngineBook` | instances of `ExchangeEngine` and `EngineBook` for TLC |
| `EngineStream`, `MCEngineStream` | the engine process on its stream: snapshot, replay, pending list, reads, answers, crashes |
| `OrderRows`, `MCOrderRows` | the row of an order: backend, engine's answers, db-writer, Postgres |
| `QuoteLadder` | the bot's arithmetic: the ladder it wants (`buildLadder`) and its difference from the one that rests (`reconcileLadder`) |
| `QuoteCycle`, `MCQuoteCycle` | the bot at work: cycle, anchor feed, taker, poller, the book of its orders and the rows that lag behind it |
| `RequestGate`, `MCRequestGate` | the bot's HTTP client: a semaphore, a shared sign-in, a retry inside the slot it retries from |
| `MarketFeed`, `MCMarketFeed` | response stream, ws-server's windows, the wire, the browser's feed machine, composed |
| `AccountFeed`, `MCAccountFeed` | the private channel and the three providers that live on it, with Postgres behind the engine |
| `TradeHistory`, `MCTradeHistory` | the paging of fills between db-writer, `GET /fills`, the history tab and `prune-bots` |
| `Session`, `MCSession` | who is signed in: cookie, requests in three stages, React's state and what is rendered of it, the guard |
| `OrderTicket`, `MCOrderTicket` | the two forms that place orders, the engine's admission, and what is said afterwards |
| `ExchangeEngine_proofs` | theorems about `ExchangeEngine` and `EngineBook` |
| `Engine_proofs` | about `EngineStream` and `PriceTimeBook` |
| `OrderRows_proofs`, `OrderTicket_proofs` | about the modules of that name |
| `MarketMaker_proofs` | about `QuoteLadder`, `QuoteCycle` and `RequestGate` |
| `Terminal_proofs` | about `MarketFeed` and `Session` |
| `AccountFeed_proofs`, `TradeHistory_proofs` | about the modules of that name |

Operators described as a *mutant* in their comment are plausible slips in the
definition that follows them; substituting one must break the property it is
listed with in `PROJECT.json`. No specification uses them.

### ExchangeEngine

`store` is `TStore` for one market. `orderbook[LONG]` are the bids and
`orderbook[SHORT]` the asks, by price; a level has its `availableQty` and its
orders. `matchLongOrder` and `matchShortOrder` differ in the direction of the
price order only, so both are `MatchOrder`; `MatchLoop` is the recursive function
of its turns, and `MatchNext` is one turn: find the oldest order of the best level
in reach, consume it, move the last price, net the maker's position, tell the
writer. The taker's
position is netted once at the end (`TakerPosition`), and what is left rests or
is dropped (`Rest`). `Accepted` collects the conditions under which `placeOrder`
does not throw; `RefuseOrder` is the throw, which leaves the account that
`handle` created. `Sweep` is `liqudationChecks`: accounts in the order they were
created, each closed with a market order through the same `PlaceOrder`; an
account whose order would throw is skipped. `Netted` keeps the code's behaviour
where it is surprising (see below). `reply` holds the rows of the last
request for the writer. `deposited` and `traded` are history.

Left out: the closed-position list, the displayed pnL, the depth frames with
`lastUpdateId` and the user events (nothing in the engine reads them), and
several markets on one account. The code computes in doubles, rounds prices and
the margins it attributes to parts of an order with `toFixed(2)`, and rounds
nothing else. What becomes of that:

- Money is counted in a unit of which `Cent` make a hundredth. What the code
  rounds is rounded to multiples of `Cent`; what it does not round keeps its units.
  So `LockMargin` moves the margin as it was sent, while the margin that a resting
  order carries, and gives back when it is cancelled, is a rounded one: an equity of
  33.333 gives back 33.33 and leaves 0.003 locked for good.
- Quantities are whole numbers of a unit that is a power of two. The `availableQty`
  of a level is kept apart from its orders, in sums that are rounded as doubles are
  (`InDoubles`: exact up to `ExactUpTo`, 2^53 in the code, and every second number,
  every fourth, ... beyond). `EngineAssumption` keeps the instances, and the
  theorems, where nothing is rounded. **Decimal quantities are outside of it.** An order
  of 0.1 and one of 0.2 that are filled one after the other leave their level about
  2.8e-17, which is above zero: `availableQty <= 0` does not delete the level, and
  an empty level stays behind as the best price. `MCEngineBook` evaluates such a
  sum on a small scale (`EmptyLevelOffTheGrid`, assumed by name, so that every run
  of the module confirms it). There `LevelOffersWhatRests` is false of the code,
  and the price-time book ends where the empty level begins.
- The last bits of money (sums and quotients are exact before they are rounded)
  and the side on which a tie falls are left out.

Funding payments are not rounded in the code; the run uses prices for which they
are whole.

### PriceTimeBook

An order trades with all it can reach before any of it rests; nobody is
traded with while a better or an older order is left; only a withdrawal takes an
order away unfilled. Steps are described by what they take, not by how the book
is walked. `EngineBook` maps the engine's two price-keyed maps of lists to it
(`RestingOrders`) and states `BookSpec` as a property of the engine,
`BookIsPriceTimeBook`, which run `engine_book` checks and
`ExchangeEngine_proofs` proves. A sweep is several market orders in one request
and no single step of the abstract book, so the property is stated of an engine
whose spot price stays put; what a sweep does to the book is a theorem of its own.

### EngineStream

A stream entry's id is its place; the consumer group is `delivered` and
`pending`, and `idle` is the part of it that has waited the second
`xAutoClaim` asks for. The store is seen through how often each request has been
applied to it: `restored` before this process, `applied` by it. The phases are
those of `index.ts`. An entry is handled in three steps (apply, answer,
acknowledge) and the process may die, or its connection go, between any two.
Uploads overlap and land in any order. `base` and `found` note where a process
took over.

Left out: trimming, the dev stage (which does not replay), payloads that are not
JSON, a snapshot that cannot be read (the process dies and is restarted).

### OrderRows

`calls` is how far `createOrder` is, `wire` what has been handed to the Redis
client and is not on the stream yet (the client queues while it is offline, so a
request may arrive long after its timeout), `requests` and `replies` the streams.
The engine takes requests in turn and decides freely what becomes of an order;
`AnswerAgain` is a second answer with the same correlation id, which
`EngineStream` produces after a restart. The db-writer has the same shape as the
engine process, with one transaction (`Write`) in the middle. `overtaken` notes
the replies that were pending when a later one was written.

### QuoteLadder and QuoteCycle

A price is a number of ticks and a quantity a number of increments, as
`floorToTick`, `ceilToTick` and `roundQty` leave them; reference prices are
fractions over `Scale`, so no rounding is lost. `BuildLadder` collects the levels;
`Adopted` pairs quotes with resting orders as `reconcileLadder` does, and
`ToCancel` and `ToPlace` are what it returns. `QuoteCycle` has an action for each
stretch between two awaits of `cycle`: it reads rows and inventory (`Plan`), cancels
what a new quote could meet, places, cancels the rest, or takes everything down when
the anchor is old (`Pull`). The one exception is the anchor, which the code reads
before it awaits rows and inventory (`maker.ts:142`, `:171`) and the model together
with them: its anchor is fresher by one round trip. A cycle on an older anchor is in
the model as one whose index moves right after `Plan`, and the properties allow for
any of the index prices. The engine's part is a book of
the bot's own orders (`Place` matches, the rest of the exchange is the taker);
`rows` follow by `Written`, one reply at a time. A process that dies leaves
`stray`, posts that still arrive. The age of the index has three values because
the code has one threshold (`staleMs`) and one way to be deceived: a frame that
an order caused carries the old price with a new time.

### RequestGate

`pc[c]` is the await a call is at. A step is the run of one continuation: the
release of a slot only makes the waiter's continuation runnable (`woken`), and
it does not look at the counter again when it runs, as in `createGate`. A 401
awaits the shared `pendingSignIn` and then asks the gate for a second slot.

### MarketFeed and AccountFeed

Frames, books and prints are named by the engine update they come from, so that
"older" is a comparison of numbers. `MarketFeed` keeps ws-server's windows apart
from its reading of the stream; the browser's `machine` is the reducer's state
and `screen` what the last animation frame committed. `fetches` are the
`GET /depth` that have not come back, each with what it was answered; `again`
is the retry timer of a snapshot, `retry` the one of a socket. `opened` is what
the connection has to account for: where the stream and ws-server's reading stood
when it was opened, and whether a frame has since found the buffer full
(`opened.full`). A tape is cut to `MaxTrades` (`MAX_TRADES`, 40 in the code and 1 in
the run; the theorems hold for any), so that a print may be missing because newer
ones have pushed it off (`FellOff`).

`AccountFeed` follows one provider per behaviour (`view`), because the providers
share the channel and nothing else: a resync waits for all of them, which for the
one that is followed is a resync of any length. Events of the engine reach a
socket in order (`got`), snapshots of orders are read from Postgres (`written`),
of positions and balances from the engine. A resync buffers events, loads, and
drains. `cancels` and `deposit` are the two optimistic writes. The buffer takes
`MaxBuffer` replies and drops what comes after them, which the socket remembers
(`full`); the code counts the events of a reply one by one. Two simplifications of
`Announce`: the code remembers the last 500 fills it has seen (`MAX_SEEN_FILLS`) and
the model all, and the toast is for fills as maker and for liquidations only.
`AnnouncedOnce` is therefore about fills that are repeated before 500 others.

### TradeHistory

Fills are inserted with a time in microseconds and read with one in
milliseconds: `Ms`. A page is asked for, read and appended in three steps, with
refreshes, sign-outs and new trades between them. `state.ends` remembers the
cursors from which a page has been added to the list, `state.spliced` that the page
was not asked from the end of it because a refresh came between. `Prune` is `prune-bots`, which
may run while replies that refer to its orders are unwritten.

### Session

A request has left with the cookie of a moment (`sent`), has been decided by the
backend (`answered`), has delivered its headers and with them a cookie (`body`),
and ends when its body has been read. `state` is what callers have set, `shown`
what has been rendered, which is also what `statusRef` and the effects see.
History: `ended` and `said` are the sessions whose end has been handled and spoken of,
`expiry` says which session was ended last, and a call of which one ended it
(`by`); `spared` marks a call that an abort left running, because its headers were
in. One tab is modelled. Another tab of the browser shares the cookie and
not the identity on this screen, and can part the two at any time; that is not in the
model.

### OrderTicket

`engine` is the account's position, its free collateral and the two best prices;
`screen` the browser's copy, which follows by `SeesAccount` and `SeesBook` at any
time. `Admits` is the part of `placeOrder` that refuses; how much of an admitted
order is filled is free. An order's life (`state`) and what is said of it
(`said`) are separate: the answer may be missing (`Unanswered`), may precede the
order's arrival, or may not be the engine's at all (`Astray`). Money is counted in
`Unit`s of which a price is a whole number, and the ticket's margin is rounded up to a
multiple of `Grain` of them (1e-8 in the code), while what is free is any number of
units: neither in the code is on the other's grid. A slippage has no upper bound, as
in `packages/shared/src/index.ts:16`. The last bits of doubles are left out.

## Runs

Times are with two workers; states are distinct.

| Run | Instance | Question |
|---|---|---|
| `engine_book` | 2 accounts, prices 9 and 12, quantities 1 and 2, limit and market orders, 4 orders; 160,000 states, 80 s | Do levels, margins and the writer's rows agree with the book after every request, and is the book a price-time book? |
| `engine_risk` | 2 accounts, 1 price, quantities 1 and 2, with and without equity, spot prices 5 and 25, 5 orders and 1 funding round; 569,000 states, 149 s | Is open interest balanced, does a sweep take exactly what it should, is funding zero-sum? |
| `stream` | 4 kinds of entry, 3 entries, 2 crashes, 1 lost connection; 724,000 states, 30 s | Is nothing passed by or applied again out of the pending list, and does the engine catch up? |
| `rows` | 1 order of quantity 2, 3 replies, 1 crash, 1 lost connection, 1 repeated answer; 1,639,000 states, 132 s | Are fills stored once, is nothing lost, does the row end up right, are refused orders retired? |
| `gate` | 4 calls, 2 slots, 1 expiry, 1 thrown fetch; 113,000 states, 21 s | Is every slot accounted for, and does a call hang only when the gate is full of retries? |
| `maker` | 1 rung a side, 2 index prices, 8 orders, 2 faults or moves, 1 reply behind; 1,169,000 states, 116 s | Does the bot trade only with orders of its own it could not see, and end up with one ladder, or none? |
| `market_feed` | 2 markets, 2 updates, 2 faults, a buffer of 3, a tape of 1; 1,460,000 states, 193 s | Does the book never go back, does the tape hold the newest prints, does the feed recover every time? |
| `account` | 1 order, 3 replies, 1 deposit, 1 fault, a buffer of 2; each provider; 1,905,000 states, 55 s | Does the screen settle on the engine's truth, is a fill announced once? |
| `history` | 4 orders, 3 fills, pages of 1, 2 microseconds a millisecond, 2 loads; 2,400,000 states, 110 s | Is what is shown an unbroken run of the account's fills, do trades of humans survive pruning? |
| `session` | 2 accounts, 3 requests at once, 2 sign-ins; 1,201,000 states, 60 s | Who acts, who is told of which session, who is left behind? |
| `ticket` | 2 orders, positions 0 and 3, 1 move of the engine by other hands; 1,378,000 states, 45 s | Is what is said true, does a close reduce, when is a fresh order refused? |

`engine_liquidation_side` looks for a counterexample to what the code's own
comment says of liquidation prices, and finds one; `PROJECT.json` quotes the
line.

Why the bounds are enough.

- Engine. Two prices are what price priority needs, two orders on a level and a
  third that hits them what time priority needs; with four orders of sizes 1 and
  2 one may sweep a level and enter the next, be filled in part, rest and be hit
  again. A hundredth is three units (`Cent`), so that margins of 10 and of its
  halves are locked off the grid of hundredths and rounded to either side. Five
  orders open a position, shrink it, close it and turn it around with and without margin; spot prices 5 and 25 are beyond every liquidation
  price of the instance on either side.
- Streams. Three stream entries put one in the snapshot, one after it and one
  that nobody was given; two crashes let a second recovery start from what the
  first left behind. Three replies are an answer, its repetition and a later
  fill or cancellation, in every order in which the writer can get to them; a
  row is only written for replies about its own order, so one order is enough.
- Gate. Four calls and two slots are a full gate with a queue; two refusals
  together share a sign-in and can fill the gate with their retries.
- Maker. One rung a side already has every edge of reconciliation (adopt,
  requote, resize, cancel before, cancel after); eight orders are the two old
  ones, two new, and their unseen doubles of a cycle before. The two prices are
  further apart than the requote tolerance, so that a move crosses the ladder
  that rests. What depends on more rungs is proved (`LadderNeverCrosses`).
- Feeds. Two updates are an older and a newer book; two faults are a drop in the
  middle of the recovery from a drop. `MaxBuffer` is small enough for a buffer to
  overflow and large enough for one that holds several frames to be drained; the
  theorems hold for 256. A tape of one print is full with the first and pushes it off
  with the second. One order is placed,
  filled in part, and filled or cancelled in three replies; the providers keep
  orders by id and never relate two of them. `account` has a state constraint,
  `ShortRace`: once two sockets belong to one generation the engine makes no third
  reply. That race is what `ScreenSettles` excludes, and with one fault it never
  ends (TLC: `[][Raced => Raced']_vars` holds without the constraint, over
  7,668,000 states), so the constraint cuts states of the race only;
  `AnnouncedOnce` is still checked there with an order, its fill and both sockets
  hearing of both, and is proved of every instance with the rest.
- History. Pages of one fill put a cut between any two; two microseconds put two
  fills into one millisecond; three fills are one before, one in and one after.
- Session. Three requests are a probe or refused call, a sign-in and a sign-out.
- Ticket. Prices are 100 and 101, in hundredths; a long of 3 and nothing are the
  positions other hands make; a first close changes the position before the second
  arrives. What is free, 3367, covers the margin of one at 101 and three times the
  leverage, which is 3366 and two thirds, and not the 3369 to which steps of three
  round it up: each of the three refusals of `FreshTicketIsAdmitted` occurs. The
  state constraint `FieldsRest` keeps the side and the type of the ticket, once an
  order is out, as they were sent or as they are when it is mounted, and leaves the
  ticket empty beside a close. So a second order is a close, or one of the
  ticket of the side and type of a first that was the ticket's too. Other pairs are
  left to the theorems of `OrderTicket_proofs`, which hold without the constraint and for any numbers.

`CHECK_DEADLOCK FALSE` is there because the bounds end every behaviour; the bot
has no such bound, and `maker` checks deadlock.

### Fairness

Weak fairness only, of work that an event loop gets to when nothing stops it.
Crashes, lost connections, failures and what users do are never fair and are
bounded.

- `EngineStream` and `OrderRows`: the work of one process; when it is down it is
  started again (`restartPolicy` of the deployments in `src/k8s`), and when it is
  up its event loop goes on. `OrderRows` also assumes that a timer fires and that
  a query returns (`Timeout`, `Settle`), and nothing of the engine: an order that
  is never answered is retired all the same.
- `RequestGate`: each call's continuation once its promise is settled (every
  fetch has a time limit), and the shared sign-in's.
- `QuoteCycle`: the cycle, which `setInterval` and its own await chain drive, and
  the db-writer's progress. Nothing is assumed of the index, the taker or the
  feed: `LadderFollowsTheFeed` is conditional on what the feed does.
- `MarketFeed`: ws-server's reading, its window timers, and the browser's
  callbacks and timers, taken together; that the user comes back to a tab is
  not assumed (`FeedRecovers` speaks of a tab that is looked at).
- `AccountFeed`, `TradeHistory`, `Session`, `OrderTicket` state safety only.

### The properties

- `LevelOffersWhatRests`, `BookIsPriceTimeBook`: the book, for quantities whose
  sums doubles hold exactly (see `ExchangeEngine` above for the others).
- `UntradedMarginIsCovered`: until an account trades, equity is what it deposited
  and what is locked is what its orders would give back, up to half a hundredth for
  each order accepted, which is what locking a margin as sent and giving back a
  rounded one leaves locked, or frees too much. For accounts that have
  traded the code has no such rule: partial closes release another amount than
  the closed part held.
- `WriterAgreesWithBook`: the last `order_update` of an order in a reply is true
  of the book the reply leaves.
- `OpenInterestBalanced`, `SweepTakesCrossedPositions`, `FundingIsZeroSum`: risk.
- `AppliedOrPending`, `PendingAppliedOnce`, `EngineCatchesUp`: recovery. The
  second says exactly how far "once" goes: entries nobody had been given when the
  process started are applied by recovery and again when they are read.
- `FillsWrittenOnce`, `NothingIsSkipped`, `RowSaysWhatEngineSaid`,
  `RefusedOrdersAreRetired`: the row. `RowSaysWhatEngineSaid` excepts rows with a
  reply that was left pending while a later one was written; the run shows that
  there is no other way for a row to be wrong.
- `SlotsAreAccounted`, `HangsOnlyWhenFull`: the gate. The second names the one
  way to hang, see below.
- `QuotesNeverCross`, `CrossesOnlyWhatItCouldNotSee`, `LadderFollowsTheFeed`: the
  bot. It may meet orders of its own that Postgres did not list yet, or whose
  delete failed, and no other.
- `BookOnlyAdvances`, `TapeIsFaithful`, `FeedRecovers`: the market on the screen.
  The tape holds each print since the connection opened but those that `MaxTrades`
  newer ones have pushed off. `FeedRecovers` asks for a live feed again and again,
  after the last drop as after the first. Both except a connection whose buffer has
  overflowed, the latter only where it asks for the latest book.
- `ScreenSettles`, `AnnouncedOnce`: the account on the screen. The first speaks of a
  screen whose snapshot is the one that this connection's resync loaded, with nothing
  under way. It excepts two sockets of one generation (a race the code has), a
  buffer that has overflowed, a screen that comes from the events of the socket
  alone because its resync failed, loads that were overtaken by another, answered
  late or retried, a balance that the answer to a deposit has taken back, and an order list read from rows
  that had not caught up.
- `HistoryIsUnbroken`, `HumanTradesSurvive`: the record. The first excepts two
  things. A cursor from which a page was read passes by the older fills of its own
  millisecond, which is not what `fill-view.ts:106` and `order-service.ts:236`,
  `:264` say of it. And a page may be added to a list it was not asked from, because a refresh came
  between (`spliced`): there the list has a gap.
- `ShownIsWhoActs`, `StuckOnlyAfterSignOut`, `ExpiryIsSaidOnce`: the session. The
  first excepts two requests under way at once that both decide who is signed in.
  The last says of every notice which session it is about: one that nothing has been said of,
  ended by a call of its own or by one of an earlier session that no abort has
  reached; and that it is not said over the screen a sign-out has left. The second
  half of "or" is the exception, see below.
- `OutcomeIsTruthful`, `CloseNeverAddsRisk`, `FreshTicketIsAdmitted`: the ticket. The
  last names the three reasons for which the engine refuses an order that the form
  allowed and that finds the engine as it was shown: nobody quotes, the cap at
  the worst price, the rounding of the margin.

Each exception is a behaviour that the code has.

## Where the code departs from what one would expect

Behaviours the models have because the code has them. They are stated as
exceptions of the properties above, or as the counterexample of a run.

- Engine: a position's liquidation price after a reduction may be on its winning
  side (run `engine_liquidation_side`); an order without
  margin is taken for risk reducing up to twice the position, and turns it
  around into one that carries none, where a comment says that cannot be
  (`exchange-engine.ts:1160`, `:469`); the margin of a market order is locked in
  full and stays locked for the part that found nobody (`:769`), although
  `exchange-engine.test.ts:650` says closing leaves nothing locked.
- Engine: a level whose quantities do not add up exactly in doubles may stay behind
  empty, as the best price (`exchange-engine.ts:636`, `:658`, `:766`); a margin that is not
  a whole number of hundredths is locked as sent and given back rounded (`:1268`, `:739`).
- Recovery applies the entries after the snapshot that nobody had been given yet,
  and they are applied again when they are read (`engine-comms.ts:195`). A
  connection lost under a reply is answered as a refusal although the order was
  applied (`engine-comms.ts:270`, `order-service.ts:100`).
- The db-writer leaves a duplicate met while reading unacknowledged until the
  next start (`setup-comms.ts:282`).
- The bot's retry after a 401 asks for a slot while it holds one; when every slot
  does, the client hangs for good (`api-client.ts:161`, `:172`).
- The bot's anchor keeps its freshness from frames that its own orders cause: it
  goes on quoting an index the poller no longer feeds (`market-feed.ts:80`).
- `signingOut` is reset by a sign-in only: after a sign-out the guard no longer
  redirects (`session-provider.tsx:96`).
- `prune-bots` deletes order rows that unhandled replies refer to; the db-writer
  dies of them each time it is started (`prune-bots.ts:189`).
- A market buy at the leverage cap is always refused: the ticket's margin is for
  the price shown, the engine's cap is computed at the worst price of the
  slippage, which is one percent at least (`order-payload.ts:57`).
- A close dialog that is dismissed while its order is under way opens again with
  that order's failure (`account-tabs.tsx:311`). A close of up to twice the
  position is taken without margin and turns it around.
- The ticket compares what is free with the margin and sends the margin rounded up
  to 1e-8, which the engine compares again: an order that uses up all that is free
  may be refused for the rounding (`order-form.tsx:142`, `order-payload.ts:62`,
  `exchange-engine.ts:1207`).
- A 401 of an earlier session ends the session that came after it, and is announced
  as its expiry, if the call was not aborted: because it had its headers, or because the earlier session did
  not end by a 401 (`session-provider.tsx:186`, `http.ts`).
- An answer that is not the engine's (a proxy's 5xx, a body of another shape) is
  reported as a rejection, though the order may exist (`errors.ts:115`).
- The ticket is mounted twice for two widths; crossing the breakpoint forgets an
  order under way (`order-form.tsx`).
- The answer of a deposit puts its balance over a newer event's
  (`account.tsx:194`).
- A resync that overflows its buffer drops the newest events, which
  `user-feed.tsx:56` calls right because the snapshot that is awaited is newer.
  It is not when it was read before they happened and only its answer, or that of
  another provider, is late: the screen then stays behind until the next event or
  resync. `ScreenSettles` without its exception has such a counterexample.
- The cursor of a page of fills keeps milliseconds of a time that has
  microseconds (`fill-view.ts:117`): the next page leaves out the older fills of that
  millisecond, although the comments there and at `order-service.ts:236` say that
  none is skipped. A page that a refresh has overtaken is added to the new list.

## Proofs

Every state invariant and every action property that a passing run checks is
also a theorem, for any values of the constants that the modules' assumptions
allow.

`Engine_proofs` proves of `EngineStream` type correctness, `AppliedOrPending` and
`PendingAppliedOnce` for every number of entries, crashes and lost connections
(assumption `StreamAssumption` on the constants only). Neither is inductive. The
invariant `EngineInvariant` adds three parts, which the module states and TLC
has checked: `InHand` (what is in hand was read from the pending list and is not
read twice; nothing is delivered before the process listens), `AckedIsApplied`
(what is about to be acknowledged, and what recovery says it replayed, has been
applied) and `NotYetApplied` (what is still to be handled has been applied by
recovery at most). The proof has one step per action.

Of `PriceTimeBook` it proves that the abstract book keeps its shape and is
never crossed, for every set of prices and sizes. That the engine implements it
is proved in `ExchangeEngine_proofs`.

`ExchangeEngine_proofs` proves every state invariant and action property of the
engine that the runs check and that holds, for any accounts, prices, margins,
leverage, number of orders and unit of money, and for quantities that add up
to no more than doubles count exactly (`EngineAssumption`). One inductive invariant,
`EngineInvariant`, carries them (TLC has checked it on the instance of
`engine_book`):

- `StoreOK`: the store's shape, and of every level that it lists orders of known
  accounts, each of them once and with something left, and offers their sum; no
  order rests in two places. `TypeOK` and `LevelOffersWhatRests` follow.
- `Balance`: signed positions sum to nothing. It is what `OpenInterestBalanced`
  means, and makes `FundingIsZeroSum` an argument about two sums.
- `MarginsCovered`: the equity of an account that never traded is what it paid in,
  and its locked margin the sum over its resting orders, but for half a hundredth an
  order (`Near`), all through loops that lock, release and move margin of others.
- `RowsAgree`: the last row of an order in a reply says of it what the book does.

None of the parts survives the matching loop by itself: a turn takes from a level
and adds a row, and books the maker but not yet the taker. The loop's invariants
therefore say that the balance is off by what the taker has traded so far and that
accounts which were no maker are as they were (`MatchOK`), and that what was said of
an order is still so (`Told`). They are carried along the turns by induction on their
number, and along a sweep by induction on the accounts closed. A netting moves its account by the
signed quantity of the trade (`CreatePositionAddsExposure`) and touches nothing else
(`CreatePositionIsLocal`). `SweepTakesCrossedPositions` needs no invariant of the
balance; it follows each account through the sweep, and needs only
that an account which did not trade kept its position and its collateral.

The same module proves that the engine implements `PriceTimeBook`
(`EngineKeepsPriceTime`). It is proved for constants with `SpotPrices = {}`, as
the run has them: that is what the property means, not a restriction of the
argument, because no single step of the abstract book closes several accounts.
`EngineStepsAreBookSteps` says what happens at any spot price: every other
request is still one step of the book or none, and a spot price update is some
chain of its market orders, each taking by price and time. The argument:

- The abstract book is read off the levels (`Reads`): an order is in it when some
  level lists it, with the price of the level. No order rests in two places
  (`RestsOnce`, part of `StoreOK`), so there is one way to read it.
- A level lists its orders by arrival (`Listed`, part of `StoreOK`), which is why
  consuming the first of them is time priority; partial fills and cancels keep
  the order of those that stay.
- The matching loop as a whole takes what the abstract step takes. `LoopTook`
  says of any number of its turns that only orders within reach were touched, none
  before everything that precedes it by price and time was gone, and that the
  quantity taken is the quantity filled. When the loop stops, the taker is filled
  or nothing is left within reach, so what rests meets nobody.
- `CreateOrderIsOrder` and `CancelOrderIsWithdraw` put this together for a request;
  the others leave the book alone (`OthersAreQuiet`).

`BidsStayBelowAsks` proves of the engine's own book, sweeps included, that no bid
rests at or above an ask.

`OrderRows_proofs` proves type correctness and `NothingIsSkipped` for any number
of orders, replies, crashes, lost connections and repeated answers (assumption
`RowsAssumption`). `NothingIsSkipped` needs to know that what is about to be
acknowledged has been written (`AckedIsWritten`), through every way an entry gets
there: written, recognised as a duplicate, claimed or freshly read. Type
correctness needs that nobody speaks of an order before its row is inserted
(`SpokenOf`): only then is every write of the db-writer an update of a row.
`FillsWrittenOnce` and `RowSaysWhatEngineSaid` speak of which replies
were written, which no variable remembers. `Accounted` says that there is a set of
them that explains what is in Postgres (`Written`): one reply for each event
recorded, all the fills that are stored, and, of an order none of whose replies was
overtaken, the row of the latest. Every step keeps such a set or adds one reply to it.

`MarketMaker_proofs` proves that the ladder never crosses itself: for any anchor,
inventory, spread, step and skew, every bid of `BuildLadder` is below every ask
(`LadderNeverCrosses`: the touch is floored for bids and ceiled for asks on the
same grid around references that a positive spread keeps apart), and hence
`QuotesNeverCross` through cycles, crashes and restarts. `CycleInvariant` adds
`Inputs`: an anchor that is not old is an index price, and the inventory is
bounded by the taker's trades, so that every ladder a cycle reads is one that
`LadderNeverCrosses` speaks of. The lemma allows for any inventory; the bound
is there because `Ladder` tabulates a finite range of them.
`QuotesCrossOnlyTheUnseen` proves the action property
`CrossesOnlyWhatItCouldNotSee`: a quote trades with the bot's own order only if
the cycle had not been shown it or could not cancel it. `QuoteInvariant` adds
`Clear` (what a quote to be placed would cross and the cycle has read is being
cancelled, or was missed), `PhasesApart` (nothing is placed before the
cancels are done) and that what was read never grows (`Eased`); the matching loop
`Matched` is followed by induction on its turns.

Of `RequestGate` it proves type correctness and `SlotsAreAccounted` for any
number of calls and any limit. `GateInvariant` is `Shape` (types), `InLine` (a call stands
in the queue, once, exactly when its `pc` says so) and `Counted` (the counter against the cardinalities); the work is in
following three finite sets through each continuation, the wake-up in
particular, which frees a slot that is promised before it is taken.

`OrderTicket_proofs` proves type correctness, `OutcomeIsTruthful` and
`CloseNeverAddsRisk` for any prices, sizes, leverages and positions.
`TicketInvariant` says of each order that it fits the schema, is filled no
further than its size, carries no margin if it is a close, and that what was
said of it is true; and of the forms that an open close dialog belongs to a
position, which is why the payload it builds has a size. `CloseReduces` needs
one more fact: an order without margin is only admitted against a position of
the other side at least half its size, so that no fill of it can leave more.
`FreshOrdersAreTaken` proves the action property `FreshTicketIsAdmitted`. It needs
to remember, while the order travels, how its margin came about: `FreshFits` says
that some price and some leverage within the cap account for it and that the
collateral was there before the rounding. `RoundMarginUpBounds` says that rounding then asks for
less than one step more, which is the third refusal. The rest is arithmetic on products of unknowns, in steps.

`Terminal_proofs` proves of `Session` type correctness and `StuckOnlyAfterSignOut` for any
number of requests and tokens. `GuardInvariant` adds that a guard which is not
being left has seen every expiry there was (`GuardIsCurrent`): the interceptor
never counts an expiry without sending the page somewhere.
`ExpiryIsSaidOncePerSession` proves the action property `ExpiryIsSaidOnce`. Its
invariant has to follow a notice from the 401 to the render that shows it: what has
been spoken of has ended, the session on the screen has not been spoken of
(`SpokenOfOnce`); an expiry that was not rendered yet meets a screen that still says signed in (`Told`);
a call whose session has expired is one the abort did not reach (`Accounted`); and what
ended a session that is about to be spoken of is one of the two kinds (`ByItsOwn`).
`TheNameShownActs` proves `ShownIsWhoActs` from `IdentityInvariant`: unless requests
that decide who is signed in have overlapped, one of them at most is under way
(`OneDecides`), it knows the cookie it will leave (`DecidersKnow`), and the
provider's name is the cookie's whenever none is (`NameIsCurrent`).

Of `MarketFeed` it proves type correctness (`FeedIsTyped`), `TapeIsFaithful` and
`BookOnlyAdvances`, for any markets, updates, events, size of the buffer and
length of the tape (`FeedAssumption`). `FeedInvariant` is, besides the types,

- `PhasesAgree`: the connection is up exactly when the machine buffers or is
  live, never both, and whoever is not up has nothing on the wire or in a buffer;
- `FetchesFit`: of the snapshots whose answer still counts one at most was asked
  for by the socket that is up, and its answer is as new as the book it replaces
  and as the moment the socket opened. It is what `BookOnlyAdvances` stands on,
  because `onSnapshot` replaces the book without looking at the one it has;
- `DepthsFit`: nobody is ahead of whom he hears from;
- `InOrder`: tape, buffer and wire hold prints that follow each other, so that
  draining a buffer is appending it;
- `NoneLost`: a print since the connection opened is on the tape, in the buffer or
  on the wire, or newer ones have pushed it off the tape, unless the buffer has overflowed.

A drain is a fold of the reducer over the buffer. `DrainFacts` says of any number
of its steps what has reached the tape, in which order, and that the book has
not gone back.

`TradeHistory_proofs` proves type correctness, `HistoryIsUnbroken` and
`HumanTradesSurvive` for any accounts, fills, page size and clock
(`HistoryAssumption`: the bots, nobody and an unknown session are no accounts of
the tab). `HistoryInvariant` is

- `ExchangeFits`, `FillsInOrder`, `UpWhileUsed`: what refers to an order refers to
  one that was placed, a fill is not before the fills that were written before it,
  and a tab in use sees no pruning, which runs with the stack down;
- `TabFits`: what is under way for this generation is for the account signed in;
- `AnswersFit`: an answer under way holds the newest fills before its cursor, as
  the table is now: fills of later transactions are newer than all it holds;
- `ScreenFits`: what is shown is an unbroken run, and the cursor that is kept
  stands at its end, unless a refresh has overtaken a page.

A step of the exchange only lets the table grow at its newest end (`Grows`), which
disturbs no answer and no list. `PageJoins` is the step that matters: a page read
behind the cursor continues the list that the cursor stands at the end of, but for
fills of the cursor's own millisecond (`CursorFacts`); the cursors of pages that were added are the
`ends` of the list, and nothing else excuses a gap. The list is ranked by counting the newer
fills (`Ranked`), a definition that can be reasoned about where the sorting
operator of the community modules, which is a CHOOSE over permutations, cannot
be used without first proving that one exists.

`AccountFeed_proofs` proves type correctness, `ScreenSettles` and `AnnouncedOnce`
for any orders of the account, replies, deposits, faults and size of the buffer
(`FeedAssumption`: the reply to a deposit names no order). `ScreenSettles` speaks
of the end of a resync; its invariant has to say what is true in the middle of one.
`FeedInvariant` is

- `LogFits`: the replies about an order are those of its life;
- `BudgetFits`: every ticket, socket and running retry timer but the first is owed
  to a fault, and so is every generation: the sockets a tab may create are bounded
  by what has gone wrong, which makes `Calls` large enough for their loads;
- `SocketsFit`, `ProviderFits`, `DepositFits`, `CancelsFit`, `NoneTwice`: what the
  parts of the tab say of one another: a socket of this generation is named by
  the variable, a load was asked for by a socket that has opened, a cancel that is
  confirmed or noted as finished is of an order that has ended;
- `Following`: if the socket is alone in its generation and nothing was dropped,
  the buffer holds exactly the replies that come after those handed to the
  reducers (`Queued`), and what the resync has loaded, what is on screen from it
  and the rows its cancels would put back are each of a time not before them
  (`Abreast`).

"Not before" is said row by row (`Since`): a row that is shown was open at some
time since, a row that is not was not open at some time since. A snapshot is like
that whenever it was read, a replayed event leaves it so (`ReduceFollows`: what a
row has been filled never goes back, so a stale event is one the reducer refuses
or one that agrees with a later state of an order), and once everything has been
handed over "since" leaves only now. Following a batch through the reducer is an
induction on its length (`FoldFollows`). That an optimistic cancel may take a row
away early is why `Since` makes an exception for the orders whose cancel is in
flight, and why a row may come back only to the connection it was taken from.

Loops and sums are proved about although induction theorems with an operator
parameter cannot be used: a loop is a recursive function, a set of numbers or of
subsets is defined for which the claim holds, and the set forms of the
well-founded induction theorems show that it is all of them. The sums of
`Functions` are CHOOSEn functions; the first lemmas of `ExchangeEngine_proofs`
show that they exist, and what adding, removing and changing a member does.

Model-checked only: liveness (`EngineCatchesUp`, `RefusedOrdersAreRetired`,
`HangsOnlyWhenFull`, `LadderFollowsTheFeed`, `FeedRecovers`: TLAPS 1.4.5 does no
fairness or ENABLED reasoning), and `LiquidationPriceOnLosingSide`, which is false.

## Not modelled, and the plan

Not modelled for good: the layout of the web interface and its catalogue of
components, configuration and deployment files, seed scripts, the validation
that keeps no state. Components that are modelled in part say in `PROJECT.json`
what is left out of them; the larger parts are

- several markets that share one account's collateral (the engine keeps one
  account per user for all of them): the book is per market, the margin is not,
  and two of everything is beyond TLC's reach here;
- the trimming of streams, payloads that do not parse and snapshots that cannot
  be read: each ends the process, and the restart is modelled;
- `lastUpdateId` going back when the engine restarts from a snapshot, which
  `MarketFeed` would show as a browser that refuses every frame until it
  reconnects;
- two deposit dialogs at once, whose `submitError` is never cleared.

Next, in this order:

1. Replayed requests composed with `OrderRows`: what recovery applies and answers
   to nobody.
2. The engine's restart in `MarketFeed`.
3. A run of its own for the comment at `user-feed.tsx:56`, and proofs for what 1
   and 2 add.
