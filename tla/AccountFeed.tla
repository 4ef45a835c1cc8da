---------------------------- MODULE AccountFeed ----------------------------
(***************************************************************************)
(* One tab of the terminal and the private channel of its account: the     *)
(* socket half in apps/web/lib/user-feed.tsx, the reducers in              *)
(* user-feed-core.ts, and the providers that own what is on screen, each   *)
(* with its snapshot and its events: orders.tsx, positions.tsx, account.tsx,  *)
(* and the toasts of components/chrome/fill-notifications.tsx.             *)
(*                                                                         *)
(* The engine is its replies about this account.  An order list is read from *)
(* Postgres, which db-writer keeps some replies behind; positions and      *)
(* balances are read from the engine and are absolute, so they are named by*)
(* the number of the last reply they reflect.                              *)
(***************************************************************************)
EXTENDS Integers, Sequences, FiniteSets, SequencesExt

CONSTANTS
  Orders,      \* the orders of the account
  Views,       \* the providers to follow: "orders", "positions", "account"
  MaxBuffer,   \* MAX_BUFFER
  MaxDeposits, \* bound: deposits made in this tab
  MaxReplies,  \* bound: replies of the engine about this account
  MaxFaults    \* bound: failures, closed sockets and hidden tabs

NoOrder == "none"

ASSUME FeedAssumption ==
  /\ NoOrder \notin Orders /\ Views \subseteq {"orders", "positions", "account"}
  /\ MaxBuffer \in Nat \ {0} /\ MaxDeposits \in Nat /\ MaxReplies \in Nat /\ MaxFaults \in Nat

VARIABLES
  log,         \* the engine's replies: which order, and its status afterwards
  written,     \* how many of them Postgres was seen to have
  published,   \* how many of them ws-server has certainly published
  sockets,     \* the sockets created, each with the generation that made it, the replies it got,
               \* and whether one of them found the buffer full
  socket,      \* the variable of the same name: the last one created, or None
  tickets,     \* generation -> connects that wait for POST /ws-ticket
  retryTimer,  \* the variable of the same name is set
  timers,      \* retry timers running, the one in the variable or not
  tab,         \* "shown", "grace" (hidden, its timer running) or "hidden"
  generation, buffering, buffer, status,
  resyncs,     \* the sockets whose resync has not ended
  view,        \* the provider that is followed: the others only delay the resync
  mounted,     \* it is mounted
  loads,       \* call -> the snapshot request of that call
  current,     \* its generation counter
  shown,       \* what it has on screen, and the resync that comes from
  cancels,     \* order -> its DELETE in flight
  deposit,     \* the POST /onramp in flight, and how many there have been
  announced,   \* reply -> how often its fill was put on screen
  faults

world   == <<log, written, published>>
channel == <<sockets, socket, tickets, retryTimer, timers, tab, generation, buffering, buffer,
             status, resyncs>>
screen  == <<view, mounted, loads, current, shown, cancels, deposit, announced>>
vars == <<world, channel, screen, faults>>

None == 0
Replies == 1..MaxReplies
MaxSockets == MaxFaults + 1    \* every socket after the first is owed to a fault
Calls == 0..MaxSockets + 1     \* the mount's load, the resync of each socket, and Retry's
Again == MaxSockets + 1
Resting == {"open", "partially_filled"}

-----------------------------------------------------------------------------
(* The exchange.                                                           *)

About(n, o) == {i \in 1..n : log[i].order = o}

\* What an order is after the first n replies.
StatusAfter(n, o) == IF About(n, o) = {} THEN "absent" ELSE log[Max(About(n, o))].status

Fills == {"partially_filled", "filled"}
FilledQty(i) == Cardinality({j \in About(i, log[i].order) : log[j].status \in Fills})

\* An order's first reply is its order.new, every other an order.update.
IsNew(i) == About(i, log[i].order) = {i}

Follows(before, after) ==
  CASE before = "absent" -> after = "open"
    [] before = "open" -> after \in {"partially_filled", "filled", "cancelled"}
    [] before = "partially_filled" -> after \in {"filled", "cancelled"}
    [] OTHER -> FALSE

Says(o, s) == log' = Append(log, [order |-> o, status |-> s])

\* Somebody trades with the order, or it is placed or cancelled from elsewhere.
Reply(o, s) ==
  /\ Len(log) < MaxReplies
  /\ Follows(StatusAfter(Len(log), o), s)
  /\ Says(o, s)
  /\ UNCHANGED <<written, published, channel, screen, faults>>

-----------------------------------------------------------------------------
(* The reducers.                                                           *)

\* The rows hold a status, and with it the quantity that is filled.
HeldQty(row) == IF row = "open" THEN 0 ELSE 1

\* order.new puts the row there, whatever is held; order.update changes the row
\* it finds, if it supersedes it, and takes away the row of an order that has ended.
ReduceOrders(rows, i) ==
  LET o == log[i].order
      s == log[i].status
  IN  CASE IsNew(i) -> [rows EXCEPT ![o] = s]
        [] rows[o] # "absent" /\ ~IsNew(i) /\ FilledQty(i) >= HeldQty(rows[o]) ->
             [rows EXCEPT ![o] = IF s \in Resting THEN s ELSE "absent"]
        [] OTHER -> rows

\* A position and a balance are what the reply says they are.
Reduce(value, i) == IF view = "orders" THEN ReduceOrders(value, i) ELSE i

\* A provider that has no snapshot yet drops the events.
Applied(batch) ==
  IF mounted /\ shown.status = "ready"
    THEN [shown EXCEPT !.value = FoldLeft(Reduce, @, batch)] ELSE shown

Ended(o, batch) ==
  \E n \in DOMAIN batch : log[batch[n]].order = o /\ log[batch[n]].status \notin Resting

\* A mutant of Announce: the fills already announced are not remembered.
AnnounceAll(batch) ==
  announced' = [i \in Replies |->
    IF i \in Range(batch) /\ log[i].status \in Fills THEN announced[i] + 1 ELSE announced[i]]

\* A fill of a resting order is announced, unless it has been before.  Only a maker's
\* fills and a liquidation's are, so every fill of the model is one of these; the code
\* remembers the last MAX_SEEN_FILLS = 500 of them, the model all.
Announce(batch) ==
  announced' = [i \in Replies |->
    IF i \in Range(batch) /\ announced[i] = 0 /\ log[i].status \in Fills
      THEN 1 ELSE announced[i]]

\* The end of an order whose cancel is in flight is noted, if the list is there to see it.
Watch(batch) ==
  cancels' = [o \in Orders |->
    IF shown.status = "ready" /\ cancels[o].stage # "none" /\ Ended(o, batch)
      THEN [cancels[o] EXCEPT !.finished = TRUE] ELSE cancels[o]]

Dispatch(batch) ==
  /\ shown' = Applied(batch)
  /\ Watch(batch)
  /\ Announce(batch)

-----------------------------------------------------------------------------
(* The snapshots.                                                          *)

Nothing == IF view = "orders" THEN [o \in Orders |-> "absent"] ELSE 0
NoLoad  == [phase |-> "none", value |-> Nothing, base |-> None, mine |-> 0]
Empty   == [status |-> "loading", value |-> Nothing, base |-> None]
NoCancel == [stage |-> "none", removed |-> "absent", finished |-> FALSE, base |-> None]

\* load, as call k: what is ready stays on screen.
Load(k) ==
  /\ current' = current + 1
  /\ loads' = [loads EXCEPT ![k] = [NoLoad EXCEPT !.phase = "asked", !.mine = current']]
  /\ shown' = IF shown.status = "ready" THEN shown ELSE Empty

\* GET /orders/open reads Postgres, which has the first n replies; the rest asks the engine.
Snapshot(n) ==
  IF view = "orders"
    THEN [o \in Orders |-> IF StatusAfter(n, o) \in Resting THEN StatusAfter(n, o) ELSE "absent"]
    ELSE n

\* Rows that are behind the engine are the rows of no resync.
BaseOf(k, n) == IF k = Again \/ n < Len(log) THEN None ELSE k

ReadAs(k, n) ==
  loads' = [loads EXCEPT ![k].phase = "read", ![k].value = Snapshot(n), ![k].base = BaseOf(k, n)]

\* How far db-writer has got shows when its rows are read, and only then.
ReadRows(k) ==
  /\ view = "orders" /\ loads[k].phase = "asked"
  /\ written' \in written..Len(log)
  /\ ReadAs(k, written')
  /\ UNCHANGED <<log, published, channel, view, mounted, current, shown, cancels, deposit,
                 announced, faults>>

\* GET /positions/open and /equity/balances are answered by the engine itself.
ReadStore(k) ==
  /\ view # "orders" /\ loads[k].phase = "asked"
  /\ ReadAs(k, Len(log))
  /\ UNCHANGED <<world, channel, view, mounted, current, shown, cancels, deposit, announced,
                 faults>>

\* A mutant of Overtaken: the list takes whatever answer comes last.
OvertakenNever(k) == FALSE

Late(k) == loads[k].mine # current

\* AccountProvider has no generation counter: an answer it gets is on screen.
Overtaken(k) == view # "account" /\ Late(k)

Settles(k) == loads' = [loads EXCEPT ![k] = [NoLoad EXCEPT !.phase = "done"]]

\* Only the account may owe what it shows to a call that was overtaken.
Land(k) ==
  /\ loads[k].phase = "read"
  /\ Settles(k)
  /\ shown' = IF Overtaken(k) THEN shown
              ELSE [status |-> "ready", value |-> loads[k].value,
                    base |-> IF view # "account" /\ Late(k) THEN shown.base ELSE loads[k].base]
  /\ UNCHANGED <<world, channel, view, mounted, current, cancels, deposit, announced, faults>>

LoadFails(k) ==
  /\ faults < MaxFaults
  /\ faults' = faults + 1
  /\ loads[k].phase \in {"asked", "read"}
  /\ Settles(k)
  /\ shown' = IF Overtaken(k) THEN shown ELSE [Empty EXCEPT !.status = "error"]
  /\ UNCHANGED <<world, channel, view, mounted, current, cancels, deposit, announced>>

\* "Try again" on a panel that could not load.
Retry ==
  /\ shown.status = "error"
  /\ loads[Again].phase \in {"none", "done"}
  /\ Load(Again)
  /\ UNCHANGED <<world, channel, view, mounted, cancels, deposit, announced, faults>>

\* The page of the provider is opened, whatever the channel is doing.
Mount ==
  /\ ~mounted
  /\ mounted' = TRUE
  /\ Load(0)
  /\ UNCHANGED <<world, channel, view, cancels, deposit, announced, faults>>

-----------------------------------------------------------------------------
(* The cancel button.                                                      *)

\* The row goes at once.
Cancel(o) ==
  /\ view = "orders" /\ shown.status = "ready"
  /\ shown.value[o] # "absent"
  /\ cancels[o].stage = "none"
  /\ shown' = [shown EXCEPT !.value[o] = "absent"]
  /\ cancels' = [cancels EXCEPT ![o] =
       [stage |-> "sent", removed |-> shown.value[o], finished |-> FALSE, base |-> shown.base]]
  /\ UNCHANGED <<world, channel, view, mounted, loads, current, deposit, announced, faults>>

EngineCancels(o) ==
  /\ cancels[o].stage = "sent"
  /\ IF StatusAfter(Len(log), o) \in Resting
       THEN /\ Len(log) < MaxReplies
            /\ Says(o, "cancelled")
            /\ cancels' = [cancels EXCEPT ![o].stage = "accepted"]
       ELSE /\ cancels' = [cancels EXCEPT ![o].stage = "refused"]
            /\ UNCHANGED log
  /\ UNCHANGED <<written, published, channel, view, mounted, loads, current, shown, deposit, announced,
                 faults>>

Cancelled(o) ==
  /\ cancels[o].stage = "accepted"
  /\ cancels' = [cancels EXCEPT ![o] = NoCancel]
  /\ UNCHANGED <<world, channel, view, mounted, loads, current, shown, deposit, announced, faults>>

\* The row comes back, unless the channel has said that the order is over.
Restored(o) ==
  IF shown.status = "ready" /\ shown.value[o] = "absent" /\ ~cancels[o].finished
    THEN [shown EXCEPT !.value[o] = cancels[o].removed,
                       !.base = IF @ = cancels[o].base THEN @ ELSE None]
    ELSE shown

\* The engine refuses, or the request times out, whatever the engine does with it.
CancelFails(o) ==
  /\ \/ cancels[o].stage = "refused" /\ UNCHANGED faults
     \/ /\ cancels[o].stage \in {"sent", "accepted"}
        /\ faults < MaxFaults
        /\ faults' = faults + 1
  /\ shown' = Restored(o)
  /\ cancels' = [cancels EXCEPT ![o] = NoCancel]
  /\ UNCHANGED <<world, channel, view, mounted, loads, current, deposit, announced>>

-----------------------------------------------------------------------------
(* The deposit dialog.                                                     *)

\* One request at a time: its button spins until it is answered.
Deposit ==
  /\ view = "account"
  /\ deposit.stage = "none" /\ deposit.made < MaxDeposits
  /\ deposit' = [deposit EXCEPT !.stage = "sent", !.made = @ + 1]
  /\ UNCHANGED <<world, channel, view, mounted, loads, current, shown, cancels, announced, faults>>

\* The engine adds the amount: a reply with no order behind it.
Onramp ==
  /\ deposit.stage = "sent" /\ Len(log) < MaxReplies
  /\ Says(NoOrder, "deposit")
  /\ deposit' = [deposit EXCEPT !.stage = "answered", !.at = Len(log')]
  /\ UNCHANGED <<written, published, channel, view, mounted, loads, current, shown, cancels,
                 announced, faults>>

\* applyDeposit: the figure of the answer is put on screen, over a newer one too.
ApplyDeposit ==
  IF shown.status = "ready"
    THEN [shown EXCEPT !.value = deposit.at,
                       !.base = IF shown.value > deposit.at THEN None ELSE @]
    ELSE shown

DepositOver == deposit' = [deposit EXCEPT !.stage = "none", !.at = None]

Deposited ==
  /\ deposit.stage = "answered"
  /\ shown' = ApplyDeposit
  /\ DepositOver
  /\ UNCHANGED <<world, channel, view, mounted, loads, current, cancels, announced, faults>>

\* The request fails or times out, whatever the engine does with it.
DepositFails ==
  /\ deposit.stage \in {"sent", "answered"}
  /\ faults < MaxFaults
  /\ faults' = faults + 1
  /\ DepositOver
  /\ UNCHANGED <<world, channel, view, mounted, loads, current, shown, cancels, announced>>

-----------------------------------------------------------------------------
(* The socket.                                                             *)

Closed(S) ==
  sockets' = [k \in DOMAIN sockets |->
    IF k \in S THEN [sockets[k] EXCEPT !.state = "closed"] ELSE sockets[k]]

\* teardown: the timer of the variable is cleared, the socket of the variable
\* closed, and what is under way belongs to a generation that has gone.  The
\* sockets of S have closed by themselves, and again says that a retry is scheduled.
Teardown(S, again) ==
  /\ generation' = generation + 1
  /\ buffering' = FALSE /\ buffer' = <<>>
  /\ Closed(S \cup {socket}) /\ socket' = None
  /\ timers' = (IF retryTimer THEN timers - 1 ELSE timers) + (IF again THEN 1 ELSE 0)
  /\ retryTimer' = again

\* A mutant of Connect: the variable goes on naming the timer that has fired.
ConnectNaming ==
  /\ tickets' = [tickets EXCEPT ![generation] = @ + 1]
  /\ status' = "connecting"
  /\ UNCHANGED retryTimer

\* connect: it runs up to the await of its ticket.
Connect ==
  /\ tickets' = [tickets EXCEPT ![generation] = @ + 1]
  /\ status' = "connecting"
  /\ retryTimer' = FALSE

Answered(g) == tickets[g] > 0 /\ tickets' = [tickets EXCEPT ![g] = @ - 1]

\* The ticket is there: the socket is created, unless the attempt has been abandoned.
TicketArrives(g) ==
  /\ Answered(g)
  /\ IF g # generation
       THEN UNCHANGED <<sockets, socket>>
       ELSE /\ sockets' = Append(sockets, [state |-> "opening", mine |-> g, got |-> 0, full |-> FALSE])
            /\ socket' = Len(sockets')
  /\ UNCHANGED <<world, retryTimer, timers, tab, generation, buffering, buffer, status, resyncs,
                 screen, faults>>

Backoff == status' = "reconnecting" /\ retryTimer' = TRUE /\ timers' = timers + 1

\* The API is down: the same schedule as a dropped socket.
TicketFails(g) ==
  /\ faults < MaxFaults
  /\ faults' = faults + 1
  /\ Answered(g)
  /\ IF g # generation THEN UNCHANGED <<status, retryTimer, timers>> ELSE Backoff
  /\ UNCHANGED <<world, sockets, socket, tab, generation, buffering, buffer, resyncs, screen>>

RetryFires ==
  /\ timers > 0
  /\ timers' = timers - 1
  /\ Connect
  /\ UNCHANGED <<world, sockets, socket, tab, generation, buffering, buffer, resyncs, screen,
                 faults>>

\* A refused upgrade is a close like any other: the ticket may have run out.
Refused(k) == sockets[k].state = "opening"
Broken(k)  == sockets[k].state = "open"

Keep == buffering' = TRUE /\ buffer' = <<>>

\* ws-server has let the socket in, and publishes to it from some reply on.
Subscribes(k) ==
  /\ published' \in published..Len(log)
  /\ sockets' = [sockets EXCEPT ![k].state = "open", ![k].got = published']

\* Events are kept while every provider loads.
OnOpen(k) ==
  /\ sockets[k].state = "opening"
  /\ Subscribes(k)
  /\ IF sockets[k].mine # generation
       THEN UNCHANGED <<buffering, buffer, status, resyncs, loads, current, shown>>
       ELSE /\ Keep
            /\ status' = "syncing"
            /\ resyncs' = resyncs \cup {k}
            /\ IF mounted THEN Load(k) ELSE UNCHANGED <<loads, current, shown>>
  /\ UNCHANGED <<log, written, socket, tickets, retryTimer, timers, tab, generation, view,
                 mounted, cancels, deposit, announced, faults>>

\* The buffer takes no more, and what is newest is dropped.
Full(k) == sockets[k].mine = generation /\ buffering /\ Len(buffer) >= MaxBuffer

\* The next batch for the account: published to its topic, and on its way since.
OnMessage(k) ==
  /\ sockets[k].state = "open" /\ sockets[k].got < Len(log)
  /\ sockets' = [sockets EXCEPT ![k].got = @ + 1, ![k].full = @ \/ Full(k)]
  /\ published' = Max({published, sockets[k].got + 1})
  /\ LET batch == <<sockets[k].got + 1>> IN
     CASE sockets[k].mine # generation -> UNCHANGED <<buffer, shown, cancels, announced>>
       [] sockets[k].mine = generation /\ buffering ->
            /\ buffer' = IF Full(k) THEN buffer ELSE buffer \o batch
            /\ UNCHANGED <<shown, cancels, announced>>
       [] OTHER -> Dispatch(batch) /\ UNCHANGED buffer
  /\ UNCHANGED <<log, written, socket, tickets, retryTimer, timers, tab, generation, buffering, status,
                 resyncs, view, mounted, loads, current, deposit, faults>>

\* resyncAndDrain: every snapshot has landed or failed, so what came meanwhile is
\* applied over them and the channel is live.
ResyncEnds(k) ==
  /\ k \in resyncs
  /\ loads[k].phase \in {"none", "done"}
  /\ resyncs' = resyncs \ {k}
  /\ IF sockets[k].mine # generation
       THEN UNCHANGED <<buffering, buffer, status, shown, cancels, announced>>
       ELSE /\ buffer' = <<>> /\ buffering' = FALSE
            /\ status' = "live"
            /\ Dispatch(buffer)
  /\ UNCHANGED <<world, sockets, socket, tickets, retryTimer, timers, tab, generation, view,
                 mounted, loads, current, deposit, faults>>

\* onclose and onerror are fail, on every socket that has not been torn down: the
\* drop of one that the variable no longer names tears down the one it names.
Drops(k) ==
  /\ faults < MaxFaults
  /\ faults' = faults + 1
  /\ Refused(k) \/ Broken(k)
  /\ IF socket = None
       THEN /\ Closed({k})
            /\ UNCHANGED <<socket, generation, buffering, buffer, status, retryTimer, timers>>
       ELSE Teardown({k}, TRUE) /\ status' = "reconnecting"
  /\ UNCHANGED <<world, tickets, tab, resyncs, screen>>

Hide ==
  /\ faults < MaxFaults
  /\ faults' = faults + 1
  /\ tab = "shown"
  /\ tab' = "grace"
  /\ UNCHANGED <<world, sockets, socket, tickets, retryTimer, timers, generation, buffering,
                 buffer, status, resyncs, screen>>

GraceEnds ==
  /\ tab = "grace"
  /\ tab' = "hidden"
  /\ Teardown({}, FALSE)
  /\ status' = "disconnected"
  /\ UNCHANGED <<world, tickets, resyncs, screen, faults>>

\* The tab is shown: with no socket and no timer it connects, though a ticket may be on its way.
Show ==
  /\ tab # "shown"
  /\ tab' = "shown"
  /\ IF socket = None /\ ~retryTimer THEN Connect ELSE UNCHANGED <<tickets, status, retryTimer>>
  /\ UNCHANGED <<world, sockets, socket, timers, generation, buffering, buffer, resyncs, screen,
                 faults>>

-----------------------------------------------------------------------------
\* The tab has just been loaded by somebody who is signed in: the account's
\* provider is in the root layout, the others come with the terminal.
Init ==
  /\ log = <<>> /\ written = 0 /\ published = 0
  /\ sockets = <<>> /\ socket = None
  /\ tickets = [g \in 0..MaxFaults |-> IF g = 0 THEN 1 ELSE 0]
  /\ retryTimer = FALSE /\ timers = 0 /\ tab = "shown"
  /\ generation = 0 /\ buffering = FALSE /\ buffer = <<>> /\ status = "connecting"
  /\ resyncs = {}
  /\ view \in Views
  /\ mounted = (view = "account")
  /\ loads = [k \in Calls |->
       IF mounted /\ k = 0 THEN [NoLoad EXCEPT !.phase = "asked", !.mine = 1] ELSE NoLoad]
  /\ current = (IF mounted THEN 1 ELSE 0)
  /\ shown = Empty
  /\ cancels = [o \in Orders |-> NoCancel]
  /\ deposit = [stage |-> "none", at |-> None, made |-> 0]
  /\ announced = [i \in Replies |-> 0]
  /\ faults = 0

Channel ==
  \/ \E g \in 0..MaxFaults : TicketArrives(g)
  \/ \E k \in DOMAIN sockets : OnOpen(k) \/ OnMessage(k) \/ ResyncEnds(k)
  \/ RetryFires

Answers == \E k \in Calls : ReadRows(k) \/ ReadStore(k) \/ Land(k)

Failures ==
  \/ \E k \in Calls : LoadFails(k)
  \/ \E g \in 0..MaxFaults : TicketFails(g)
  \/ \E k \in DOMAIN sockets : Drops(k)

Next ==
  \/ \E o \in Orders, s \in Resting \cup {"filled", "cancelled"} : Reply(o, s)
  \/ Channel \/ Answers \/ Failures
  \/ Hide \/ GraceEnds \/ Show
  \/ Mount \/ Retry
  \/ \E o \in Orders : Cancel(o) \/ EngineCancels(o) \/ Cancelled(o) \/ CancelFails(o)
  \/ Deposit \/ Onramp \/ Deposited \/ DepositFails

Spec == Init /\ [][Next]_vars

-----------------------------------------------------------------------------
(* Properties.                                                             *)

Rows == [Orders -> {"absent"} \cup Resting]

TypeOK ==
  /\ log \in Seq([order : Orders \cup {NoOrder},
                  status : Resting \cup {"filled", "cancelled", "deposit"}])
  /\ published \in 0..Len(log) /\ written \in 0..Len(log) /\ Len(log) <= MaxReplies
  /\ sockets \in Seq([state : {"opening", "open", "closed"}, mine : 0..MaxFaults,
                      got : 0..Len(log), full : BOOLEAN])
  /\ Len(sockets) <= MaxSockets /\ socket \in 0..Len(sockets)
  /\ tickets \in [0..MaxFaults -> Nat] /\ generation \in 0..MaxFaults
  /\ retryTimer \in BOOLEAN /\ timers \in Nat /\ (retryTimer => timers > 0)
  /\ tab \in {"shown", "grace", "hidden"}
  /\ buffering \in BOOLEAN /\ buffer \in Seq(Replies)
  /\ status \in {"connecting", "syncing", "live", "reconnecting", "disconnected"}
  /\ resyncs \subseteq DOMAIN sockets /\ view \in Views /\ mounted \in BOOLEAN
  /\ shown.status \in {"loading", "ready", "error"} /\ shown.base \in 0..MaxSockets
  /\ shown.status = "ready" => shown.value \in (IF view = "orders" THEN Rows ELSE 0..Len(log))
  /\ cancels \in [Orders -> [stage : {"none", "sent", "accepted", "refused"},
                             removed : {"absent"} \cup Resting, finished : BOOLEAN,
                             base : 0..MaxSockets]]
  /\ deposit \in [stage : {"none", "sent", "answered"}, at : 0..Len(log),
                 made : 0..MaxDeposits]
  /\ faults \in 0..MaxFaults

\* Two sockets of one generation apply every event twice, and the resync of one ends
\* the buffering of the other (user-feed.tsx:346 looks for a socket, not for a ticket).
Raced == Cardinality({k \in DOMAIN sockets : sockets[k].mine = generation}) > 1

Quiet ==
  /\ status = "live" /\ sockets[socket].got = Len(log)
  /\ \A k \in Calls : loads[k].phase \in {"none", "done"}
  /\ \A o \in Orders : cancels[o].stage = "none"

\* What a list that has nothing left to hear should say, and what it says.
Truth == IF view = "orders" THEN {o \in Orders : StatusAfter(Len(log), o) \in Resting} ELSE Len(log)
OnScreen == IF view = "orders" THEN {o \in Orders : shown.value[o] # "absent"} ELSE shown.value

\* Snapshot, then drain: what the resync of this connection loaded, with the
\* events that came during it and after it, is what the engine holds, once
\* nothing is under way and if the buffer had room for them; an order list, if
\* db-writer had caught up when it was read.  The lag of the channel, replayed
\* events, cancels that fail, providers that fail beside it and loads that come
\* late change nothing about it.
ScreenSettles ==
  /\ Quiet /\ ~Raced /\ ~sockets[socket].full
  /\ shown.status = "ready" /\ shown.base = socket
  => OnScreen = Truth

\* A fill is announced to its owner once, though it is replayed by a drain or
\* dispatched by two sockets.
AnnouncedOnce == \A i \in Replies : announced[i] <= 1
=============================================================================
