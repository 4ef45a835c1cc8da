----------------------------- MODULE MarketFeed -----------------------------
(***************************************************************************)
(* From the engine's replies to the book on the screen: ws-server          *)
(* (apps/ws-server/src/services) and the browser's market feed             *)
(* (apps/web/lib/market-feed-core.ts, market-feed.tsx).                    *)
(*                                                                         *)
(* Every engine update is an entry of the response stream: the state of one*)
(* market, under the counter that all markets share, and a print.  ws-server  *)
(* relays prints at once and market state through a window.  The browser   *)
(* opens a socket, asks for a snapshot, keeps what arrives until it has it,*)
(* and then follows the frames; it does so again whenever the socket drops,*)
(* the tab comes back or another market is chosen.                         *)
(***************************************************************************)
EXTENDS Integers, Sequences, SequencesExt, FiniteSetsExt

CONSTANTS
  Markets,     \* market ids
  First,       \* the market the terminal is opened on
  MaxBuffer,   \* MAX_BUFFER
  MaxTrades,   \* MAX_TRADES
  MaxUpdates,  \* bound: updates of the engine
  MaxEvents    \* bound: sockets cut, restarts of ws-server, requests that fail, tabs hidden,
               \* markets chosen, all together

ASSUME FeedAssumption ==
  /\ First \in Markets
  /\ MaxBuffer \in Nat \ {0} /\ MaxTrades \in Nat \ {0} /\ MaxUpdates \in Nat /\ MaxEvents \in Nat

VARIABLES
  stream,    \* the response stream: entry n is the market of update n
  read,      \* ws-server: entries it has handled
  pending,   \* createHandler: market -> the state held back, 0 when none is
  window,    \* createHandler: market -> a window is open
  wire,      \* frames on their way to the browser
  socket,    \* the browser's socket: "none", "connecting", "open", "cut"
  market,    \* the market on the screen
  machine,   \* machine.current
  screen,    \* the state React has been given
  due,       \* an animation frame has been asked for
  fetches,   \* GET /depth under way
  retry,     \* retryTimer is set
  again,     \* attempt > 0
  hidden,    \* the tab: "no", "grace", "yes"
  opened,    \* where the stream and ws-server were when the socket that is up opened, and
             \* whether MAX_BUFFER has cost it a frame
  events     \* how many of what MaxEvents bounds have happened

server  == <<read, pending, window>>
browser == <<market, machine, screen, due, fetches, retry, again, hidden>>
feedVars == <<stream, server, wire, socket, browser, opened, events>>

NoBook == 0
Ids == 1..MaxUpdates
Frames == [kind : {"depth", "trade"}, id : Ids]

\* The update that last changed the book of a market, as of update id.
Version(m, id) == Max({i \in 1..id : stream[i] = m} \cup {NoBook})

InitialMachine ==
  [depth |-> NoBook, tape |-> <<>>, source |-> "connecting", buffer |-> <<>>, buffering |-> FALSE]

State(m) == [depth |-> m.depth, tape |-> m.tape, source |-> m.source]

NotOpened == [stream |-> 0, read |-> 0, full |-> FALSE]

FeedInit ==
  /\ stream = <<>>
  /\ read = 0 /\ pending = [m \in Markets |-> NoBook] /\ window = [m \in Markets |-> FALSE]
  /\ wire = <<>> /\ socket = "connecting"
  /\ market = First
  /\ machine = InitialMachine /\ screen = State(InitialMachine) /\ due = FALSE
  /\ fetches = {} /\ retry = FALSE /\ again = FALSE /\ hidden = "no"
  /\ opened = NotOpened
  /\ events = 0

Happens == events < MaxEvents /\ events' = events + 1

-----------------------------------------------------------------------------
(* The engine and ws-server.                                               *)

\* An order, a cancel or a spot price: one reply, under the next lastUpdateId.
Update(m) ==
  /\ Len(stream) < MaxUpdates
  /\ stream' = Append(stream, m)
  /\ UNCHANGED <<server, wire, socket, browser, opened, events>>

\* server.publish: whoever is subscribed gets it.
Published(m, frames) ==
  wire' = IF m = market /\ socket = "open" THEN wire \o frames ELSE wire

Trade(id) == [kind |-> "trade", id |-> id]
Book(id) == [kind |-> "depth", id |-> id]

\* The next entry: its print at once, its state at once or when the window closes.
Handle ==
  /\ read < Len(stream)
  /\ read' = read + 1
  /\ LET m == stream[read']
     IN IF window[m]
          THEN /\ pending' = [pending EXCEPT ![m] = read']
               /\ Published(m, <<Trade(read')>>)
               /\ UNCHANGED window
          ELSE /\ Published(m, <<Trade(read'), Book(read')>>)
               /\ window' = [window EXCEPT ![m] = TRUE]
               /\ UNCHANGED pending
  /\ UNCHANGED <<stream, socket, browser, opened, events>>

\* The window of a market closes; the newest state opens another.
Flush(m) ==
  /\ window[m]
  /\ IF pending[m] = NoBook
       THEN /\ window' = [window EXCEPT ![m] = FALSE]
            /\ UNCHANGED <<pending, wire>>
       ELSE /\ Published(m, <<Book(pending[m])>>)
            /\ pending' = [pending EXCEPT ![m] = NoBook]
            /\ UNCHANGED window
  /\ UNCHANGED <<stream, read, socket, browser, opened, events>>

\* The process is replaced: its group starts at the tail, its sockets are gone.
Restart ==
  /\ Happens
  /\ read' = Len(stream)
  /\ pending' = [m \in Markets |-> NoBook] /\ window' = [m \in Markets |-> FALSE]
  /\ socket' = IF socket = "open" THEN "cut" ELSE socket
  /\ UNCHANGED <<stream, wire, browser, opened>>

-----------------------------------------------------------------------------
(* The machine: market-feed-core.ts.                                       *)

\* The tape with one more print: the newest comes first, the oldest falls off.
Printed(tape, id) ==
  <<id>> \o IF Len(tape) < MaxTrades THEN tape ELSE SubSeq(tape, 1, MaxTrades - 1)

\* A mutant of ApplyFrame: a book is taken whatever the counter says.
ApplyFrameUnguarded(m, frame) ==
  IF frame.kind = "depth" THEN [m EXCEPT !.depth = frame.id]
                          ELSE [m EXCEPT !.tape = Printed(@, frame.id)]

ApplyFrame(m, frame) ==
  CASE frame.kind = "depth" /\ (m.depth = NoBook \/ frame.id > m.depth) -> [m EXCEPT !.depth = frame.id]
    [] frame.kind = "trade" -> [m EXCEPT !.tape = Printed(@, frame.id)]
    [] OTHER -> m

OnOpen(m) == [m EXCEPT !.buffer = <<>>, !.buffering = TRUE]

OnFrame(m, frame) ==
  IF m.buffering
    THEN IF Len(m.buffer) >= MaxBuffer THEN m ELSE [m EXCEPT !.buffer = Append(@, frame)]
    ELSE ApplyFrame(m, frame)

\* A mutant of OnSnapshot: what was kept is applied newest first.
OnSnapshotReversed(m, depth) ==
  [FoldLeft(ApplyFrame, [m EXCEPT !.depth = depth, !.source = "live"], Reverse(m.buffer))
     EXCEPT !.buffer = <<>>, !.buffering = FALSE]

\* The snapshot replaces the book, and what was kept is applied to it in order.
OnSnapshot(m, depth) ==
  [FoldLeft(ApplyFrame, [m EXCEPT !.depth = depth, !.source = "live"], m.buffer)
     EXCEPT !.buffer = <<>>, !.buffering = FALSE]

OnDisconnect(m, willRetry) ==
  [m EXCEPT !.source = IF willRetry THEN "reconnecting" ELSE "disconnected",
            !.buffer = <<>>, !.buffering = FALSE]

\* A snapshot that was asked for without a socket: a socket that is up owns the book.
OnColdSnapshot(m, depth) ==
  IF m.buffering \/ m.source = "live" THEN m ELSE [m EXCEPT !.depth = depth]

OnRetrying(m) == [m EXCEPT !.source = "reconnecting", !.buffering = FALSE]

-----------------------------------------------------------------------------
(* The provider: market-feed.tsx.                                          *)

\* commit: the screen is given the state, and a flush that waits is cancelled.
Commit(m) == machine' = m /\ screen' = State(m) /\ due' = FALSE

\* commitFrame: the screen is given the newest state at the next paint.
CommitFrame(m) == machine' = m /\ due' = TRUE /\ UNCHANGED screen

Paint ==
  /\ due
  /\ due' = FALSE /\ screen' = State(machine)
  /\ UNCHANGED <<stream, server, wire, socket, market, machine, fetches, retry, again, hidden,
                 opened, events>>

\* generation: what the fetches under way bring is for a connection that is gone.
Outdated == {[f EXCEPT !.mine = FALSE] : f \in fetches}
Fetch(cold) == [mine |-> TRUE, cold |-> cold, market |-> market, at |-> NoBook, answered |-> FALSE]

\* teardown: the handlers are dropped with the socket.
Teardown == socket' = "none" /\ wire' = <<>> /\ opened' = NotOpened

\* A mutant of Fail: with a book to show, no retry is scheduled.
FailWithBook ==
  /\ Teardown
  /\ Commit(OnDisconnect(machine, TRUE))
  /\ retry' = (machine.depth = NoBook) /\ again' = TRUE
  /\ fetches' = IF machine.depth = NoBook THEN Outdated \cup {Fetch(TRUE)} ELSE Outdated
  /\ UNCHANGED <<stream, server, market, hidden>>

\* fail: without a book to show, one is asked for while the retry is awaited.
Fail ==
  /\ Teardown
  /\ Commit(OnDisconnect(machine, TRUE))
  /\ retry' = TRUE /\ again' = TRUE
  /\ fetches' = IF machine.depth = NoBook THEN Outdated \cup {Fetch(TRUE)} ELSE Outdated
  /\ UNCHANGED <<stream, server, market, hidden>>

\* A mutant of Connect: the timer that called it is not forgotten.
ConnectArmed ==
  /\ socket' = "connecting" /\ UNCHANGED retry
  /\ IF again THEN Commit(OnRetrying(machine)) ELSE UNCHANGED <<machine, screen, due>>

\* connect.
Connect ==
  /\ socket' = "connecting" /\ retry' = FALSE
  /\ IF again THEN Commit(OnRetrying(machine)) ELSE UNCHANGED <<machine, screen, due>>

RetryFires ==
  /\ retry
  /\ Connect
  /\ UNCHANGED <<stream, server, wire, market, fetches, again, hidden, opened, events>>

\* The socket opens: frames are kept from here on, and a snapshot is asked for.
Open ==
  /\ socket = "connecting"
  /\ socket' = "open"
  /\ again' = FALSE
  /\ Commit(OnOpen(machine))
  /\ fetches' = fetches \cup {Fetch(FALSE)}
  /\ opened' = [stream |-> Len(stream), read |-> read, full |-> FALSE]
  /\ UNCHANGED <<stream, server, wire, market, retry, hidden, events>>

Refused == socket = "connecting" /\ Happens /\ Fail

\* The connection breaks; what is on the wire may still arrive.
Cut ==
  /\ socket = "open"
  /\ Happens
  /\ socket' = "cut"
  /\ UNCHANGED <<stream, server, wire, browser, opened>>

Closed == socket = "cut" /\ Fail /\ UNCHANGED events

Full(m) == m.buffering /\ Len(m.buffer) >= MaxBuffer

Deliver ==
  /\ wire # <<>>
  /\ CommitFrame(OnFrame(machine, Head(wire)))
  /\ wire' = Tail(wire)
  /\ opened' = [opened EXCEPT !.full = @ \/ Full(machine)]
  /\ UNCHANGED <<stream, server, socket, market, fetches, retry, again, hidden, events>>

\* get_depth goes through the engine's own queue: the reply is of that moment.
Answer(f) ==
  /\ ~f.answered
  /\ fetches' = (fetches \ {f}) \cup {[f EXCEPT !.answered = TRUE, !.at = Len(stream)]}
  /\ UNCHANGED <<stream, server, wire, socket, market, machine, screen, due, retry, again, hidden,
                 opened, events>>

\* The reply is there: it is dropped if the connection that asked for it is.
Resolve(f) ==
  /\ f.answered
  /\ fetches' = fetches \ {f}
  /\ IF f.mine
       THEN Commit(IF f.cold THEN OnColdSnapshot(machine, f.at) ELSE OnSnapshot(machine, f.at))
       ELSE UNCHANGED <<machine, screen, due>>
  /\ UNCHANGED <<stream, server, wire, socket, market, retry, again, hidden, opened, events>>

\* The request fails: without a snapshot the connection is no use.
Reject(f) ==
  /\ Happens
  /\ IF f.mine /\ ~f.cold
       THEN /\ Teardown
            /\ Commit(OnDisconnect(machine, TRUE))
            /\ retry' = TRUE /\ again' = TRUE
            /\ fetches' = {[g EXCEPT !.mine = FALSE] : g \in fetches \ {f}}
                            \cup IF machine.depth = NoBook THEN {Fetch(TRUE)} ELSE {}
       ELSE /\ fetches' = fetches \ {f}
            /\ UNCHANGED <<wire, socket, opened, machine, screen, due, retry, again>>
  /\ UNCHANGED <<stream, server, market, hidden>>

\* The tab is hidden; a while later the connection is given up; it comes back.
Hide ==
  /\ hidden = "no" /\ Happens
  /\ hidden' = "grace"
  /\ UNCHANGED <<stream, server, wire, socket, market, machine, screen, due, fetches, retry, again,
                 opened>>

GraceEnds ==
  /\ hidden = "grace"
  /\ hidden' = "yes"
  /\ Teardown
  /\ Commit(OnDisconnect(machine, FALSE))
  /\ retry' = FALSE /\ fetches' = Outdated
  /\ UNCHANGED <<stream, server, market, again, events>>

Show ==
  /\ hidden # "no"
  /\ hidden' = "no"
  /\ IF socket = "none" /\ ~retry
       THEN again' = FALSE /\ socket' = "connecting"
       ELSE UNCHANGED <<again, socket>>
  /\ UNCHANGED <<stream, server, wire, market, machine, screen, due, fetches, retry, opened, events>>

\* Another market: everything of the old one is dropped in the same tick.
Switch(m) ==
  /\ m # market /\ hidden = "no" /\ Happens
  /\ market' = m
  /\ wire' = <<>> /\ socket' = "connecting" /\ opened' = NotOpened
  /\ Commit(InitialMachine)
  /\ fetches' = Outdated
  /\ retry' = FALSE /\ again' = FALSE
  /\ UNCHANGED <<stream, server, hidden>>

-----------------------------------------------------------------------------
Serving == Handle \/ \E m \in Markets : Flush(m)

Browsing ==
  \/ RetryFires \/ Open \/ Closed \/ Deliver \/ Paint \/ Show
  \/ \E f \in fetches : Answer(f) \/ Resolve(f)

FeedNext ==
  \/ \E m \in Markets : Update(m) \/ Switch(m)
  \/ Serving \/ Restart
  \/ Browsing \/ Refused \/ Cut \/ Hide \/ GraceEnds
  \/ \E f \in fetches : Reject(f)

\* ws-server reads and its timers fire; a browser that is looked at connects,
\* and its requests are answered or fail.  Nothing makes the engine move.
FeedSpec == FeedInit /\ [][FeedNext]_feedVars /\ WF_feedVars(Handle) /\ WF_feedVars(Browsing)
        /\ \A m \in Markets : WF_feedVars(Flush(m))

-----------------------------------------------------------------------------
(* Properties.                                                             *)

Sources == {"connecting", "live", "reconnecting", "disconnected"}
Machines == [depth : Ids \cup {NoBook}, tape : Seq(Ids), source : Sources, buffer : Seq(Frames),
             buffering : BOOLEAN]
Screens == [depth : Ids \cup {NoBook}, tape : Seq(Ids), source : Sources]
Fetches == [mine : BOOLEAN, cold : BOOLEAN, market : Markets, at : Ids \cup {NoBook},
            answered : BOOLEAN]

FeedTypeOK ==
  /\ stream \in Seq(Markets) /\ Len(stream) <= MaxUpdates
  /\ read \in 0..Len(stream)
  /\ pending \in [Markets -> Ids \cup {NoBook}] /\ window \in [Markets -> BOOLEAN]
  /\ wire \in Seq(Frames) /\ socket \in {"none", "connecting", "open", "cut"}
  /\ market \in Markets
  /\ machine \in Machines /\ screen \in Screens
  /\ fetches \subseteq Fetches
  /\ opened \in [stream : 0..Len(stream), read : 0..read, full : BOOLEAN]
  /\ {due, retry, again} \subseteq BOOLEAN /\ hidden \in {"no", "grace", "yes"}
  /\ (socket \in {"open", "connecting"} => ~retry)

\* A book that is called live is not older than the engine was when the socket
\* opened: neither a snapshot of an earlier connection nor one that was asked
\* for without a socket can stand in for the one this connection has asked for.
LiveBookIsOfThisConnection ==
  machine.source = "live" => machine.depth >= opened.stream /\ socket \in {"open", "cut"}

\* A live book is the one this connection has asked for; and whatever drops,
\* retries, is hidden or restarted, the book of a market never goes back in
\* time on the screen (market-feed-core.ts applyFrame, onSnapshot).
BookOnlyAdvances ==
  [][/\ LiveBookIsOfThisConnection'
     /\ market' = market => screen'.depth >= screen.depth]_feedVars

\* A print the tape has shown and has no room for any more: all it holds is newer.
FellOff(tape, i) == Len(tape) = MaxTrades /\ \A j \in Range(tape) : j > i

\* A live tape is the newest MAX_TRADES of the prints of its market: none of those
\* ws-server has relayed since the connection opened is missing, the ones included
\* that arrived before the snapshot did or while a window held the book back, but
\* for those that MAX_TRADES newer ones have pushed off the end - and for a burst of
\* more than MAX_BUFFER before the snapshot; and none is on the tape twice, out of
\* order or of another market, whatever reconnects.
TapeIsFaithful ==
  /\ machine.source = "live" /\ socket = "open" /\ wire = <<>> /\ ~opened.full =>
       \A i \in opened.read + 1..read :
         stream[i] = market => i \in Range(machine.tape) \/ FellOff(machine.tape, i)
  /\ \A i \in 1..Len(machine.tape) - 1 : machine.tape[i] > machine.tape[i + 1]
  /\ \A i \in Range(machine.tape) : stream[i] = market

\* A tab that is looked at goes live again after every drop, failure or restart,
\* the last as much as the first; and a connection that stays live ends up with
\* the latest book, although states are skipped by the window and frames dropped
\* by the guard; unless the snapshot was so late that frames were dropped by
\* MAX_BUFFER.
FeedRecovers ==
  /\ <>[](hidden = "no") => []<>(machine.source = "live" /\ screen.source = "live")
  /\ <>[](machine.source = "live" /\ ~opened.full) =>
       <>[](Version(market, screen.depth) = Version(market, Len(stream)))
=============================================================================
