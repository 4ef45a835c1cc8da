---------------------------- MODULE TradeHistory ----------------------------
(***************************************************************************)
(* The record of trades and the tab that shows it: the rows the db-writer  *)
(* makes of the engine's replies (writer.ts), GET /fills with its cursor   *)
(* (order-service.ts, fill-view.ts), the history tabs of the terminal      *)
(* (web/lib/history.tsx, order-history.ts), and the script that prunes what*)
(* the market maker leaves behind (packages/db/src/prune-bots.ts).         *)
(*                                                                         *)
(* Postgres keeps created_at in microseconds; the driver hands out a Date, *)
(* which keeps milliseconds, and the cursor is made of that.               *)
(***************************************************************************)
EXTENDS Integers, Sequences, FiniteSets, SequencesExt

CONSTANTS
  Orders,     \* the orders
  Accounts,   \* who may sign in on this tab
  Traders,    \* those of them who place orders, next to the bots
  Bots,       \* the accounts of the market maker, as one
  PageSize,   \* FILLS_PAGE_SIZE
  Micros,     \* bound: microseconds told apart in a millisecond
  MaxFills,   \* bound: fills
  MaxLoads    \* bound: loads of the tab, and sign-outs

Nobody  == "nobody"
Unknown == "unknown"

ASSUME HistoryAssumption ==
  /\ Traders \subseteq Accounts /\ Bots \notin Accounts /\ {Nobody, Unknown} \cap Accounts = {}
  /\ Bots # Nobody
  /\ {PageSize, Micros} \subseteq Nat \ {0} /\ {MaxFills, MaxLoads} \subseteq Nat

VARIABLES
  book,        \* the engine: the orders that rest
  backlog,     \* its replies that the db-writer has not handled
  owner,       \* order -> who has placed it
  rows,        \* Postgres, orders: order -> "open", "closed", or "none" without a row
  fills,       \* Postgres, fills: what has been inserted, in that order
  table,       \* Postgres, fills: the indices of those that are there
  stuck,       \* the db-writer dies of the next reply, as often as it is started
  up,          \* the stack runs
  account,     \* session: who is signed in, Nobody, or Unknown before /me is answered
  activated, generation, cursor,
  state,       \* what is on screen; ends are the cursors of its pages that another page follows,
               \* and spliced says that a page was added to a list it was not asked from
  loads,       \* the loads under way
  page         \* the "Load more" under way: loadingMore

exchange == <<book, backlog, owner, rows, fills, table, stuck, up>>
tab      == <<account, activated, generation, cursor, state, loads, page>>
vars == <<exchange, tab>>

None    == [at |-> 0, key |-> 0]      \* no cursor
NoPage  == [stage |-> "none", mine |-> 0, who |-> Nobody, after |-> None, list |-> <<>>, next |-> None]
Idle    == [status |-> "idle", fills |-> <<>>, ends |-> {}, spliced |-> FALSE]

Init ==
  /\ book = {} /\ backlog = <<>>
  /\ owner = [o \in Orders |-> Nobody] /\ rows = [o \in Orders |-> "none"]
  /\ fills = <<>> /\ table = {} /\ stuck = FALSE /\ up = TRUE
  /\ account = Unknown /\ activated = FALSE /\ generation = 0
  /\ cursor = None /\ state = Idle /\ loads = {} /\ page = NoPage

-----------------------------------------------------------------------------
(* The exchange.                                                           *)

Unused == {o \in Orders : owner[o] = Nobody}

\* The backend inserts the row of a limit order, and the engine lets it rest.
Place(o, who) ==
  /\ up /\ o \in Unused
  /\ owner' = [owner EXCEPT ![o] = who]
  /\ rows' = [rows EXCEPT ![o] = "open"]
  /\ book' = book \cup {o}
  /\ UNCHANGED <<backlog, fills, table, stuck, up, tab>>

\* A market order takes from the orders of makers, which are filled but for those that rest on.
Sweep(o, who, makers, rest) ==
  /\ up /\ o \in Unused
  /\ backlog = <<>>
  /\ Len(fills) + Cardinality(makers) <= MaxFills
  /\ owner' = [owner EXCEPT ![o] = who]
  /\ rows' = [rows EXCEPT ![o] = "open"]
  /\ book' = (book \ makers) \cup rest
  /\ backlog' = <<[taker |-> o, makers |-> makers, rest |-> rest]>>
  /\ UNCHANGED <<fills, table, stuck, up, tab>>

\* One transaction: order updates, which pass by a missing row, then the fills,
\* whose foreign keys do not.  They share its timestamp, and their ids are random.
Write ==
  /\ up /\ ~stuck /\ backlog # <<>>
  /\ LET reply == backlog[1]
         orders == reply.makers \cup {reply.taker}
         first == Len(fills) + 1
         last == Len(fills) + Cardinality(reply.makers)
     IN IF \E o \in orders : rows[o] = "none"
          THEN stuck' = TRUE /\ UNCHANGED <<backlog, rows, fills, table>>
          ELSE \E at \in {IF fills = <<>> THEN d ELSE fills[Len(fills)].at + d : d \in 1..Micros},
                  makers \in {SetToSeq(reply.makers)},
                  keys \in {k \in [first..last -> 1..MaxFills] : \A i \in first..last :
                              /\ \A j \in DOMAIN fills : fills[j].key # k[i]
                              /\ \A j \in first..last : i # j => k[i] # k[j]} :
                 /\ fills' = fills \o [n \in DOMAIN makers |->
                      [maker |-> makers[n], taker |-> reply.taker, at |-> at, key |-> keys[first + n - 1]]]
                 /\ table' = table \cup first..last
                 /\ rows' = [o \in Orders |-> IF o \in orders \ reply.rest THEN "closed" ELSE rows[o]]
                 /\ backlog' = <<>>
                 /\ UNCHANGED stuck
  /\ UNCHANGED <<book, owner, up, tab>>

\* The stack goes down, and comes up again with the engine's book of its last
\* snapshot; before this tab is loaded, to which it would be one failure more.
Switch ==
  /\ account = Unknown /\ ~activated
  /\ up' = ~up
  /\ UNCHANGED <<book, backlog, owner, rows, fills, table, stuck, tab>>

-----------------------------------------------------------------------------
(* pruneBotData.                                                           *)

\* A mutant of Noise: a fill with a bot on either side counts as noise.
NoiseOnEitherSide == {i \in table : owner[fills[i].maker] = Bots \/ owner[fills[i].taker] = Bots}

Noise == {i \in table : owner[fills[i].maker] = Bots /\ owner[fills[i].taker] = Bots}

\* The bots' orders that no fill points at once the noise is gone; one that rests is one of them.
Orphans == {o \in Orders : /\ owner[o] = Bots /\ rows[o] # "none"
                           /\ \A i \in table \ Noise : o \notin {fills[i].maker, fills[i].taker}}

\* With the stack down.
Prune ==
  /\ ~up
  /\ table' = table \ Noise
  /\ rows' = [o \in Orders |-> IF o \in Orphans THEN "none" ELSE rows[o]]
  /\ UNCHANGED <<book, backlog, owner, fills, stuck, up, tab>>

-----------------------------------------------------------------------------
(* GET /fills and GET /orders.                                             *)

Newer(i, j) == \/ fills[i].at > fills[j].at
               \/ fills[i].at = fills[j].at /\ fills[i].key > fills[j].key

Ms(i) == fills[i].at \div Micros

FillsOf(who) == {i \in table : who \in {owner[fills[i].maker], owner[fills[i].taker]}}

\* encodeFillCursor and decodeFillCursor: toISOString ends at the millisecond.
CursorOf(i) == [at |-> Micros * Ms(i), key |-> fills[i].key]

Before(i, c) == \/ c = None
                \/ fills[i].at < c.at
                \/ fills[i].at = c.at /\ fills[i].key < c.key

\* The members of S in the order in which they come.
Ranked(S, Ahead(_, _)) ==
  [n \in 1..Cardinality(S) |-> CHOOSE i \in S : Cardinality({j \in S : Ahead(j, i)}) = n - 1]

\* A mutant of PageOf: the cursor is made of the row that was read to see if there is more.
PageOfNext(who, after) ==
  LET found == Ranked({i \in FillsOf(who) : Before(i, after)}, Newer)
      size == IF Len(found) < PageSize THEN Len(found) ELSE PageSize
  IN [list |-> SubSeq(found, 1, size),
      next |-> IF Len(found) > PageSize THEN CursorOf(found[size + 1]) ELSE None]

PageOf(who, after) ==
  LET found == Ranked({i \in FillsOf(who) : Before(i, after)}, Newer)
      size == IF Len(found) < PageSize THEN Len(found) ELSE PageSize
  IN [list |-> SubSeq(found, 1, size),
      next |-> IF Len(found) > PageSize THEN CursorOf(found[size]) ELSE None]

\* fillViewsFor: a self-trade is on both sides of the account, maker first.
Views(i, who) ==
  (IF who = owner[fills[i].maker] THEN <<[id |-> i, role |-> "maker"]>> ELSE <<>>)
  \o (IF who = owner[fills[i].taker] THEN <<[id |-> i, role |-> "taker"]>> ELSE <<>>)

ViewsOf(list, who) == FlattenSeq([n \in DOMAIN list |-> Views(list[n], who)])

-----------------------------------------------------------------------------
(* HistoryProvider.                                                        *)

\* load: rows that are on screen stay there.
Load(who) ==
  /\ generation < MaxLoads
  /\ generation' = generation + 1
  /\ loads' = loads \cup {[mine |-> generation', who |-> who, read |-> FALSE,
                            list |-> <<>>, next |-> None]}
  /\ state' = IF state.status = "ready" THEN state ELSE [Idle EXCEPT !.status = "loading"]

SignedIn == account \in Accounts

\* The tab is opened, and it loads as soon as the session is known.
Activate ==
  /\ up /\ ~activated /\ account # Nobody
  /\ activated' = TRUE
  /\ IF SignedIn THEN Load(account) ELSE UNCHANGED <<generation, loads, state>>
  /\ UNCHANGED <<exchange, account, cursor, page>>

\* It is opened again, the window is focused, or "Retry" is pressed.
Refresh ==
  /\ activated /\ SignedIn
  /\ Load(account)
  /\ UNCHANGED <<exchange, account, activated, cursor, page>>

Read(l) ==
  /\ ~l.read
  /\ LET result == PageOf(l.who, None) IN
     loads' = (loads \ {l}) \cup {[l EXCEPT !.read = TRUE, !.list = result.list, !.next = result.next]}
  /\ UNCHANGED <<exchange, account, activated, generation, cursor, state, page>>

\* A load that started before a newer one is dropped.
Land(l) ==
  /\ l.read
  /\ loads' = loads \ {l}
  /\ IF l.mine = generation
       THEN /\ cursor' = l.next
            /\ state' = [Idle EXCEPT !.status = "ready", !.fills = ViewsOf(l.list, l.who)]
       ELSE UNCHANGED <<cursor, state>>
  /\ UNCHANGED <<exchange, account, activated, generation, page>>

LoadFails(l) ==
  /\ ~l.read
  /\ loads' = loads \ {l}
  /\ IF l.mine = generation
       THEN cursor' = None /\ state' = [Idle EXCEPT !.status = "error"]
       ELSE UNCHANGED <<cursor, state>>
  /\ UNCHANGED <<exchange, account, activated, generation, page>>

\* loadMore, from the cursor of the list on screen, which a refresh may be about to replace.
LoadMore ==
  /\ cursor # None /\ page = NoPage
  /\ page' = [NoPage EXCEPT !.stage = "asked", !.mine = generation, !.who = account, !.after = cursor]
  /\ UNCHANGED <<exchange, account, activated, generation, cursor, state, loads>>

ReadPage ==
  /\ page.stage = "asked"
  /\ LET result == PageOf(page.who, page.after) IN
     page' = [page EXCEPT !.stage = "read", !.list = result.list, !.next = result.next]
  /\ UNCHANGED <<exchange, account, activated, generation, cursor, state, loads>>

\* Rows that are there are not added again; then byNewest, which is stable: by the millisecond.
Extended(views) ==
  LET all == state.fills \o views
      kept == {n \in DOMAIN all : n <= Len(state.fills) \/ all[n] \notin Range(state.fills)}
      ahead(m, n) == Ms(all[m].id) > Ms(all[n].id) \/ (Ms(all[m].id) = Ms(all[n].id) /\ m < n)
      order == Ranked(kept, ahead)
  IN [n \in DOMAIN order |-> all[order[n]]]

PageLands ==
  /\ page.stage = "read"
  /\ page' = NoPage
  /\ IF page.mine = generation
       THEN /\ cursor' = page.next
            /\ state' = IF state.status = "ready"
                 THEN [state EXCEPT !.fills = Extended(ViewsOf(page.list, page.who)),
                                    !.ends = @ \cup {page.after},
                                    !.spliced = @ \/ page.after # cursor]
                 ELSE state
       ELSE UNCHANGED <<cursor, state>>
  /\ UNCHANGED <<exchange, account, activated, generation, loads>>

\* What is on screen is still true, and the cursor is kept.
PageFails ==
  /\ page.stage = "asked"
  /\ page' = NoPage
  /\ UNCHANGED <<exchange, account, activated, generation, cursor, state, loads>>

-----------------------------------------------------------------------------
(* The session.                                                            *)

\* A mutant of SignOut: the cursor outlives the session.
SignOutKeeping ==
  /\ up /\ account # Nobody /\ generation < MaxLoads
  /\ account' = Nobody /\ activated' = FALSE
  /\ generation' = generation + 1
  /\ state' = Idle
  /\ UNCHANGED <<exchange, cursor, loads, page>>

\* The session ends, or /me says that there is none.
SignOut ==
  /\ up /\ account # Nobody /\ generation < MaxLoads
  /\ account' = Nobody /\ activated' = FALSE
  /\ generation' = generation + 1
  /\ cursor' = None /\ state' = Idle
  /\ UNCHANGED <<exchange, loads, page>>

\* Somebody signs in, or /me says who is.
SignIn(who) ==
  /\ up /\ ~SignedIn
  /\ account' = who
  /\ IF activated THEN Load(who) ELSE UNCHANGED <<generation, loads, state>>
  /\ UNCHANGED <<exchange, activated, cursor, page>>

-----------------------------------------------------------------------------
Trading ==
  \/ \E o \in Orders, who \in Traders \cup {Bots} :
       \/ Place(o, who)
       \/ \E makers \in SUBSET book \ {{}} : \E rest \in SUBSET makers : Sweep(o, who, makers, rest)
  \/ Write \/ Switch \/ Prune

Next ==
  \/ Trading
  \/ Activate \/ Refresh
  \/ \E l \in loads : Read(l) \/ Land(l) \/ LoadFails(l)
  \/ LoadMore \/ ReadPage \/ PageLands \/ PageFails
  \/ SignOut \/ \E who \in Accounts : SignIn(who)

Spec == Init /\ [][Next]_vars

-----------------------------------------------------------------------------
(* Properties.                                                             *)

Cursors == [at : Nat, key : 0..MaxFills]

TypeOK ==
  /\ book \subseteq Orders /\ Len(backlog) <= 1
  /\ owner \in [Orders -> Accounts \cup {Bots, Nobody}]
  /\ rows \in [Orders -> {"none", "open", "closed"}]
  /\ fills \in Seq([maker : Orders, taker : Orders, at : Nat \ {0}, key : 1..MaxFills])
  /\ table \subseteq DOMAIN fills
  /\ {stuck, up, activated} \subseteq BOOLEAN /\ generation \in 0..MaxLoads
  /\ account \in Accounts \cup {Nobody, Unknown}
  /\ cursor \in Cursors
  /\ state.status \in {"idle", "loading", "ready", "error"}
  /\ state.fills \in Seq([id : DOMAIN fills, role : {"maker", "taker"}])
  /\ \A l \in loads : l.mine \in 1..MaxLoads /\ l.who \in Accounts
  /\ page.stage \in {"none", "asked", "read"} /\ page.after \in Cursors
  /\ ~SignedIn => cursor = None /\ state.fills = <<>>

Shown == {v.id : v \in Range(state.fills)}

\* A fill that the page after a row on screen has passed by: it is older than the
\* row, of its millisecond, and not before the cursor that was made of the row.
CutOff(i) == \E j \in Shown :
  /\ CursorOf(j) \in state.ends
  /\ Newer(j, i) /\ Ms(j) = Ms(i) /\ ~Before(i, CursorOf(j))

\* The history on screen is an unbroken run of the fills of the account that is
\* signed in, both sides of a self-trade once, through refreshes, pages, failures,
\* sign-outs and trades in between; but for fills cut off where a page ended, and
\* for a list to which a page was added that it was not asked from.  The cursor was
\* meant to cut off nothing (fill-view.ts: "the ordering total"; order-service.ts:
\* "total-ordered"): as it keeps milliseconds of a time in microseconds, it does.
HistoryIsUnbroken ==
  /\ Shown \subseteq FillsOf(account)
  /\ \A i \in Shown : \A v \in Range(Views(i, account)) :
       Cardinality({n \in DOMAIN state.fills : state.fills[n] = v}) = 1
  /\ ~state.spliced => \A i \in FillsOf(account) \ Shown :
       (\E j \in Shown : Newer(j, i)) /\ (\E j \in Shown : Newer(i, j)) => CutOff(i)

\* Pruning keeps every fill with a human on one side, and the orders on both of
\* its sides, whoever placed them.
HumanTradesSurvive ==
  \A i \in DOMAIN fills :
    {owner[fills[i].maker], owner[fills[i].taker]} \cap Accounts # {} =>
      i \in table /\ rows[fills[i].maker] # "none" /\ rows[fills[i].taker] # "none"
=============================================================================
