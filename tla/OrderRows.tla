----------------------------- MODULE OrderRows -----------------------------
(***************************************************************************)
(* The life of an order's row in Postgres.  Two processes write it: the    *)
(* backend (apps/backend/src/services order-service.ts, backend-comms.ts)  *)
(* inserts it before it asks the engine and retires it when the engine     *)
(* refuses or does not answer in time; the db-writer (apps/db-writer/src)  *)
(* applies what the engine's reply stream says.  Neither waits for the     *)
(* other.                                                                  *)
(*                                                                         *)
(* The engine is seen through its answers: it takes the requests in turn,  *)
(* and an answer carries the correlation id of its request, what became of *)
(* the order, and whether there is a fill to store.  An answer is about one*)
(* order; a trade that touches two is two answers here.                    *)
(***************************************************************************)
EXTENDS Integers, Sequences, FiniteSets, FiniteSetsExt

CONSTANTS
  Orders,       \* order ids
  Quantity,     \* what every order asks for
  MaxReplies,   \* bound: entries of the reply stream
  MaxCrashes,   \* bound: crashes of the db-writer
  MaxDrops,     \* bound: connections the db-writer loses under a Redis command
  MaxRepeats    \* bound: requests the engine answers a second time after a restart

ASSUME RowsAssumption ==
  /\ Quantity \in Nat \ {0}
  /\ MaxReplies \in Nat /\ MaxCrashes \in Nat /\ MaxDrops \in Nat /\ MaxRepeats \in Nat

ReplyIds == 1..MaxReplies
Absent == [status |-> "absent", filledQty |-> 0]
Resting == {"open", "partially_filled"}
None == 0

VARIABLES
  (* Postgres *)
  rows,       \* order -> status and filledQty
  events,     \* processed_events: the correlation ids that have been written
  fills,      \* reply -> how often its fills have been inserted
  (* the backend *)
  calls,      \* order -> what createOrder is at
  canceling,  \* orders whose cancel_order has been sent
  heard,      \* replies the backend's listener has read
  wire,       \* requests handed to the Redis client, not yet on the stream
  (* the engine *)
  requests,   \* the request stream, without what the engine is done with
  engine,     \* order -> what the engine has made of it
  replies,    \* the reply stream
  (* the db-writer and its consumer group *)
  phase, batch, current, delivered, pending, idle,
  (* the environment, and what the properties refer to *)
  crashes, drops, repeats,
  overtaken   \* replies that a later one was written before

db      == <<rows, events, fills>>
backend == <<calls, canceling, heard, wire>>
trader  == <<requests, engine, replies>>
group   == <<delivered, pending, idle>>
writer  == <<phase, batch, current>>
faults  == <<crashes, drops, repeats>>
vars == <<db, backend, trader, group, writer, faults, overtaken>>

Init ==
  /\ rows = [o \in Orders |-> Absent] /\ events = {} /\ fills = [i \in ReplyIds |-> 0]
  /\ calls = [o \in Orders |-> "none"] /\ canceling = {} /\ heard = 0 /\ wire = {}
  /\ requests = <<>> /\ engine = [o \in Orders |-> Absent] /\ replies = <<>>
  /\ phase = "down" /\ batch = {} /\ current = None
  /\ delivered = 0 /\ pending = {} /\ idle = {}
  /\ crashes = 0 /\ drops = 0 /\ repeats = 0 /\ overtaken = {}

-----------------------------------------------------------------------------
(* The backend.                                                            *)

\* createOrder: the row is inserted, then sendToEngine starts its timer and hands the request over.
InsertRow(o) ==
  /\ calls[o] = "none"
  /\ rows' = [rows EXCEPT ![o] = [status |-> "pending", filledQty |-> 0]]
  /\ calls' = [calls EXCEPT ![o] = "waiting"]
  /\ wire' = wire \cup {[type |-> "create", order |-> o]}
  /\ UNCHANGED <<events, fills, canceling, heard, trader, group, writer, faults, overtaken>>

\* The xAdd of a request arrives, however late: the client queues it while it
\* is offline.  Two requests may come from two replicas of the backend.
Arrive(r) ==
  /\ wire' = wire \ {r}
  /\ requests' = Append(requests, r)
  /\ UNCHANGED <<db, calls, canceling, heard, engine, replies, group, writer, faults, overtaken>>

\* The xAdd fails: the connection went under it, and whether it arrived is not known.
SendFails(o) ==
  LET r == [type |-> "create", order |-> o]
  IN  /\ calls[o] = "waiting"
      /\ r \in wire
      /\ wire' = wire \ {r}
      /\ requests' \in {requests, Append(requests, r)}
      /\ calls' = [calls EXCEPT ![o] = "settling"]
      /\ UNCHANGED <<db, canceling, heard, engine, replies, group, writer, faults, overtaken>>

\* A mutant of Timeout: createOrder gives up without retiring the row.
TimeoutForgets(o) ==
  /\ calls[o] = "waiting"
  /\ calls' = [calls EXCEPT ![o] = "done"]
  /\ UNCHANGED <<db, canceling, heard, wire, trader, group, writer, faults, overtaken>>

\* The engine does not answer within ENGINE_TIMEOUT_MS.
Timeout(o) ==
  /\ calls[o] = "waiting"
  /\ calls' = [calls EXCEPT ![o] = "settling"]
  /\ UNCHANGED <<db, canceling, heard, wire, trader, group, writer, faults, overtaken>>

\* The next reply resolves the promise of its correlation id, if somebody still waits for it.
Hear ==
  LET reply == replies[heard + 1]
      o == reply.corr.order
  IN  /\ heard < Len(replies)
      /\ heard' = heard + 1
      /\ calls' = IF reply.corr.type = "create" /\ calls[o] = "waiting"
                    THEN [calls EXCEPT ![o] = IF reply.ok THEN "done" ELSE "settling"]
                    ELSE calls
      /\ UNCHANGED <<db, canceling, wire, trader, group, writer, faults, overtaken>>

\* A mutant of Settle: the row is retired whatever has become of it.
SettleAnything(o) ==
  /\ calls[o] = "settling"
  /\ calls' = [calls EXCEPT ![o] = "done"]
  /\ rows' = [rows EXCEPT ![o].status = "cancelled"]
  /\ UNCHANGED <<events, fills, canceling, heard, wire, trader, group, writer, faults, overtaken>>

\* settleRejectedOrder: the row is retired if nobody else has moved it on.
Settle(o) ==
  /\ calls[o] = "settling"
  /\ calls' = [calls EXCEPT ![o] = "done"]
  /\ rows' = [rows EXCEPT ![o].status = IF @ = "pending" THEN "cancelled" ELSE @]
  /\ UNCHANGED <<events, fills, canceling, heard, wire, trader, group, writer, faults, overtaken>>

\* The backend dies, or fails to settle and says so in its log.  A new process
\* reads replies from now on and knows nobody who waits for one.
BackendStops(o) ==
  /\ calls[o] \in {"waiting", "settling"}
  /\ calls' = [calls EXCEPT ![o] = "dead"]
  /\ wire' = {r \in wire : r.order # o}
  /\ UNCHANGED <<db, canceling, heard, trader, group, writer, faults, overtaken>>

\* cancelOrder asks the engine about any order that has a row, once here.
RequestCancel(o) ==
  /\ rows[o] # Absent
  /\ o \notin canceling
  /\ canceling' = canceling \cup {o}
  /\ wire' = wire \cup {[type |-> "cancel", order |-> o]}
  /\ UNCHANGED <<db, calls, heard, trader, group, writer, faults, overtaken>>

-----------------------------------------------------------------------------
(* The engine.                                                             *)

Reply(corr, ok, state, traded) ==
  [corr |-> corr, ok |-> ok, order |-> corr.order, status |-> state.status,
   filledQty |-> state.filledQty, traded |-> traded]

\* What placeOrder may make of an order: it rests, with some of it filled or
\* none, it is filled, or it is a market order that found too little.
Outcomes ==
  {s \in [status : {"open", "partially_filled", "filled", "cancelled"}, filledQty : 0..Quantity] :
     CASE s.status = "open" -> s.filledQty = 0
       [] s.status = "partially_filled" -> s.filledQty \in 1..Quantity - 1
       [] s.status = "filled" -> s.filledQty = Quantity
       [] OTHER -> s.filledQty < Quantity}

Refusal(corr) == Reply(corr, FALSE, Absent, FALSE)

HandleCreate(o) ==
  LET corr == [type |-> "create", order |-> o, n |-> 0]
  IN  /\ Len(replies) < MaxReplies
      /\ requests # <<>> /\ Head(requests) = [type |-> "create", order |-> o]
      /\ requests' = Tail(requests)
      /\ \/ /\ replies' = Append(replies, Refusal(corr))
            /\ UNCHANGED engine
         \/ \E s \in Outcomes :
              /\ engine' = [engine EXCEPT ![o] = s]
              /\ replies' = Append(replies, Reply(corr, TRUE, s, s.filledQty > 0))
      /\ UNCHANGED <<db, backend, group, writer, faults, overtaken>>

HandleCancel(o) ==
  LET corr == [type |-> "cancel", order |-> o, n |-> 0]
      gone == [engine[o] EXCEPT !.status = "cancelled"]
  IN  /\ Len(replies) < MaxReplies
      /\ requests # <<>> /\ Head(requests) = [type |-> "cancel", order |-> o]
      /\ requests' = Tail(requests)
      /\ IF engine[o].status \in Resting
           THEN /\ engine' = [engine EXCEPT ![o] = gone]
                /\ replies' = Append(replies, Reply(corr, TRUE, gone, FALSE))
           ELSE /\ UNCHANGED engine
                /\ replies' = Append(replies, Refusal(corr))
      /\ UNCHANGED <<db, backend, group, writer, faults, overtaken>>

\* Somebody else's order trades with this one while it rests.
MakerFill(o) ==
  LET more == engine[o].filledQty + 1
      s == [status |-> IF more = Quantity THEN "filled" ELSE "partially_filled",
            filledQty |-> more]
  IN  /\ Len(replies) < MaxReplies
      /\ engine[o].status \in Resting
      /\ engine' = [engine EXCEPT ![o] = s]
      /\ replies' = Append(replies, Reply([type |-> "other", order |-> o, n |-> more], TRUE, s, TRUE))
      /\ UNCHANGED <<db, backend, requests, group, writer, faults, overtaken>>

\* The engine restarts and takes in hand again a create_order that it had
\* answered and not acknowledged (EngineStream!Claim).  Its store may make
\* something else of it: another answer with the same correlation id.
AnswerAgain(i) ==
  LET corr == replies[i].corr
      o == corr.order
  IN  /\ Len(replies) < MaxReplies
      /\ repeats < MaxRepeats
      /\ repeats' = repeats + 1
      /\ corr.type = "create"
      /\ \/ /\ replies' = Append(replies, Refusal(corr))
            /\ UNCHANGED engine
         \/ \E s \in Outcomes :
              /\ replies' = Append(replies, Reply(corr, TRUE, s, s.filledQty > 0))
              /\ engine' = [engine EXCEPT ![o] = IF @ = Absent THEN s ELSE @]
      /\ UNCHANGED <<db, backend, requests, group, writer, crashes, drops, overtaken>>

-----------------------------------------------------------------------------
(* The db-writer: setup-comms.ts around writer.ts.                         *)

Start ==
  /\ phase = "down"
  /\ phase' = "claiming"
  /\ UNCHANGED <<db, backend, trader, group, batch, current, faults, overtaken>>

\* A second passes: what is pending may be claimed.
SecondPasses ==
  /\ idle # pending
  /\ idle' = pending
  /\ UNCHANGED <<db, backend, trader, writer, delivered, pending, faults, overtaken>>

Claim ==
  /\ phase = "claiming" /\ batch = {} /\ current = None
  /\ idle # {}
  /\ batch' = idle
  /\ idle' = {}
  /\ UNCHANGED <<db, backend, trader, delivered, pending, phase, current, faults, overtaken>>

ClaimingEnds ==
  /\ phase = "claiming" /\ batch = {} /\ current = None
  /\ idle = {}
  /\ phase' = "listening"
  /\ UNCHANGED <<db, backend, trader, group, batch, current, faults, overtaken>>

Read ==
  /\ phase = "listening" /\ batch = {} /\ current = None
  /\ delivered < Len(replies)
  /\ delivered' = delivered + 1
  /\ pending' = pending \cup {delivered'}
  /\ batch' = {delivered'}
  /\ UNCHANGED <<db, backend, trader, idle, phase, current, faults, overtaken>>

\* The connection goes under xReadGroup's answer: delivered, and nobody has it.
ReadDropped ==
  /\ phase = "listening" /\ batch = {} /\ current = None
  /\ delivered < Len(replies)
  /\ drops < MaxDrops
  /\ drops' = drops + 1
  /\ delivered' = delivered + 1
  /\ pending' = pending \cup {delivered'}
  /\ UNCHANGED <<db, backend, trader, idle, writer, crashes, repeats, overtaken>>

\* A mutant of HasRows: a reply is written only if every table has something in it.
HasEveryRow(reply) == reply.ok /\ reply.traded

HasRows(reply) == reply.ok

\* A mutant of Duplicate: nobody looks at processed_events.
DuplicateNever(reply) == FALSE

\* checkProcessedEvents: the insert fails with 23505 and takes the transaction with it.
Duplicate(reply) == HasRows(reply) /\ reply.corr \in events

Taken(i) == current = None /\ i \in batch /\ \A j \in batch : i <= j

\* handleResponse in one transaction: the event, the order's row, the fills.
Write(i) ==
  LET reply == replies[i]
  IN  /\ Taken(i)
      /\ ~Duplicate(reply)
      /\ IF HasRows(reply)
           THEN /\ events' = events \cup {reply.corr}
                /\ rows' = [rows EXCEPT ![reply.order] =
                              [status |-> reply.status, filledQty |-> reply.filledQty]]
                /\ fills' = [fills EXCEPT ![i] = IF reply.traded THEN @ + 1 ELSE @]
                /\ overtaken' = overtaken \cup {j \in pending : j < i}
           ELSE UNCHANGED <<db, overtaken>>
      /\ batch' = batch \ {i}
      /\ current' = i
      /\ UNCHANGED <<backend, trader, group, phase, faults>>

\* Taking over pending entries, a duplicate is acknowledged; reading the
\* stream, the batch is left as it is and stays pending.
SkipDuplicate(i) ==
  /\ Taken(i)
  /\ Duplicate(replies[i])
  /\ batch' = batch \ {i}
  /\ current' = IF phase = "claiming" THEN i ELSE None
  /\ UNCHANGED <<db, backend, trader, group, phase, faults, overtaken>>

\* A mutant of Ack: the whole batch is acknowledged with its first entry.
AckBatch ==
  /\ current # None
  /\ pending' = pending \ (batch \cup {current})
  /\ idle' = idle \ (batch \cup {current})
  /\ current' = None
  /\ UNCHANGED <<db, backend, trader, delivered, phase, batch, faults, overtaken>>

Ack ==
  /\ current # None
  /\ pending' = pending \ {current}
  /\ idle' = idle \ {current}
  /\ current' = None
  /\ UNCHANGED <<db, backend, trader, delivered, phase, batch, faults, overtaken>>

\* The connection goes under the xAck; the loop reads on.
AckDropped ==
  /\ phase = "listening" /\ current # None
  /\ drops < MaxDrops
  /\ drops' = drops + 1
  /\ current' = None
  /\ UNCHANGED <<db, backend, trader, group, phase, batch, crashes, repeats, overtaken>>

\* The process dies, of a failed write too, between any two steps.
Crash ==
  /\ phase # "down"
  /\ crashes < MaxCrashes
  /\ crashes' = crashes + 1
  /\ phase' = "down" /\ batch' = {} /\ current' = None
  /\ UNCHANGED <<db, backend, trader, group, drops, repeats, overtaken>>

-----------------------------------------------------------------------------
WriterWork ==
  \/ Start \/ Claim \/ ClaimingEnds \/ Read \/ Ack
  \/ \E i \in batch : Write(i) \/ SkipDuplicate(i)

Next ==
  \/ \E o \in Orders :
       \/ InsertRow(o) \/ SendFails(o) \/ Timeout(o) \/ Settle(o) \/ BackendStops(o)
       \/ RequestCancel(o)
       \/ HandleCreate(o) \/ HandleCancel(o) \/ MakerFill(o)
  \/ \E r \in wire : Arrive(r)
  \/ Hear
  \/ \E i \in DOMAIN replies : AnswerAgain(i)
  \/ WriterWork
  \/ SecondPasses \/ ReadDropped \/ AckDropped \/ Crash

\* The backend's timer fires and its query returns; the db-writer is restarted
\* and its loop runs.  Nothing is assumed of the engine.
Spec ==
  /\ Init /\ [][Next]_vars
  /\ \A o \in Orders : WF_vars(Timeout(o)) /\ WF_vars(Settle(o))
  /\ WF_vars(WriterWork)

-----------------------------------------------------------------------------
(* Properties.                                                             *)

TypeOK ==
  /\ \A o \in Orders : rows[o] = Absent \/ rows[o].status = "pending" \/ rows[o] \in Outcomes
  /\ \A o \in Orders : rows[o] = Absent <=> calls[o] = "none"
  /\ \A o \in Orders : engine[o] = Absent \/ engine[o] \in Outcomes
  /\ calls \in [Orders -> {"none", "waiting", "settling", "done", "dead"}]
  /\ canceling \subseteq Orders
  /\ heard \in 0..Len(replies) /\ Len(replies) <= MaxReplies
  /\ phase \in {"down", "claiming", "listening"}
  /\ delivered \in 0..Len(replies)
  /\ pending \subseteq 1..delivered /\ idle \subseteq pending /\ batch \subseteq pending
  /\ current \in (pending \ batch) \cup {None}
  /\ overtaken \subseteq 1..delivered

\* A trade is stored once: whatever is delivered again or answered again, of
\* the replies to one correlation id at most one has its fills inserted, once.
FillsWrittenOnce ==
  \A i, j \in DOMAIN replies :
    replies[i].corr = replies[j].corr /\ fills[i] > 0 /\ fills[j] > 0 => i = j /\ fills[i] = 1

\* No reply is lost: every result that was delivered has been written, under
\* its own correlation id, or is still pending and will be claimed.
NothingIsSkipped ==
  \A i \in 1..delivered : replies[i].ok => replies[i].corr \in events \/ i \in pending

\* The last result about an order, of those that are not repetitions.
LastResult(o) ==
  LET first == {i \in DOMAIN replies :
                  \A j \in 1..i - 1 : replies[j].corr # replies[i].corr \/ ~replies[j].ok}
      about == {i \in first : replies[i].ok /\ replies[i].order = o}
  IN  IF about = {} THEN None ELSE Max(about)

\* Two processes write the row and neither waits, yet it ends up saying what
\* the engine said last: a row that a timeout has retired too early is put
\* right, and one that the engine has moved on is not retired any more.  The
\* exception is a reply that was left pending while a later one was written.
RowSaysWhatEngineSaid ==
  \A o \in Orders :
    LET last == LastResult(o)
    IN  /\ last # None
        /\ \A i \in 1..last : replies[i].ok => replies[i].corr \in events
        /\ \A i \in overtaken : replies[i].order # o
        => rows[o] = [status |-> replies[last].status, filledQty |-> replies[last].filledQty]

\* An order the engine refuses, or never answers, does not stay pending for
\* ever, unless the backend stops between inserting its row and settling it.
\* (The row of an order the engine accepts is for the db-writer to move on.)
RefusedOrdersAreRetired ==
  \A o \in Orders :
    rows[o].status = "pending" ~>
      rows[o].status # "pending" \/ calls[o] = "dead" \/ LastResult(o) # None
=============================================================================
