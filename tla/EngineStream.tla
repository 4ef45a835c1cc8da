---------------------------- MODULE EngineStream ----------------------------
(***************************************************************************)
(* How the engine process lives on its request stream: apps/engine/src     *)
(* index.ts (start-up), services/engine-comms.ts (recovery, pending        *)
(* entries, the read loop) and services/upload-file.ts (snapshots).        *)
(*                                                                         *)
(* The store is seen through what has been applied to it: how often each   *)
(* request was, by earlier processes (in the snapshot this one started     *)
(* from) and by this one.  Redis is external: a stream, a consumer group   *)
(* with one consumer, its last delivered id and its list of pending        *)
(* entries.  The stage is production, where isDev() is false.  Trimming is *)
(* left out: the stream keeps its last 60,000 entries.                     *)
(***************************************************************************)
EXTENDS Integers, Sequences, FiniteSets

CONSTANTS
  Kinds,        \* what a stream entry may be: a subset of EntryKinds
  MaxEntries,   \* bound: entries of the stream
  MaxCrashes,   \* bound: crashes of the process
  MaxDrops      \* bound: connections lost under a Redis command

\* "order" is a request the engine accepts and answers, "quiet" is applied and
\* not answered (a funding round), "backup" asks for a snapshot and is not
\* answered, "malformed" does not parse.
EntryKinds == {"order", "quiet", "backup", "malformed"}

ASSUME StreamAssumption ==
  /\ Kinds \subseteq EntryKinds
  /\ MaxEntries \in Nat /\ MaxCrashes \in Nat /\ MaxDrops \in Nat

Ids == 1..MaxEntries

VARIABLES
  (* Redis *)
  stream,      \* the kinds of the entries; an entry's id is its place
  delivered,   \* the group's last delivered id
  pending,     \* ids delivered and not acknowledged
  idle,        \* pending ids that nobody has claimed for a second
  answers,     \* id -> what the reply stream holds for it
  (* object storage *)
  latest,      \* the latest snapshot: message id (0: there is none) and store
  (* the engine process *)
  phase,       \* what index.ts is at
  cursor,      \* last entry that runRecovery has replayed
  recovered,   \* recoveredMessageIds
  batch,       \* ids read from the group and not yet taken in hand
  current,     \* id in hand, or 0
  stage,       \* what is left to do for it
  restored,    \* id -> times applied to the store this process started from
  applied,     \* id -> times applied by this process
  uploads,     \* snapshots on their way to storage
  (* the environment, and what the properties refer to *)
  crashes, drops,
  base,        \* where this process took over: the snapshot's id, or what had been delivered
  found        \* last delivered id when this process started

redis   == <<stream, delivered, pending, idle, answers>>
process == <<phase, cursor, recovered, batch, current, stage, restored, applied, uploads>>
faults  == <<crashes, drops>>
start == <<base, found>>
vars == <<redis, latest, process, faults, start>>

None == 0
NothingApplied == [i \in Ids |-> 0]
Parses(i) == stream[i] # "malformed"

Store == [i \in Ids |-> restored[i] + applied[i]]

Init ==
  /\ stream = <<>> /\ delivered = 0 /\ pending = {} /\ idle = {}
  /\ answers = [i \in Ids |-> {}]
  /\ latest = [messageId |-> 0, store |-> NothingApplied]
  /\ phase = "down" /\ cursor = 0 /\ recovered = {} /\ batch = {}
  /\ current = None /\ stage = "none"
  /\ restored = NothingApplied /\ applied = NothingApplied /\ uploads = {}
  /\ crashes = 0 /\ drops = 0 /\ base = 0 /\ found = 0

-----------------------------------------------------------------------------
(* The producers and the clock.                                            *)

\* xAdd: the entry goes to the end of the stream, and nobody waits for it here.
SendToEngineStream(kind) ==
  /\ Len(stream) < MaxEntries
  /\ stream' = Append(stream, kind)
  /\ UNCHANGED <<delivered, pending, idle, answers, latest, process, faults, start>>

\* The scheduler's two cron jobs: a snapshot every quarter of an hour, a funding
\* round every hour.
Trigger(kind) == kind \in {"backup", "quiet"} /\ SendToEngineStream(kind)

\* The backend's requests and the poller's prices.
Request(kind) == kind \notin {"backup", "quiet"} /\ SendToEngineStream(kind)

Produce(kind) == Trigger(kind) \/ Request(kind)

\* A second passes: what is pending has been idle long enough to be claimed.
SecondPasses ==
  /\ idle # pending
  /\ idle' = pending
  /\ UNCHANGED <<stream, delivered, pending, answers, latest, process, faults, start>>

-----------------------------------------------------------------------------
(* index.ts: restore the snapshot, replay what came after it if there is   *)
(* one, take over what is pending, listen.                                 *)

\* A mutant of Start: recovery resumes where the group is, not where the snapshot is.
StartAtDelivered ==
  /\ phase = "down"
  /\ phase' = IF latest.messageId # 0 THEN "recovering" ELSE "claiming"
  /\ cursor' = delivered
  /\ base' = IF latest.messageId # 0 THEN latest.messageId ELSE delivered
  /\ found' = delivered
  /\ restored' = latest.store
  /\ applied' = NothingApplied
  /\ UNCHANGED <<redis, latest, recovered, batch, current, stage, uploads, faults>>

Start ==
  /\ phase = "down"
  /\ phase' = IF latest.messageId # 0 THEN "recovering" ELSE "claiming"
  /\ cursor' = latest.messageId
  /\ base' = IF latest.messageId # 0 THEN latest.messageId ELSE delivered
  /\ found' = delivered
  /\ restored' = latest.store
  /\ applied' = NothingApplied
  /\ UNCHANGED <<redis, latest, recovered, batch, current, stage, uploads, faults>>

\* engineHandler on entry i, up to the point where it returns: the store is
\* updated; a backup_store that is not older than ten minutes starts an upload of the store as it is.
Apply(i) ==
  /\ applied' = [applied EXCEPT ![i] = @ + 1]
  /\ \/ uploads' = uploads
     \/ /\ stream[i] = "backup"
        /\ uploads' = uploads \cup {[messageId |-> i, store |-> [Store EXCEPT ![i] = @ + 1]]}

\* runRecovery replays the next entry after the snapshot and answers nobody.
\* (It reads a hundred at a time; what happens between two of them is the
\* same as between two batches.)
Replay ==
  LET i == cursor + 1
  IN  /\ phase = "recovering"
      /\ i <= Len(stream)
      /\ cursor' = i
      /\ recovered' = recovered \cup {i}
      /\ IF Parses(i) THEN Apply(i) ELSE UNCHANGED <<applied, uploads>>
      /\ UNCHANGED <<redis, latest, phase, batch, current, stage, restored, faults, start>>

RecoveryEnds ==
  /\ phase = "recovering"
  /\ cursor = Len(stream)
  /\ phase' = "claiming"
  /\ UNCHANGED <<redis, latest, cursor, recovered, batch, current, stage, restored, applied,
                 uploads, faults, start>>

\* handlePendingEntries claims what has been idle for a second; claiming makes it young again.
Claim ==
  /\ phase = "claiming" /\ batch = {} /\ current = None
  /\ idle # {}
  /\ batch' = idle
  /\ idle' = {}
  /\ UNCHANGED <<stream, delivered, pending, answers, latest, phase, cursor, recovered, current,
                 stage, restored, applied, uploads, faults, start>>

ClaimingEnds ==
  /\ phase = "claiming" /\ batch = {} /\ current = None
  /\ idle = {}
  /\ phase' = "listening"
  /\ UNCHANGED <<redis, latest, cursor, recovered, batch, current, stage, restored, applied,
                 uploads, faults, start>>

\* readOneBatch: xReadGroup hands out the next entry that was never delivered.
Read ==
  LET i == delivered + 1
  IN  /\ phase = "listening" /\ batch = {} /\ current = None
      /\ i <= Len(stream)
      /\ delivered' = i
      /\ pending' = pending \cup {i}
      /\ batch' = {i}
      /\ UNCHANGED <<stream, idle, answers, latest, phase, cursor, recovered, current, stage,
                     restored, applied, uploads, faults, start>>

\* The connection goes while xReadGroup's answer is under way: the entry is
\* delivered as far as Redis knows, and runStreamLoop reads on.
ReadDropped ==
  LET i == delivered + 1
  IN  /\ phase = "listening" /\ batch = {} /\ current = None
      /\ i <= Len(stream)
      /\ drops < MaxDrops
      /\ drops' = drops + 1
      /\ delivered' = i
      /\ pending' = pending \cup {i}
      /\ UNCHANGED <<stream, idle, answers, latest, process, crashes, start>>

-----------------------------------------------------------------------------
(* One entry, in readOneBatch as in handlePendingEntries.                  *)

\* A mutant of Skips: recoveredMessageIds is not consulted.
SkipsNothing(i) == FALSE

\* While pending entries are taken over, one that recovery has replayed is only acknowledged.
Skips(i) == phase = "claiming" /\ i \in recovered

\* The first of the batch is taken in hand and handled.
Handle(i) ==
  /\ current = None
  /\ i \in batch /\ \A j \in batch : i <= j
  /\ batch' = batch \ {i}
  /\ current' = i
  /\ IF Skips(i)
       THEN /\ recovered' = recovered \ {i}
            /\ stage' = "ack"
            /\ UNCHANGED <<applied, uploads>>
       ELSE /\ stage' = IF stream[i] = "order" THEN "answer" ELSE "ack"
            /\ IF Parses(i) THEN Apply(i) ELSE UNCHANGED <<applied, uploads>>
            /\ UNCHANGED recovered
  /\ UNCHANGED <<redis, latest, phase, cursor, restored, faults, start>>

\* sendToResponseStream: what happened, or that there was an error.
Answer ==
  /\ stage \in {"answer", "answer_error"}
  /\ answers' = [answers EXCEPT ![current] =
                   @ \cup {IF stage = "answer" THEN "ok" ELSE "error"}]
  /\ stage' = "ack"
  /\ UNCHANGED <<stream, delivered, pending, idle, latest, phase, cursor, recovered, batch,
                 current, restored, applied, uploads, faults, start>>

\* The connection goes under the xAdd of a result, which may have arrived or
\* not.  It is awaited in the `try` around engineHandler, so the `catch` takes
\* it for a refusal.
AnswerDropped ==
  /\ stage = "answer"
  /\ drops < MaxDrops
  /\ drops' = drops + 1
  /\ stage' = "answer_error"
  /\ \/ answers' = answers
     \/ answers' = [answers EXCEPT ![current] = @ \cup {"ok"}]
  /\ UNCHANGED <<stream, delivered, pending, idle, latest, phase, cursor, recovered, batch,
                 current, restored, applied, uploads, crashes, start>>

\* Mutants of Ack: the whole batch is acknowledged; or nothing is.
AckBatch ==
  /\ stage = "ack"
  /\ pending' = pending \ (batch \cup {current})
  /\ idle' = idle \ (batch \cup {current})
  /\ current' = None
  /\ stage' = "none"
  /\ UNCHANGED <<stream, delivered, answers, latest, phase, cursor, recovered, batch, restored,
                 applied, uploads, faults, start>>

AckForgotten ==
  /\ stage = "ack"
  /\ current' = None
  /\ stage' = "none"
  /\ UNCHANGED <<redis, latest, phase, cursor, recovered, batch, restored, applied, uploads,
                 faults, start>>

Ack ==
  /\ stage = "ack"
  /\ pending' = pending \ {current}
  /\ idle' = idle \ {current}
  /\ current' = None
  /\ stage' = "none"
  /\ UNCHANGED <<stream, delivered, answers, latest, phase, cursor, recovered, batch, restored,
                 applied, uploads, faults, start>>

\* The connection goes under an xAck, or under the answer that reports an
\* error: runStreamLoop reads on and the entry stays pending.
AbandonEntry ==
  /\ phase = "listening"
  /\ stage \in {"ack", "answer_error"}
  /\ drops < MaxDrops
  /\ drops' = drops + 1
  /\ \/ UNCHANGED answers
     \/ /\ stage = "answer_error"
        /\ answers' = [answers EXCEPT ![current] = @ \cup {"error"}]
  /\ current' = None
  /\ stage' = "none"
  /\ UNCHANGED <<stream, delivered, pending, idle, latest, phase, cursor, recovered, batch,
                 restored, applied, uploads, crashes, start>>

-----------------------------------------------------------------------------
(* Snapshots and crashes.                                                  *)

\* uploadToS3: the dated object is copied over the latest one.  Nobody waits for it.
UploadEnds(u) ==
  /\ uploads' = uploads \ {u}
  /\ latest' = u
  /\ UNCHANGED <<redis, phase, cursor, recovered, batch, current, stage, restored, applied,
                 faults, start>>

\* An upload that fails is logged.
UploadFails(u) ==
  /\ uploads' = uploads \ {u}
  /\ UNCHANGED <<redis, latest, phase, cursor, recovered, batch, current, stage, restored, applied,
                 faults, start>>

\* The process dies, and with it everything it has not written.  Before the
\* listener runs, a lost connection ends it too.
Crash ==
  /\ phase # "down"
  /\ crashes < MaxCrashes
  /\ crashes' = crashes + 1
  /\ phase' = "down" /\ cursor' = 0 /\ recovered' = {} /\ batch' = {}
  /\ current' = None /\ stage' = "none"
  /\ restored' = NothingApplied /\ applied' = NothingApplied /\ uploads' = {}
  /\ UNCHANGED <<redis, latest, drops, start>>

Work ==
  \/ Start \/ Replay \/ RecoveryEnds \/ Claim \/ ClaimingEnds \/ Read
  \/ \E i \in batch : Handle(i)
  \/ Answer \/ Ack

Next ==
  \/ Work
  \/ \E kind \in Kinds : Produce(kind)
  \/ SecondPasses
  \/ ReadDropped \/ AnswerDropped \/ AbandonEntry
  \/ \E u \in uploads : UploadEnds(u) \/ UploadFails(u)
  \/ Crash

\* The process is restarted when it is down, and its event loop runs.
Spec == Init /\ [][Next]_vars /\ WF_vars(Work)

-----------------------------------------------------------------------------
(* Properties.                                                             *)

Counts == [Ids -> Nat]

TypeOK ==
  /\ stream \in Seq(Kinds) /\ Len(stream) <= MaxEntries
  /\ delivered \in 0..Len(stream)
  /\ pending \subseteq 1..delivered
  /\ idle \subseteq pending
  /\ answers \in [Ids -> SUBSET {"ok", "error"}]
  /\ latest \in [messageId : 0..Len(stream), store : Counts]
  /\ phase \in {"down", "recovering", "claiming", "listening"}
  /\ cursor \in 0..Len(stream)
  /\ recovered \subseteq 1..Len(stream)
  /\ batch \subseteq pending
  /\ current \in pending \cup {None}
  /\ stage \in {"none", "answer", "answer_error", "ack"}
  /\ restored \in Counts /\ applied \in Counts
  /\ uploads \subseteq [messageId : 1..Len(stream), store : Counts]
  /\ crashes \in 0..MaxCrashes /\ drops \in 0..MaxDrops
  /\ base \in 0..Len(stream) /\ found \in 0..delivered

\* Nothing that was delivered after the point where this process took over is
\* passed by: it has been applied, or it is still pending and a later process
\* will claim it.  An entry leaves the pending list unhandled only because
\* recovery has replayed it.
AppliedOrPending ==
  phase \in {"claiming", "listening"} =>
    \A i \in base + 1 .. delivered : Parses(i) => applied[i] > 0 \/ i \in pending

\* Recovery and the pending list overlap, and the overlap is applied once: a
\* process applies an entry a second time only if nobody had been given it
\* when the process started (recoveredMessageIds is looked at when pending
\* entries are taken over, and not when the stream is read).
PendingAppliedOnce ==
  \A i \in Ids : applied[i] <= IF i <= found THEN 1 ELSE 2

\* Why they hold.  What is in hand was read from the pending list and is not
\* read twice; before the process listens nothing new is delivered.
InHand ==
  /\ stage = "none" <=> current = None
  /\ current \notin batch
  /\ phase \in {"down", "recovering"} => batch = {} /\ current = None
  /\ phase = "down" => recovered = {} /\ applied = NothingApplied
  /\ phase \in {"recovering", "claiming"} => delivered = found

\* What is about to be acknowledged has been applied: by this process when it
\* was handled, or when it was replayed.
AckedIsApplied ==
  /\ stage # "none" /\ Parses(current) => applied[current] > 0
  /\ \A i \in recovered : Parses(i) => applied[i] > 0
  /\ phase = "recovering" =>
       base <= cursor /\ \A i \in base + 1 .. cursor : Parses(i) => applied[i] > 0

\* What is still to be handled has not been applied yet, or by recovery only.
NotYetApplied ==
  /\ phase = "recovering" =>
       /\ \A i \in Ids : i > cursor => applied[i] = 0
       /\ \A i \in Ids : applied[i] > 0 => i \in recovered
  /\ phase = "claiming" =>
       \A i \in pending \ {current} : i \notin recovered => applied[i] = 0
  /\ phase = "listening" => \A i \in batch : i > found /\ applied[i] <= 1
  /\ \A i \in Ids : i > delivered \/ phase = "recovering" => applied[i] <= 1

\* Whatever crashes and lost connections come before, the engine ends up
\* listening, with everything on the stream read and nothing in hand: taking
\* over the pending entries comes to an end.
EngineCatchesUp ==
  <>[](phase = "listening" /\ delivered = Len(stream) /\ batch = {} /\ current = None)
=============================================================================
