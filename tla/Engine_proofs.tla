--------------------------- MODULE Engine_proofs ---------------------------
(***************************************************************************)
(* Proofs about the engine as others see it.                               *)
(*                                                                         *)
(* EngineStream, for streams of every length and any number of crashes and *)
(* lost connections: its types, what a restarted engine may miss, and what *)
(* it may apply twice.                                                     *)
(*                                                                         *)
(* PriceTimeBook, for every set of prices and sizes: what rests is well    *)
(* formed, and no bid ever reaches an ask.  That the engine implements it  *)
(* is proved in ExchangeEngine_proofs.                                     *)
(***************************************************************************)
EXTENDS EngineStream, PriceTimeBook, TLAPS

\* A store that one more request is applied to is a store.
LEMMA StoreIsCounts ==
  ASSUME restored \in Counts, applied \in Counts, NEW i \in Ids
  PROVE  /\ [Store EXCEPT ![i] = @ + 1] \in Counts
         /\ [applied EXCEPT ![i] = @ + 1] \in Counts
<1>1. Store \in Counts
  BY DEF Store, Counts
<1>2. QED
  BY <1>1 DEF Counts

\* The scheduler's entries and the backend's go onto the stream alike.
LEMMA ProduceSends ==
  ASSUME NEW kind \in Kinds, Produce(kind)
  PROVE  SendToEngineStream(kind)
BY DEF Produce, Trigger, Request

\* Ids in use are ids.
LEMMA IdsInUse ==
  ASSUME TypeOK
  PROVE  /\ Len(stream) \in Nat
         /\ 1..Len(stream) \subseteq Ids
         /\ pending \subseteq 1..Len(stream)
BY StreamAssumption DEF TypeOK, Ids

\* Applying an entry of the stream keeps the counts and the snapshots under way well formed.
LEMMA ApplyKeepsTypes ==
  ASSUME TypeOK, NEW i \in 1..Len(stream), Apply(i)
  PROVE  /\ applied' \in Counts
         /\ uploads' \subseteq [messageId : 1..Len(stream), store : Counts]
<1>1. Len(stream) \in Nat /\ i \in Ids
  BY IdsInUse
<1>2. /\ [Store EXCEPT ![i] = @ + 1] \in Counts
      /\ [applied EXCEPT ![i] = @ + 1] \in Counts
  BY <1>1, StoreIsCounts DEF TypeOK
<1>3. applied' \in Counts
  BY <1>2 DEF Apply
<1>4. [messageId |-> i, store |-> [Store EXCEPT ![i] = @ + 1]]
        \in [messageId : 1..Len(stream), store : Counts]
  BY <1>2
<1>5. uploads' \subseteq [messageId : 1..Len(stream), store : Counts]
  BY <1>4 DEF Apply, TypeOK
<1>6. QED
  BY <1>3, <1>5

\* The engine's steps keep the types, with what is in hand apart from what is still to be taken.
LEMMA StepKeepsTypes ==
  ASSUME TypeOK, InHand, Next
  PROVE  TypeOK'
<1> USE StreamAssumption, IdsInUse
<1>1. ASSUME NEW kind \in Kinds, SendToEngineStream(kind)
      PROVE  TypeOK'
  <2>1. stream' \in Seq(Kinds) /\ Len(stream') = Len(stream) + 1
    BY <1>1 DEF SendToEngineStream, TypeOK
  <2>2. 1..Len(stream) \subseteq 1..Len(stream')
    BY <2>1
  <2>3. Len(stream') <= MaxEntries
    BY <1>1, <2>1 DEF SendToEngineStream
  <2>4. [messageId : 0..Len(stream), store : Counts] \subseteq [messageId : 0..Len(stream'), store : Counts]
    BY <2>1
  <2>5. [messageId : 1..Len(stream), store : Counts] \subseteq [messageId : 1..Len(stream'), store : Counts]
    BY <2>1
  <2>6. QED
    BY SMTT(60), <1>1, <2>1, <2>2, <2>3, <2>4, <2>5 DEF SendToEngineStream, TypeOK, process, faults, start
<1>2. CASE SecondPasses
  BY <1>2 DEF SecondPasses, TypeOK, process, faults, start
<1>3. CASE Start
  BY <1>3 DEF Start, TypeOK, redis, faults, NothingApplied, Counts
<1>4. CASE Replay
  <2>1. cursor + 1 \in 1..Len(stream)
    BY <1>4 DEF Replay, TypeOK
  <2>2. /\ applied' \in Counts
        /\ uploads' \subseteq [messageId : 1..Len(stream), store : Counts]
    BY <1>4, <2>1, ApplyKeepsTypes DEF Replay, TypeOK
  <2>3. QED
    BY <1>4, <2>1, <2>2 DEF Replay, TypeOK, redis, faults, start
<1>5. CASE RecoveryEnds
  BY <1>5 DEF RecoveryEnds, TypeOK, redis, faults, start
<1>6. CASE Claim
  BY <1>6 DEF Claim, TypeOK, faults, start
<1>7. CASE ClaimingEnds
  BY <1>7 DEF ClaimingEnds, TypeOK, redis, faults, start
<1>8. CASE Read
  BY <1>8 DEF Read, TypeOK, faults, start
<1>9. CASE ReadDropped
  BY <1>9 DEF ReadDropped, TypeOK, process, start
<1>10. ASSUME NEW i \in batch, Handle(i)
       PROVE  TypeOK'
  <2>1. i \in 1..Len(stream) /\ i \in pending
    BY DEF TypeOK
  <2>2. /\ applied' \in Counts
        /\ uploads' \subseteq [messageId : 1..Len(stream), store : Counts]
    BY <1>10, <2>1, ApplyKeepsTypes DEF Handle, Skips, TypeOK
  <2>3. stage' \in {"answer", "ack"} /\ recovered' \subseteq recovered
    BY <1>10 DEF Handle, Skips
  <2>4. QED
    BY <1>10, <2>1, <2>2, <2>3 DEF Handle, Skips, TypeOK, redis, faults, start
<1>11. CASE Answer
  BY <1>11 DEF Answer, TypeOK, faults, start
<1>12. CASE AnswerDropped
  BY <1>12 DEF AnswerDropped, TypeOK, start
<1>13. CASE Ack
  BY <1>13 DEF Ack, InHand, TypeOK, faults, start
<1>14. CASE AbandonEntry
  <2>1. answers' \in [Ids -> SUBSET {"ok", "error"}]
    BY <1>14 DEF AbandonEntry, TypeOK
  <2>2. QED
    BY <1>14, <2>1 DEF AbandonEntry, TypeOK, start
<1>15. ASSUME NEW u \in uploads, UploadEnds(u) \/ UploadFails(u)
       PROVE  TypeOK'
  <2>1. u \in [messageId : 0..Len(stream), store : Counts]
    BY DEF TypeOK
  <2>2. latest' \in {u, latest} /\ uploads' \subseteq uploads
    BY <1>15 DEF UploadEnds, UploadFails
  <2>3. UNCHANGED <<redis, phase, cursor, recovered, batch, current, stage, restored, applied,
                    faults, start>>
    BY <1>15 DEF UploadEnds, UploadFails
  <2>4. QED
    BY <2>1, <2>2, <2>3 DEF TypeOK, redis, faults, start
<1>16. CASE Crash
  BY <1>16 DEF Crash, TypeOK, redis, start, NothingApplied, Counts, None
<1>17. QED
  BY <1>1, <1>2, <1>3, <1>4, <1>5, <1>6, <1>7, <1>8, <1>9, <1>10, <1>11, <1>12, <1>13,
     <1>14, <1>15, <1>16, ProduceSends DEF Next, Work

\* The engine's steps keep apart what is in hand and what is still to be taken.
LEMMA StepKeepsInHand ==
  ASSUME TypeOK, InHand, Next
  PROVE  InHand'
<1> USE DEF InHand, TypeOK, None
<1>1. ASSUME NEW kind \in Kinds, SendToEngineStream(kind)
      PROVE  InHand'
  BY <1>1 DEF SendToEngineStream, process, start, NothingApplied
<1>2. CASE SecondPasses
  BY <1>2 DEF SecondPasses, process, start, NothingApplied
<1>3. CASE Start
  BY <1>3 DEF Start, redis
<1>4. CASE Replay
  BY <1>4 DEF Replay, redis, start
<1>5. CASE RecoveryEnds
  BY <1>5 DEF RecoveryEnds, redis, start
<1>6. CASE Claim
  BY <1>6 DEF Claim, start
<1>7. CASE ClaimingEnds
  BY <1>7 DEF ClaimingEnds, redis, start
<1>8. CASE Read
  BY <1>8 DEF Read, start
<1>9. CASE ReadDropped
  BY <1>9 DEF ReadDropped, process, start
<1>10. ASSUME NEW i \in batch, Handle(i)
       PROVE  InHand'
  <2>1. i # None /\ phase \in {"claiming", "listening"}
    BY DEF TypeOK
  <2>2. stage' # "none"
    BY <1>10 DEF Handle, Skips
  <2>3. QED
    BY <1>10, <2>1, <2>2 DEF Handle, Skips, redis, start
<1>11. CASE Answer
  BY <1>11 DEF Answer, start
<1>12. CASE AnswerDropped
  BY <1>12 DEF AnswerDropped, start
<1>13. CASE Ack
  BY <1>13 DEF Ack, start
<1>14. CASE AbandonEntry
  BY <1>14 DEF AbandonEntry, start
<1>15. ASSUME NEW u \in uploads, UploadEnds(u) \/ UploadFails(u)
       PROVE  InHand'
  BY <1>15 DEF UploadEnds, UploadFails, redis, start, NothingApplied
<1>16. CASE Crash
  BY <1>16 DEF Crash, redis, start
<1>17. QED
  BY <1>1, <1>2, <1>3, <1>4, <1>5, <1>6, <1>7, <1>8, <1>9, <1>10, <1>11, <1>12, <1>13,
     <1>14, <1>15, <1>16, ProduceSends DEF Next, Work

\* Applying an entry counts it once more and leaves the other counts alone.
LEMMA ApplyCounts ==
  ASSUME TypeOK, NEW i \in 1..Len(stream), Apply(i)
  PROVE  /\ applied'[i] = applied[i] + 1
         /\ \A j \in Ids : j # i => applied'[j] = applied[j]
         /\ \A j \in Ids : applied'[j] >= applied[j]
<1>1. i \in Ids /\ applied \in Counts
  BY IdsInUse DEF TypeOK
<1>2. applied' = [applied EXCEPT ![i] = @ + 1]
  BY DEF Apply
<1>3. \A j \in Ids : applied[j] \in Nat
  BY <1>1 DEF Counts
<1>4. QED
  BY <1>1, <1>2, <1>3 DEF Counts

\* A new entry of the stream is not in use, and the entries before it stay what they are.
LEMMA ProduceAppends ==
  ASSUME TypeOK, NEW kind \in Kinds, SendToEngineStream(kind)
  PROVE  \A i \in 1..Len(stream) : Parses(i)' <=> Parses(i)
<1>1. \A i \in 1..Len(stream) : stream'[i] = stream[i]
  BY DEF SendToEngineStream, TypeOK
<1>2. QED
  BY <1>1 DEF Parses

\* Whatever the engine does next, what it is about to acknowledge has been applied.
LEMMA StepKeepsAckedIsApplied ==
  ASSUME TypeOK, InHand, AckedIsApplied, Next
  PROVE  AckedIsApplied'
<1> USE IdsInUse
<1>1. ASSUME NEW kind \in Kinds, SendToEngineStream(kind)
      PROVE  AckedIsApplied'
  <2>1. UNCHANGED <<stage, current, applied, recovered, phase, base, cursor>>
    BY <1>1 DEF SendToEngineStream, process, start
  <2>2. stage # "none" => current \in 1..Len(stream)
    BY DEF InHand, TypeOK
  <2>3. recovered \subseteq 1..Len(stream) /\ base + 1 .. cursor \subseteq 1..Len(stream)
    BY DEF TypeOK
  <2>4. QED
    BY <1>1, <2>1, <2>2, <2>3, ProduceAppends DEF AckedIsApplied
<1>2. CASE SecondPasses
  BY <1>2 DEF SecondPasses, AckedIsApplied, Parses, process, start
<1>3. CASE Start
  <2>1. stage' = "none" /\ recovered' = {}
    BY <1>3 DEF Start, InHand
  <2>2. phase' = "recovering" => base' = cursor' /\ cursor' \in Nat
    BY <1>3 DEF Start, TypeOK
  <2>3. QED
    BY <2>1, <2>2 DEF AckedIsApplied
<1>4. CASE Replay
  <2>1. cursor + 1 \in 1..Len(stream)
    BY <1>4 DEF Replay, TypeOK
  <2>2. UNCHANGED <<stream, stage, current, phase, base>>
    BY <1>4 DEF Replay, redis, start
  <2>3. /\ Parses(cursor + 1) => applied'[cursor + 1] > 0
        /\ \A j \in Ids : applied'[j] >= applied[j]
    <3>1. \A j \in Ids : applied[j] \in Nat
      BY DEF TypeOK, Counts
    <3>2. CASE Parses(cursor + 1)
      BY <1>4, <2>1, <3>1, <3>2, ApplyCounts DEF Replay
    <3>3. CASE ~Parses(cursor + 1)
      BY <1>4, <3>1, <3>3 DEF Replay
    <3>4. QED
      BY <3>2, <3>3
  <2>4. stage = "none"
    BY <1>4 DEF Replay, InHand
  <2>5. recovered' = recovered \cup {cursor + 1} /\ cursor' = cursor + 1
    BY <1>4 DEF Replay
  <2>6. \A j \in Ids : applied[j] \in Nat /\ applied'[j] \in Int
    <3>1. applied' \in Counts
      BY <1>4, <2>1, ApplyKeepsTypes DEF Replay, TypeOK
    <3>2. QED
      BY <3>1 DEF TypeOK, Counts
  <2>7. \A j \in Ids : Parses(j)' <=> Parses(j)
    BY <2>2 DEF Parses
  <2>8. \A j \in recovered' : Parses(j)' => applied'[j] > 0
    BY SMTT(60), <2>1, <2>3, <2>5, <2>6, <2>7 DEF AckedIsApplied, TypeOK
  <2>9. base' <= cursor' /\ \A j \in base' + 1 .. cursor' : Parses(j)' => applied'[j] > 0
    <3>1. phase = "recovering" /\ base \in Nat /\ cursor \in Nat
      BY <1>4 DEF Replay, TypeOK
    <3>2. SUFFICES ASSUME NEW j \in base + 1 .. cursor + 1, Parses(j)
                   PROVE  applied'[j] > 0
      BY <2>1, <2>2, <2>5, <2>7, <3>1 DEF AckedIsApplied
    <3>3. j \in Ids
      BY <2>1, <3>1
    <3>4. QED
      BY <2>3, <2>6, <3>1, <3>2, <3>3 DEF AckedIsApplied
  <2>10. QED
    BY <2>2, <2>4, <2>8, <2>9 DEF AckedIsApplied
<1>5. CASE RecoveryEnds
  BY <1>5 DEF RecoveryEnds, AckedIsApplied, Parses, redis, start
<1>6. CASE Claim
  BY <1>6 DEF Claim, AckedIsApplied, Parses, start
<1>7. CASE ClaimingEnds
  BY <1>7 DEF ClaimingEnds, AckedIsApplied, Parses, redis, start
<1>8. CASE Read
  BY <1>8 DEF Read, AckedIsApplied, Parses, start
<1>9. CASE ReadDropped
  BY <1>9 DEF ReadDropped, AckedIsApplied, Parses, process, start
<1>10. ASSUME NEW i \in batch, Handle(i)
       PROVE  AckedIsApplied'
  <2>1. i \in 1..Len(stream) /\ phase # "recovering"
    BY DEF TypeOK, InHand
  <2>2. /\ UNCHANGED <<stream, phase>>
        /\ current' = i
        /\ recovered' \subseteq recovered
    BY <1>10 DEF Handle, Skips, redis
  <2>3. \A j \in Ids : applied[j] \in Nat
    BY DEF TypeOK, Counts
  <2>4. CASE phase = "claiming" /\ i \in recovered
    BY <1>10, <2>1, <2>2, <2>4 DEF Handle, Skips, AckedIsApplied, Parses
  <2>5. CASE ~(phase = "claiming" /\ i \in recovered) /\ Parses(i)
    <3>1. /\ applied'[i] = applied[i] + 1
          /\ \A j \in Ids : j # i => applied'[j] = applied[j]
      BY <1>10, <2>1, <2>5, ApplyCounts DEF Handle, Skips
    <3>2. \A j \in Ids : applied[j] > 0 => applied'[j] > 0
      BY <2>1, <2>3, <3>1
    <3>3. applied'[i] > 0
      BY <2>1, <2>3, <3>1
    <3>4. recovered \subseteq Ids /\ phase' # "recovering"
      BY <2>1, <2>2 DEF TypeOK
    <3>5. QED
      BY <2>1, <2>2, <3>2, <3>3, <3>4 DEF AckedIsApplied, Parses
  <2>6. CASE ~(phase = "claiming" /\ i \in recovered) /\ ~Parses(i)
    BY <1>10, <2>1, <2>2, <2>6 DEF Handle, Skips, AckedIsApplied, Parses
  <2>7. QED
    BY <2>4, <2>5, <2>6
<1>11. CASE Answer
  BY <1>11 DEF Answer, AckedIsApplied, Parses, start
<1>12. CASE AnswerDropped
  BY <1>12 DEF AnswerDropped, AckedIsApplied, Parses, start
<1>13. CASE Ack
  BY <1>13 DEF Ack, AckedIsApplied, Parses, start
<1>14. CASE AbandonEntry
  BY <1>14 DEF AbandonEntry, AckedIsApplied, Parses, start
<1>15. ASSUME NEW u \in uploads, UploadEnds(u) \/ UploadFails(u)
       PROVE  AckedIsApplied'
  BY <1>15 DEF UploadEnds, UploadFails, AckedIsApplied, Parses, redis, start
<1>16. CASE Crash
  BY <1>16 DEF Crash, AckedIsApplied
<1>17. QED
  BY <1>1, <1>2, <1>3, <1>4, <1>5, <1>6, <1>7, <1>8, <1>9, <1>10, <1>11, <1>12, <1>13,
     <1>14, <1>15, <1>16, ProduceSends DEF Next, Work

\* Whatever the engine does next, nothing it has been given is passed by.
LEMMA StepKeepsAppliedOrPending ==
  ASSUME TypeOK, InHand, AckedIsApplied, AppliedOrPending, Next
  PROVE  AppliedOrPending'
<1> USE IdsInUse
<1>1. ASSUME NEW kind \in Kinds, SendToEngineStream(kind)
      PROVE  AppliedOrPending'
  <2>1. UNCHANGED <<phase, base, delivered, applied, pending>>
    BY <1>1 DEF SendToEngineStream, process, start
  <2>2. base + 1 .. delivered \subseteq 1..Len(stream)
    BY DEF TypeOK
  <2>3. QED
    BY <1>1, <2>1, <2>2, ProduceAppends DEF AppliedOrPending
<1>2. CASE SecondPasses
  BY <1>2 DEF SecondPasses, AppliedOrPending, Parses, process, start
<1>3. CASE Start
  BY <1>3 DEF Start, AppliedOrPending, TypeOK, redis
<1>4. CASE Replay
  BY <1>4 DEF Replay, AppliedOrPending
<1>5. CASE RecoveryEnds
  <2>1. /\ phase = "recovering" /\ cursor = Len(stream)
        /\ UNCHANGED <<stream, delivered, pending, applied, base>>
    BY <1>5 DEF RecoveryEnds, redis, start
  <2>2. base + 1 .. delivered \subseteq base + 1 .. cursor
    BY <2>1 DEF TypeOK
  <2>3. QED
    BY <2>1, <2>2 DEF AckedIsApplied, AppliedOrPending, Parses
<1>6. CASE Claim
  BY <1>6 DEF Claim, AppliedOrPending, Parses, start
<1>7. CASE ClaimingEnds
  BY <1>7 DEF ClaimingEnds, AppliedOrPending, Parses, redis, start
<1>8. CASE Read
  BY <1>8 DEF Read, AppliedOrPending, Parses, TypeOK, start
<1>9. CASE ReadDropped
  BY <1>9 DEF ReadDropped, AppliedOrPending, Parses, TypeOK, process, start
<1>10. ASSUME NEW i \in batch, Handle(i)
       PROVE  AppliedOrPending'
  <2>1. i \in 1..Len(stream)
    BY DEF TypeOK
  <2>2. \A j \in Ids : applied[j] \in Nat
    BY DEF TypeOK, Counts
  <2>3. \A j \in Ids : applied[j] > 0 => applied'[j] > 0
    <3>1. CASE applied' = applied
      BY <3>1
    <3>2. CASE Apply(i)
      BY <2>1, <2>2, <3>2, ApplyCounts
    <3>3. QED
      BY <1>10, <3>1, <3>2 DEF Handle, Skips
  <2>4. UNCHANGED <<stream, delivered, pending, phase, base>>
    BY <1>10 DEF Handle, Skips, redis, start
  <2>5. base + 1 .. delivered \subseteq Ids
    BY SMTT(60) DEF TypeOK
  <2>6. QED
    BY <2>3, <2>4, <2>5 DEF AppliedOrPending, Parses
<1>11. CASE Answer
  BY <1>11 DEF Answer, AppliedOrPending, Parses, start
<1>12. CASE AnswerDropped
  BY <1>12 DEF AnswerDropped, AppliedOrPending, Parses, start
<1>13. CASE Ack
  <2>1. Parses(current) => applied[current] > 0
    BY <1>13 DEF Ack, AckedIsApplied
  <2>2. QED
    BY <1>13, <2>1 DEF Ack, AppliedOrPending, Parses, start
<1>14. CASE AbandonEntry
  BY <1>14 DEF AbandonEntry, AppliedOrPending, Parses, start
<1>15. ASSUME NEW u \in uploads, UploadEnds(u) \/ UploadFails(u)
       PROVE  AppliedOrPending'
  BY <1>15 DEF UploadEnds, UploadFails, AppliedOrPending, Parses, redis, start
<1>16. CASE Crash
  BY <1>16 DEF Crash, AppliedOrPending
<1>17. QED
  BY <1>1, <1>2, <1>3, <1>4, <1>5, <1>6, <1>7, <1>8, <1>9, <1>10, <1>11, <1>12, <1>13,
     <1>14, <1>15, <1>16, ProduceSends DEF Next, Work

\* Whatever the engine does next, what is still to be handled has at most been replayed.
LEMMA StepKeepsNotYetApplied ==
  ASSUME TypeOK, InHand, NotYetApplied, Next
  PROVE  NotYetApplied'
<1> USE IdsInUse
<1>1. ASSUME NEW kind \in Kinds, SendToEngineStream(kind)
      PROVE  NotYetApplied'
  BY <1>1 DEF SendToEngineStream, NotYetApplied, process, start
<1>2. CASE SecondPasses
  BY <1>2 DEF SecondPasses, NotYetApplied, process, start
<1>3. CASE Start
  <2>1. \A i \in Ids : applied'[i] = 0
    BY <1>3 DEF Start, NothingApplied
  <2>2. phase' \in {"recovering", "claiming"} /\ pending' \subseteq Ids
    BY <1>3 DEF Start, redis, TypeOK
  <2>3. QED
    BY <2>1, <2>2 DEF NotYetApplied
<1>4. CASE Replay
  <2>1. cursor + 1 \in 1..Len(stream) /\ cursor \in Nat
    BY <1>4 DEF Replay, TypeOK
  <2>2. /\ phase = "recovering" /\ phase' = "recovering"
        /\ recovered' = recovered \cup {cursor + 1} /\ cursor' = cursor + 1
    BY <1>4 DEF Replay
  <2>3. \A j \in Ids : j # cursor + 1 => applied'[j] = applied[j]
    <3>1. CASE applied' = applied
      BY <3>1
    <3>2. CASE Apply(cursor + 1)
      BY <2>1, <3>2, ApplyCounts
    <3>3. QED
      BY <1>4, <3>1, <3>2 DEF Replay
  <2>4. applied'[cursor + 1] <= 1
    <3>1. applied[cursor + 1] = 0
      BY <2>1, <2>2 DEF NotYetApplied
    <3>2. CASE applied' = applied
      BY <3>1, <3>2
    <3>3. CASE Apply(cursor + 1)
      BY <2>1, <3>1, <3>3, ApplyCounts
    <3>4. QED
      BY <1>4, <3>2, <3>3 DEF Replay
  <2>5. \A j \in Ids : j > cursor + 1 => applied'[j] = 0
    <3>1. \A j \in Ids : j > cursor + 1 => j > cursor /\ j # cursor + 1
      BY <2>1, StreamAssumption DEF Ids
    <3>2. QED
      BY <2>2, <2>3, <3>1 DEF NotYetApplied
  <2>6. \A j \in Ids : applied'[j] > 0 => j \in recovered'
    BY <2>2, <2>3 DEF NotYetApplied
  <2>7. \A j \in Ids : applied'[j] <= 1
    BY <2>2, <2>3, <2>4 DEF NotYetApplied
  <2>8. QED
    BY <2>2, <2>5, <2>6, <2>7 DEF NotYetApplied
<1>5. CASE RecoveryEnds
  <2>1. \A i \in Ids : applied[i] \in Nat
    BY DEF TypeOK, Counts
  <2>2. \A i \in Ids : i \notin recovered => applied[i] = 0
    BY <1>5, <2>1 DEF RecoveryEnds, NotYetApplied
  <2>3. \A i \in Ids : applied[i] <= 1
    BY <1>5 DEF RecoveryEnds, NotYetApplied
  <2>4. QED
    BY <1>5, <2>2, <2>3 DEF RecoveryEnds, NotYetApplied, redis
<1>6. CASE Claim
  BY <1>6 DEF Claim, NotYetApplied
<1>7. CASE ClaimingEnds
  BY <1>7 DEF ClaimingEnds, NotYetApplied, redis
<1>8. CASE Read
  <2>1. delivered + 1 \in Ids /\ delivered + 1 > found
    BY <1>8 DEF Read, TypeOK
  <2>2. applied[delivered + 1] <= 1
    BY <2>1 DEF NotYetApplied, TypeOK
  <2>3. QED
    BY <1>8, <2>1, <2>2 DEF Read, NotYetApplied, TypeOK, start
<1>9. CASE ReadDropped
  <2>1. \A i \in Ids : i > delivered + 1 => i > delivered
    BY StreamAssumption DEF Ids, TypeOK
  <2>2. phase = "listening" /\ batch = {} /\ delivered' = delivered + 1
    BY <1>9 DEF ReadDropped
  <2>3. QED
    BY <1>9, <2>1, <2>2 DEF ReadDropped, NotYetApplied, process, start
<1>10. ASSUME NEW i \in batch, Handle(i)
       PROVE  NotYetApplied'
  <2>1. i \in 1..Len(stream) /\ i \in pending /\ i <= delivered /\ phase \in {"claiming", "listening"}
    BY DEF TypeOK, InHand
  <2>2. /\ UNCHANGED <<stream, delivered, pending, phase, found>>
        /\ current = None /\ current' = i
        /\ batch' = batch \ {i}
    BY <1>10 DEF Handle, Skips, redis, start
  <2>3. \A j \in Ids : j # i => applied'[j] = applied[j]
    <3>1. CASE applied' = applied
      BY <3>1
    <3>2. CASE Apply(i)
      BY <2>1, <3>2, ApplyCounts
    <3>3. QED
      BY <1>10, <3>1, <3>2 DEF Handle, Skips
  <2>4. recovered' = recovered \/ recovered' = recovered \ {i}
    BY <1>10 DEF Handle, Skips
  <2>5. pending \subseteq Ids /\ batch \subseteq Ids /\ None \notin pending
    BY SMTT(60) DEF TypeOK, None
  <2>6. \A j \in Ids : j > delivered => applied'[j] <= 1
    BY <2>1, <2>3 DEF NotYetApplied, TypeOK
  <2>7. CASE phase = "claiming"
    BY <2>2, <2>3, <2>4, <2>5, <2>6, <2>7 DEF NotYetApplied
  <2>8. CASE phase = "listening"
    BY <2>2, <2>3, <2>5, <2>6, <2>8 DEF NotYetApplied
  <2>9. QED
    BY <2>1, <2>7, <2>8
<1>11. CASE Answer
  BY <1>11 DEF Answer, NotYetApplied, start
<1>12. CASE AnswerDropped
  BY <1>12 DEF AnswerDropped, NotYetApplied, start
<1>13. CASE Ack
  BY <1>13 DEF Ack, NotYetApplied, start
<1>14. CASE AbandonEntry
  BY <1>14 DEF AbandonEntry, NotYetApplied, start
<1>15. ASSUME NEW u \in uploads, UploadEnds(u) \/ UploadFails(u)
       PROVE  NotYetApplied'
  BY <1>15 DEF UploadEnds, UploadFails, NotYetApplied, redis, start
<1>16. CASE Crash
  BY <1>16 DEF Crash, NotYetApplied, NothingApplied
<1>17. QED
  BY <1>1, <1>2, <1>3, <1>4, <1>5, <1>6, <1>7, <1>8, <1>9, <1>10, <1>11, <1>12, <1>13,
     <1>14, <1>15, <1>16, ProduceSends DEF Next, Work

\* Whatever the engine does next, it applies nothing too often.
LEMMA StepKeepsPendingAppliedOnce ==
  ASSUME TypeOK, InHand, NotYetApplied, PendingAppliedOnce, Next
  PROVE  PendingAppliedOnce'
<1> USE IdsInUse
<1>1. CASE UNCHANGED <<applied, found>>
  BY <1>1 DEF PendingAppliedOnce
<1>2. CASE Start \/ Crash
  <2>1. \A i \in Ids : applied'[i] = 0
    BY <1>2 DEF Start, Crash, NothingApplied
  <2>2. QED
    BY <2>1 DEF PendingAppliedOnce
<1>3. ASSUME NEW i \in 1..Len(stream), Apply(i), found' = found,
             applied[i] = 0 \/ (i > found /\ applied[i] <= 1)
      PROVE  PendingAppliedOnce'
  <2>1. /\ applied'[i] = applied[i] + 1
        /\ \A j \in Ids : j # i => applied'[j] = applied[j]
    BY <1>3, ApplyCounts
  <2>2. i \in Ids /\ i \in Nat /\ found \in Nat
    <3>1. i \in Ids /\ i \in Nat
      BY IdsInUse
    <3>2. found \in Nat
      BY SMTT(60) DEF TypeOK
    <3> QED  BY <3>1, <3>2
  <2>3. applied[i] \in Nat
    BY <2>2 DEF TypeOK, Counts
  <2>4. applied'[i] <= IF i <= found THEN 1 ELSE 2
    BY <1>3, <2>1, <2>2, <2>3
  <2>5. QED
    BY <1>3, <2>1, <2>4 DEF PendingAppliedOnce
<1>4. CASE Replay
  <2>1. /\ cursor + 1 \in 1..Len(stream)
        /\ found' = found
        /\ Apply(cursor + 1) \/ applied' = applied
    BY <1>4 DEF Replay, TypeOK, start
  <2>2. applied[cursor + 1] = 0
    BY SMTT(60), <1>4, <2>1 DEF Replay, NotYetApplied, TypeOK
  <2>3. QED
    BY <1>1, <1>3, <2>1, <2>2
<1>5. ASSUME NEW i \in batch, Handle(i)
      PROVE  PendingAppliedOnce'
  <2>1. /\ i \in 1..Len(stream) /\ i \in pending
        /\ phase \in {"claiming", "listening"}
        /\ found' = found
    BY <1>5 DEF Handle, Skips, TypeOK, InHand, start
  <2>2. CASE applied' = applied
    BY <1>1, <2>1, <2>2
  <2>3. CASE phase = "claiming" /\ i \notin recovered /\ Apply(i)
    <3>1. i # current
      BY <1>5 DEF Handle, Skips, TypeOK, None
    <3>2. applied[i] = 0
      BY <2>1, <2>3, <3>1 DEF NotYetApplied
    <3>3. QED
      BY <1>3, <2>1, <2>3, <3>2
  <2>4. CASE phase = "listening" /\ Apply(i)
    <3>1. i > found /\ applied[i] <= 1
      BY <2>4 DEF NotYetApplied
    <3>2. QED
      BY <1>3, <2>1, <2>4, <3>1
  <2>5. QED
    BY <1>5, <2>1, <2>2, <2>3, <2>4 DEF Handle, Skips
<1>6. ASSUME NEW kind \in Kinds, SendToEngineStream(kind)
      PROVE  PendingAppliedOnce'
  BY <1>1, <1>6 DEF SendToEngineStream, process, start
<1>7. ASSUME NEW u \in uploads, UploadEnds(u) \/ UploadFails(u)
      PROVE  PendingAppliedOnce'
  BY <1>1, <1>7 DEF UploadEnds, UploadFails, start
<1>8. CASE \/ SecondPasses \/ RecoveryEnds \/ Claim \/ ClaimingEnds \/ Read \/ ReadDropped
           \/ Answer \/ AnswerDropped \/ Ack \/ AbandonEntry
  BY <1>1, <1>8 DEF SecondPasses, RecoveryEnds, Claim, ClaimingEnds, Read, ReadDropped, Answer,
                    AnswerDropped, Ack, AbandonEntry, process, start
<1>9. QED
  BY <1>2, <1>4, <1>5, <1>6, <1>7, <1>8, ProduceSends DEF Next, Work

\* The inductive invariant: the three properties and why they hold.
EngineInvariant ==
  /\ TypeOK /\ InHand /\ AckedIsApplied /\ NotYetApplied
  /\ AppliedOrPending /\ PendingAppliedOnce

LEMMA EngineInvariantHolds == Spec => []EngineInvariant
<1>1. Init => EngineInvariant
  <2>1. SUFFICES ASSUME Init PROVE EngineInvariant
    OBVIOUS
  <2>2. stream \in Seq(Kinds) /\ Len(stream) = 0
    BY <2>1 DEF Init
  <2>3. NothingApplied \in Counts /\ \A i \in Ids : NothingApplied[i] = 0
    BY DEF NothingApplied, Counts
  <2>4. TypeOK
    BY <2>1, <2>2, <2>3, StreamAssumption DEF Init, TypeOK, None
  <2>5. InHand /\ AckedIsApplied /\ AppliedOrPending
    BY <2>1 DEF Init, InHand, AckedIsApplied, AppliedOrPending, None
  <2>6. NotYetApplied /\ PendingAppliedOnce
    BY <2>1, <2>3 DEF Init, NotYetApplied, PendingAppliedOnce
  <2>7. QED
    BY <2>4, <2>5, <2>6 DEF EngineInvariant
<1>2. EngineInvariant /\ [Next]_vars => EngineInvariant'
  <2>1. CASE Next
    BY <2>1, StepKeepsTypes, StepKeepsInHand, StepKeepsAckedIsApplied,
       StepKeepsAppliedOrPending, StepKeepsNotYetApplied, StepKeepsPendingAppliedOnce
       DEF EngineInvariant
  <2>2. ASSUME EngineInvariant, UNCHANGED vars
        PROVE  EngineInvariant'
    <3> USE <2>2 DEF vars, redis, process, faults, start
    <3>1. TypeOK'
      BY DEF EngineInvariant, TypeOK
    <3>2. InHand' /\ AckedIsApplied' /\ NotYetApplied'
      BY DEF EngineInvariant, InHand, AckedIsApplied, NotYetApplied, Parses
    <3>3. AppliedOrPending' /\ PendingAppliedOnce'
      BY DEF EngineInvariant, AppliedOrPending, PendingAppliedOnce, Parses
    <3>4. QED
      BY <3>1, <3>2, <3>3 DEF EngineInvariant
  <2>3. QED
    BY <2>1, <2>2
<1>3. QED
  BY <1>1, <1>2, PTL DEF Spec

\* The stream, the group and the process keep their types.
THEOREM EngineStreamTypes == Spec => []TypeOK
<1>1. EngineInvariant => TypeOK
  BY DEF EngineInvariant
<1>2. QED
  BY <1>1, EngineInvariantHolds, PTL

\* At least once: of what was delivered after the point where the running
\* process took over, nothing is neither applied nor pending.
THEOREM NothingIsPassedBy == Spec => []AppliedOrPending
<1>1. EngineInvariant => AppliedOrPending
  BY DEF EngineInvariant
<1>2. QED
  BY <1>1, EngineInvariantHolds, PTL

\* At most once, for what had been delivered when the process started; at most twice for the rest.
THEOREM NothingIsAppliedTooOften == Spec => []PendingAppliedOnce
<1>1. EngineInvariant => PendingAppliedOnce
  BY DEF EngineInvariant
<1>2. QED
  BY <1>1, EngineInvariantHolds, PTL

-----------------------------------------------------------------------------
(* PriceTimeBook.                                                          *)

\* Taking from the resting orders keeps the book well formed and adds nothing to it.
LEMMA OnlyTakesKeepsTypes ==
  ASSUME BookTypeOK, OnlyTakes({}), arrivals' \in {arrivals, arrivals + 1}
  PROVE  BookTypeOK'
BY DEF BookTypeOK, OnlyTakes

\* A book from which orders are only taken is crossed only if it was crossed before.
LEMMA OnlyTakesKeepsUncrossed ==
  ASSUME NotCrossed, OnlyTakes({})
  PROVE  NotCrossed'
BY DEF NotCrossed, OnlyTakes

\* An order that rests after trading reaches nothing that still rests.
LEMMA RestsOutOfReach ==
  ASSUME Prices \subseteq Nat, BookTypeOK,
         NEW type \in PositionTypes, NEW price \in Prices, NEW size \in Sizes,
         Trade(type, price, size), Filled(type, price) < size, OnlyTakes({arrivals}),
         NEW j \in DOMAIN resting', j # arrivals, resting'[j].type = Opposite(type)
  PROVE  IF type = LONG THEN price < resting'[j].price ELSE resting'[j].price < price
<1>1. /\ j \in DOMAIN resting
      /\ resting'[j].type = resting[j].type
      /\ resting'[j].price = resting[j].price
  BY DEF OnlyTakes
<1>2. resting[j].price \in Nat /\ price \in Nat
  BY <1>1 DEF BookTypeOK
<1>3. Reachable(type, price) \cap DOMAIN resting' = {}
  BY DEF Trade
<1>4. ~Reaches(type, price, resting[j].price)
  BY <1>1, <1>3 DEF Reachable
<1>5. QED
  BY <1>1, <1>2, <1>4 DEF Reaches

\* An arriving limit order leaves a well-formed book, with itself on it or not.
LEMMA LimitKeepsTypes ==
  ASSUME Prices \subseteq Nat, Sizes \subseteq Nat \ {0}, BookTypeOK,
         NEW type \in PositionTypes, NEW price \in Prices, NEW size \in Sizes,
         Limit(type, price, size)
  PROVE  BookTypeOK'
<1>1. CASE Filled(type, price) < size
  <2>1. size - Filled(type, price) \in Nat \ {0}
    <3>1. Filled(type, price) \in 0..size
      BY DEF Limit, Trade
    <3>2. size \in Nat
      OBVIOUS
    <3>3. QED
      BY <1>1, <3>1, <3>2
  <2>2. /\ OnlyTakes({arrivals})
        /\ resting'[arrivals] = [type |-> type, price |-> price,
                                 left |-> size - Filled(type, price)]
    BY <1>1 DEF Limit
  <2>3. ASSUME NEW i \in DOMAIN resting', i # arrivals
        PROVE  /\ i \in DOMAIN resting
               /\ resting'[i].type = resting[i].type
               /\ resting'[i].price = resting[i].price
               /\ resting'[i].left \in 1..resting[i].left
    BY <2>2, <2>3 DEF OnlyTakes
  <2>4. arrivals' = arrivals + 1
    BY DEF Limit
  <2>5. QED
    BY <2>1, <2>2, <2>3, <2>4 DEF BookTypeOK
<1>2. CASE ~(Filled(type, price) < size)
  BY <1>2, OnlyTakesKeepsTypes DEF Limit
<1>3. QED
  BY <1>1, <1>2

\* The orders of the two sides stay apart when a limit order arrives.
LEMMA LimitKeepsUncrossed ==
  ASSUME Prices \subseteq Nat, Sizes \subseteq Nat \ {0}, BookTypeOK, NotCrossed,
         NEW type \in PositionTypes, NEW price \in Prices, NEW size \in Sizes,
         Limit(type, price, size)
  PROVE  NotCrossed'
<1>1. CASE Filled(type, price) < size
  <2>1. /\ Trade(type, price, size)
        /\ OnlyTakes({arrivals})
        /\ resting'[arrivals].type = type
        /\ resting'[arrivals].price = price
    BY <1>1 DEF Limit
  <2>2. SUFFICES ASSUME NEW i \in DOMAIN resting', NEW j \in DOMAIN resting',
                        resting'[i].type = LONG, resting'[j].type = SHORT
                 PROVE  resting'[i].price < resting'[j].price
    BY DEF NotCrossed
  <2>3. CASE i = arrivals
    <3>1. type = LONG /\ j # arrivals /\ resting'[j].type = Opposite(type)
      BY <2>1, <2>2, <2>3 DEF Opposite, LONG, SHORT
    <3>2. QED
      BY <1>1, <2>1, <2>3, <3>1, RestsOutOfReach
  <2>4. CASE j = arrivals
    <3>1. type = SHORT /\ i # arrivals /\ resting'[i].type = Opposite(type)
      BY <2>1, <2>2, <2>4 DEF Opposite, LONG, SHORT
    <3>2. type # LONG
      BY <3>1 DEF LONG, SHORT
    <3>3. QED
      BY <1>1, <2>1, <2>4, <3>1, <3>2, RestsOutOfReach
  <2>5. CASE i # arrivals /\ j # arrivals
    <3>1. /\ i \in DOMAIN resting /\ j \in DOMAIN resting
          /\ resting'[i].type = resting[i].type /\ resting'[i].price = resting[i].price
          /\ resting'[j].type = resting[j].type /\ resting'[j].price = resting[j].price
      BY <2>1, <2>5 DEF OnlyTakes
    <3>2. QED
      BY <2>2, <3>1 DEF NotCrossed
  <2>6. QED
    BY <2>3, <2>4, <2>5
<1>2. CASE ~(Filled(type, price) < size)
  BY <1>2, OnlyTakesKeepsUncrossed DEF Limit
<1>3. QED
  BY <1>1, <1>2

\* What rests is well formed, whatever orders arrive.
THEOREM BookIsWellFormed ==
  ASSUME Prices \subseteq Nat, Sizes \subseteq Nat \ {0}
  PROVE  BookSpec => []BookTypeOK
<1>1. BookInit => BookTypeOK
  BY DEF BookInit, BookTypeOK
<1>2. BookTypeOK /\ [BookNext]_bookVars => BookTypeOK'
  <2>1. SUFFICES ASSUME BookTypeOK, [BookNext]_bookVars
                 PROVE  BookTypeOK'
    OBVIOUS
  <2>2. ASSUME NEW type \in PositionTypes, NEW price \in Prices, NEW size \in Sizes,
               Limit(type, price, size)
        PROVE  BookTypeOK'
    BY <2>1, <2>2, LimitKeepsTypes
  <2>3. ASSUME NEW type \in PositionTypes, NEW size \in Sizes, Market(type, size)
        PROVE  BookTypeOK'
    BY <2>1, <2>3, OnlyTakesKeepsTypes DEF Market
  <2>4. ASSUME NEW i \in DOMAIN resting, Withdraw(i)
        PROVE  BookTypeOK'
    BY <2>1, <2>4, OnlyTakesKeepsTypes DEF Withdraw
  <2>5. CASE UNCHANGED bookVars
    BY <2>1, <2>5 DEF BookTypeOK, bookVars
  <2>6. QED
    BY <2>1, <2>2, <2>3, <2>4, <2>5 DEF BookNext
<1>3. QED
  BY <1>1, <1>2, PTL DEF BookSpec

\* No bid ever reaches an ask: an order rests only when everything it could
\* have traded with is gone, and nothing that rests changes its price.
THEOREM BookIsNeverCrossed ==
  ASSUME Prices \subseteq Nat, Sizes \subseteq Nat \ {0}
  PROVE  BookSpec => []NotCrossed
<1>1. BookInit => NotCrossed
  BY DEF BookInit, NotCrossed
<1>2. BookTypeOK /\ NotCrossed /\ [BookNext]_bookVars => NotCrossed'
  <2>1. SUFFICES ASSUME BookTypeOK, NotCrossed, [BookNext]_bookVars
                 PROVE  NotCrossed'
    OBVIOUS
  <2>2. ASSUME NEW type \in PositionTypes, NEW price \in Prices, NEW size \in Sizes,
               Limit(type, price, size)
        PROVE  NotCrossed'
    BY <2>1, <2>2, LimitKeepsUncrossed
  <2>3. ASSUME NEW type \in PositionTypes, NEW size \in Sizes, Market(type, size)
        PROVE  NotCrossed'
    BY <2>1, <2>3, OnlyTakesKeepsUncrossed DEF Market
  <2>4. ASSUME NEW i \in DOMAIN resting, Withdraw(i)
        PROVE  NotCrossed'
    BY <2>1, <2>4, OnlyTakesKeepsUncrossed DEF Withdraw
  <2>5. CASE UNCHANGED bookVars
    BY <2>1, <2>5 DEF NotCrossed, bookVars
  <2>6. QED
    BY <2>1, <2>2, <2>3, <2>4, <2>5 DEF BookNext
<1>3. QED
  BY <1>1, <1>2, BookIsWellFormed, PTL DEF BookSpec
=============================================================================
