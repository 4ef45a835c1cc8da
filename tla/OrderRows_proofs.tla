-------------------------- MODULE OrderRows_proofs --------------------------
(***************************************************************************)
(* OrderRows for any number of orders and replies, crashes and lost        *)
(* connections: the shape of its state, that no result is lost, that no    *)
(* fill is stored twice, and that a row says what the engine said last.    *)
(***************************************************************************)
EXTENDS OrderRows, WellFoundedInduction, TLAPS

Pending == [status |-> "pending", filledQty |-> 0]
Corrs == [type : {"create", "cancel", "other"}, order : Orders, n : Nat]
Statuses == {"absent", "open", "partially_filled", "filled", "cancelled"}
Answers == [corr : Corrs, ok : BOOLEAN, order : Orders, status : Statuses,
            filledQty : Nat, traded : BOOLEAN]
Requests == [type : {"create", "cancel"}, order : Orders]

\* The functions and sequences that TypeOK speaks of are functions and sequences.
Shape ==
  /\ rows \in [Orders -> Outcomes \cup {Absent, Pending}]
  /\ engine \in [Orders -> Outcomes \cup {Absent}]
  /\ calls \in [Orders -> {"none", "waiting", "settling", "done", "dead"}]
  /\ wire \subseteq Requests
  /\ requests \in Seq(Requests)
  /\ replies \in Seq(Answers) /\ Len(replies) <= MaxReplies
  /\ heard \in 0..Len(replies)
  /\ canceling \subseteq Orders

\* An order is spoken of only once its row has been inserted, and an answer that is a result is an outcome.
SpokenOf ==
  /\ \A o \in Orders : rows[o] = Absent <=> calls[o] = "none"
  /\ \A o \in Orders : engine[o] # Absent => calls[o] # "none"
  /\ \A r \in wire : calls[r.order] # "none"
  /\ \A k \in DOMAIN requests : calls[requests[k].order] # "none"
  /\ \A i \in DOMAIN replies :
       /\ calls[replies[i].order] # "none"
       /\ replies[i].corr.order = replies[i].order
       /\ replies[i].ok => [status |-> replies[i].status, filledQty |-> replies[i].filledQty] \in Outcomes

\* What the db-writer's group and the db-writer hold.
Group ==
  /\ phase \in {"down", "claiming", "listening"}
  /\ delivered \in 0..Len(replies)
  /\ pending \subseteq 1..delivered /\ idle \subseteq pending /\ batch \subseteq pending
  /\ current \in (pending \ batch) \cup {None}
  /\ overtaken \subseteq 1..delivered

\* What is about to be acknowledged has been written, if there was anything to write.
AckedIsWritten == current # None => (replies[current].ok => replies[current].corr \in events)

IInv == Shape /\ SpokenOf /\ Group /\ AckedIsWritten /\ NothingIsSkipped

-----------------------------------------------------------------------------
\* What an outcome is.
LEMMA OutcomeFacts ==
  /\ \A s \in Outcomes : /\ s.status \in Statuses /\ s.filledQty \in Nat
                         /\ s = [status |-> s.status, filledQty |-> s.filledQty]
                         /\ s # Absent /\ s # Pending
                         /\ s.status # "pending"
  /\ \A n \in 0..Quantity - 1 : [status |-> "cancelled", filledQty |-> n] \in Outcomes
  /\ \A n \in 1..Quantity - 1 : [status |-> "partially_filled", filledQty |-> n] \in Outcomes
  /\ [status |-> "filled", filledQty |-> Quantity] \in Outcomes
<1> USE RowsAssumption
<1>1. ASSUME NEW s \in Outcomes
      PROVE  /\ s.status \in Statuses /\ s.filledQty \in Nat
             /\ s = [status |-> s.status, filledQty |-> s.filledQty]
             /\ s.status # "pending" /\ s.status # "absent"
  <2>1. s \in [status : {"open", "partially_filled", "filled", "cancelled"}, filledQty : 0..Quantity]
    BY DEF Outcomes
  <2>2. /\ s.status \in {"open", "partially_filled", "filled", "cancelled"}
        /\ s.filledQty \in 0..Quantity
    BY <2>1
  <2>3. s = [status |-> s.status, filledQty |-> s.filledQty]
    BY <2>1
  <2>4. s.status \in Statuses /\ s.filledQty \in Nat
    BY <2>2 DEF Statuses
  <2>5. s.status # "pending" /\ s.status # "absent"
    BY <2>2
  <2>6. QED
    BY <2>3, <2>4, <2>5
<1>2. \A n \in 0..Quantity - 1 : [status |-> "cancelled", filledQty |-> n] \in Outcomes
  BY DEF Outcomes
<1>3. \A n \in 1..Quantity - 1 : [status |-> "partially_filled", filledQty |-> n] \in Outcomes
  BY DEF Outcomes
<1>4. [status |-> "filled", filledQty |-> Quantity] \in Outcomes
  BY DEF Outcomes
<1>5. QED
  BY <1>1, <1>2, <1>3, <1>4 DEF Absent, Pending

\* What an order of the engine that still rests may become.
LEMMA RestingFacts ==
  ASSUME NEW s \in Outcomes \cup {Absent}, s.status \in Resting
  PROVE  /\ [s EXCEPT !.status = "cancelled"] \in Outcomes
         /\ s.filledQty + 1 \in 1..Quantity
<1>1. s \in Outcomes
  BY DEF Absent, Resting
<1>2. s.filledQty \in 0..Quantity - 1
  BY <1>1, RowsAssumption DEF Outcomes, Resting
<1>3. [s EXCEPT !.status = "cancelled"] = [status |-> "cancelled", filledQty |-> s.filledQty]
  BY <1>1 DEF Outcomes
<1>4. QED
  BY <1>2, <1>3, OutcomeFacts, RowsAssumption

\* Steps that leave the replies and the db-writer's side alone keep what is said of them.
LEMMA ElsewhereKeepsGroup ==
  ASSUME Group, AckedIsWritten, NothingIsSkipped,
         UNCHANGED <<replies, events, group, writer, overtaken>>
  PROVE  Group' /\ AckedIsWritten' /\ NothingIsSkipped'
BY DEF Group, AckedIsWritten, NothingIsSkipped, group, writer

\* Nor does another answer at the end of the stream disturb it.
LEMMA AppendKeepsGroup ==
  ASSUME Group, AckedIsWritten, NothingIsSkipped, replies \in Seq(Answers),
         NEW a \in Answers, replies' = Append(replies, a),
         UNCHANGED <<events, group, writer, overtaken>>
  PROVE  Group' /\ AckedIsWritten' /\ NothingIsSkipped'
<1>1. /\ Len(replies') = Len(replies) + 1 /\ Len(replies) \in Nat
      /\ \A i \in 1..Len(replies) : replies'[i] = replies[i]
  OBVIOUS
<1>2. Group'
  BY <1>1 DEF Group, group, writer
<1>3. AckedIsWritten'
  <2>1. current' = current /\ events' = events
    BY DEF writer
  <2>2. current # None => current \in 1..Len(replies)
    BY <1>1 DEF Group
  <2>3. QED
    BY <1>1, <2>1, <2>2 DEF AckedIsWritten
<1>4. NothingIsSkipped'
  <2>1. 1..delivered \subseteq 1..Len(replies)
    BY <1>1 DEF Group
  <2>2. QED
    BY <1>1, <2>1 DEF NothingIsSkipped, group
<1>5. QED
  BY <1>2, <1>3, <1>4

\* What is spoken of stays so while createOrder moves on and nothing else changes hands.
LEMMA MovingOnKeepsSpokenOf ==
  ASSUME Shape, SpokenOf,
         \A p \in Orders : calls'[p] = "none" <=> calls[p] = "none",
         \A p \in Orders : rows'[p] = Absent <=> rows[p] = Absent,
         wire' \subseteq wire, UNCHANGED <<requests, engine, replies>>
  PROVE  SpokenOf'
<1>1. \A r \in wire : r.order \in Orders
  BY DEF Shape, Requests
<1>2. ASSUME NEW k \in DOMAIN requests
      PROVE  requests[k].order \in Orders
  <2>1. requests[k] \in Requests
    BY DEF Shape
  <2>2. QED
    BY <2>1 DEF Requests
<1>3. ASSUME NEW i \in DOMAIN replies
      PROVE  replies[i].order \in Orders
  <2>1. replies[i] \in Answers
    BY DEF Shape
  <2>2. QED
    BY <2>1 DEF Answers
<1>4. QED
  BY <1>1, <1>2, <1>3 DEF SpokenOf

\* The backend's steps.
LEMMA BackendKeeps ==
  ASSUME IInv, NEW o \in Orders,
         \/ InsertRow(o) \/ SendFails(o) \/ Timeout(o) \/ Settle(o) \/ BackendStops(o)
         \/ RequestCancel(o) \/ Hear \/ \E r \in wire : Arrive(r)
  PROVE  Shape' /\ SpokenOf'
<1> USE DEF IInv
<1>1. CASE InsertRow(o)
  <2>1. Shape'
    BY <1>1 DEF InsertRow, Shape, Pending, Requests, trader
  <2>2. SpokenOf'
    BY <1>1 DEF InsertRow, Shape, SpokenOf, Absent, trader, Requests, Answers
  <2>3. QED
    BY <2>1, <2>2
<1>2. ASSUME NEW r \in wire, requests' \in {requests, Append(requests, r)},
             wire' = wire \ {r}
      PROVE  /\ wire' \subseteq Requests /\ requests' \in Seq(Requests)
             /\ \A k \in DOMAIN requests' : calls[requests'[k].order] # "none"
  <2>1. r \in Requests /\ calls[r.order] # "none" /\ requests \in Seq(Requests)
    BY DEF Shape, SpokenOf
  <2>2. CASE requests' = requests
    BY <1>2, <2>1, <2>2 DEF Shape, SpokenOf
  <2>3. CASE requests' = Append(requests, r)
    BY <1>2, <2>1, <2>3 DEF Shape, SpokenOf
  <2>4. QED
    BY <1>2, <2>2, <2>3
<1>3. ASSUME NEW r \in wire, Arrive(r)
      PROVE  Shape' /\ SpokenOf'
  <2>1. wire' \subseteq Requests /\ requests' \in Seq(Requests)
        /\ \A k \in DOMAIN requests' : calls[requests'[k].order] # "none"
    BY <1>2, <1>3 DEF Arrive
  <2>2. QED
    BY <1>3, <2>1 DEF Arrive, Shape, SpokenOf, db
<1>4. CASE SendFails(o)
  <2>1. wire' \subseteq Requests /\ requests' \in Seq(Requests)
        /\ \A k \in DOMAIN requests' : calls[requests'[k].order] # "none"
    BY <1>2, <1>4 DEF SendFails
  <2>2. calls' \in [Orders -> {"none", "waiting", "settling", "done", "dead"}]
        /\ \A p \in Orders : calls'[p] = "none" <=> calls[p] = "none"
    BY <1>4 DEF SendFails, Shape
  <2>3. Shape'
    BY <1>4, <2>1, <2>2 DEF SendFails, Shape, db
  <2>4. SpokenOf'
    BY <1>4, <2>1, <2>2 DEF SendFails, Shape, SpokenOf, db, Requests, Answers
  <2>5. QED
    BY <2>3, <2>4
<1>5. CASE Timeout(o) \/ Hear
  <2>1. calls' \in [Orders -> {"none", "waiting", "settling", "done", "dead"}]
        /\ \A p \in Orders : calls'[p] = "none" <=> calls[p] = "none"
    BY <1>5 DEF Timeout, Hear, Shape
  <2>2. UNCHANGED <<rows, canceling, wire, requests, engine, replies>> /\ heard' \in 0..Len(replies)
    BY <1>5 DEF Timeout, Hear, Shape, db, trader
  <2>3. Shape'
    BY <2>1, <2>2 DEF Shape
  <2>4. SpokenOf'
    BY <2>1, <2>2, MovingOnKeepsSpokenOf DEF IInv
  <2>5. QED
    BY <2>3, <2>4
<1>6. CASE Settle(o)
  <2>1. calls' \in [Orders -> {"none", "waiting", "settling", "done", "dead"}]
        /\ \A p \in Orders : calls'[p] = "none" <=> calls[p] = "none"
    BY <1>6 DEF Settle, Shape
  <2>2. /\ rows' \in [Orders -> Outcomes \cup {Absent, Pending}]
        /\ \A p \in Orders : rows'[p] = Absent <=> rows[p] = Absent
    <3>1. [rows[o] EXCEPT !.status = IF @ = "pending" THEN "cancelled" ELSE @]
            = IF rows[o] = Pending THEN [status |-> "cancelled", filledQty |-> 0] ELSE rows[o]
      <4>1. CASE rows[o] = Pending
        BY <4>1 DEF Pending
      <4>2. CASE rows[o] = Absent
        BY <4>2 DEF Pending, Absent
      <4>3. CASE rows[o] \in Outcomes
        BY <4>3, OutcomeFacts DEF Outcomes
      <4>4. QED
        BY <4>1, <4>2, <4>3 DEF Shape
    <3>2. rows' = [rows EXCEPT ![o] = IF rows[o] = Pending THEN [status |-> "cancelled", filledQty |-> 0]
                                       ELSE rows[o]]
      BY <1>6, <3>1 DEF Settle, Shape
    <3>3. [status |-> "cancelled", filledQty |-> 0] \in Outcomes
      BY OutcomeFacts, RowsAssumption
    <3>4. QED
      BY <3>2, <3>3, OutcomeFacts DEF Shape, Pending, Absent
  <2>3. UNCHANGED <<canceling, wire, requests, engine, replies, heard>>
    BY <1>6 DEF Settle, trader
  <2>4. Shape'
    BY <2>1, <2>2, <2>3 DEF Shape
  <2>5. SpokenOf'
    BY <2>1, <2>2, <2>3, MovingOnKeepsSpokenOf DEF IInv
  <2>6. QED
    BY <2>4, <2>5
<1>7. CASE BackendStops(o)
  <2>1. calls' \in [Orders -> {"none", "waiting", "settling", "done", "dead"}]
        /\ \A p \in Orders : calls'[p] = "none" <=> calls[p] = "none"
    BY <1>7 DEF BackendStops, Shape
  <2>2. UNCHANGED <<rows, canceling, requests, engine, replies, heard>> /\ wire' \subseteq wire
    BY <1>7 DEF BackendStops, db, trader
  <2>3. Shape'
    BY <2>1, <2>2 DEF Shape
  <2>4. SpokenOf'
    BY <2>1, <2>2, MovingOnKeepsSpokenOf DEF IInv
  <2>5. QED
    BY <2>3, <2>4
<1>8. CASE RequestCancel(o)
  <2>1. Shape'
    BY <1>8 DEF RequestCancel, Shape, Requests, db, trader
  <2>2. SpokenOf'
    BY <1>8 DEF RequestCancel, Shape, SpokenOf, Absent, db, trader, Requests, Answers
  <2>3. QED
    BY <2>1, <2>2
<1>9. QED
  BY <1>1, <1>3, <1>4, <1>5, <1>6, <1>7, <1>8

\* What the engine makes of one order leaves what it has made of the others.
LEMMA EngineDecides ==
  ASSUME engine \in [Orders -> Outcomes \cup {Absent}], NEW o \in Orders, calls[o] # "none",
         \A p \in Orders : engine[p] # Absent => calls[p] # "none",
         NEW s \in Outcomes, engine' \in {engine, [engine EXCEPT ![o] = s]}
  PROVE  /\ engine' \in [Orders -> Outcomes \cup {Absent}]
         /\ \A p \in Orders : engine'[p] # Absent => calls[p] # "none"
<1>1. CASE engine' = engine
  BY <1>1
<1>2. CASE engine' = [engine EXCEPT ![o] = s]
  BY <1>2
<1> QED  BY <1>1, <1>2

\* An answer about an order that has a row, and what the engine makes of the order.
LEMMA AnswerKeeps ==
  ASSUME IInv, NEW o \in Orders, calls[o] # "none", NEW a \in Answers,
         a.order = o, a.corr.order = o,
         a.ok => [status |-> a.status, filledQty |-> a.filledQty] \in Outcomes,
         NEW s \in Outcomes, engine' \in {engine, [engine EXCEPT ![o] = s]},
         Len(replies) < MaxReplies, replies' = Append(replies, a),
         requests' \in Seq(Requests),
         \A k \in DOMAIN requests' : calls[requests'[k].order] # "none",
         UNCHANGED <<db, backend, group, writer, overtaken>>
  PROVE  IInv'
<1>1. replies \in Seq(Answers) /\ Len(replies) \in Nat
  BY DEF IInv, Shape
<1>2. /\ replies' \in Seq(Answers) /\ Len(replies') = Len(replies) + 1
      /\ replies'[Len(replies) + 1] = a
      /\ \A i \in 1..Len(replies) : replies'[i] = replies[i]
      /\ DOMAIN replies' = 1..Len(replies) + 1 /\ DOMAIN replies = 1..Len(replies)
  BY <1>1
<1>3. /\ engine' \in [Orders -> Outcomes \cup {Absent}]
      /\ \A p \in Orders : engine'[p] # Absent => calls[p] # "none"
  <2>1. /\ engine \in [Orders -> Outcomes \cup {Absent}]
        /\ \A p \in Orders : engine[p] # Absent => calls[p] # "none"
    BY DEF IInv, Shape, SpokenOf
  <2> QED  BY <2>1, EngineDecides
<1>4. UNCHANGED <<rows, calls, wire, canceling, heard, events>>
  BY DEF db, backend
<1>5. Shape'
  BY <1>2, <1>3, <1>4, RowsAssumption DEF IInv, Shape
<1>6. SpokenOf'
  <2>1. \A i \in DOMAIN replies' :
          /\ calls[replies'[i].order] # "none"
          /\ replies'[i].corr.order = replies'[i].order
          /\ replies'[i].ok => [status |-> replies'[i].status, filledQty |-> replies'[i].filledQty] \in Outcomes
    <3>1. SUFFICES ASSUME NEW i \in 1..Len(replies) + 1
                   PROVE  /\ calls[replies'[i].order] # "none"
                          /\ replies'[i].corr.order = replies'[i].order
                          /\ replies'[i].ok => [status |-> replies'[i].status,
                                                filledQty |-> replies'[i].filledQty] \in Outcomes
      BY <1>2
    <3>2. CASE i = Len(replies) + 1
      BY <1>2, <3>2
    <3>3. CASE i \in 1..Len(replies)
      BY <1>2, <3>3 DEF IInv, SpokenOf
    <3>4. QED
      BY <1>1, <3>2, <3>3
  <2>2. QED
    BY <1>3, <1>4, <2>1 DEF IInv, SpokenOf
<1>7. Group' /\ AckedIsWritten' /\ NothingIsSkipped'
  BY <1>1, <1>4, AppendKeepsGroup DEF IInv
<1>8. QED
  BY <1>5, <1>6, <1>7 DEF IInv

\* What the engine's answers are.
LEMMA ReplyFacts ==
  ASSUME NEW corr \in Corrs
  PROVE  /\ Refusal(corr) \in Answers /\ Refusal(corr).order = corr.order
         /\ Refusal(corr).corr = corr /\ Refusal(corr).ok = FALSE
         /\ \A s \in Outcomes, t \in BOOLEAN :
              LET a == Reply(corr, TRUE, s, t)
              IN  /\ a \in Answers /\ a.order = corr.order /\ a.corr = corr
                  /\ [status |-> a.status, filledQty |-> a.filledQty] \in Outcomes
<1>1. corr.order \in Orders
  BY DEF Corrs
<1>2. /\ Refusal(corr) \in Answers /\ Refusal(corr).order = corr.order
      /\ Refusal(corr).corr = corr /\ Refusal(corr).ok = FALSE
  BY <1>1 DEF Refusal, Reply, Answers, Absent, Statuses
<1>3. ASSUME NEW s \in Outcomes, NEW t \in BOOLEAN
      PROVE  LET a == Reply(corr, TRUE, s, t)
             IN  /\ a \in Answers /\ a.order = corr.order /\ a.corr = corr
                 /\ [status |-> a.status, filledQty |-> a.filledQty] \in Outcomes
  <2>1. s.status \in Statuses /\ s.filledQty \in Nat
        /\ [status |-> s.status, filledQty |-> s.filledQty] \in Outcomes
    BY OutcomeFacts
  <2>2. QED
    BY <1>1, <2>1 DEF Reply, Answers
<1>4. QED
  BY <1>2, <1>3

\* What the answer to an order that was accepted is.
LEMMA ResultFacts ==
  ASSUME NEW corr \in Corrs, NEW s \in Outcomes
  PROVE  \E a \in Answers :
           /\ a = Reply(corr, TRUE, s, s.filledQty > 0) /\ a.order = corr.order /\ a.corr = corr
           /\ [status |-> a.status, filledQty |-> a.filledQty] \in Outcomes
<1>1. s.filledQty \in Nat
  BY OutcomeFacts
<1>2. CASE s.filledQty > 0
  <2>1. Reply(corr, TRUE, s, s.filledQty > 0) = Reply(corr, TRUE, s, TRUE)
    BY <1>2 DEF Reply
  <2>2. QED
    BY ZenonT(60), <2>1, ReplyFacts
<1>3. CASE ~(s.filledQty > 0)
  <2>1. (s.filledQty > 0) = FALSE
    BY <1>3
  <2>2. Reply(corr, TRUE, s, s.filledQty > 0) = Reply(corr, TRUE, s, FALSE)
    BY <2>1, Zenon
  <2>3. QED
    BY ZenonT(60), <2>2, ReplyFacts
<1>4. QED
  BY <1>2, <1>3

\* There is an outcome.
LEMMA SomeOutcome == [status |-> "filled", filledQty |-> Quantity] \in Outcomes
BY OutcomeFacts

\* The engine's steps.
LEMMA EngineKeeps ==
  ASSUME IInv, NEW o \in Orders,
         \/ HandleCreate(o) \/ HandleCancel(o) \/ MakerFill(o)
         \/ \E i \in DOMAIN replies : AnswerAgain(i)
  PROVE  IInv'
<1> DEFINE some == [status |-> "filled", filledQty |-> Quantity]
<1>1. some \in Outcomes
  BY SomeOutcome
<1>2. requests \in Seq(Requests) /\ \A k \in DOMAIN requests : calls[requests[k].order] # "none"
  BY DEF IInv, Shape, SpokenOf
<1>3. ASSUME requests # <<>>, requests' = Tail(requests), Head(requests).order = o
      PROVE  /\ requests' \in Seq(Requests)
             /\ \A k \in DOMAIN requests' : calls[requests'[k].order] # "none"
             /\ calls[o] # "none"
  <2>1. requests' \in Seq(Requests) /\ \A k \in DOMAIN requests' :
           k + 1 \in DOMAIN requests /\ requests'[k] = requests[k + 1]
    BY <1>2, <1>3
  <2>2. 1 \in DOMAIN requests /\ requests[1] = Head(requests)
    BY <1>2, <1>3
  <2>3. QED
    BY <1>2, <1>3, <2>1, <2>2
<1>4. CASE HandleCreate(o)
  <2> DEFINE corr == [type |-> "create", order |-> o, n |-> 0]
  <2>1. corr \in Corrs /\ corr.order = o
    BY DEF Corrs
  <2>2. /\ requests' \in Seq(Requests) /\ calls[o] # "none"
        /\ \A k \in DOMAIN requests' : calls[requests'[k].order] # "none"
    BY <1>3, <1>4 DEF HandleCreate
  <2>3. Len(replies) < MaxReplies /\ UNCHANGED <<db, backend, group, writer, overtaken>>
    BY <1>4 DEF HandleCreate
  <2> HIDE DEF corr
  <2>4. CASE replies' = Append(replies, Refusal(corr)) /\ UNCHANGED engine
    BY <1>1, <2>1, <2>2, <2>3, <2>4, ReplyFacts, AnswerKeeps
  <2>5. ASSUME NEW s \in Outcomes, engine' = [engine EXCEPT ![o] = s],
               replies' = Append(replies, Reply(corr, TRUE, s, s.filledQty > 0))
        PROVE  IInv'
    <3>1. PICK a \in Answers :
            /\ a = Reply(corr, TRUE, s, s.filledQty > 0) /\ a.order = corr.order /\ a.corr = corr
            /\ [status |-> a.status, filledQty |-> a.filledQty] \in Outcomes
      BY <2>1, ResultFacts
    <3>2. replies' = Append(replies, a)
      BY <2>5, <3>1
    <3>3. QED
      BY <2>1, <2>2, <2>3, <2>5, <3>1, <3>2, AnswerKeeps
  <2>6. QED
    BY <1>4, <2>4, <2>5 DEF HandleCreate, corr
<1>5. CASE HandleCancel(o)
  <2> DEFINE corr == [type |-> "cancel", order |-> o, n |-> 0]
             gone == [engine[o] EXCEPT !.status = "cancelled"]
  <2>1. corr \in Corrs /\ corr.order = o
    BY DEF Corrs
  <2>2. /\ requests' \in Seq(Requests) /\ calls[o] # "none"
        /\ \A k \in DOMAIN requests' : calls[requests'[k].order] # "none"
    BY <1>3, <1>5 DEF HandleCancel
  <2>3. Len(replies) < MaxReplies /\ UNCHANGED <<db, backend, group, writer, overtaken>>
    BY <1>5 DEF HandleCancel
  <2>4. engine[o].status \in Resting => gone \in Outcomes
    BY RestingFacts DEF IInv, Shape
  <2>5. CASE engine[o].status \in Resting
    <3>1. /\ engine' = [engine EXCEPT ![o] = gone]
          /\ replies' = Append(replies, Reply(corr, TRUE, gone, FALSE))
      BY <1>5, <2>5 DEF HandleCancel
    <3> HIDE DEF corr, gone
    <3>2. QED
      BY ZenonT(60), <2>1, <2>2, <2>3, <2>4, <2>5, <3>1, ReplyFacts, AnswerKeeps
  <2>6. CASE engine[o].status \notin Resting
    <3>1. UNCHANGED engine /\ replies' = Append(replies, Refusal(corr))
      BY <1>5, <2>6 DEF HandleCancel
    <3> HIDE DEF corr
    <3>2. QED
      BY <1>1, <2>1, <2>2, <2>3, <3>1, ReplyFacts, AnswerKeeps
  <2>7. QED
    BY <2>5, <2>6
<1>6. CASE MakerFill(o)
  <2> DEFINE more == engine[o].filledQty + 1
             corr == [type |-> "other", order |-> o, n |-> more]
             s == [status |-> IF more = Quantity THEN "filled" ELSE "partially_filled",
                   filledQty |-> more]
  <2>1. engine[o].status \in Resting /\ engine[o] \in Outcomes \cup {Absent}
    BY <1>6 DEF MakerFill, IInv, Shape
  <2>2. more \in 1..Quantity
    BY <2>1, RestingFacts
  <2>3. s \in Outcomes
    <3>1. CASE more = Quantity
      BY <3>1, OutcomeFacts
    <3>2. CASE more # Quantity
      <4>1. more \in 1..Quantity - 1
        BY <2>2, <3>2, RowsAssumption
      <4>2. QED
        BY <3>2, <4>1, OutcomeFacts
    <3>3. QED
      BY <3>1, <3>2
  <2>4. corr \in Corrs /\ corr.order = o
    BY <2>2, RowsAssumption DEF Corrs
  <2>5. calls[o] # "none"
    BY <2>1 DEF IInv, SpokenOf, Absent, Resting
  <2>6. /\ Len(replies) < MaxReplies
        /\ engine' = [engine EXCEPT ![o] = s]
        /\ replies' = Append(replies, Reply(corr, TRUE, s, TRUE))
        /\ UNCHANGED <<db, backend, requests, group, writer, overtaken>>
    BY <1>6 DEF MakerFill
  <2> HIDE DEF more, corr, s
  <2>7. QED
    BY ZenonT(60), <1>2, <2>3, <2>4, <2>5, <2>6, ReplyFacts, AnswerKeeps
<1>7. ASSUME NEW i \in DOMAIN replies, AnswerAgain(i)
      PROVE  IInv'
  <2> DEFINE corr == replies[i].corr
             p == corr.order
  <2>1. replies[i] \in Answers /\ corr \in Corrs
    <3>1. replies[i] \in Answers
      BY DEF IInv, Shape
    <3>2. QED
      BY <3>1 DEF Answers
  <2>2. p \in Orders /\ calls[p] # "none"
    <3>1. p \in Orders
      BY <2>1 DEF Corrs
    <3>2. QED
      BY <3>1 DEF IInv, SpokenOf
  <2>3. Len(replies) < MaxReplies /\ UNCHANGED <<db, backend, requests, group, writer, overtaken>>
    BY <1>7 DEF AnswerAgain, writer
  <2>4. \/ /\ replies' = Append(replies, Refusal(corr))
           /\ UNCHANGED engine
        \/ \E s \in Outcomes :
             /\ replies' = Append(replies, Reply(corr, TRUE, s, s.filledQty > 0))
             /\ engine' = [engine EXCEPT ![p] = IF @ = Absent THEN s ELSE @]
    BY <1>7 DEF AnswerAgain
  <2>5. DOMAIN engine = Orders
    BY DEF IInv, Shape
  <2>6. \A s : \/ [engine EXCEPT ![p] = IF @ = Absent THEN s ELSE @] = engine
               \/ [engine EXCEPT ![p] = IF @ = Absent THEN s ELSE @] = [engine EXCEPT ![p] = s]
    BY DEF IInv, Shape
  <2> HIDE DEF corr, p
  <2>7. corr.order = p
    BY DEF p
  <2>8. CASE replies' = Append(replies, Refusal(corr)) /\ UNCHANGED engine
    BY <1>1, <1>2, <2>1, <2>2, <2>3, <2>7, <2>8, ReplyFacts, AnswerKeeps
  <2>9. ASSUME NEW s \in Outcomes,
               replies' = Append(replies, Reply(corr, TRUE, s, s.filledQty > 0)),
               engine' = [engine EXCEPT ![p] = IF @ = Absent THEN s ELSE @]
        PROVE  IInv'
    <3>1. PICK a \in Answers :
            /\ a = Reply(corr, TRUE, s, s.filledQty > 0) /\ a.order = corr.order /\ a.corr = corr
            /\ [status |-> a.status, filledQty |-> a.filledQty] \in Outcomes
      BY <2>1, ResultFacts
    <3>2. engine' \in {engine, [engine EXCEPT ![p] = s]}
      BY <2>6, <2>9
    <3>3. replies' = Append(replies, a)
      BY <2>9, <3>1
    <3>4. QED
      BY <1>2, <2>1, <2>2, <2>3, <2>7, <3>1, <3>2, <3>3, AnswerKeeps
  <2>10. QED
    BY <2>4, <2>8, <2>9
<1>8. QED
  BY <1>4, <1>5, <1>6, <1>7
-----------------------------------------------------------------------------
\* The db-writer's steps that write nothing: what they hand on stays accounted for.
LEMMA HandingOnKeeps ==
  ASSUME IInv,
         \/ Start \/ SecondPasses \/ Claim \/ ClaimingEnds \/ Read \/ ReadDropped
         \/ AckDropped \/ Crash \/ \E i \in batch : SkipDuplicate(i)
  PROVE  IInv'
<1>1. Shape' /\ SpokenOf'
  <2>1. UNCHANGED <<rows, events, calls, canceling, heard, wire, requests, engine, replies>>
    BY DEF Start, SecondPasses, Claim, ClaimingEnds, Read, ReadDropped, AckDropped, Crash,
           SkipDuplicate, db, backend, trader
  <2>2. QED
    BY <2>1 DEF IInv, Shape, SpokenOf
<1>2. events' = events /\ replies' = replies /\ Len(replies) \in Nat
  BY DEF Start, SecondPasses, Claim, ClaimingEnds, Read, ReadDropped, AckDropped, Crash,
         SkipDuplicate, db, trader, IInv, Shape
<1>3. CASE Start \/ SecondPasses \/ Claim \/ ClaimingEnds \/ AckDropped \/ Crash
  <2>1. Group'
    BY <1>2, <1>3 DEF Start, SecondPasses, Claim, ClaimingEnds, AckDropped, Crash, IInv, Group, group, writer
  <2>2. delivered' = delivered /\ pending' = pending /\ current' \in {current, None}
    BY <1>3 DEF Start, SecondPasses, Claim, ClaimingEnds, AckDropped, Crash, group, writer
  <2>3. AckedIsWritten' /\ NothingIsSkipped'
    BY <1>2, <2>2 DEF IInv, AckedIsWritten, NothingIsSkipped
  <2>4. QED
    BY <1>1, <2>1, <2>3 DEF IInv
<1>4. CASE Read \/ ReadDropped
  <2>1. /\ delivered' = delivered + 1 /\ delivered' \in 0..Len(replies')
        /\ pending' = pending \cup {delivered'} /\ idle' = idle /\ current' = current
        /\ current = None /\ phase' = phase /\ overtaken' = overtaken
        /\ batch' \subseteq pending'
    <3>1. delivered < Len(replies) /\ delivered \in Nat /\ batch = {} /\ current = None
      BY <1>2, <1>4 DEF Read, ReadDropped, IInv, Group
    <3>2. /\ delivered' = delivered + 1 /\ pending' = pending \cup {delivered'}
          /\ idle' = idle /\ current' = current /\ phase' = phase /\ overtaken' = overtaken
          /\ batch' \in {batch, {delivered'}}
      BY <1>4 DEF Read, ReadDropped, writer
    <3>3. QED
      BY <1>2, <3>1, <3>2
  <2>2. Group'
    BY <2>1 DEF IInv, Group
  <2>3. AckedIsWritten'
    BY <2>1 DEF AckedIsWritten
  <2>4. \A i \in 1..delivered' : i \in 1..delivered \/ i = delivered'
    BY <1>2, <2>1 DEF IInv, Group
  <2>5. NothingIsSkipped'
    BY <1>2, <2>1, <2>4 DEF IInv, NothingIsSkipped
  <2>6. QED
    BY <1>1, <2>2, <2>3, <2>5 DEF IInv
<1>5. ASSUME NEW i \in batch, SkipDuplicate(i)
      PROVE  IInv'
  <2>1. UNCHANGED <<delivered, pending, idle, phase, overtaken>>
    BY <1>5 DEF SkipDuplicate, group
  <2>2. batch' = batch \ {i} /\ current' \in {i, None} /\ replies[i].corr \in events
    BY <1>5 DEF SkipDuplicate, Duplicate
  <2>3. Group'
    BY <1>2, <2>1, <2>2 DEF IInv, Group
  <2>4. AckedIsWritten' /\ NothingIsSkipped'
    BY <1>2, <2>1, <2>2 DEF IInv, AckedIsWritten, NothingIsSkipped
  <2>5. QED
    BY <1>1, <2>3, <2>4 DEF IInv
<1>6. QED
  BY <1>3, <1>4, <1>5

\* Acknowledging an entry gives up only what has been written.
LEMMA AckKeeps ==
  ASSUME IInv, Ack
  PROVE  IInv'
<1>1. Shape' /\ SpokenOf'
  <2>1. UNCHANGED <<rows, events, calls, canceling, heard, wire, requests, engine, replies>>
    BY DEF Ack, db, backend, trader
  <2>2. QED
    BY <2>1 DEF IInv, Shape, SpokenOf
<1>2. /\ UNCHANGED <<events, replies, delivered, phase, batch, overtaken>>
      /\ pending' = pending \ {current} /\ idle' = idle \ {current} /\ current' = None
      /\ current # None
  BY DEF Ack, db, trader
<1>3. Group' /\ AckedIsWritten'
  BY <1>2 DEF IInv, Group, AckedIsWritten
<1>4. NothingIsSkipped'
  <2>1. SUFFICES ASSUME NEW i \in 1..delivered, replies[i].ok
                 PROVE  replies[i].corr \in events \/ i \in pending \ {current}
    BY <1>2 DEF NothingIsSkipped
  <2>2. CASE i = current
    BY <1>2, <2>1, <2>2 DEF IInv, AckedIsWritten
  <2>3. CASE i # current
    BY <2>1, <2>3 DEF IInv, NothingIsSkipped
  <2>4. QED
    BY <2>2, <2>3
<1>5. QED
  BY <1>1, <1>3, <1>4 DEF IInv

\* Writing a reply writes down its correlation id, and leaves the row with an outcome of the engine.
LEMMA WriteKeeps ==
  ASSUME IInv, NEW i \in batch, Write(i)
  PROVE  IInv'
<1>1. UNCHANGED <<calls, canceling, heard, wire, requests, engine, replies, delivered, pending, idle, phase>>
  BY DEF Write, backend, trader, group
<1>2. /\ batch' = batch \ {i} /\ current' = i
      /\ events \subseteq events' /\ (replies[i].ok => replies[i].corr \in events')
      /\ overtaken' \subseteq overtaken \cup pending
  BY DEF Write, HasRows, db
<1>3. i \in DOMAIN replies /\ i \in pending
  BY DEF IInv, Group, Shape
<1>4. /\ rows' \in [Orders -> Outcomes \cup {Absent, Pending}]
      /\ \A p \in Orders : rows'[p] = Absent <=> rows[p] = Absent
  <2>1. CASE ~replies[i].ok
    BY <2>1 DEF Write, HasRows, db, IInv, Shape
  <2>2. CASE replies[i].ok
    <3> DEFINE p == replies[i].order
               s == [status |-> replies[i].status, filledQty |-> replies[i].filledQty]
    <3>1. p \in Orders
      <4>1. replies[i] \in Answers
        BY <1>3 DEF IInv, Shape
      <4>2. QED
        BY <4>1 DEF Answers
    <3>2. s \in Outcomes /\ s # Absent
      BY <1>3, <2>2, OutcomeFacts DEF IInv, SpokenOf
    <3>3. rows[p] # Absent
      BY <1>3, <3>1 DEF IInv, SpokenOf
    <3>4. rows' = [rows EXCEPT ![p] = s]
      BY <2>2 DEF Write, HasRows
    <3> HIDE DEF p, s
    <3>5. QED
      BY <3>1, <3>2, <3>3, <3>4 DEF IInv, Shape
  <2>3. QED
    BY <2>1, <2>2
<1>5. Shape'
  BY <1>1, <1>4 DEF IInv, Shape
<1>6. SpokenOf'
  BY <1>1, <1>4, MovingOnKeepsSpokenOf DEF IInv
<1>7. Group'
  BY <1>1, <1>2, <1>3 DEF IInv, Group
<1>8. AckedIsWritten' /\ NothingIsSkipped'
  BY <1>1, <1>2 DEF IInv, AckedIsWritten, NothingIsSkipped
<1>9. QED
  BY <1>5, <1>6, <1>7, <1>8 DEF IInv

-----------------------------------------------------------------------------
LEMMA InitEstablishes == Init => IInv
<1> SUFFICES ASSUME Init PROVE IInv
  OBVIOUS
<1>1. Shape
  BY RowsAssumption DEF Init, Shape, Absent
<1>2. SpokenOf /\ Group /\ AckedIsWritten /\ NothingIsSkipped
  BY DEF Init, SpokenOf, Group, AckedIsWritten, NothingIsSkipped
<1>3. QED
  BY <1>1, <1>2 DEF IInv

LEMMA NextKeeps == IInv /\ [Next]_vars => IInv'
<1> SUFFICES ASSUME IInv, [Next]_vars PROVE IInv'
  OBVIOUS
<1>1. ASSUME NEW o \in Orders,
             \/ InsertRow(o) \/ SendFails(o) \/ Timeout(o) \/ Settle(o) \/ BackendStops(o)
             \/ RequestCancel(o) \/ Hear \/ \E r \in wire : Arrive(r)
      PROVE  IInv'
  <2>1. Shape' /\ SpokenOf'
    BY <1>1, BackendKeeps
  <2>2. UNCHANGED <<replies, events, group, writer, overtaken>>
    BY <1>1 DEF InsertRow, SendFails, Timeout, Settle, BackendStops, RequestCancel, Hear, Arrive, db, trader
  <2>3. QED
    BY <2>1, <2>2, ElsewhereKeepsGroup DEF IInv
<1>2. ASSUME NEW o \in Orders,
             \/ HandleCreate(o) \/ HandleCancel(o) \/ MakerFill(o)
             \/ \E i \in DOMAIN replies : AnswerAgain(i)
      PROVE  IInv'
  BY <1>2, EngineKeeps
<1>3. CASE \E r \in wire : Arrive(r)
  <2>1. \E o \in Orders : TRUE
    BY <1>3 DEF IInv, Shape, Requests
  <2>2. QED
    BY <1>1, <1>3, <2>1
<1>4. ASSUME NEW i \in DOMAIN replies
      PROVE  \E o \in Orders : TRUE
  <2>1. replies[i] \in Answers
    BY DEF IInv, Shape
  <2>2. QED
    BY <2>1 DEF Answers
<1>5. CASE Hear
  <2>1. \E o \in Orders : TRUE
    <3>1. heard + 1 \in DOMAIN replies
      BY <1>5 DEF Hear, IInv, Shape
    <3>2. QED
      BY <1>4, <3>1
  <2>2. QED
    BY <1>1, <1>5, <2>1
<1>6. CASE \E i \in DOMAIN replies : AnswerAgain(i)
  BY <1>2, <1>4, <1>6
<1>7. ASSUME NEW i \in batch, Write(i)
      PROVE  IInv'
  BY <1>7, WriteKeeps
<1>8. CASE \/ Start \/ SecondPasses \/ Claim \/ ClaimingEnds \/ Read \/ ReadDropped
           \/ AckDropped \/ Crash \/ \E i \in batch : SkipDuplicate(i)
  BY <1>8, HandingOnKeeps
<1>9. CASE Ack
  BY <1>9, AckKeeps
<1>10. CASE UNCHANGED vars
  BY <1>10 DEF vars, IInv, Shape, SpokenOf, Group, AckedIsWritten, NothingIsSkipped,
               db, backend, trader, group, writer
<1>11. QED
  BY <1>1, <1>2, <1>3, <1>5, <1>6, <1>7, <1>8, <1>9, <1>10 DEF Next, WriterWork

LEMMA Inductive == Spec => []IInv
BY InitEstablishes, NextKeeps, PTL DEF Spec

LEMMA IInvIsTyped == IInv => TypeOK
<1> SUFFICES ASSUME IInv PROVE TypeOK
  OBVIOUS
<1>1. \A o \in Orders : rows[o] = Absent \/ rows[o].status = "pending" \/ rows[o] \in Outcomes
  BY DEF IInv, Shape, Pending
<1>2. QED
  BY <1>1 DEF IInv, Shape, SpokenOf, Group, TypeOK

\* The rows, the calls, the streams and what the db-writer holds keep their
\* shape, for any number of orders, replies, crashes and lost connections.
THEOREM OrderRowsTypes == Spec => []TypeOK
BY Inductive, IInvIsTyped, PTL

\* No result is lost between the engine and Postgres: every one that was
\* delivered to the db-writer (setup-comms.ts) has been written under its
\* correlation id, or is still in the group's pending list.
THEOREM NoResultIsLost == Spec => []NothingIsSkipped
<1>1. IInv => NothingIsSkipped
  BY DEF IInv
<1>2. QED
  BY <1>1, Inductive, PTL
-----------------------------------------------------------------------------
(* What has been written.  No variable remembers which replies were: W does,*)
(* and every step keeps one that fits.                                     *)

Result(i) == [status |-> replies[i].status, filledQty |-> replies[i].filledQty]

\* W are the replies that were written: one for each event, and none before an
\* earlier one that was still pending, or had its id, without overtaking it.
\* An order of which no reply was overtaken has the row the latest of W says.
Written(W) ==
  /\ W \subseteq 1..delivered
  /\ \A i \in W : replies[i].ok /\ replies[i].corr \in events
  /\ \A c \in events : \E i \in W : replies[i].corr = c
  /\ \A i, j \in W : replies[i].corr = replies[j].corr => i = j
  /\ fills \in [ReplyIds -> {0, 1}] /\ \A i \in ReplyIds : fills[i] = 1 => i \in W
  /\ \A j \in W : \A i \in 1..(j - 1) :
       i \in pending \/ (replies[i].ok /\ replies[i].corr = replies[j].corr) => i \in overtaken
  /\ \A j \in W :
       \/ \E i \in overtaken : replies[i].order = replies[j].order
       \/ \E w \in W : /\ replies[w].order = replies[j].order
                       /\ rows[replies[j].order] = Result(w)
                       /\ \A k \in W : replies[k].order = replies[j].order => k <= w

Accounted == \E W : Written(W)

\* Nothing is written: what was, was.
LEMMA WrittenKept ==
  ASSUME IInv, NEW W, Written(W), events' = events, fills' = fills, overtaken' = overtaken,
         \A i \in 1..Len(replies) : replies'[i] = replies[i],
         delivered' \in Nat, delivered <= delivered',
         \A i \in 1..delivered : i \in pending' => i \in pending,
         \A w \in W : rows[replies[w].order] = Result(w) => rows'[replies[w].order] = Result(w)
  PROVE  Accounted'
<1>1. /\ delivered \in Nat /\ delivered <= Len(replies) /\ Len(replies) \in Nat
      /\ overtaken \subseteq 1..delivered
  BY DEF IInv, Group, Shape
<1>2. W \subseteq 1..delivered /\ W \subseteq 1..Len(replies) /\ W \subseteq 1..delivered'
  BY <1>1 DEF Written
<1>3. \A i \in 1..delivered : replies'[i] = replies[i] /\ i \in 1..Len(replies)
  BY <1>1
<1>4. \A i \in W : replies'[i] = replies[i] /\ Result(i)' = Result(i)
  BY <1>2 DEF Result
<1>5. \A i \in overtaken : replies'[i] = replies[i]
  BY <1>1, <1>3
<1>6. \A i \in W : replies'[i].ok /\ replies'[i].corr \in events'
  BY <1>4 DEF Written
<1>7. \A c \in events' : \E i \in W : replies'[i].corr = c
  BY <1>4 DEF Written
<1>8. \A i, j \in W : replies'[i].corr = replies'[j].corr => i = j
  BY <1>4 DEF Written
<1>9. ASSUME NEW j \in W, NEW i \in 1..(j - 1),
             i \in pending' \/ (replies'[i].ok /\ replies'[i].corr = replies'[j].corr)
      PROVE  i \in overtaken'
  <2>1. i \in 1..delivered
    BY <1>1, <1>2
  <2>2. i \in pending \/ (replies[i].ok /\ replies[i].corr = replies[j].corr)
    BY <1>3, <1>4, <1>9, <2>1
  <2> QED BY <2>2 DEF Written
<1>10. ASSUME NEW j \in W
       PROVE  \/ \E i \in overtaken' : replies'[i].order = replies'[j].order
              \/ \E w \in W : /\ replies'[w].order = replies'[j].order
                              /\ rows'[replies'[j].order] = Result(w)'
                              /\ \A k \in W : replies'[k].order = replies'[j].order => k <= w
  <2>1. CASE \E i \in overtaken : replies[i].order = replies[j].order
    BY <1>4, <1>5, <2>1
  <2>2. ASSUME NEW w \in W, replies[w].order = replies[j].order, rows[replies[j].order] = Result(w),
               \A k \in W : replies[k].order = replies[j].order => k <= w
        PROVE  /\ replies'[w].order = replies'[j].order
               /\ rows'[replies'[j].order] = Result(w)'
               /\ \A k \in W : replies'[k].order = replies'[j].order => k <= w
    <3>1. rows'[replies[w].order] = Result(w)
      BY <2>2
    <3> QED BY <1>4, <2>2, <3>1
  <2> QED BY <2>1, <2>2 DEF Written
<1>11. fills' \in [ReplyIds -> {0, 1}] /\ \A i \in ReplyIds : fills'[i] = 1 => i \in W
  BY DEF Written
<1>12. Written(W)'
  BY <1>2, <1>6, <1>7, <1>8, <1>9, <1>10, <1>11 DEF Written
<1> QED BY <1>12 DEF Accounted

\* A row that a written reply has set is no business of the backend any more.
LEMMA BackendLeavesRows ==
  ASSUME IInv, NEW W, Written(W), NEW w \in W, NEW o \in Orders,
         \/ InsertRow(o) \/ SendFails(o) \/ Timeout(o) \/ Settle(o) \/ BackendStops(o) \/ RequestCancel(o),
         rows[replies[w].order] = Result(w)
  PROVE  rows'[replies[w].order] = Result(w)
<1> DEFINE p == replies[w].order
<1>1. w \in DOMAIN replies /\ replies[w] \in Answers /\ replies[w].ok
  BY DEF Written, IInv, Group, Shape
<1>2. p \in Orders /\ calls[p] # "none" /\ Result(w) \in Outcomes
  BY <1>1 DEF IInv, SpokenOf, Answers, Result
<1>3. rows[p] = Result(w) /\ rows[p].status # "pending"
  BY <1>2, OutcomeFacts
<1>4. CASE InsertRow(o)
  BY <1>2, <1>3, <1>4 DEF InsertRow, IInv, Shape
<1>5. CASE Settle(o)
  <2>1. CASE o # p
    BY <1>2, <1>3, <1>5, <2>1 DEF Settle, IInv, Shape
  <2>2. CASE o = p
    <3>1. rows' = [rows EXCEPT ![p].status = IF @ = "pending" THEN "cancelled" ELSE @] /\ rows[p] \in Outcomes
      BY <1>2, <1>3, <1>5, <2>2 DEF Settle
    <3>2. [rows[p] EXCEPT !.status = rows[p].status] = rows[p]
      BY <3>1 DEF Outcomes
    <3>3. rows'[p] = [rows[p] EXCEPT !.status = rows[p].status]
      BY <1>2, <1>3, <3>1 DEF IInv, Shape
    <3> QED BY <1>3, <3>2, <3>3
  <2> QED BY <2>1, <2>2
<1>6. CASE SendFails(o) \/ Timeout(o) \/ BackendStops(o) \/ RequestCancel(o)
  BY <1>3, <1>6 DEF SendFails, Timeout, BackendStops, RequestCancel, db
<1> QED BY <1>4, <1>5, <1>6

\* What stands on a stream stays where it is when something is put after it.
LEMMA AppendKeeps ==
  ASSUME NEW S, NEW s \in Seq(S), NEW x
  PROVE  \A i \in 1..Len(s) : Append(s, x)[i] = s[i]
BY DEF Append

\* A result that had not been written is: it may overtake what is pending before it.
LEMMA WriteAccounts ==
  ASSUME IInv, NEW W, Written(W), NEW i \in batch, Write(i), replies[i].ok
  PROVE  Accounted'
<1> DEFINE o == replies[i].order
           V == W \cup {i}
<1>1. /\ delivered' = delivered /\ replies' = replies /\ pending' = pending
      /\ events' = events \cup {replies[i].corr} /\ replies[i].corr \notin events
      /\ rows' = [rows EXCEPT ![o] = Result(i)]
      /\ fills' = [fills EXCEPT ![i] = IF replies[i].traded THEN @ + 1 ELSE @]
      /\ overtaken' = overtaken \cup {j \in pending : j < i}
  BY DEF Write, HasRows, Duplicate, group, trader, Result
<1>2. /\ i \in 1..delivered /\ i \in pending /\ delivered \in Nat /\ delivered <= Len(replies)
      /\ Len(replies) \in Nat /\ pending \subseteq 1..delivered /\ Len(replies) <= MaxReplies
  BY DEF IInv, Group, Shape
<1>3. i \notin W /\ W \subseteq 1..delivered /\ V \subseteq 1..delivered
  BY <1>1, <1>2 DEF Written
<1>4. rows \in [Orders -> Outcomes \cup {Absent, Pending}] /\ o \in Orders
  <2>1. replies[i] \in Answers
    BY <1>2 DEF IInv, Shape
  <2> QED BY <2>1 DEF IInv, Shape, Answers
<1>5. rows'[o] = Result(i) /\ \A p : p # o /\ p \in Orders => rows'[p] = rows[p]
  BY <1>1, <1>4
<1>6. \A j \in V : replies[j].ok /\ replies[j].corr \in events'
  BY <1>1 DEF Written
<1>7. \A c \in events' : \E j \in V : replies[j].corr = c
  BY <1>1 DEF Written
<1>8. \A j, k \in V : replies[j].corr = replies[k].corr => j = k
  BY <1>1 DEF Written
<1>9. fills' \in [ReplyIds -> {0, 1}] /\ \A j \in ReplyIds : fills'[j] = 1 => j \in V
  <2>1. i \in ReplyIds /\ fills \in [ReplyIds -> {0, 1}] /\ fills[i] = 0
    BY <1>2, <1>3, RowsAssumption DEF Written, ReplyIds
  <2>2. fills'[i] \in {0, 1} /\ \A j \in ReplyIds : j # i => fills'[j] = fills[j]
    BY <1>1, <2>1
  <2>3. DOMAIN fills' = ReplyIds /\ fills' = [j \in ReplyIds |-> fills'[j]]
    BY <1>1, <2>1
  <2>4. \A j \in ReplyIds : fills'[j] \in {0, 1} /\ (fills'[j] = 1 => j \in V)
    BY <2>1, <2>2 DEF Written
  <2> QED BY <2>3, <2>4
<1>10. ASSUME NEW j \in V, NEW k \in 1..(j - 1),
              k \in pending' \/ (replies[k].ok /\ replies[k].corr = replies[j].corr)
       PROVE  k \in overtaken'
  <2>1. CASE j = i
    <3>1. k \in 1..delivered /\ k < i
      BY <1>2, <2>1
    <3>2. CASE k \in pending
      BY <1>1, <3>1, <3>2
    <3>3. CASE replies[k].ok /\ replies[k].corr = replies[i].corr
      <4>1. k \in pending
        BY <1>1, <3>1, <3>3 DEF IInv, NothingIsSkipped
      <4> QED BY <1>1, <3>1, <4>1
    <3> QED BY <1>1, <1>10, <2>1, <3>2, <3>3
  <2>2. CASE j \in W
    <3>1. k \in overtaken
      BY <1>1, <1>10, <2>2 DEF Written
    <3> QED BY <1>1, <3>1
  <2> QED BY <2>1, <2>2
<1>11. ASSUME NEW j \in V
       PROVE  \/ \E k \in overtaken' : replies[k].order = replies[j].order
              \/ \E w \in V : /\ replies[w].order = replies[j].order
                              /\ rows'[replies[j].order] = Result(w)
                              /\ \A k \in V : replies[k].order = replies[j].order => k <= w
  <2>1. CASE replies[j].order # o
    <3>1. j \in W /\ replies[j].order \in Orders
      <4>1. j \in W
        BY <2>1
      <4>2. replies[j] \in Answers
        BY <1>2, <1>3 DEF IInv, Shape
      <4> QED BY <4>1, <4>2 DEF Answers
    <3>2. rows'[replies[j].order] = rows[replies[j].order]
      BY <1>5, <2>1, <3>1
    <3>3. CASE \E k \in overtaken : replies[k].order = replies[j].order
      BY <1>1, <3>3
    <3>4. ASSUME NEW w \in W, replies[w].order = replies[j].order, rows[replies[j].order] = Result(w),
                 \A k \in W : replies[k].order = replies[j].order => k <= w
          PROVE  /\ w \in V /\ replies[w].order = replies[j].order /\ rows'[replies[j].order] = Result(w)
                 /\ \A k \in V : replies[k].order = replies[j].order => k <= w
      BY <2>1, <3>2, <3>4
    <3> QED BY <3>1, <3>3, <3>4 DEF Written
  <2>2. CASE replies[j].order = o
    <3>1. CASE \A k \in W : replies[k].order = o => k <= i
      <4>1. i \in V /\ replies[i].order = replies[j].order /\ rows'[replies[j].order] = Result(i)
        BY <1>5, <2>2
      <4>2. \A k \in V : replies[k].order = replies[j].order => k <= i
        <5>1. i <= i
          BY <1>2
        <5> QED BY <2>2, <3>1, <5>1
      <4> QED BY <4>1, <4>2
    <3>2. ASSUME NEW k \in W, replies[k].order = o, ~(k <= i)
          PROVE  \E q \in overtaken' : replies[q].order = replies[j].order
      <4>1. i \in 1..(k - 1)
        BY <1>2, <1>3, <3>2
      <4>2. i \in overtaken
        BY <1>2, <3>2, <4>1 DEF Written
      <4> QED BY <1>1, <2>2, <4>2
    <3> QED BY <3>1, <3>2
  <2> QED BY <2>1, <2>2
<1>12. \A j : Result(j)' = Result(j)
  BY <1>1 DEF Result
<1> HIDE DEF V
<1>13. Written(V)'
  BY <1>1, <1>3, <1>6, <1>7, <1>8, <1>9, <1>10, <1>11, <1>12 DEF Written
<1> QED BY <1>13 DEF Accounted

LEMMA InitAccounts == Init => Accounted
<1> SUFFICES ASSUME Init PROVE Accounted
  OBVIOUS
<1>1. Written({})
  BY RowsAssumption DEF Init, Written, ReplyIds
<1> QED BY <1>1 DEF Accounted

LEMMA NextAccounts == IInv /\ Accounted /\ [Next]_vars => Accounted'
<1> SUFFICES ASSUME IInv, Accounted, [Next]_vars PROVE Accounted'
  OBVIOUS
<1>1. PICK W : Written(W)
  BY DEF Accounted
<1>2. /\ replies \in Seq(Answers) /\ Len(replies) \in Nat /\ delivered \in Nat /\ delivered <= delivered
      /\ pending \subseteq 1..delivered
  BY DEF IInv, Shape, Group
<1>3. ASSUME NEW o \in Orders,
             \/ InsertRow(o) \/ SendFails(o) \/ Timeout(o) \/ Settle(o) \/ BackendStops(o) \/ RequestCancel(o)
      PROVE  Accounted'
  <2>1. UNCHANGED <<replies, events, fills, delivered, pending, overtaken>>
    BY <1>3 DEF InsertRow, SendFails, Timeout, Settle, BackendStops, RequestCancel, db, trader, group
  <2>2. \A w \in W : rows[replies[w].order] = Result(w) => rows'[replies[w].order] = Result(w)
    BY <1>1, <1>3, BackendLeavesRows
  <2> QED BY <1>1, <1>2, <2>1, <2>2, WrittenKept
<1>4. ASSUME NEW o \in Orders, HandleCreate(o) \/ HandleCancel(o) \/ MakerFill(o)
      PROVE  Accounted'
  <2>1. UNCHANGED <<rows, events, fills, delivered, pending, overtaken>>
    BY <1>4 DEF HandleCreate, HandleCancel, MakerFill, db, group
  <2>2. \E a : replies' = Append(replies, a)
    BY <1>4 DEF HandleCreate, HandleCancel, MakerFill
  <2>3. \A i \in 1..Len(replies) : replies'[i] = replies[i]
    BY <1>2, <2>2, AppendKeeps
  <2> QED BY <1>1, <1>2, <2>1, <2>3, WrittenKept
<1>5. ASSUME NEW i \in DOMAIN replies, AnswerAgain(i)
      PROVE  Accounted'
  <2>1. UNCHANGED <<rows, events, fills, delivered, pending, overtaken>>
    BY <1>5 DEF AnswerAgain, db, group
  <2>2. \E a : replies' = Append(replies, a)
    BY <1>5 DEF AnswerAgain
  <2>3. \A k \in 1..Len(replies) : replies'[k] = replies[k]
    BY <1>2, <2>2, AppendKeeps
  <2> QED BY <1>1, <1>2, <2>1, <2>3, WrittenKept
<1>6. ASSUME \/ Hear \/ \E r \in wire : Arrive(r)
      PROVE  Accounted'
  <2>1. UNCHANGED <<rows, replies, events, fills, delivered, pending, overtaken>>
    BY <1>6 DEF Hear, Arrive, db, trader, group
  <2> QED BY <1>1, <1>2, <2>1, WrittenKept
<1>7. ASSUME \/ Start \/ SecondPasses \/ Claim \/ ClaimingEnds \/ AckDropped \/ Crash \/ Ack
             \/ \E i \in batch : SkipDuplicate(i)
      PROVE  Accounted'
  <2>1. UNCHANGED <<rows, replies, events, fills, delivered, overtaken>> /\ pending' \subseteq pending
    BY <1>7 DEF Start, SecondPasses, Claim, ClaimingEnds, AckDropped, Crash, Ack, SkipDuplicate, db, trader, group
  <2> QED BY <1>1, <1>2, <2>1, WrittenKept
<1>8. ASSUME Read \/ ReadDropped
      PROVE  Accounted'
  <2>1. /\ UNCHANGED <<rows, replies, events, fills, overtaken>>
        /\ delivered' = delivered + 1 /\ pending' = pending \cup {delivered'}
    BY <1>8 DEF Read, ReadDropped, db, trader
  <2>2. \A i \in 1..delivered : i \in pending' => i \in pending
    BY <1>2, <2>1
  <2>3. delivered' \in Nat /\ delivered <= delivered'
    BY <1>2, <2>1
  <2> QED BY <1>1, <1>2, <2>1, <2>2, <2>3, WrittenKept
<1>9. ASSUME NEW i \in batch, Write(i)
      PROVE  Accounted'
  <2>1. CASE replies[i].ok
    BY <1>1, <1>9, <2>1, WriteAccounts
  <2>2. CASE ~replies[i].ok
    <3>1. UNCHANGED <<rows, replies, events, fills, delivered, pending, overtaken>>
      BY <1>9, <2>2 DEF Write, HasRows, db, trader, group
    <3> QED BY <1>1, <1>2, <3>1, WrittenKept
  <2> QED BY <2>1, <2>2
<1>10. ASSUME UNCHANGED vars
       PROVE  Accounted'
  <2>1. UNCHANGED <<rows, replies, events, fills, delivered, pending, overtaken>>
    BY <1>10 DEF vars, db, trader, group
  <2> QED BY <1>1, <1>2, <2>1, WrittenKept
<1> QED BY <1>3, <1>4, <1>5, <1>6, <1>7, <1>8, <1>9, <1>10 DEF Next, WriterWork

LEMMA AccountedInvariant == Spec => [](IInv /\ Accounted)
BY InitEstablishes, NextKeeps, InitAccounts, NextAccounts, PTL DEF Spec

\* The fills of a correlation id are inserted at most once, and by one of its
\* replies, whatever the group delivers again or the engine answers again.
THEOREM FillsAreWrittenOnce == Spec => []FillsWrittenOnce
<1>1. IInv /\ Accounted => FillsWrittenOnce
  <2> SUFFICES ASSUME IInv, NEW W, Written(W), NEW i \in DOMAIN replies, NEW j \in DOMAIN replies,
                      replies[i].corr = replies[j].corr, fills[i] > 0, fills[j] > 0
               PROVE  i = j /\ fills[i] = 1
    BY DEF Accounted, FillsWrittenOnce
  <2>1. i \in ReplyIds /\ j \in ReplyIds
    BY RowsAssumption DEF IInv, Shape, ReplyIds
  <2>2. fills[i] = 1 /\ fills[j] = 1
    BY <2>1 DEF Written
  <2> QED BY <2>1, <2>2 DEF Written
<1> QED BY <1>1, AccountedInvariant, PTL

LEMMA LatestReply ==
  ASSUME NEW n \in Nat, NEW T \in SUBSET (1..n), T # {}
  PROVE  Max(T) \in T /\ \A i \in T : i <= Max(T)
<1> DEFINE R == OpToRel(<, Nat)
           D == {n - i : i \in T}
<1>1. IsWellFoundedOn(R, Nat)
  BY NatLessThanWellFounded
<1>2. \A x, y \in Nat : <<x, y>> \in R <=> x < y
  BY DEF OpToRel
<1>3. D \in SUBSET Nat /\ D # {}
  <2>1. \A i \in T : i \in 1..n /\ n - i \in Nat
    OBVIOUS
  <2>2. PICK i \in T : TRUE
    OBVIOUS
  <2>3. \A d \in D : d \in Nat
    BY <2>1
  <2>4. n - i \in D
    BY <2>2
  <2> QED BY <2>3, <2>4
<1> HIDE DEF R, D
<1>4. PICK d \in D : \A y \in D : ~(<<y, d>> \in R)
  BY <1>1, <1>3, WFMin
<1>5. PICK m \in T : d = n - m
  BY DEF D
<1>6. ASSUME NEW i \in T PROVE m >= i
  <2>1. n - i \in D /\ n - i \in Nat /\ d \in Nat
    BY <1>3 DEF D
  <2>2. ~(n - i < d)
    BY <1>2, <1>4, <2>1
  <2> QED BY <1>5, <2>2
<1>7. Max(T) \in T /\ \A i \in T : Max(T) >= i
  BY <1>6 DEF Max
<1> QED BY <1>7

\* Two processes write the row and neither waits for the other, yet once the
\* results up to the last are written it says what the engine said last.
THEOREM RowsSayWhatEngineSaid == Spec => []RowSaysWhatEngineSaid
<1>1. IInv /\ Accounted => RowSaysWhatEngineSaid
  <2> SUFFICES ASSUME IInv, NEW W, Written(W), NEW o \in Orders, LastResult(o) # None,
                      \A i \in 1..LastResult(o) : replies[i].ok => replies[i].corr \in events,
                      \A i \in overtaken : replies[i].order # o
               PROVE  rows[o] = Result(LastResult(o))
    BY DEF Accounted, RowSaysWhatEngineSaid, Result
  <2> DEFINE first == {i \in DOMAIN replies :
                         \A j \in 1..i - 1 : replies[j].corr # replies[i].corr \/ ~replies[j].ok}
             about == {i \in first : replies[i].ok /\ replies[i].order = o}
             last == LastResult(o)
  <2>1. Len(replies) \in Nat /\ DOMAIN replies = 1..Len(replies) /\ delivered <= Len(replies) /\ delivered \in Nat
    BY DEF IInv, Shape, Group
  <2>2. about # {} /\ last = Max(about) /\ about \in SUBSET (1..Len(replies))
    BY <2>1 DEF LastResult
  <2> HIDE DEF last
  <2>3. last \in about /\ \A i \in about : i <= last
    BY <2>1, <2>2, LatestReply
  <2>4. last \in 1..Len(replies) /\ replies[last].ok /\ replies[last].order = o /\ replies[last].corr \in events
    <3>1. last \in 1..Len(replies) /\ replies[last].ok /\ replies[last].order = o
      BY <2>1, <2>3
    <3> QED BY <2>1, <3>1 DEF last
  <2>5. \A i \in DOMAIN replies : replies[i].corr.order = replies[i].order
    BY DEF IInv, SpokenOf
  \* Nothing of this order was overtaken, so whatever of it was written was a first result.
  <2>6. ASSUME NEW j \in W, replies[j].order = o
        PROVE  j \in about
    <3>1. j \in DOMAIN replies /\ replies[j].ok
      BY <2>1 DEF Written
    <3>2. ASSUME NEW i \in 1..j - 1, replies[i].ok, replies[i].corr = replies[j].corr
          PROVE  FALSE
      <4>1. i \in overtaken
        BY <3>2 DEF Written
      <4>2. i \in DOMAIN replies
        BY <2>1, <3>1
      <4>3. replies[i].order = o
        BY <2>5, <2>6, <3>1, <3>2, <4>2
      <4> QED BY <4>1, <4>3
    <3> QED BY <2>6, <3>1, <3>2
  <2>7. PICK j \in W : replies[j].corr = replies[last].corr
    BY <2>4 DEF Written
  <2>8. j \in DOMAIN replies /\ replies[j].order = o /\ replies[j].ok
    BY <2>1, <2>4, <2>5, <2>7 DEF Written
  <2>9. j = last
    <3>1. j \in about
      BY <2>6, <2>8
    <3>2. ~(j < last)
      BY <2>1, <2>3, <2>7, <2>8
    <3> QED BY <2>1, <2>3, <2>4, <2>8, <3>1, <3>2
  <2>10. PICK w \in W : /\ replies[w].order = o /\ rows[o] = Result(w)
                        /\ \A k \in W : replies[k].order = o => k <= w
    BY <2>8 DEF Written
  <2>11. w = last
    <3>1. w \in about /\ last <= w
      BY <2>6, <2>8, <2>9, <2>10
    <3> QED BY <2>1, <2>3, <2>4, <3>1
  <2> QED BY <2>10, <2>11 DEF last
<1> QED BY <1>1, AccountedInvariant, PTL
=============================================================================
