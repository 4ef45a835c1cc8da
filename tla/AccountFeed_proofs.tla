------------------------ MODULE AccountFeed_proofs ------------------------
(***************************************************************************)
(* Proofs about AccountFeed, for any orders of the account, replies of the *)
(* engine, deposits and faults: the inductive invariant, one lemma for each*)
(* action, and what follows: what the resync of a connection has put on    *)
(* screen ends up as what the engine holds.                                *)
(***************************************************************************)
EXTENDS AccountFeed, FiniteSetTheorems, SequenceTheorems, TLAPS

-----------------------------------------------------------------------------
(* Numbers, and the fold of the reducer over a batch.                      *)

LEMMA LeastNumber ==
  ASSUME NEW T \in SUBSET Nat, T # {}
  PROVE  \E n \in T : \A m \in T : n <= m
<1> DEFINE R == OpToRel(<, Nat)
<1>1. IsWellFoundedOn(R, Nat)
  BY NatLessThanWellFounded
<1>2. \A x, y \in Nat : <<x, y>> \in R <=> x < y
  BY DEF OpToRel
<1> HIDE DEF R
<1>3. PICK n \in T : \A y \in T : ~ (<<y, n>> \in R)
  BY <1>1, WFMin
<1>4. \A y \in T : ~(y < n)
  BY <1>2, <1>3
<1> QED BY <1>4

\* Induction on the natural numbers, for a property that a set collects.
LEMMA SetInduction ==
  ASSUME NEW T \in SUBSET Nat, 0 \in T, \A n \in T : n + 1 \in T
  PROVE  T = Nat
<1> SUFFICES ASSUME T # Nat PROVE FALSE
  OBVIOUS
<1>1. PICK n \in Nat \ T : \A m \in Nat \ T : n <= m
  <2>1. Nat \ T \in SUBSET Nat /\ Nat \ T # {}
    OBVIOUS
  <2> QED BY <2>1, LeastNumber
<1>2. n - 1 \in Nat /\ n - 1 \notin Nat \ T
  BY <1>1
<1> QED BY <1>2

\* A set of numbers up to k that has a member has a greatest one.
LEMMA Greatest ==
  ASSUME NEW k \in Nat, NEW s \in SUBSET (1..k), s # {}
  PROVE  Max(s) \in s /\ \A n \in s : n <= Max(s)
<1> DEFINE T == {k - n : n \in s}
<1>1. T \in SUBSET Nat /\ T # {}
  <2>1. \A n \in s : n \in 1..k
    OBVIOUS
  <2>2. \A n \in s : k - n \in Nat
    BY <2>1
  <2> QED BY <2>2
<1>2. PICK d \in T : \A e \in T : d <= e
  BY <1>1, LeastNumber
<1>3. k - d \in s /\ \A n \in s : k - d >= n
  BY <1>2
<1> QED BY <1>3 DEF Max

\* What FoldLeft(Reduce, v, batch) is made of: a value for each set of places.
Folded(g, v, batch, S) ==
  g = [s \in S |-> IF s = {} THEN v ELSE Reduce(g[s \ {Max(s)}], batch[Max(s)])]

UpTo(k, n) == {s \in SUBSET (1..k) : Cardinality(s) <= n}

LEMMA SubsetsCounted ==
  ASSUME NEW k \in Nat, NEW s \in SUBSET (1..k)
  PROVE  /\ IsFiniteSet(s) /\ Cardinality(s) \in 0..k
         /\ s # {} => Cardinality(s \ {Max(s)}) = Cardinality(s) - 1
<1>1. IsFiniteSet(1..k) /\ Cardinality(1..k) = k
  BY FS_Interval
<1>2. IsFiniteSet(s) /\ Cardinality(s) <= k /\ Cardinality(s) \in Nat
  BY <1>1, FS_Subset, FS_CardinalityType
<1>3. s # {} => Max(s) \in s
  BY Greatest
<1> QED BY <1>2, <1>3, FS_RemoveElement

LEMMA UpToIs ==
  ASSUME NEW k \in Nat, NEW n \in Nat
  PROVE  /\ UpTo(k, n) \subseteq UpTo(k, n + 1)
         /\ \A s \in UpTo(k, n + 1) : s # {} => s \ {Max(s)} \in UpTo(k, n)
         /\ UpTo(k, 0) = {{}}
         /\ UpTo(k, k) = SUBSET (1..k)
<1>1. ASSUME NEW s \in SUBSET (1..k)
      PROVE  /\ IsFiniteSet(s) /\ Cardinality(s) \in Nat /\ Cardinality(s) <= k
             /\ s # {} => Cardinality(s \ {Max(s)}) = Cardinality(s) - 1
  BY SubsetsCounted
<1>2. UpTo(k, n) \subseteq UpTo(k, n + 1)
  <2> SUFFICES ASSUME NEW s \in SUBSET (1..k), Cardinality(s) <= n PROVE Cardinality(s) <= n + 1
    BY DEF UpTo
  <2>1. Cardinality(s) \in Nat
    BY <1>1
  <2> QED BY <2>1
<1>3. ASSUME NEW s \in UpTo(k, n + 1), s # {} PROVE s \ {Max(s)} \in UpTo(k, n)
  <2>1. s \in SUBSET (1..k) /\ Cardinality(s) <= n + 1
    BY DEF UpTo
  <2>2. Cardinality(s \ {Max(s)}) <= n
    BY <1>1, <1>3, <2>1
  <2> QED BY <2>1, <2>2 DEF UpTo
<1>4. UpTo(k, 0) = {{}}
  <2>1. {} \in UpTo(k, 0)
    BY FS_EmptySet DEF UpTo
  <2>2. ASSUME NEW s \in UpTo(k, 0) PROVE s = {}
    <3>1. s \in SUBSET (1..k) /\ Cardinality(s) <= 0
      BY DEF UpTo
    <3>2. IsFiniteSet(s) /\ Cardinality(s) \in Nat
      BY <1>1, <3>1
    <3>3. Cardinality(s) = 0
      BY <3>1, <3>2
    <3> QED BY <3>2, <3>3, FS_EmptySet
  <2> QED BY <2>1, <2>2
<1>5. UpTo(k, k) = SUBSET (1..k)
  <2>1. ASSUME NEW s \in SUBSET (1..k) PROVE s \in UpTo(k, k)
    BY <1>1 DEF UpTo
  <2> QED BY <2>1 DEF UpTo
<1> QED BY <1>2, <1>3, <1>4, <1>5

LEMMA FoldedExists ==
  ASSUME NEW v, NEW k \in Nat, NEW batch
  PROVE  \E g : Folded(g, v, batch, SUBSET (1..k))
<1> DEFINE P(n) == \E g : Folded(g, v, batch, UpTo(k, n))
           N == {n \in Nat : P(n)}
<1>1. P(0)
  <2>1. \A s \in UpTo(k, 0) : s = {}
    BY UpToIs
  <2>2. Folded([s \in UpTo(k, 0) |-> v], v, batch, UpTo(k, 0))
    BY <2>1 DEF Folded
  <2> QED BY <2>2
<1>2. ASSUME NEW n \in Nat, P(n) PROVE P(n + 1)
  <2>1. PICK g : Folded(g, v, batch, UpTo(k, n))
    BY <1>2
  <2> DEFINE body(h, s) == IF s = {} THEN v ELSE Reduce(h[s \ {Max(s)}], batch[Max(s)])
             h == [s \in UpTo(k, n + 1) |-> body(g, s)]
  <2>2. \A s \in UpTo(k, n) : g[s] = body(g, s)
    BY <2>1 DEF Folded
  <2>3. \A s \in UpTo(k, n) : s \in UpTo(k, n + 1)
    BY UpToIs
  <2>4. \A s \in UpTo(k, n) : h[s] = g[s]
    BY <2>2, <2>3
  <2>5. ASSUME NEW s \in UpTo(k, n + 1), s # {} PROVE s \ {Max(s)} \in UpTo(k, n)
    BY <2>5, UpToIs
  <2>6. \A s \in UpTo(k, n + 1) : body(g, s) = body(h, s)
    BY <2>4, <2>5
  <2>7. h = [s \in UpTo(k, n + 1) |-> body(h, s)]
    BY <2>6
  <2>8. Folded(h, v, batch, UpTo(k, n + 1))
    BY <2>7 DEF Folded
  <2> QED BY <2>8
<1>3. N = Nat
  <2>1. N \in SUBSET Nat /\ 0 \in N
    BY <1>1
  <2>2. ASSUME NEW n \in N PROVE n + 1 \in N
    BY <1>2
  <2> HIDE DEF N
  <2> QED BY <2>1, <2>2, SetInduction
<1>4. UpTo(k, k) = SUBSET (1..k)
  BY UpToIs
<1> QED BY <1>3, <1>4

\* The values on the way from v through the replies of a batch.
Runs(h, v, batch) ==
  h[0] = v /\ \A n \in 1..Len(batch) : h[n] = Reduce(h[n - 1], batch[n])

LEMMA BatchRuns ==
  ASSUME NEW v, NEW A, NEW batch \in Seq(A)
  PROVE  \E h : Runs(h, v, batch) /\ FoldLeft(Reduce, v, batch) = h[Len(batch)]
<1> DEFINE k == Len(batch)
           Q(g) == g = [s \in SUBSET (1..k) |->
                     IF s = {} THEN v ELSE Reduce(g[s \ {Max(s)}], batch[Max(s)])]
           it == CHOOSE g : Q(g)
           h == [n \in 0..k |-> it[1..n]]
<1>1. k \in Nat /\ DOMAIN batch = 1..k
  OBVIOUS
<1>2. FoldLeft(Reduce, v, batch) = it[1..k]
  BY <1>1 DEF FoldLeft, MapThenFoldSet
<1>3. \E g : Q(g)
  <2>1. PICK g : Folded(g, v, batch, SUBSET (1..k))
    BY <1>1, FoldedExists
  <2> QED BY <2>1 DEF Folded
<1> HIDE DEF Q
<1>4. Q(it)
  BY <1>3
<1> HIDE DEF it, k
<1>5. it[{}] = v
  BY <1>4 DEF Q
<1>6. \A s \in SUBSET (1..k) : s # {} => it[s] = Reduce(it[s \ {Max(s)}], batch[Max(s)])
  BY <1>4 DEF Q
<1>7. h[0] = v
  BY <1>1, <1>5
<1>8. ASSUME NEW n \in 1..k PROVE h[n] = Reduce(h[n - 1], batch[n])
  <2>1. 1..n \in SUBSET (1..k) /\ 1..n # {} /\ n \in 1..n
    BY <1>1
  <2>2. Max(1..n) \in 1..n /\ n <= Max(1..n)
    BY <1>1, <2>1, Greatest
  <2>3. Max(1..n) = n /\ (1..n) \ {n} = 1..(n - 1)
    BY <1>1, <2>2
  <2>4. it[1..n] = Reduce(it[1..(n - 1)], batch[n])
    BY <1>6, <2>1, <2>3
  <2> QED BY <1>1, <2>4
<1>9. h[k] = it[1..k]
  BY <1>1
<1> HIDE DEF h
<1>10. Runs(h, v, batch) /\ FoldLeft(Reduce, v, batch) = h[Len(batch)]
  BY <1>2, <1>7, <1>8, <1>9 DEF Runs, k
<1> QED BY <1>10

-----------------------------------------------------------------------------
(* The inductive invariant.                                                *)

Live(n, o) == StatusAfter(n, o) \in Resting

\* The order has ended.
Over(o) == StatusAfter(Len(log), o) \in {"filled", "cancelled"}

\* Some of an order has been filled.
PartFilled(o) == \E i \in 1..Len(log) : log[i].order = o /\ log[i].status = "partially_filled"

LogRecords == [order : Orders \cup {NoOrder}, status : Resting \cup {"filled", "cancelled", "deposit"}]

\* The replies about an order are those of its life.
LogFits ==
  /\ log \in Seq(LogRecords) /\ Len(log) <= MaxReplies
  /\ \A i \in 1..Len(log) : log[i].order \in Orders =>
       Follows(StatusAfter(i - 1, log[i].order), log[i].status)
  /\ written \in 0..Len(log) /\ published \in 0..Len(log)

\* The connects that wait for their tickets.
Waiting == UNION {{<<g, n>> : n \in 1..tickets[g]} : g \in 0..MaxFaults}

\* Every connect but the first is owed to a fault, and so is every generation.
BudgetFits ==
  /\ tickets \in [0..MaxFaults -> Nat] /\ IsFiniteSet(Waiting)
  /\ retryTimer \in BOOLEAN /\ timers \in Nat /\ (retryTimer => timers > 0)
  /\ tab \in {"shown", "grace", "hidden"} /\ faults \in 0..MaxFaults
  /\ generation \in Nat /\ generation + (IF tab = "grace" THEN 1 ELSE 0) <= faults
  /\ Len(sockets) \in Nat
  /\ Cardinality(Waiting) + Len(sockets) + timers + (IF tab = "shown" THEN 0 ELSE 1) <= faults + 1

SocketRecords == [state : {"opening", "open", "closed"}, mine : 0..generation, got : 0..Len(log), full : BOOLEAN]

SocketsFit ==
  /\ sockets \in Seq(SocketRecords) /\ Len(sockets) <= MaxSockets
  /\ socket \in 0..Len(sockets)
  /\ socket # None => sockets[socket].mine = generation /\ sockets[socket].state # "closed"
  /\ \A k \in DOMAIN sockets : sockets[k].mine = generation => socket # None
  /\ buffering \in BOOLEAN /\ buffer \in Seq(1..Len(log)) /\ (~buffering => buffer = <<>>)
  /\ buffering => socket # None
  /\ status \in {"connecting", "syncing", "live", "reconnecting", "disconnected"}
  /\ resyncs \subseteq DOMAIN sockets
  /\ status = "live" => socket # None /\ ~buffering

Held == IF view = "orders"
          THEN {rows \in Rows : \A o \in Orders : rows[o] = "partially_filled" => PartFilled(o)}
          ELSE 0..Len(log)

LoadRecords ==
  [phase : {"none", "asked", "read", "done"}, value : Held, base : 0..MaxSockets, mine : Nat]

ProviderFits ==
  /\ view \in Views /\ mounted \in BOOLEAN /\ current \in Nat
  /\ loads \in [Calls -> LoadRecords]
  /\ \A k \in Calls : loads[k].phase # "none" => mounted
  /\ \A k \in Calls : loads[k].base # None => loads[k].base = k
  /\ \A k \in 1..MaxSockets :
       loads[k].phase # "none" => k \in DOMAIN sockets /\ sockets[k].state # "opening"
  /\ shown \in [status : {"loading", "ready", "error"}, value : Held, base : 0..MaxSockets]
  /\ shown.status # "loading" => mounted
  /\ shown.base # None => shown.status = "ready" /\ loads[shown.base].phase = "done"

\* Deposits are made where the balances are followed.
DepositFits ==
  /\ deposit \in [stage : {"none", "sent", "answered"}, at : 0..Len(log), made : 0..MaxDeposits]
  /\ deposit.stage # "none" => view = "account"

NoneTwice == announced \in [Replies -> {0, 1}]

CancelRecords ==
  [stage : {"none", "sent", "accepted", "refused"}, removed : {"absent"} \cup Resting,
   finished : BOOLEAN, base : 0..MaxSockets]

CancelsFit ==
  /\ cancels \in [Orders -> CancelRecords]
  /\ \A o \in Orders : LET c == cancels[o] IN
       /\ c.stage # "none" => view = "orders" /\ c.removed # "absent"
       /\ c.removed = "partially_filled" => PartFilled(o)
       /\ c.stage = "accepted" \/ c.finished => Over(o)
       /\ c.base # None => loads[c.base].phase = "done"

Alone == \A k \in DOMAIN sockets : sockets[k].mine = generation => k = socket

\* How many replies have been handed to the reducers since the socket was opened,
\* or are older than it.
Handed == sockets[socket].got - Len(buffer)

\* A value is that of a time not before n, but for the rows of C, which may be gone.
Since(value, n, C) ==
  IF view = "orders"
    THEN \A o \in Orders :
           /\ value[o] # "absent" => \E m \in n..Len(log) : Live(m, o)
           /\ o \notin C /\ value[o] = "absent" => \E m \in n..Len(log) : ~Live(m, o)
    ELSE value \in n..Len(log)

InFlight == {o \in Orders : cancels[o].stage # "none"}

\* The buffer holds what comes after the first h replies.
Queued(h) == h \in Nat /\ \A j \in 1..Len(buffer) : buffer[j] = h + j

\* What socket s has loaded, what is on screen from it, and the rows that its
\* cancels would put back, are not older than the first h replies.
Abreast(s, h) ==
  /\ loads[s].phase \in {"asked", "read"} => buffering
  /\ loads[s].phase = "read" /\ loads[s].base = s => Since(loads[s].value, h, {})
  /\ shown.base = s => Since(shown.value, h, InFlight)
  /\ \A o \in InFlight :
       shown.base = s /\ cancels[o].base = s /\ ~cancels[o].finished =>
         \E m \in h..Len(log) : Live(m, o)

Following ==
  Alone /\ socket # None /\ ~sockets[socket].full => Queued(Handed) /\ Abreast(socket, Handed)

FeedInvariant ==
  /\ LogFits /\ BudgetFits /\ SocketsFit /\ ProviderFits /\ DepositFits /\ NoneTwice
  /\ CancelsFit /\ Following

-----------------------------------------------------------------------------
(* What the replies say of an order.                                       *)

Statuses == {"absent", "open", "partially_filled", "filled", "cancelled"}

\* The reply that decides is the last one about the order.
LEMMA AboutFacts ==
  ASSUME NEW n \in Nat, NEW o
  PROVE  /\ About(n, o) \in SUBSET (1..n)
         /\ StatusAfter(0, o) = "absent"
         /\ StatusAfter(n + 1, o) = IF log[n + 1].order = o THEN log[n + 1].status ELSE StatusAfter(n, o)
         /\ About(n + 1, o) = IF log[n + 1].order = o THEN About(n, o) \cup {n + 1} ELSE About(n, o)
<1>1. About(n, o) \in SUBSET (1..n) /\ About(n + 1, o) \in SUBSET (1..(n + 1))
  BY DEF About
<1>2. 1..(n + 1) = (1..n) \cup {n + 1} /\ n + 1 \notin 1..n
  OBVIOUS
<1>3. About(n + 1, o) = IF log[n + 1].order = o THEN About(n, o) \cup {n + 1} ELSE About(n, o)
  BY <1>2 DEF About
<1>4. StatusAfter(0, o) = "absent"
  <2>1. About(0, o) = {}
    BY DEF About
  <2> QED BY <2>1 DEF StatusAfter
<1>5. CASE log[n + 1].order = o
  <2>1. n + 1 \in About(n + 1, o)
    BY <1>3, <1>5
  <2>2. Max(About(n + 1, o)) \in About(n + 1, o) /\ \A m \in About(n + 1, o) : m <= Max(About(n + 1, o))
    <3>1. n + 1 \in Nat /\ About(n + 1, o) # {}
      BY <2>1
    <3> QED BY <1>1, <3>1, Greatest
  <2>3. Max(About(n + 1, o)) \in 1..(n + 1) /\ n + 1 <= Max(About(n + 1, o))
    BY <1>1, <2>1, <2>2
  <2>4. Max(About(n + 1, o)) = n + 1
    BY <2>3
  <2>5. StatusAfter(n + 1, o) = log[n + 1].status
    BY <2>1, <2>4 DEF StatusAfter
  <2> QED BY <1>1, <1>3, <1>4, <1>5, <2>5
<1>6. CASE log[n + 1].order # o
  <2>1. StatusAfter(n + 1, o) = StatusAfter(n, o)
    BY <1>3, <1>6 DEF StatusAfter
  <2> QED BY <1>1, <1>3, <1>4, <1>6, <2>1
<1> QED BY <1>5, <1>6

LEMMA LogTypes ==
  ASSUME LogFits
  PROVE  /\ Len(log) \in Nat /\ DOMAIN log = 1..Len(log)
         /\ MaxReplies \in Nat /\ Len(log) <= MaxReplies
         /\ \A i \in 1..Len(log) :
              /\ log[i] \in LogRecords /\ log[i].order \in Orders \cup {NoOrder}
              /\ log[i].status \in Resting \cup {"filled", "cancelled", "deposit"}
<1>1. log \in Seq(LogRecords)
  BY DEF LogFits
<1>2. Len(log) \in Nat /\ DOMAIN log = 1..Len(log) /\ \A i \in 1..Len(log) : log[i] \in LogRecords
  BY <1>1
<1> QED BY <1>2, FeedAssumption DEF LogFits, LogRecords

\* The steps of an order's life.
LEMMA LifeFacts ==
  ASSUME LogFits, NEW o \in Orders
  PROVE  /\ \A n \in 0..Len(log) : StatusAfter(n, o) \in Statuses
         /\ \A n \in 0..(Len(log) - 1) : log[n + 1].order = o =>
              /\ Follows(StatusAfter(n, o), log[n + 1].status)
              /\ StatusAfter(n + 1, o) = log[n + 1].status
         /\ \A n \in 0..(Len(log) - 1) : log[n + 1].order # o => StatusAfter(n + 1, o) = StatusAfter(n, o)
<1>1. Len(log) \in Nat
  BY LogTypes
<1>2. ASSUME NEW n \in 0..(Len(log) - 1), log[n + 1].order = o
      PROVE  Follows(StatusAfter(n, o), log[n + 1].status) /\ StatusAfter(n + 1, o) = log[n + 1].status
  <2>1. n \in Nat /\ n + 1 \in 1..Len(log) /\ (n + 1) - 1 = n
    BY <1>1
  <2>2. Follows(StatusAfter((n + 1) - 1, o), log[n + 1].status)
    BY <1>2, <2>1 DEF LogFits
  <2>3. StatusAfter(n + 1, o) = log[n + 1].status
    BY <1>2, <2>1, AboutFacts
  <2> QED BY <2>1, <2>2, <2>3
<1>3. ASSUME NEW n \in 0..(Len(log) - 1), log[n + 1].order # o PROVE StatusAfter(n + 1, o) = StatusAfter(n, o)
  <2>1. n \in Nat
    BY <1>1
  <2> QED BY <1>3, <2>1, AboutFacts
<1>4. \A n \in 0..Len(log) : StatusAfter(n, o) \in Statuses
  <2> DEFINE N == {n \in Nat : n <= Len(log) => StatusAfter(n, o) \in Statuses}
  <2>1. 0 \in N
    BY AboutFacts DEF Statuses
  <2>2. ASSUME NEW n \in N PROVE n + 1 \in N
    <3> SUFFICES ASSUME n + 1 <= Len(log) PROVE StatusAfter(n + 1, o) \in Statuses
      OBVIOUS
    <3>1. n \in 0..(Len(log) - 1) /\ StatusAfter(n, o) \in Statuses
      BY <1>1
    <3>2. CASE log[n + 1].order = o
      BY <1>2, <3>1, <3>2 DEF Follows, Statuses
    <3>3. CASE log[n + 1].order # o
      BY <1>3, <3>1, <3>3
    <3> QED BY <3>2, <3>3
  <2>3. N = Nat
    <3>1. N \in SUBSET Nat
      OBVIOUS
    <3> HIDE DEF N
    <3> QED BY <2>1, <2>2, <3>1, SetInduction
  <2> QED BY <1>1, <2>3
<1> QED BY <1>2, <1>3, <1>4

\* An order that has ended has ended for good.
LEMMA EndStays ==
  ASSUME LogFits, NEW o \in Orders, NEW a \in 0..Len(log), NEW b \in 0..Len(log), a <= b,
         StatusAfter(a, o) \in {"filled", "cancelled"}
  PROVE  StatusAfter(b, o) = StatusAfter(a, o)
<1> DEFINE N == {n \in Nat : a + n <= Len(log) => StatusAfter(a + n, o) = StatusAfter(a, o)}
<1>1. Len(log) \in Nat /\ a \in Nat /\ b \in Nat
  BY LogTypes
<1>2. 0 \in N
  BY <1>1
<1>3. ASSUME NEW n \in N PROVE n + 1 \in N
  <2> SUFFICES ASSUME a + (n + 1) <= Len(log) PROVE StatusAfter(a + (n + 1), o) = StatusAfter(a, o)
    OBVIOUS
  <2> DEFINE m == a + n
  <2>1. m \in 0..(Len(log) - 1) /\ a + (n + 1) = m + 1 /\ StatusAfter(m, o) = StatusAfter(a, o)
    BY <1>1
  <2> HIDE DEF m
  <2>2. log[m + 1].order # o
    <3>1. ~Follows(StatusAfter(m, o), log[m + 1].status)
      BY <2>1 DEF Follows
    <3> QED BY <2>1, <3>1, LifeFacts
  <2> QED BY <2>1, <2>2, LifeFacts
<1>4. N = Nat
  <2>1. N \in SUBSET Nat
    OBVIOUS
  <2> HIDE DEF N
  <2> QED BY <1>2, <1>3, <2>1, SetInduction
<1>5. b - a \in Nat /\ a + (b - a) = b
  BY <1>1
<1>6. \A n \in Nat : a + n <= Len(log) => StatusAfter(a + n, o) = StatusAfter(a, o)
  BY <1>4
<1>7. a + (b - a) <= Len(log) => StatusAfter(a + (b - a), o) = StatusAfter(a, o)
  BY <1>5, <1>6
<1> QED BY <1>1, <1>5, <1>7

\* An order that rests rests on until a reply ends it.
LEMMA RestsOn ==
  ASSUME LogFits, NEW o \in Orders, NEW a \in 0..Len(log), NEW b \in 0..Len(log), a <= b, Live(a, o),
         \A i \in (a + 1)..b : log[i].order = o => log[i].status \in Resting
  PROVE  Live(b, o)
<1> DEFINE N == {n \in Nat : a + n <= b => Live(a + n, o)}
<1>1. Len(log) \in Nat /\ a \in Nat /\ b \in Nat /\ b <= Len(log)
  BY LogTypes
<1>2. 0 \in N
  BY <1>1
<1>3. ASSUME NEW n \in N PROVE n + 1 \in N
  <2> SUFFICES ASSUME a + (n + 1) <= b PROVE Live(a + (n + 1), o)
    OBVIOUS
  <2> DEFINE m == a + n
  <2>1. m \in 0..(Len(log) - 1) /\ a + (n + 1) = m + 1 /\ Live(m, o) /\ m + 1 \in (a + 1)..b
    BY <1>1
  <2> HIDE DEF m
  <2>2. CASE log[m + 1].order = o
    BY <2>1, <2>2, LifeFacts DEF Live
  <2>3. CASE log[m + 1].order # o
    BY <2>1, <2>3, LifeFacts DEF Live
  <2> QED BY <2>1, <2>2, <2>3
<1>4. N = Nat
  <2>1. N \in SUBSET Nat
    OBVIOUS
  <2> HIDE DEF N
  <2> QED BY <1>2, <1>3, <2>1, SetInduction
<1>5. b - a \in Nat /\ a + (b - a) = b
  BY <1>1
<1>6. \A n \in Nat : a + n <= b => Live(a + n, o)
  BY <1>4
<1>7. a + (b - a) <= b => Live(a + (b - a), o)
  BY <1>5, <1>6
<1> QED BY <1>1, <1>5, <1>7

\* A reply is an order's first one when nothing was known of it before.
LEMMA NewFacts ==
  ASSUME LogFits, NEW n \in 0..(Len(log) - 1), log[n + 1].order \in Orders
  PROVE  LET o == log[n + 1].order IN
         /\ IsNew(n + 1) => log[n + 1].status = "open"
         /\ ~IsNew(n + 1) => Live(n, o) /\ log[n + 1].status \in {"partially_filled", "filled", "cancelled"}
<1> DEFINE o == log[n + 1].order
<1>1. n \in Nat /\ Follows(StatusAfter(n, o), log[n + 1].status) /\ StatusAfter(n, o) \in Statuses
  <2>1. Len(log) \in Nat
    BY LogTypes
  <2>2. n \in Nat /\ n \in 0..Len(log)
    BY <2>1
  <2> HIDE DEF o
  <2>3. o \in Orders /\ log[n + 1].order = o
    BY DEF o
  <2> QED BY <2>2, <2>3, LifeFacts
<1>2. About(n + 1, o) = About(n, o) \cup {n + 1} /\ About(n, o) \in SUBSET (1..n) /\ n + 1 \notin 1..n
  <2>1. PICK q : q = o
    OBVIOUS
  <2>2. About(n + 1, q) = About(n, q) \cup {n + 1} /\ About(n, q) \in SUBSET (1..n)
    BY <1>1, <2>1, AboutFacts
  <2>3. n + 1 \notin 1..n
    BY <1>1
  <2> QED BY <2>1, <2>2, <2>3
<1>3. IsNew(n + 1) <=> About(n, o) = {}
  BY <1>2 DEF IsNew
<1>4. IsNew(n + 1) => StatusAfter(n, o) = "absent"
  BY <1>3 DEF StatusAfter
<1>5. ~IsNew(n + 1) => StatusAfter(n, o) # "absent"
  <2> SUFFICES ASSUME About(n, o) # {} PROVE StatusAfter(n, o) # "absent"
    BY <1>3
  <2>1. Max(About(n, o)) \in 1..n
    BY <1>1, <1>2, Greatest
  <2>2. Max(About(n, o)) \in 1..Len(log)
    BY <2>1, LogTypes
  <2>3. log[Max(About(n, o))].status \in Resting \cup {"filled", "cancelled", "deposit"}
    BY <2>2, LogTypes
  <2>4. StatusAfter(n, o) = log[Max(About(n, o))].status
    BY DEF StatusAfter
  <2> QED BY <2>3, <2>4 DEF Resting
<1> HIDE DEF o
<1>6. IsNew(n + 1) => log[n + 1].status = "open"
  BY <1>1, <1>4 DEF Follows
<1>7. ~IsNew(n + 1) => Live(n, o) /\ log[n + 1].status \in {"partially_filled", "filled", "cancelled"}
  BY <1>1, <1>5 DEF Follows, Live, Resting, Statuses
<1> QED BY <1>6, <1>7 DEF o

-----------------------------------------------------------------------------
(* What the reducers do to a value.                                        *)

LEMMA ReduceHolds ==
  ASSUME LogFits, NEW v \in Held, NEW i \in 1..Len(log)
  PROVE  Reduce(v, i) \in Held
<1>1. Len(log) \in Nat
  BY LogTypes
<1>2. CASE view # "orders"
  BY <1>1, <1>2 DEF Held, Reduce
<1>3. CASE view = "orders"
  <2> DEFINE q == log[i].order
             s == log[i].status
             w == ReduceOrders(v, i)
  <2>1. v \in Rows /\ \A o \in Orders : v[o] = "partially_filled" => PartFilled(o)
    BY <1>3 DEF Held
  <2>2. i - 1 \in 0..(Len(log) - 1) /\ (i - 1) + 1 = i
    BY <1>1
  <2>3. q \in Orders => (IsNew(i) => s = "open")
    <3> PICK n : n = i - 1
      OBVIOUS
    <3>1. n \in 0..(Len(log) - 1) /\ n + 1 = i
      BY <2>2
    <3>2. SUFFICES ASSUME log[n + 1].order \in Orders, IsNew(n + 1) PROVE log[n + 1].status = "open"
      BY <3>1
    <3> QED BY <3>1, <3>2, NewFacts
  <2>4. s = "partially_filled" => PartFilled(q)
    BY DEF PartFilled
  <2>5. w \in {v, [v EXCEPT ![q] = s], [v EXCEPT ![q] = IF s \in Resting THEN s ELSE "absent"]}
    BY DEF ReduceOrders
  <2>6. w \in Rows /\ \A o \in Orders : w[o] = "partially_filled" => PartFilled(o)
    <3>1. CASE IsNew(i)
      <4>1. w = [v EXCEPT ![q] = s]
        BY <3>1 DEF ReduceOrders
      <4> HIDE DEF w, q, s
      <4>2. CASE q \in Orders
        BY <2>1, <2>3, <3>1, <4>1, <4>2 DEF Rows, Resting
      <4>3. CASE q \notin Orders
        <5>1. w = v
          BY <2>1, <4>1, <4>3 DEF Rows
        <5> QED BY <2>1, <5>1
      <4> QED BY <4>2, <4>3
    <3>2. CASE ~IsNew(i)
      <4>1. w = v \/ w = [v EXCEPT ![q] = IF s \in Resting THEN s ELSE "absent"]
        BY <3>2 DEF ReduceOrders
      <4> HIDE DEF w, q, s
      <4> QED BY <2>1, <2>4, <4>1 DEF Rows, Resting
    <3> QED BY <3>1, <3>2
  <2>7. Reduce(v, i) = w
    BY <1>3 DEF Reduce
  <2> HIDE DEF w
  <2> QED BY <1>3, <2>6, <2>7 DEF Held
<1> QED BY <1>2, <1>3

\* A reply that is said to have filled nothing comes before every fill.
LEMMA FilledCounts ==
  ASSUME LogFits, NEW i \in 1..Len(log), NEW j \in 1..i, log[j].order = log[i].order,
         log[j].status \in Fills
  PROVE  FilledQty(i) \in Nat /\ FilledQty(i) >= 1
<1> DEFINE S == {m \in About(i, log[i].order) : log[m].status \in Fills}
<1>1. i \in Nat /\ S \in SUBSET (1..i) /\ j \in S
  BY LogTypes DEF About
<1>2. FilledQty(i) = Cardinality(S)
  BY DEF FilledQty
<1> HIDE DEF S
<1>4. IsFiniteSet(S) /\ Cardinality(S) \in Nat
  <2>1. IsFiniteSet(S)
    BY <1>1, SubsetsCounted
  <2> QED BY <2>1, FS_CardinalityType
<1>3. Cardinality(S) # 0
  BY <1>1, <1>4, FS_EmptySet
<1> QED BY <1>2, <1>3, <1>4

\* A reply takes what is not older than the one before it to what is not older than itself.
LEMMA ReduceFollows ==
  ASSUME LogFits, NEW v \in Held, NEW p \in Nat, p + 1 <= Len(log), NEW C, Since(v, p, C)
  PROVE  Since(Reduce(v, p + 1), p + 1, C)
<1>1. Len(log) \in Nat /\ p \in 0..(Len(log) - 1) /\ p + 1 \in (p + 1)..Len(log) /\ p + 1 \in 1..Len(log)
  BY LogTypes
<1>2. CASE view # "orders"
  BY <1>1, <1>2 DEF Reduce, Since
<1>3. CASE view = "orders"
  <2> DEFINE q == log[p + 1].order
             s == log[p + 1].status
             w == ReduceOrders(v, p + 1)
  <2>1. v \in Rows /\ \A o \in Orders : v[o] = "partially_filled" => PartFilled(o)
    BY <1>3 DEF Held
  <2>2. Reduce(v, p + 1) = w
    BY <1>3 DEF Reduce
  <2>3. ASSUME NEW o \in Orders
        PROVE  /\ w[o] # "absent" => \E m \in (p + 1)..Len(log) : Live(m, o)
               /\ o \notin C /\ w[o] = "absent" => \E m \in (p + 1)..Len(log) : ~Live(m, o)
    <3>1. /\ v[o] # "absent" => \E m \in p..Len(log) : Live(m, o)
          /\ o \notin C /\ v[o] = "absent" => \E m \in p..Len(log) : ~Live(m, o)
      BY <1>3 DEF Since
    <3>2. \A m \in p..Len(log) : m = p \/ m \in (p + 1)..Len(log)
      BY <1>1
    <3>3. CASE q # o
      <4>1. w[o] = v[o]
        BY <2>1, <3>3 DEF ReduceOrders, Rows
      <4>2. Live(p + 1, o) <=> Live(p, o)
        BY <1>1, <3>3, LifeFacts DEF Live
      <4> HIDE DEF w
      <4> QED BY <1>1, <3>1, <3>2, <4>1, <4>2
    <3>4. CASE q = o
      <4>1. StatusAfter(p + 1, o) = s
        BY <1>1, <3>4, LifeFacts
      <4>2. /\ IsNew(p + 1) => s = "open"
            /\ ~IsNew(p + 1) => Live(p, o) /\ s \in {"partially_filled", "filled", "cancelled"}
        BY <1>1, <3>4, NewFacts
      <4>3. CASE IsNew(p + 1)
        <5>1. w[o] = "open"
          BY <2>1, <3>4, <4>2, <4>3 DEF ReduceOrders, Rows
        <5>2. Live(p + 1, o)
          BY <4>1, <4>2, <4>3 DEF Live, Resting
        <5> HIDE DEF w
        <5> QED BY <1>1, <5>1, <5>2
      <4>4. CASE ~IsNew(p + 1) /\ v[o] = "absent"
        <5>1. w = v
          BY <3>4, <4>4 DEF ReduceOrders
        <5>2. Live(p, o)
          BY <4>2, <4>4
        <5> HIDE DEF w
        <5> QED BY <3>1, <3>2, <4>4, <5>1, <5>2
      <4>5. CASE ~IsNew(p + 1) /\ v[o] # "absent" /\ FilledQty(p + 1) >= HeldQty(v[o])
        <5>1. w[o] = IF s \in Resting THEN s ELSE "absent"
          BY <2>1, <3>4, <4>5 DEF ReduceOrders, Rows
        <5>2. Live(p + 1, o) <=> s \in Resting
          BY <4>1 DEF Live
        <5> HIDE DEF w
        <5> QED BY <1>1, <5>1, <5>2 DEF Resting
      <4>6. CASE ~IsNew(p + 1) /\ v[o] # "absent" /\ ~(FilledQty(p + 1) >= HeldQty(v[o]))
        <5>1. w = v
          BY <3>4, <4>6 DEF ReduceOrders
        <5>2. v[o] \in {"open", "partially_filled"}
          BY <2>1, <4>6 DEF Rows, Resting
        <5>3. FilledQty(p + 1) \in Nat
          <6> DEFINE S == {m \in About(p + 1, log[p + 1].order) : log[m].status \in Fills}
          <6>1. p + 1 \in Nat /\ S \in SUBSET (1..(p + 1))
            BY DEF About
          <6>2. FilledQty(p + 1) = Cardinality(S)
            BY DEF FilledQty
          <6> HIDE DEF S
          <6>3. IsFiniteSet(S)
            BY <6>1, SubsetsCounted
          <6> QED BY <6>2, <6>3, FS_CardinalityType
        <5>4. v[o] = "partially_filled" /\ ~(FilledQty(p + 1) >= 1)
          BY <4>6, <5>2, <5>3 DEF HeldQty
        <5>5. PICK i \in 1..Len(log) : log[i].order = o /\ log[i].status = "partially_filled"
          BY <2>1, <5>4 DEF PartFilled
        <5>6. i \notin 1..(p + 1)
          BY <1>1, <3>4, <5>4, <5>5, FilledCounts DEF Fills
        <5>7. i \in (p + 1)..Len(log) /\ i - 1 \in 0..(Len(log) - 1) /\ (i - 1) + 1 = i
          BY <1>1, <5>6
        <5>8. StatusAfter(i, o) = "partially_filled"
          <6> PICK k : k = i - 1
            OBVIOUS
          <6>1. k \in 0..(Len(log) - 1) /\ k + 1 = i
            BY <5>7
          <6> QED BY <5>5, <6>1, LifeFacts
        <5>9. Live(i, o)
          BY <5>8 DEF Live, Resting
        <5> HIDE DEF w
        <5> QED BY <5>1, <5>4, <5>7, <5>9
      <4> QED BY <4>3, <4>4, <4>5, <4>6
    <3> QED BY <3>3, <3>4
  <2> HIDE DEF w
  <2> QED BY <1>3, <2>2, <2>3 DEF Since
<1> QED BY <1>2, <1>3

LEMMA FoldHolds ==
  ASSUME LogFits, NEW v \in Held, NEW batch \in Seq(1..Len(log))
  PROVE  FoldLeft(Reduce, v, batch) \in Held
<1>1. PICK h : Runs(h, v, batch) /\ FoldLeft(Reduce, v, batch) = h[Len(batch)]
  BY BatchRuns
<1> DEFINE N == {n \in Nat : n <= Len(batch) => h[n] \in Held}
<1>2. Len(batch) \in Nat /\ \A n \in 1..Len(batch) : batch[n] \in 1..Len(log)
  OBVIOUS
<1>3. 0 \in N
  BY <1>1 DEF Runs
<1>4. ASSUME NEW n \in N PROVE n + 1 \in N
  <2> SUFFICES ASSUME n + 1 <= Len(batch) PROVE h[n + 1] \in Held
    OBVIOUS
  <2>1. n + 1 \in 1..Len(batch) /\ (n + 1) - 1 = n /\ h[n] \in Held
    BY <1>2
  <2>2. h[n + 1] = Reduce(h[(n + 1) - 1], batch[n + 1])
    BY <1>1, <2>1 DEF Runs
  <2>3. h[n + 1] = Reduce(h[n], batch[n + 1])
    BY <2>1, <2>2
  <2> QED BY <1>2, <2>1, <2>3, ReduceHolds
<1>5. N = Nat
  <2>1. N \in SUBSET Nat
    OBVIOUS
  <2> HIDE DEF N
  <2> QED BY <1>3, <1>4, <2>1, SetInduction
<1> QED BY <1>1, <1>2, <1>5

LEMMA FoldFollows ==
  ASSUME LogFits, NEW v \in Held, NEW p \in Nat, NEW batch \in Seq(1..Len(log)), NEW C,
         Since(v, p, C), \A j \in 1..Len(batch) : batch[j] = p + j
  PROVE  Since(FoldLeft(Reduce, v, batch), p + Len(batch), C)
<1>1. PICK h : Runs(h, v, batch) /\ FoldLeft(Reduce, v, batch) = h[Len(batch)]
  BY BatchRuns
<1> DEFINE N == {n \in Nat : n <= Len(batch) => h[n] \in Held /\ Since(h[n], p + n, C)}
<1>2. Len(batch) \in Nat /\ \A n \in 1..Len(batch) : batch[n] \in 1..Len(log)
  OBVIOUS
<1>3. 0 \in N
  <2>1. h[0] = v /\ p + 0 = p
    BY <1>1 DEF Runs
  <2> QED BY <2>1
<1>4. ASSUME NEW n \in N PROVE n + 1 \in N
  <2> SUFFICES ASSUME n + 1 <= Len(batch) PROVE h[n + 1] \in Held /\ Since(h[n + 1], p + (n + 1), C)
    OBVIOUS
  <2> PICK m : m = p + n
    OBVIOUS
  <2>1. n \in Nat /\ n + 1 \in 1..Len(batch) /\ (n + 1) - 1 = n /\ h[n] \in Held /\ Since(h[n], m, C)
    BY <1>2
  <2>2. h[n + 1] = Reduce(h[(n + 1) - 1], batch[n + 1])
    BY <1>1, <2>1 DEF Runs
  <2>3. batch[n + 1] = p + (n + 1)
    BY <2>1
  <2>4. m \in Nat /\ p + (n + 1) = m + 1
    BY <2>1
  <2>5. h[n + 1] = Reduce(h[n], m + 1) /\ m + 1 \in 1..Len(log)
    BY <1>2, <2>1, <2>2, <2>3, <2>4
  <2>6. m + 1 <= Len(log)
    BY <2>5, LogTypes
  <2>7. h[n + 1] \in Held
    BY <2>1, <2>5, ReduceHolds
  <2>8. Since(h[n + 1], m + 1, C)
    BY <2>1, <2>4, <2>5, <2>6, ReduceFollows
  <2> QED BY <2>4, <2>7, <2>8
<1>5. N = Nat
  <2>1. N \in SUBSET Nat
    OBVIOUS
  <2> HIDE DEF N
  <2> QED BY <1>3, <1>4, <2>1, SetInduction
<1> QED BY <1>1, <1>2, <1>5

-----------------------------------------------------------------------------
(* What a step leaves of the past.                                         *)

\* A step adds at most one reply, and a reply about an order continues its life.
LogMoves ==
  \/ log' = log
  \/ \E r \in LogRecords :
       /\ log' = Append(log, r) /\ Len(log) < MaxReplies
       /\ r.order \in Orders => Follows(StatusAfter(Len(log), r.order), r.status)

LEMMA PastStays ==
  ASSUME LogFits, LogMoves, view' = view
  PROVE  /\ Len(log) \in Nat /\ Len(log') \in Nat /\ Len(log) <= Len(log')
         /\ \A i \in 1..Len(log) : log'[i] = log[i]
         /\ \A n \in 0..Len(log), o \in Orders : StatusAfter(n, o)' = StatusAfter(n, o)
         /\ \A o \in Orders : PartFilled(o) => PartFilled(o)'
         /\ Held \subseteq Held'
<1>1. Len(log) \in Nat /\ log \in Seq(LogRecords)
  BY LogTypes DEF LogFits
<1>2. /\ Len(log') \in Nat /\ Len(log) <= Len(log')
      /\ \A i \in 1..Len(log) : log'[i] = log[i]
  BY <1>1 DEF LogMoves
<1>3. ASSUME NEW n \in 0..Len(log), NEW o \in Orders PROVE StatusAfter(n, o)' = StatusAfter(n, o)
  <2>1. About(n, o)' = About(n, o)
    <3>1. \A i \in 1..n : log'[i] = log[i]
      BY <1>1, <1>2
    <3> QED BY <3>1 DEF About
  <2>2. CASE About(n, o) = {}
    BY <2>1, <2>2 DEF StatusAfter
  <2>3. CASE About(n, o) # {}
    <3>1. About(n, o) \in SUBSET (1..n)
      BY DEF About
    <3>2. Max(About(n, o)) \in 1..Len(log)
      <4>1. Max(About(n, o)) \in About(n, o)
        BY <1>1, <2>3, <3>1, Greatest
      <4> QED BY <1>1, <3>1, <4>1
    <3>3. log'[Max(About(n, o))] = log[Max(About(n, o))]
      BY <1>2, <3>2
    <3> QED BY <2>1, <2>3, <3>3 DEF StatusAfter
  <2> QED BY <2>2, <2>3
<1>4. ASSUME NEW o \in Orders, PartFilled(o) PROVE PartFilled(o)'
  <2>1. PICK i \in 1..Len(log) : log[i].order = o /\ log[i].status = "partially_filled"
    BY <1>4 DEF PartFilled
  <2>2. i \in 1..Len(log') /\ log'[i] = log[i]
    BY <1>1, <1>2
  <2> QED BY <2>1, <2>2 DEF PartFilled
<1>5. Held \subseteq Held'
  <2>1. CASE view # "orders"
    BY <1>1, <1>2, <2>1 DEF Held
  <2>2. CASE view = "orders"
    <3> SUFFICES ASSUME NEW v \in Held PROVE v \in Held'
      OBVIOUS
    <3>1. v \in Rows /\ \A o \in Orders : v[o] = "partially_filled" => PartFilled(o)
      BY <2>2 DEF Held
    <3>2. \A o \in Orders : v[o] = "partially_filled" => PartFilled(o)'
      BY <1>4, <3>1
    <3> QED BY <2>2, <3>1, <3>2 DEF Held
  <2> QED BY <2>1, <2>2
<1> QED BY <1>1, <1>2, <1>3, <1>4, <1>5

\* What was not older than n replies stays so.
LEMMA SinceStays ==
  ASSUME LogFits, LogMoves, view' = view, NEW n \in Nat
  PROVE  /\ \A o \in Orders : (\E m \in n..Len(log) : Live(m, o)) => (\E m \in n..Len(log) : Live(m, o))'
         /\ \A v : \A C \in SUBSET Orders : Since(v, n, C) => Since(v, n, C)'
<1>1. Len(log) \in Nat /\ Len(log') \in Nat /\ Len(log) <= Len(log')
  BY PastStays
<1>2. ASSUME NEW o \in Orders, NEW m \in n..Len(log)
      PROVE  m \in n..Len(log') /\ (Live(m, o)' <=> Live(m, o))
  <2>1. m \in 0..Len(log) /\ m \in n..Len(log')
    BY <1>1
  <2>2. StatusAfter(m, o)' = StatusAfter(m, o)
    BY <2>1, PastStays
  <2> QED BY <2>1, <2>2 DEF Live
<1>3. ASSUME NEW o \in Orders, \E m \in n..Len(log) : Live(m, o)
      PROVE  (\E m \in n..Len(log) : Live(m, o))'
  <2>1. PICK m \in n..Len(log) : Live(m, o)
    BY <1>3
  <2>2. m \in n..Len(log') /\ Live(m, o)'
    BY <1>2, <2>1
  <2> QED BY <2>2
<1>4. ASSUME NEW v, NEW C \in SUBSET Orders, Since(v, n, C) PROVE Since(v, n, C)'
  <2>1. CASE view # "orders"
    BY <1>1, <1>4, <2>1 DEF Since
  <2>2. CASE view = "orders"
    <3> SUFFICES ASSUME NEW o \in Orders
                 PROVE  /\ v[o] # "absent" => (\E m \in n..Len(log) : Live(m, o))'
                        /\ o \notin C /\ v[o] = "absent" => (\E m \in n..Len(log) : ~Live(m, o))'
      BY <2>2 DEF Since
    <3>1. /\ v[o] # "absent" => \E m \in n..Len(log) : Live(m, o)
          /\ o \notin C /\ v[o] = "absent" => \E m \in n..Len(log) : ~Live(m, o)
      BY <1>4, <2>2 DEF Since
    <3>2. ASSUME o \notin C, v[o] = "absent" PROVE (\E m \in n..Len(log) : ~Live(m, o))'
      <4>1. PICK m \in n..Len(log) : ~Live(m, o)
        BY <3>1, <3>2
      <4>2. m \in n..Len(log') /\ ~Live(m, o)'
        BY <1>2, <4>1
      <4> QED BY <4>2
    <3> QED BY <1>3, <3>1, <3>2
  <2> QED BY <2>1, <2>2
<1> QED BY <1>3, <1>4

LEMMA LogStays ==
  ASSUME LogFits, LogMoves, view' = view,
         written' \in 0..Len(log'), published' \in 0..Len(log')
  PROVE  LogFits'
<1> USE FeedAssumption
<1>1. Len(log) \in Nat /\ log \in Seq(LogRecords) /\ Len(log) <= MaxReplies
  BY LogTypes DEF LogFits
<1>2. /\ log' \in Seq(LogRecords) /\ Len(log') <= MaxReplies
      /\ Len(log') = Len(log) \/ Len(log') = Len(log) + 1
  BY <1>1 DEF LogMoves
<1>3. \A n \in 0..Len(log), o \in Orders : StatusAfter(n, o)' = StatusAfter(n, o)
  BY PastStays
<1>4. ASSUME NEW i \in 1..Len(log'), log'[i].order \in Orders
      PROVE  Follows(StatusAfter(i - 1, log[i].order), log[i].status)'
  <2> PICK n, o, s : n = i - 1 /\ o = log'[i].order /\ s = log'[i].status
    OBVIOUS
  <2>1. n \in 0..Len(log) /\ o \in Orders
    BY <1>1, <1>2, <1>4
  <2>2. Follows(StatusAfter(n, o), s)
    <3>1. CASE i \in 1..Len(log)
      <4>1. log'[i] = log[i]
        BY <3>1, PastStays
      <4> QED BY <1>4, <3>1, <4>1 DEF LogFits
    <3>2. CASE i \notin 1..Len(log)
      <4>1. i = Len(log) + 1 /\ n = Len(log) /\ Len(log') = Len(log) + 1
        BY <1>1, <1>2, <3>2
      <4>2. PICK r \in LogRecords :
              log' = Append(log, r) /\ (r.order \in Orders => Follows(StatusAfter(Len(log), r.order), r.status))
        BY <1>1, <4>1 DEF LogMoves
      <4>3. log'[i] = r
        BY <1>1, <4>1, <4>2
      <4> QED BY <2>1, <4>1, <4>2, <4>3
    <3> QED BY <3>1, <3>2
  <2>3. StatusAfter(n, o)' = StatusAfter(n, o)
    BY <1>3, <2>1
  <2>4. Follows(StatusAfter(n, o)', s)
    BY <2>2, <2>3
  <2>5. (StatusAfter(i - 1, log[i].order))' = StatusAfter(n, o)'
    BY DEF StatusAfter, About
  <2> QED BY <2>4, <2>5 DEF Follows
<1> QED BY <1>2, <1>4 DEF LogFits

LEMMA OverStays ==
  ASSUME LogFits, LogMoves, view' = view, NEW o \in Orders, Over(o)
  PROVE  Over(o)'
<1>1. Len(log) \in Nat /\ log \in Seq(LogRecords)
  BY LogTypes DEF LogFits
<1>2. \A n \in 0..Len(log) : StatusAfter(n, o)' = StatusAfter(n, o)
  BY PastStays
<1>3. Over(o)'
  <2> PICK k : k = Len(log)
    OBVIOUS
  <2>1. StatusAfter(k, o)' = StatusAfter(k, o) /\ StatusAfter(k, o) \in {"filled", "cancelled"}
    BY <1>1, <1>2 DEF Over
  <2>2. CASE log' = log
    BY <2>2 DEF Over, StatusAfter, About
  <2>3. CASE log' # log
    <3>1. PICK r \in LogRecords :
            log' = Append(log, r) /\ (r.order \in Orders => Follows(StatusAfter(Len(log), r.order), r.status))
      BY <2>3 DEF LogMoves
    <3>2. Len(log') = Len(log) + 1 /\ log'[Len(log) + 1] = r
      BY <1>1, <3>1
    <3>3. r.order # o
      BY <2>1, <3>1 DEF Follows
    <3>4. k \in Nat /\ Len(log') = k + 1 /\ log'[k + 1].order # o
      BY <1>1, <3>2, <3>3
    <3>5. StatusAfter(k + 1, o)' = StatusAfter(k, o)'
      <4>1. About(k + 1, o)' = About(k, o)'
        <5>1. 1..(k + 1) = (1..k) \cup {k + 1}
          BY <3>4
        <5> QED BY <3>4, <5>1 DEF About
      <4> QED BY <4>1 DEF StatusAfter
    <3>6. StatusAfter(Len(log), o)' = StatusAfter(k + 1, o)'
      BY <3>4 DEF StatusAfter, About
    <3> QED BY <2>1, <3>5, <3>6 DEF Over
  <2> QED BY <2>2, <2>3
<1> QED BY <1>3

-----------------------------------------------------------------------------
(* The parts of the invariant that a step leaves alone.                    *)

LEMMA BudgetStays ==
  ASSUME BudgetFits, UNCHANGED <<tickets, retryTimer, timers, tab, generation>>,
         Len(sockets') = Len(sockets), faults' \in faults..MaxFaults
  PROVE  BudgetFits'
<1>1. Waiting' = Waiting
  BY DEF Waiting
<1>2. Cardinality(Waiting) \in Nat /\ faults \in Nat /\ faults' \in 0..MaxFaults /\ faults <= faults'
  BY FS_CardinalityType, FeedAssumption DEF BudgetFits
<1> QED BY <1>1, <1>2 DEF BudgetFits

LEMMA SocketsStay ==
  ASSUME LogFits, SocketsFit, LogMoves, view' = view,
         UNCHANGED <<sockets, socket, generation, buffering, buffer, resyncs>>,
         status' \in {status, "connecting", "reconnecting"}
  PROVE  SocketsFit'
<1>1. Len(log) \in Nat /\ Len(log') \in Nat /\ Len(log) <= Len(log')
  BY PastStays
<1>2. sockets \in Seq(SocketRecords) => sockets \in Seq(SocketRecords')
  <2>1. SocketRecords \subseteq SocketRecords'
    BY <1>1 DEF SocketRecords
  <2> PICK S, T : S = SocketRecords /\ T = SocketRecords'
    OBVIOUS
  <2>2. Seq(S) \subseteq Seq(T)
    BY <2>1
  <2> QED BY <2>2
<1>3. buffer \in Seq(1..Len(log)) => buffer \in Seq(1..Len(log'))
  BY <1>1
<1> QED BY <1>2, <1>3 DEF SocketsFit

\* The sockets are those there were, or more, and none opens anew.
SocketsGoOn ==
  /\ DOMAIN sockets \subseteq DOMAIN sockets'
  /\ \A k \in DOMAIN sockets : sockets[k].state # "opening" => sockets'[k].state # "opening"

LEMMA ProviderStays ==
  ASSUME LogFits, ProviderFits, LogMoves, SocketsGoOn,
         UNCHANGED <<view, mounted, current, loads, shown>>
  PROVE  ProviderFits'
<1>1. Held \subseteq Held'
  BY PastStays
<1>2. loads \in [Calls -> LoadRecords]' /\ LoadRecords \subseteq LoadRecords'
  BY <1>1 DEF ProviderFits, LoadRecords, Calls
<1> QED BY <1>1, <1>2 DEF ProviderFits, SocketsGoOn

LEMMA DepositStays ==
  ASSUME LogFits, DepositFits, LogMoves, view' = view, UNCHANGED deposit
  PROVE  DepositFits'
<1>1. Len(log) \in Nat /\ Len(log') \in Nat /\ Len(log) <= Len(log')
  BY PastStays
<1> QED BY <1>1 DEF DepositFits

LEMMA CancelsStay ==
  ASSUME LogFits, CancelsFit, LogMoves, UNCHANGED <<view, cancels>>,
         \A k \in 0..MaxSockets : loads[k].phase = "done" => loads'[k].phase = "done"
  PROVE  CancelsFit'
<1>1. /\ \A o \in Orders : PartFilled(o) => PartFilled(o)'
      /\ Len(log) \in Nat /\ Len(log') \in Nat /\ Len(log) <= Len(log')
  BY PastStays
<1>3. \A o \in Orders : Over(o) => Over(o)'
  BY OverStays
<1>4. \A o \in Orders : cancels[o].base \in 0..MaxSockets
  BY DEF CancelsFit, CancelRecords
<1> QED BY <1>1, <1>3, <1>4 DEF CancelsFit

\* The sockets of the generation are those there were, and the last has got nothing.
SameChannel ==
  /\ UNCHANGED <<socket, generation, buffer>>
  /\ DOMAIN sockets' = DOMAIN sockets
  /\ \A k \in DOMAIN sockets : sockets'[k].mine = sockets[k].mine
  /\ socket # None => /\ sockets'[socket].got = sockets[socket].got
                      /\ sockets'[socket].full = sockets[socket].full

LEMMA ChannelIsSame ==
  ASSUME UNCHANGED <<sockets, socket, generation, buffer>>
  PROVE  SameChannel
BY DEF SameChannel

\* With the channel as it was, only what is on screen, loaded or cancelled matters.
LEMMA AbreastSuffices ==
  ASSUME SocketsFit, Following, SameChannel,
         \A s, h : s = socket /\ h = Handed /\ s # None /\ h \in Nat /\ Alone /\ Abreast(s, h) => Abreast(s, h)'
  PROVE  Following'
<1> SUFFICES ASSUME Alone', socket' # None, ~sockets'[socket'].full
             PROVE  Queued(Handed)' /\ Abreast(socket, Handed)'
  BY DEF Following
<1>1. PICK s, h : s = socket /\ h = Handed
  OBVIOUS
<1>2. Alone
  BY DEF Alone, SameChannel
<1>3. s # None /\ h \in Nat /\ Queued(h) /\ Abreast(s, h)
  BY <1>1, <1>2 DEF Following, Queued, SameChannel
<1>4. Abreast(s, h)'
  BY <1>1, <1>2, <1>3
<1>5. s = socket' /\ h = Handed'
  BY <1>1, <1>3 DEF Handed, SameChannel
<1>6. Abreast(socket, Handed)' <=> Abreast(s, h)'
  BY <1>5 DEF Abreast, Since
<1>7. Queued(Handed)' <=> Queued(h)
  BY <1>5 DEF Queued, SameChannel
<1> QED BY <1>3, <1>4, <1>6, <1>7

\* The cancels in flight are those there were, and what matters of them is the same.
SameCancels ==
  /\ InFlight' = InFlight
  /\ \A o \in InFlight : cancels'[o].base = cancels[o].base /\ cancels'[o].finished = cancels[o].finished

LEMMA FollowingStays ==
  ASSUME LogFits, SocketsFit, Following, LogMoves, SameCancels, SameChannel,
         UNCHANGED <<buffering, view, loads, shown>>
  PROVE  Following'
<1> SUFFICES ASSUME NEW s, NEW h, s = socket, s # None, h \in Nat, Abreast(s, h)
             PROVE  Abreast(s, h)'
  BY AbreastSuffices
<1>1. /\ \A o \in Orders : (\E m \in h..Len(log) : Live(m, o)) => (\E m \in h..Len(log) : Live(m, o))'
      /\ \A v : \A C \in SUBSET Orders : Since(v, h, C) => Since(v, h, C)'
  BY SinceStays
<1>2. Since(loads[s].value, h, {}) => Since(loads[s].value, h, {})'
  <2> PICK v : v = loads[s].value
    OBVIOUS
  <2>1. Since(v, h, {}) => Since(v, h, {})'
    BY <1>1
  <2> QED BY <2>1 DEF Since
<1>3. Since(shown.value, h, InFlight) => Since(shown.value, h, InFlight)'
  <2> PICK v, C : v = shown.value /\ C = InFlight
    OBVIOUS
  <2>1. C \in SUBSET Orders
    BY DEF InFlight
  <2>2. Since(v, h, C) => Since(v, h, C)'
    BY <1>1, <2>1
  <2>3. v = shown'.value /\ C = InFlight'
    BY <2>1 DEF SameCancels
  <2>4. Since(shown.value, h, InFlight)' <=> Since(v, h, C)'
    BY <2>3 DEF Since
  <2> QED BY <2>1, <2>2, <2>4
<1>4. InFlight' = InFlight /\ InFlight \subseteq Orders
  BY DEF InFlight, SameCancels
<1> QED BY <1>1, <1>2, <1>3, <1>4 DEF Abreast, SameCancels

LEMMA CancelsAreSame ==
  ASSUME UNCHANGED cancels
  PROVE  SameCancels
BY DEF SameCancels, InFlight

-----------------------------------------------------------------------------
(* One lemma for each action: those of the exchange, of the deposit dialog *)
(* and of the tab and its timers.                                          *)

LEMMA InvariantParts ==
  ASSUME FeedInvariant
  PROVE  /\ LogFits /\ BudgetFits /\ SocketsFit /\ ProviderFits /\ DepositFits /\ NoneTwice
         /\ CancelsFit /\ Following
BY DEF FeedInvariant

LEMMA SocketsUnchanged ==
  ASSUME UNCHANGED sockets
  PROVE  SocketsGoOn
BY DEF SocketsGoOn

\* What a step that says something, and nothing else, leaves.
LEMMA SaysKeeps ==
  ASSUME FeedInvariant, LogMoves, SameCancels,
         UNCHANGED <<written, published, channel, view, mounted, loads, current, shown, announced>>,
         faults' \in faults..MaxFaults
  PROVE  LogFits' /\ BudgetFits' /\ SocketsFit' /\ ProviderFits' /\ NoneTwice' /\ Following'
<1> USE InvariantParts
<1>1. /\ UNCHANGED <<sockets, socket, tickets, retryTimer, timers, tab, generation, buffering, buffer,
                    status, resyncs>>
      /\ Len(sockets') = Len(sockets) /\ status' \in {status, "connecting", "reconnecting"}
  BY DEF channel
<1>2. Len(log) \in Nat /\ Len(log') \in Nat /\ Len(log) <= Len(log')
  BY PastStays
<1>3. written' \in 0..Len(log') /\ published' \in 0..Len(log')
  BY <1>2 DEF LogFits
<1>4. LogFits'
  BY <1>3, LogStays
<1>5. BudgetFits'
  BY <1>1, BudgetStays
<1>6. SocketsFit'
  BY <1>1, SocketsStay
<1>7. ProviderFits'
  BY <1>1, SocketsUnchanged, ProviderStays
<1>8. NoneTwice'
  BY DEF NoneTwice
<1>9. Following'
  BY <1>1, ChannelIsSame, FollowingStays
<1> QED BY <1>4, <1>5, <1>6, <1>7, <1>8, <1>9

LEMMA FaultsFit ==
  ASSUME FeedInvariant
  PROVE  /\ MaxFaults \in Nat /\ faults \in Nat /\ faults \in faults..MaxFaults
         /\ faults < MaxFaults => faults + 1 \in faults..MaxFaults
BY FeedAssumption DEF FeedInvariant, BudgetFits

LEMMA ReplyKeeps ==
  ASSUME FeedInvariant, NEW o \in Orders, NEW s \in Resting \cup {"filled", "cancelled"}, Reply(o, s)
  PROVE  FeedInvariant'
<1> USE InvariantParts
<1> DEFINE r == [order |-> o, status |-> s]
<1>1. LogMoves
  <2>1. r \in LogRecords
    BY DEF LogRecords
  <2>2. r.order = o /\ r.status = s /\ log' = Append(log, r)
    BY DEF Reply, Says
  <2> HIDE DEF r
  <2> QED BY <2>1, <2>2 DEF Reply, LogMoves
<1>2. /\ UNCHANGED <<written, published, channel, view, mounted, loads, current, shown, announced>>
      /\ UNCHANGED <<faults, cancels, deposit>>
  BY DEF Reply, screen
<1>3. SameCancels /\ faults' \in faults..MaxFaults
  BY <1>2, CancelsAreSame, FaultsFit
<1>4. LogFits' /\ BudgetFits' /\ SocketsFit' /\ ProviderFits' /\ NoneTwice' /\ Following'
  BY <1>1, <1>2, <1>3, SaysKeeps
<1>5. DepositFits'
  BY <1>1, <1>2, DepositStays
<1>6. CancelsFit'
  BY <1>1, <1>2, CancelsStay
<1> QED BY <1>4, <1>5, <1>6 DEF FeedInvariant

LEMMA OnrampKeeps ==
  ASSUME FeedInvariant, Onramp
  PROVE  FeedInvariant'
<1> USE InvariantParts
<1> DEFINE r == [order |-> NoOrder, status |-> "deposit"]
<1>1. LogMoves
  <2>1. r \in LogRecords
    BY DEF LogRecords
  <2>2. r.order \notin Orders /\ log' = Append(log, r)
    BY FeedAssumption DEF Onramp, Says
  <2> HIDE DEF r
  <2> QED BY <2>1, <2>2 DEF Onramp, LogMoves
<1>2. /\ UNCHANGED <<written, published, channel, view, mounted, loads, current, shown, announced>>
      /\ UNCHANGED <<faults, cancels>>
  BY DEF Onramp
<1>3. SameCancels /\ faults' \in faults..MaxFaults
  BY <1>2, CancelsAreSame, FaultsFit
<1>4. LogFits' /\ BudgetFits' /\ SocketsFit' /\ ProviderFits' /\ NoneTwice' /\ Following'
  BY <1>1, <1>2, <1>3, SaysKeeps
<1>5. DepositFits'
  <2>1. Len(log') \in 0..Len(log')
    BY <1>1, <1>2, PastStays
  <2>2. PICK d : d = [deposit EXCEPT !.stage = "answered", !.at = Len(log')]
    OBVIOUS
  <2>3. d = [stage |-> "answered", at |-> Len(log'), made |-> deposit.made] /\ deposit.made \in 0..MaxDeposits
    BY <2>2 DEF DepositFits
  <2>4. deposit' = d
    BY <2>2 DEF Onramp
  <2>5. view' = "account"
    BY <1>2 DEF Onramp, DepositFits
  <2> QED BY <2>1, <2>3, <2>4, <2>5 DEF DepositFits
<1>6. CancelsFit'
  BY <1>1, <1>2, CancelsStay
<1> QED BY <1>4, <1>5, <1>6 DEF FeedInvariant

LEMMA EngineCancelsKeeps ==
  ASSUME FeedInvariant, NEW o \in Orders, EngineCancels(o)
  PROVE  FeedInvariant'
<1> USE InvariantParts
<1> DEFINE r == [order |-> o, status |-> "cancelled"]
           rests == StatusAfter(Len(log), o) \in Resting
<1>0. Len(log) \in Nat /\ log \in Seq(LogRecords)
  BY LogTypes DEF LogFits
<1>1. LogMoves
  <2>1. CASE rests
    <3>1. r \in LogRecords
      BY DEF LogRecords
    <3>2. r.order = o /\ r.status = "cancelled" /\ log' = Append(log, r) /\ Len(log) < MaxReplies
      BY <2>1 DEF EngineCancels, Says
    <3>3. Follows(StatusAfter(Len(log), o), "cancelled")
      BY <2>1 DEF Follows, Resting
    <3> HIDE DEF r
    <3> QED BY <3>1, <3>2, <3>3 DEF LogMoves
  <2>2. CASE ~rests
    BY <2>2 DEF EngineCancels, LogMoves
  <2> QED BY <2>1, <2>2
<1>2. /\ UNCHANGED <<written, published, channel, view, mounted, loads, current, shown, announced>>
      /\ UNCHANGED <<faults, deposit>>
  BY DEF EngineCancels
<1>3. PICK stage \in {"accepted", "refused"} :
        /\ cancels' = [cancels EXCEPT ![o].stage = stage]
        /\ stage = "accepted" => rests /\ log' = Append(log, r)
  BY DEF EngineCancels, Says
<1>4. /\ cancels \in [Orders -> CancelRecords] /\ cancels[o].stage = "sent"
      /\ \A q \in Orders \ {o} : cancels'[q] = cancels[q]
      /\ cancels'[o].stage = stage /\ cancels'[o].removed = cancels[o].removed
      /\ cancels'[o].finished = cancels[o].finished /\ cancels'[o].base = cancels[o].base
      /\ cancels' \in [Orders -> CancelRecords]
  BY <1>3 DEF CancelsFit, EngineCancels, CancelRecords
<1>5. SameCancels /\ faults' \in faults..MaxFaults
  <2>1. \A q \in Orders : /\ cancels'[q].stage # "none" <=> cancels[q].stage # "none"
                          /\ cancels'[q].base = cancels[q].base
                          /\ cancels'[q].finished = cancels[q].finished
    BY <1>3, <1>4
  <2> QED BY <1>2, <2>1, FaultsFit DEF SameCancels, InFlight
<1>6. LogFits' /\ BudgetFits' /\ SocketsFit' /\ ProviderFits' /\ NoneTwice' /\ Following'
  BY <1>1, <1>2, <1>5, SaysKeeps
<1>7. DepositFits'
  BY <1>1, <1>2, DepositStays
<1>8. CancelsFit'
  <2>1. \A q \in Orders : (PartFilled(q) => PartFilled(q)') /\ (Over(q) => Over(q)')
    BY <1>1, <1>2, PastStays, OverStays
  <2>2. stage = "accepted" => Over(o)'
    <3> SUFFICES ASSUME stage = "accepted" PROVE Over(o)'
      OBVIOUS
    <3> PICK k : k = Len(log)
      OBVIOUS
    <3>1. k \in Nat /\ Len(log') = k + 1 /\ log'[k + 1] = r
      BY <1>0, <1>3
    <3>2. StatusAfter(k + 1, o)' = "cancelled"
      <4>1. k + 1 \in About(k + 1, o)' /\ About(k + 1, o)' \in SUBSET (1..(k + 1))
        BY <3>1 DEF About
      <4>2. PICK S : S = About(k + 1, o)'
        OBVIOUS
      <4>3. Max(S) \in S /\ \A n \in S : n <= Max(S)
        <5>1. k + 1 \in Nat /\ S # {} /\ S \in SUBSET (1..(k + 1))
          BY <3>1, <4>1, <4>2
        <5> QED BY <5>1, Greatest
      <4>4. Max(S) = k + 1
        BY <3>1, <4>1, <4>2, <4>3
      <4> QED BY <3>1, <4>1, <4>2, <4>4 DEF StatusAfter
    <3>3. StatusAfter(Len(log), o)' = StatusAfter(k + 1, o)'
      BY <3>1 DEF StatusAfter, About
    <3> QED BY <3>2, <3>3 DEF Over
  <2> QED BY <1>2, <1>3, <1>4, <2>1, <2>2 DEF CancelsFit
<1> QED BY <1>6, <1>7, <1>8 DEF FeedInvariant

LEMMA DepositKeeps ==
  ASSUME FeedInvariant, Deposit \/ DepositFails
  PROVE  FeedInvariant'
<1> USE InvariantParts
<1>1. LogMoves
  BY DEF Deposit, DepositFails, world, LogMoves
<1>2. /\ UNCHANGED <<written, published, channel, view, mounted, loads, current, shown, announced>>
      /\ UNCHANGED cancels
  BY DEF Deposit, DepositFails, world
<1>3. SameCancels
  BY <1>2, CancelsAreSame
<1>4. faults' \in faults..MaxFaults
  BY FaultsFit DEF Deposit, DepositFails
<1>5. LogFits' /\ BudgetFits' /\ SocketsFit' /\ ProviderFits' /\ NoneTwice' /\ Following'
  BY <1>1, <1>2, <1>3, <1>4, SaysKeeps
<1>6. DepositFits'
  <2>1. PICK st, at, made : /\ st \in {"none", "sent", "answered"} /\ at \in 0..Len(log) /\ made \in 0..MaxDeposits
                            /\ deposit = [stage |-> st, at |-> at, made |-> made]
    BY DEF DepositFits
  <2>2. log' = log /\ 0 \in 0..Len(log)
    <3>1. log' = log
      BY DEF Deposit, DepositFails, world
    <3> QED BY <3>1, LogTypes
  <2>3. CASE Deposit
    <3>1. PICK d : d = [deposit EXCEPT !.stage = "sent", !.made = @ + 1]
      OBVIOUS
    <3>2. d = [stage |-> "sent", at |-> at, made |-> made + 1]
      BY <2>1, <3>1
    <3>3. made + 1 \in 0..MaxDeposits
      BY <2>1, <2>3, FeedAssumption DEF Deposit
    <3>4. deposit' = d
      BY <2>3, <3>1 DEF Deposit
    <3>5. view' = "account"
      BY <1>2, <2>3 DEF Deposit
    <3> QED BY <2>1, <2>2, <3>2, <3>3, <3>4, <3>5 DEF DepositFits
  <2>4. CASE DepositFails
    <3>1. PICK d : d = [deposit EXCEPT !.stage = "none", !.at = None]
      OBVIOUS
    <3>2. d = [stage |-> "none", at |-> None, made |-> made]
      BY <2>1, <3>1
    <3>3. deposit' = d
      BY <2>4, <3>1 DEF DepositFails, DepositOver
    <3> QED BY <2>1, <2>2, <3>2, <3>3 DEF DepositFits, None
  <2> QED BY <2>3, <2>4
<1>7. CancelsFit'
  BY <1>1, <1>2, CancelsStay
<1> QED BY <1>5, <1>6, <1>7 DEF FeedInvariant

\* What a step of the channel alone leaves.
LEMMA ChannelKeeps ==
  ASSUME FeedInvariant, UNCHANGED <<world, screen>>, SocketsGoOn
  PROVE  LogFits' /\ ProviderFits' /\ DepositFits' /\ NoneTwice' /\ CancelsFit'
<1> USE InvariantParts
<1>1. /\ UNCHANGED <<log, written, published>>
      /\ UNCHANGED <<view, mounted, loads, current, shown, cancels, deposit, announced>>
  BY DEF world, screen
<1>2. LogMoves
  BY <1>1 DEF LogMoves
<1>3. LogFits'
  <2>1. written' \in 0..Len(log') /\ published' \in 0..Len(log')
    BY <1>1 DEF LogFits
  <2> QED BY <1>1, <1>2, <2>1, LogStays
<1>4. ProviderFits'
  BY <1>1, <1>2, ProviderStays
<1>5. DepositFits'
  BY <1>1, <1>2, DepositStays
<1>6. NoneTwice'
  BY <1>1 DEF NoneTwice
<1>7. CancelsFit'
  BY <1>1, <1>2, CancelsStay
<1> QED BY <1>3, <1>4, <1>5, <1>6, <1>7

\* One connect more, or one less, waits for its ticket.
LEMMA WaitingGrows ==
  ASSUME BudgetFits, NEW g \in 0..MaxFaults, tickets' = [tickets EXCEPT ![g] = @ + 1]
  PROVE  /\ tickets' \in [0..MaxFaults -> Nat] /\ IsFiniteSet(Waiting)'
         /\ Cardinality(Waiting)' = Cardinality(Waiting) + 1 /\ Cardinality(Waiting) \in Nat
<1>1. tickets \in [0..MaxFaults -> Nat] /\ IsFiniteSet(Waiting)
  BY DEF BudgetFits
<1>2. /\ tickets' \in [0..MaxFaults -> Nat] /\ tickets'[g] = tickets[g] + 1
      /\ \A f \in 0..MaxFaults : f # g => tickets'[f] = tickets[f]
  BY <1>1
<1> DEFINE x == <<g, tickets[g] + 1>>
<1>3. Waiting' = Waiting \cup {x}
  <2>1. 1..tickets'[g] = (1..tickets[g]) \cup {tickets[g] + 1}
    BY <1>1, <1>2
  <2>2. {<<g, n>> : n \in 1..tickets'[g]} = {<<g, n>> : n \in 1..tickets[g]} \cup {x}
    BY <2>1
  <2> HIDE DEF x
  <2>3. Waiting' = UNION {{<<f, n>> : n \in 1..tickets'[f]} : f \in 0..MaxFaults}
    BY DEF Waiting
  <2>4. ASSUME NEW f \in 0..MaxFaults, f # g
        PROVE  {<<f, n>> : n \in 1..tickets'[f]} = {<<f, n>> : n \in 1..tickets[f]}
    BY <1>2, <2>4
  <2> DEFINE A(f) == {<<f, n>> : n \in 1..tickets[f]}
             B(f) == {<<f, n>> : n \in 1..tickets'[f]}
  <2>5. B(g) = A(g) \cup {x} /\ \A f \in 0..MaxFaults : f # g => B(f) = A(f)
    BY <2>2, <2>4
  <2>6. Waiting' = UNION {B(f) : f \in 0..MaxFaults} /\ Waiting = UNION {A(f) : f \in 0..MaxFaults}
    BY <2>3 DEF Waiting
  <2> HIDE DEF A, B
  <2> QED BY <2>5, <2>6
<1>4. x \notin Waiting
  BY <1>1 DEF Waiting
<1> HIDE DEF x
<1>5. IsFiniteSet(Waiting \cup {x}) /\ Cardinality(Waiting \cup {x}) = Cardinality(Waiting) + 1
  BY <1>1, <1>4, FS_AddElement
<1> QED BY <1>1, <1>2, <1>3, <1>5, FS_CardinalityType

LEMMA WaitingShrinks ==
  ASSUME BudgetFits, NEW g \in 0..MaxFaults, Answered(g)
  PROVE  /\ tickets' \in [0..MaxFaults -> Nat] /\ IsFiniteSet(Waiting)'
         /\ Cardinality(Waiting)' = Cardinality(Waiting) - 1 /\ Cardinality(Waiting) \in Nat
<1>1. tickets \in [0..MaxFaults -> Nat] /\ IsFiniteSet(Waiting) /\ tickets[g] > 0
  BY DEF BudgetFits, Answered
<1>2. /\ tickets' \in [0..MaxFaults -> Nat] /\ tickets'[g] = tickets[g] - 1
      /\ \A f \in 0..MaxFaults : f # g => tickets'[f] = tickets[f]
  BY <1>1 DEF Answered
<1> DEFINE x == <<g, tickets[g]>>
<1>3. Waiting' = Waiting \ {x}
  <2>1. 1..tickets'[g] = (1..tickets[g]) \ {tickets[g]}
    BY <1>1, <1>2
  <2>2. {<<g, n>> : n \in 1..tickets'[g]} = {<<g, n>> : n \in 1..tickets[g]} \ {x}
    BY <2>1
  <2>3. Waiting' = UNION {{<<f, n>> : n \in 1..tickets'[f]} : f \in 0..MaxFaults}
    BY DEF Waiting
  <2>4. ASSUME NEW f \in 0..MaxFaults, f # g
        PROVE  {<<f, n>> : n \in 1..tickets'[f]} = {<<f, n>> : n \in 1..tickets[f]} \ {x}
    BY <1>2, <2>4
  <2> HIDE DEF x
  <2> DEFINE A(f) == {<<f, n>> : n \in 1..tickets[f]}
             B(f) == {<<f, n>> : n \in 1..tickets'[f]}
  <2>5. \A f \in 0..MaxFaults : B(f) = A(f) \ {x}
    BY <2>2, <2>4
  <2>6. Waiting' = UNION {B(f) : f \in 0..MaxFaults} /\ Waiting = UNION {A(f) : f \in 0..MaxFaults}
    BY <2>3 DEF Waiting
  <2> HIDE DEF A, B
  <2> QED BY <2>5, <2>6
<1>4. x \in Waiting
  <2>1. tickets[g] \in 1..tickets[g]
    BY <1>1
  <2> QED BY <2>1 DEF Waiting
<1> HIDE DEF x
<1>5. /\ IsFiniteSet(Waiting \ {x}) /\ Cardinality(Waiting \ {x}) = Cardinality(Waiting) - 1
      /\ Cardinality(Waiting) \in Nat
  BY <1>1, <1>4, FS_RemoveElement, FS_CardinalityType
<1> QED BY <1>2, <1>3, <1>5

\* What a step that changes only the tickets, the timers, the tab and the status leaves.
LEMMA TimersKeep ==
  ASSUME FeedInvariant, BudgetFits', UNCHANGED <<world, screen>>,
         UNCHANGED <<sockets, socket, generation, buffering, buffer, resyncs>>,
         status' \in {status, "connecting", "reconnecting"}
  PROVE  FeedInvariant'
<1> USE InvariantParts
<1>1. UNCHANGED <<log, view, loads, shown, cancels>>
  BY DEF world, screen
<1>2. LogMoves /\ SocketsGoOn /\ SameCancels
  BY <1>1, SocketsUnchanged, CancelsAreSame DEF LogMoves
<1>3. LogFits' /\ ProviderFits' /\ DepositFits' /\ NoneTwice' /\ CancelsFit'
  BY <1>2, ChannelKeeps
<1>4. SocketsFit'
  BY <1>1, <1>2, SocketsStay
<1>5. Following'
  BY <1>1, <1>2, ChannelIsSame, FollowingStays
<1> QED BY <1>3, <1>4, <1>5 DEF FeedInvariant

LEMMA GenerationFits ==
  ASSUME BudgetFits
  PROVE  generation \in 0..MaxFaults
BY FeedAssumption DEF BudgetFits

LEMMA TicketFailsKeeps ==
  ASSUME FeedInvariant, NEW g \in 0..MaxFaults, TicketFails(g)
  PROVE  FeedInvariant'
<1> USE InvariantParts
<1>1. /\ tickets' \in [0..MaxFaults -> Nat] /\ IsFiniteSet(Waiting)'
      /\ Cardinality(Waiting)' = Cardinality(Waiting) - 1 /\ Cardinality(Waiting) \in Nat
  BY WaitingShrinks DEF TicketFails
<1>2. /\ UNCHANGED <<world, screen>>
      /\ UNCHANGED <<sockets, socket, generation, buffering, buffer, resyncs, tab>>
      /\ status' \in {status, "connecting", "reconnecting"}
      /\ faults' = faults + 1 /\ faults < MaxFaults
  BY DEF TicketFails, Backoff
<1>3. /\ retryTimer' \in BOOLEAN /\ timers' \in Nat /\ (retryTimer' => timers' > 0)
      /\ timers' \in {timers, timers + 1}
  <2>1. retryTimer \in BOOLEAN /\ timers \in Nat /\ (retryTimer => timers > 0)
    BY DEF BudgetFits
  <2>2. CASE g # generation
    BY <2>1, <2>2 DEF TicketFails
  <2>3. CASE g = generation
    BY <2>1, <2>3 DEF TicketFails, Backoff
  <2> QED BY <2>2, <2>3
<1>4. BudgetFits'
  <2>1. faults \in Nat /\ faults' \in 0..MaxFaults
    BY <1>2, FaultsFit
  <2> QED BY <1>1, <1>2, <1>3, <2>1 DEF BudgetFits
<1> QED BY <1>2, <1>4, TimersKeep

LEMMA RetryFiresKeeps ==
  ASSUME FeedInvariant, RetryFires
  PROVE  FeedInvariant'
<1> USE InvariantParts
<1>1. /\ tickets' \in [0..MaxFaults -> Nat] /\ IsFiniteSet(Waiting)'
      /\ Cardinality(Waiting)' = Cardinality(Waiting) + 1 /\ Cardinality(Waiting) \in Nat
  <2> PICK g : g = generation
    OBVIOUS
  <2> QED BY GenerationFits, WaitingGrows DEF RetryFires, Connect
<1>2. /\ UNCHANGED <<world, screen>>
      /\ UNCHANGED <<sockets, socket, generation, buffering, buffer, resyncs, tab, faults>>
      /\ status' \in {status, "connecting", "reconnecting"}
      /\ retryTimer' = FALSE /\ timers > 0 /\ timers' = timers - 1
  BY DEF RetryFires, Connect
<1>3. BudgetFits'
  <2>1. /\ timers \in Nat /\ Len(sockets) \in Nat /\ Len(sockets') = Len(sockets)
        /\ Cardinality(Waiting) + Len(sockets) + timers + (IF tab = "shown" THEN 0 ELSE 1) <= faults + 1
        /\ faults \in Nat
    BY <1>2, FaultsFit DEF BudgetFits
  <2>2. Cardinality(Waiting)' + Len(sockets') + timers' + (IF tab' = "shown" THEN 0 ELSE 1) <= faults' + 1
    BY <1>1, <1>2, <2>1
  <2>3. timers' \in Nat /\ retryTimer' \in BOOLEAN /\ (retryTimer' => timers' > 0)
    <3>1. timers' \in Nat
      BY <1>2, <2>1
    <3>2. retryTimer' \in BOOLEAN /\ ~retryTimer'
      BY <1>2, Zenon
    <3> QED BY <3>1, <3>2
  <2> QED BY <1>1, <1>2, <2>1, <2>2, <2>3 DEF BudgetFits
<1> QED BY <1>2, <1>3, TimersKeep

LEMMA HideKeeps ==
  ASSUME FeedInvariant, Hide
  PROVE  FeedInvariant'
<1> USE InvariantParts
<1>1. /\ UNCHANGED <<world, screen>>
      /\ UNCHANGED <<sockets, socket, generation, buffering, buffer, resyncs>>
      /\ UNCHANGED <<tickets, retryTimer, timers, status>>
      /\ faults' = faults + 1 /\ faults < MaxFaults /\ tab = "shown" /\ tab' = "grace"
  BY DEF Hide
<1>2. BudgetFits'
  <2>1. faults \in Nat /\ faults' \in 0..MaxFaults /\ Waiting' = Waiting
    BY <1>1, FaultsFit DEF Waiting
  <2>2. Cardinality(Waiting) \in Nat
    BY FS_CardinalityType DEF BudgetFits
  <2> QED BY <1>1, <2>1, <2>2 DEF BudgetFits
<1> QED BY <1>1, <1>2, TimersKeep

LEMMA ShowKeeps ==
  ASSUME FeedInvariant, Show
  PROVE  FeedInvariant'
<1> USE InvariantParts
<1>1. /\ UNCHANGED <<world, screen>>
      /\ UNCHANGED <<sockets, socket, generation, buffering, buffer, resyncs, timers, faults>>
      /\ status' \in {status, "connecting", "reconnecting"}
      /\ tab # "shown" /\ tab' = "shown" /\ retryTimer' \in {retryTimer, FALSE}
  BY DEF Show, Connect
<1>2. /\ tickets' \in [0..MaxFaults -> Nat] /\ IsFiniteSet(Waiting)'
      /\ Cardinality(Waiting)' \in {Cardinality(Waiting), Cardinality(Waiting) + 1}
      /\ Cardinality(Waiting) \in Nat
  <2>1. CASE socket = None /\ ~retryTimer
    <3> PICK g : g = generation
      OBVIOUS
    <3> QED BY <2>1, GenerationFits, WaitingGrows DEF Show, Connect
  <2>2. CASE ~(socket = None /\ ~retryTimer)
    <3>1. tickets' = tickets /\ Waiting' = Waiting
      BY <2>2 DEF Show, Waiting
    <3> QED BY <3>1, FS_CardinalityType DEF BudgetFits
  <2> QED BY <2>1, <2>2
<1>3. BudgetFits'
  <2>1. /\ timers \in Nat /\ Len(sockets) \in Nat /\ Len(sockets') = Len(sockets)
        /\ Cardinality(Waiting) + Len(sockets) + timers + (IF tab = "shown" THEN 0 ELSE 1) <= faults + 1
        /\ faults \in Nat /\ generation \in Nat
        /\ generation + (IF tab = "grace" THEN 1 ELSE 0) <= faults
    BY <1>1, FaultsFit DEF BudgetFits
  <2>2. /\ Cardinality(Waiting)' + Len(sockets') + timers' + (IF tab' = "shown" THEN 0 ELSE 1) <= faults' + 1
        /\ generation' + (IF tab' = "grace" THEN 1 ELSE 0) <= faults'
    BY <1>1, <1>2, <2>1
  <2>3. timers' \in Nat /\ retryTimer' \in BOOLEAN /\ (retryTimer' => timers' > 0)
    <3>1. timers' = timers /\ timers \in Nat /\ retryTimer \in BOOLEAN /\ (retryTimer => timers > 0)
      BY <1>1 DEF BudgetFits
    <3>2. retryTimer' = retryTimer \/ retryTimer' = FALSE
      BY <1>1
    <3>3. CASE retryTimer' = retryTimer
      BY <3>1, <3>3
    <3>4. CASE retryTimer' = FALSE
      <4>1. retryTimer' \in BOOLEAN /\ ~retryTimer'
        BY <3>4, Zenon
      <4> QED BY <3>1, <4>1
    <3> QED BY <3>2, <3>3, <3>4
  <2> QED BY <1>1, <1>2, <2>1, <2>2, <2>3 DEF BudgetFits
<1> QED BY <1>1, <1>3, TimersKeep

-----------------------------------------------------------------------------
(* The actions of the socket that only the channel sees.                   *)

LEMMA SocketTypes ==
  ASSUME FeedInvariant
  PROVE  /\ Len(sockets) \in Nat /\ DOMAIN sockets = 1..Len(sockets) /\ Len(sockets) <= MaxSockets
         /\ Len(log) \in Nat /\ socket \in 0..Len(sockets) /\ generation \in Nat
         /\ MaxSockets \in Nat /\ MaxSockets = MaxFaults + 1
         /\ \A k \in 1..Len(sockets) :
              /\ sockets[k] \in SocketRecords
              /\ sockets[k].state \in {"opening", "open", "closed"}
              /\ sockets[k].mine \in 0..generation /\ sockets[k].got \in 0..Len(log)
<1> USE InvariantParts
<1>1. sockets \in Seq(SocketRecords) /\ Len(sockets) <= MaxSockets /\ socket \in 0..Len(sockets)
  BY DEF SocketsFit
<1>2. /\ Len(sockets) \in Nat /\ DOMAIN sockets = 1..Len(sockets)
      /\ \A k \in 1..Len(sockets) : sockets[k] \in SocketRecords
  BY <1>1
<1>3. generation \in Nat /\ MaxSockets \in Nat /\ MaxSockets = MaxFaults + 1
  BY FeedAssumption DEF BudgetFits, MaxSockets
<1> QED BY <1>1, <1>2, <1>3, LogTypes DEF SocketRecords

LEMMA OneWaitsLess ==
  ASSUME NEW c \in Nat, NEW d \in Nat, d = c - 1, NEW n \in Nat, NEW t \in Nat, NEW e \in Nat,
         NEW f \in Nat, c + n + t + e <= f + 1
  PROVE  d + n + t + e <= f + 1 /\ d + (n + 1) + t + e <= f + 1 /\ n <= f
OBVIOUS

LEMMA TicketArrivesKeeps ==
  ASSUME FeedInvariant, NEW g \in 0..MaxFaults, TicketArrives(g)
  PROVE  FeedInvariant'
<1> USE InvariantParts
<1>1. /\ tickets' \in [0..MaxFaults -> Nat] /\ IsFiniteSet(Waiting)'
      /\ Cardinality(Waiting)' = Cardinality(Waiting) - 1 /\ Cardinality(Waiting) \in Nat
      /\ Cardinality(Waiting)' \in Nat
  <2>1. /\ tickets' \in [0..MaxFaults -> Nat] /\ IsFiniteSet(Waiting)'
        /\ Cardinality(Waiting)' = Cardinality(Waiting) - 1 /\ Cardinality(Waiting) \in Nat
    BY WaitingShrinks DEF TicketArrives
  <2> PICK W : W = Waiting'
    OBVIOUS
  <2>2. IsFiniteSet(W) /\ Cardinality(W) = Cardinality(Waiting)'
    BY <2>1
  <2> QED BY <2>1, <2>2, FS_CardinalityType
<1>2. /\ UNCHANGED <<world, screen>>
      /\ UNCHANGED <<retryTimer, timers, tab, generation, buffering, buffer, status, resyncs, faults>>
  BY DEF TicketArrives
<1>3. CASE g # generation
  <2>1. UNCHANGED <<sockets, socket>>
    BY <1>3 DEF TicketArrives
  <2>2. BudgetFits'
    <3> PICK c, e, d : /\ c = Cardinality(Waiting) /\ d = Cardinality(Waiting)'
                       /\ e = IF tab = "shown" THEN 0 ELSE 1
      OBVIOUS
    <3>1. /\ timers \in Nat /\ faults \in Nat /\ Len(sockets) \in Nat /\ e \in Nat
          /\ c + Len(sockets) + timers + e <= faults + 1
      BY FaultsFit DEF BudgetFits
    <3>2. c \in Nat /\ d \in Nat /\ d = c - 1
      BY <1>1
    <3>3. d + Len(sockets) + timers + e <= faults + 1
      BY <3>1, <3>2, OneWaitsLess
    <3> QED BY <1>1, <1>2, <2>1, <3>3 DEF BudgetFits
  <2> QED BY <1>2, <2>1, <2>2, TimersKeep
<1>4. CASE g = generation
  <2> DEFINE new == [state |-> "opening", mine |-> g, got |-> 0, full |-> FALSE]
  <2>1. /\ sockets' = Append(sockets, new) /\ socket' = Len(sockets')
        /\ new.mine = generation /\ new.state = "opening" /\ new.got = 0
    BY <1>4 DEF TicketArrives
  <2>2. new \in SocketRecords
    BY <1>4, LogTypes, SocketTypes DEF SocketRecords
  <2> HIDE DEF new
  <2> PICK n : n = Len(sockets)
    OBVIOUS
  <2>3. /\ n \in Nat /\ DOMAIN sockets = 1..n /\ sockets \in Seq(SocketRecords)
        /\ Len(sockets') = n + 1 /\ DOMAIN sockets' = 1..(n + 1) /\ socket' = n + 1
        /\ sockets'[n + 1] = new /\ \A k \in 1..n : sockets'[k] = sockets[k]
        /\ sockets' \in Seq(SocketRecords)
    BY <2>1, <2>2, SocketTypes DEF SocketsFit
  <2>4. BudgetFits' /\ n + 1 <= MaxSockets
    <3> PICK c, e, d : /\ c = Cardinality(Waiting) /\ d = Cardinality(Waiting)'
                       /\ e = IF tab = "shown" THEN 0 ELSE 1
      OBVIOUS
    <3>1. /\ timers \in Nat /\ faults \in Nat /\ faults <= MaxFaults /\ MaxSockets = MaxFaults + 1
          /\ e \in Nat /\ c + n + timers + e <= faults + 1
      BY SocketTypes DEF BudgetFits
    <3>2. c \in Nat /\ d \in Nat /\ d = c - 1 /\ MaxFaults \in Nat
      BY <1>1, FeedAssumption
    <3>3. d + (n + 1) + timers + e <= faults + 1 /\ n + 1 <= MaxSockets
      <4>1. d + (n + 1) + timers + e <= faults + 1 /\ n <= faults
        <5> PICK t, f : t = timers /\ f = faults
          OBVIOUS
        <5>1. n \in Nat /\ t \in Nat /\ f \in Nat /\ e \in Nat /\ c + n + t + e <= f + 1
          BY <2>3, <3>1
        <5>2. d + (n + 1) + t + e <= f + 1 /\ n <= f
          BY <3>2, <5>1, OneWaitsLess
        <5> QED BY <5>2
      <4> QED BY <2>3, <3>1, <3>2, <4>1
    <3> QED BY <1>1, <1>2, <2>3, <3>3 DEF BudgetFits
  <2>5. SocketsFit'
    <3>1. SocketRecords' = SocketRecords /\ Len(log') = Len(log)
      BY <1>2 DEF SocketRecords, world
    <3>2. socket' # None /\ sockets'[socket'] = new
      BY <2>3 DEF None
    <3> QED BY <1>2, <2>1, <2>3, <2>4, <3>1, <3>2 DEF SocketsFit
  <2>6. LogFits' /\ ProviderFits' /\ DepositFits' /\ NoneTwice' /\ CancelsFit'
    <3>1. SocketsGoOn
      BY <2>3 DEF SocketsGoOn
    <3> QED BY <1>2, <3>1, ChannelKeeps
  <2>7. Following'
    <3> SUFFICES ASSUME Alone', ~sockets'[socket'].full PROVE Queued(Handed)' /\ Abreast(socket, Handed)'
      BY DEF Following
    <3>1. \A k \in 1..n : sockets[k].mine # generation
      <4> SUFFICES ASSUME NEW k \in 1..n PROVE sockets'[k].mine # generation'
        BY <1>2, <2>3
      <4>1. k \in DOMAIN sockets' /\ k # socket'
        BY <2>3
      <4> QED BY <4>1 DEF Alone
    <3>2. socket = None
      BY <2>3, <3>1 DEF SocketsFit, None
    <3>3. buffer' = <<>>
      BY <1>2, <3>2 DEF SocketsFit
    <3>4. Handed' = 0
      BY <2>1, <2>3, <3>3 DEF Handed
    <3>5. Queued(Handed)'
      BY <3>3, <3>4 DEF Queued
    <3>6. UNCHANGED <<loads, shown, view, cancels>>
      BY <1>2 DEF screen
    <3>7. n + 1 \in 1..MaxSockets /\ n + 1 \notin DOMAIN sockets
      BY <2>3, <2>4
    <3>8. loads[n + 1].phase = "none"
      BY <3>7 DEF ProviderFits
    <3>9. shown.base # n + 1
      BY <3>7, <3>8 DEF ProviderFits, None
    <3>10. Abreast(socket, Handed)'
      BY <2>3, <3>6, <3>8, <3>9 DEF Abreast
    <3> QED BY <3>5, <3>10
  <2> QED BY <2>4, <2>5, <2>6, <2>7 DEF FeedInvariant
<1> QED BY <1>3, <1>4

\* A step that leaves no socket in the variable leaves nothing to follow.
LEMMA ClosedKeeps ==
  ASSUME FeedInvariant, NEW S, Closed(S)
  PROVE  /\ DOMAIN sockets' = DOMAIN sockets /\ Len(sockets') = Len(sockets) /\ Len(sockets') \in Nat
         /\ sockets' \in Seq(SocketRecords) /\ SocketsGoOn
         /\ \A k \in DOMAIN sockets : sockets'[k].mine = sockets[k].mine
<1>1. /\ Len(sockets) \in Nat /\ DOMAIN sockets = 1..Len(sockets)
      /\ \A k \in 1..Len(sockets) : sockets[k] \in SocketRecords
  BY SocketTypes
<1> PICK n : n = Len(sockets)
  OBVIOUS
<1>2. sockets' = [k \in 1..n |-> IF k \in S THEN [sockets[k] EXCEPT !.state = "closed"] ELSE sockets[k]]
  BY <1>1 DEF Closed
<1>3. ASSUME NEW r \in SocketRecords, NEW m, m = [r EXCEPT !.state = "closed"]
      PROVE  m \in SocketRecords /\ m.mine = r.mine /\ m.state = "closed"
  BY <1>3 DEF SocketRecords
<1>4. ASSUME NEW k \in 1..n
      PROVE  /\ sockets'[k] \in SocketRecords /\ sockets'[k].mine = sockets[k].mine
             /\ sockets[k].state # "opening" => sockets'[k].state # "opening"
  <2>1. CASE k \in S
    <3>1. PICK m : m = [sockets[k] EXCEPT !.state = "closed"]
      OBVIOUS
    <3>2. m \in SocketRecords /\ m.mine = sockets[k].mine /\ m.state = "closed"
      BY <1>1, <1>3, <3>1
    <3>3. sockets'[k] = m
      BY <1>2, <2>1, <3>1
    <3> QED BY <3>2, <3>3
  <2>2. CASE k \notin S
    <3>1. sockets'[k] = sockets[k]
      BY <1>2, <2>2
    <3> QED BY <1>1, <3>1
  <2> QED BY <2>1, <2>2
<1>5. n \in Nat /\ sockets' \in [1..n -> SocketRecords]
  BY <1>1, <1>2, <1>4
<1>6. sockets' \in Seq(SocketRecords) /\ Len(sockets') = n /\ DOMAIN sockets' = 1..n
  <2>1. sockets' \in Seq(SocketRecords)
    BY <1>5, SeqDef
  <2>2. DOMAIN sockets' = 1..n
    BY <1>5
  <2> QED BY <1>5, <2>1, <2>2, LenProperties
<1> QED BY <1>1, <1>4, <1>6 DEF SocketsGoOn

LEMMA TeardownKeeps ==
  ASSUME FeedInvariant, NEW S, NEW again \in BOOLEAN, Teardown(S, again), UNCHANGED <<world, screen, resyncs>>,
         status' \in {"reconnecting", "disconnected"}
  PROVE  /\ LogFits' /\ ProviderFits' /\ DepositFits' /\ NoneTwice' /\ CancelsFit'
         /\ SocketsFit' /\ Following' /\ Len(sockets') = Len(sockets)
<1> USE InvariantParts
<1>1. /\ DOMAIN sockets' = DOMAIN sockets /\ Len(sockets') = Len(sockets) /\ Len(sockets') \in Nat
      /\ sockets' \in Seq(SocketRecords) /\ SocketsGoOn
      /\ \A k \in DOMAIN sockets : sockets'[k].mine = sockets[k].mine
  <2> PICK T : T = S \cup {socket}
    OBVIOUS
  <2>1. Closed(T)
    BY DEF Teardown, Closed
  <2> QED BY <2>1, ClosedKeeps
<1>2. LogFits' /\ ProviderFits' /\ DepositFits' /\ NoneTwice' /\ CancelsFit'
  BY <1>1, ChannelKeeps
<1>3. socket' = None /\ buffering' = FALSE /\ buffer' = <<>> /\ generation' = generation + 1
  BY DEF Teardown
<1>4. /\ Len(log') = Len(log) /\ Len(log) \in Nat /\ generation \in Nat
      /\ \A k \in DOMAIN sockets : sockets[k].mine \in 0..generation
      /\ Len(sockets) <= MaxSockets
  BY SocketTypes DEF world
<1>5. sockets' \in Seq(SocketRecords')
  <2>1. SocketRecords \subseteq SocketRecords'
    BY <1>3, <1>4 DEF SocketRecords
  <2> PICK A, B : A = SocketRecords /\ B = SocketRecords'
    OBVIOUS
  <2>2. Seq(A) \subseteq Seq(B)
    BY <2>1
  <2> QED BY <1>1, <2>2
<1>6. \A k \in DOMAIN sockets' : sockets'[k].mine # generation'
  BY <1>1, <1>3, <1>4
<1>7. SocketsFit'
  <2>1. buffer' \in Seq(1..Len(log'))
    BY <1>3
  <2>2. buffering' \in BOOLEAN /\ ~buffering'
    BY <1>3, Zenon
  <2>3. resyncs' \subseteq DOMAIN sockets'
    BY <1>1 DEF SocketsFit
  <2>4. socket' \in 0..Len(sockets')
    BY <1>1, <1>3 DEF None
  <2> QED BY <1>1, <1>3, <1>4, <1>5, <1>6, <2>1, <2>2, <2>3, <2>4 DEF SocketsFit
<1>8. Following'
  BY <1>3 DEF Following
<1> QED BY <1>1, <1>2, <1>7, <1>8

LEMMA GraceEndsKeeps ==
  ASSUME FeedInvariant, GraceEnds
  PROVE  FeedInvariant'
<1> USE InvariantParts
<1>1. /\ UNCHANGED <<world, tickets, resyncs, screen, faults>> /\ tab = "grace" /\ tab' = "hidden"
      /\ Teardown({}, FALSE) /\ status' = "disconnected"
  BY DEF GraceEnds
<1>2. /\ LogFits' /\ ProviderFits' /\ DepositFits' /\ NoneTwice' /\ CancelsFit'
      /\ SocketsFit' /\ Following' /\ Len(sockets') = Len(sockets)
  BY <1>1, TeardownKeeps
<1>3. generation' = generation + 1 /\ retryTimer' = FALSE
      /\ timers' = (IF retryTimer THEN timers - 1 ELSE timers) + 0
  BY <1>1 DEF Teardown
<1>4. BudgetFits'
  <2>1. Waiting' = Waiting /\ Cardinality(Waiting) \in Nat
    BY <1>1, FS_CardinalityType DEF BudgetFits, Waiting
  <2>2. timers' \in Nat /\ timers' <= timers
    <3>1. timers \in Nat /\ retryTimer \in BOOLEAN /\ (retryTimer => timers > 0)
      BY DEF BudgetFits
    <3>2. CASE retryTimer
      BY <1>3, <3>1, <3>2
    <3>3. CASE ~retryTimer
      BY <1>3, <3>1, <3>3
    <3> QED BY <3>2, <3>3
  <2>3. retryTimer' \in BOOLEAN /\ ~retryTimer'
    BY <1>3, Zenon
  <2>4. /\ Len(sockets) \in Nat /\ generation \in Nat /\ generation + 1 <= faults /\ faults \in Nat
        /\ Cardinality(Waiting) + Len(sockets) + timers + 1 <= faults + 1 /\ timers \in Nat
    BY <1>1, FaultsFit DEF BudgetFits
  <2>5. /\ Cardinality(Waiting) + Len(sockets) + timers' + 1 <= faults + 1
        /\ generation' \in Nat /\ generation' + 0 <= faults
    BY <1>3, <2>1, <2>2, <2>4
  <2> QED BY <1>1, <1>2, <2>1, <2>2, <2>3, <2>4, <2>5 DEF BudgetFits
<1> QED BY <1>2, <1>4 DEF FeedInvariant

LEMMA DropsKeeps ==
  ASSUME FeedInvariant, NEW k \in DOMAIN sockets, Drops(k)
  PROVE  FeedInvariant'
<1> USE InvariantParts
<1>1. UNCHANGED <<world, tickets, tab, resyncs, screen>> /\ faults' = faults + 1 /\ faults < MaxFaults
  BY DEF Drops
<1>2. /\ faults \in Nat /\ faults' \in faults..MaxFaults /\ Waiting' = Waiting
      /\ Cardinality(Waiting) \in Nat
  BY <1>1, FaultsFit, FS_CardinalityType DEF Waiting, BudgetFits
<1>3. CASE socket = None
  <2>1. Closed({k}) /\ UNCHANGED <<socket, generation, buffering, buffer, status, retryTimer, timers>>
    BY <1>3 DEF Drops
  <2>2. /\ DOMAIN sockets' = DOMAIN sockets /\ Len(sockets') = Len(sockets) /\ Len(sockets') \in Nat
        /\ sockets' \in Seq(SocketRecords) /\ SocketsGoOn
        /\ \A j \in DOMAIN sockets : sockets'[j].mine = sockets[j].mine
    <3> PICK T : T = {k}
      OBVIOUS
    <3> QED BY <2>1, ClosedKeeps
  <2>3. LogFits' /\ ProviderFits' /\ DepositFits' /\ NoneTwice' /\ CancelsFit'
    BY <1>1, <2>2, ChannelKeeps
  <2>4. BudgetFits'
    BY <1>1, <1>2, <2>1, <2>2, BudgetStays
  <2>5. SocketsFit'
    <3>1. SocketRecords' = SocketRecords /\ Len(log') = Len(log)
      BY <1>1, <2>1 DEF SocketRecords, world
    <3> QED BY <1>1, <1>3, <2>1, <2>2, <3>1 DEF SocketsFit
  <2>6. Following'
    BY <1>3, <2>1 DEF Following
  <2> QED BY <2>3, <2>4, <2>5, <2>6 DEF FeedInvariant
<1>4. CASE socket # None
  <2>1. Teardown({k}, TRUE) /\ status' = "reconnecting"
    BY <1>4 DEF Drops
  <2>2. /\ LogFits' /\ ProviderFits' /\ DepositFits' /\ NoneTwice' /\ CancelsFit'
        /\ SocketsFit' /\ Following' /\ Len(sockets') = Len(sockets)
    BY <1>1, <2>1, TeardownKeeps
  <2>3. BudgetFits'
    <3>1. /\ generation' = generation + 1 /\ retryTimer' = TRUE
          /\ timers' = (IF retryTimer THEN timers - 1 ELSE timers) + 1
      BY <2>1 DEF Teardown
    <3>2. timers' \in Nat /\ timers' <= timers + 1 /\ timers' > 0
      <4>1. timers \in Nat /\ retryTimer \in BOOLEAN /\ (retryTimer => timers > 0)
        BY DEF BudgetFits
      <4>2. CASE retryTimer
        BY <3>1, <4>1, <4>2
      <4>3. CASE ~retryTimer
        BY <3>1, <4>1, <4>3
      <4> QED BY <4>2, <4>3
    <3>3. retryTimer' \in BOOLEAN
      BY <3>1, Zenon
    <3>4. /\ Len(sockets) \in Nat /\ generation \in Nat /\ timers \in Nat
          /\ generation + (IF tab = "grace" THEN 1 ELSE 0) <= faults
          /\ Cardinality(Waiting) + Len(sockets) + timers + (IF tab = "shown" THEN 0 ELSE 1) <= faults + 1
      BY DEF BudgetFits
    <3>5. /\ Cardinality(Waiting) + Len(sockets) + timers' + (IF tab = "shown" THEN 0 ELSE 1) <= faults' + 1
          /\ generation' \in Nat /\ generation' + (IF tab = "grace" THEN 1 ELSE 0) <= faults'
      BY <1>1, <1>2, <3>1, <3>2, <3>4
    <3>6. faults' \in 0..MaxFaults
      BY <1>2
    <3>7. tickets \in [0..MaxFaults -> Nat] /\ IsFiniteSet(Waiting) /\ tab \in {"shown", "grace", "hidden"}
      BY DEF BudgetFits
    <3> QED BY <1>1, <1>2, <2>2, <3>2, <3>3, <3>4, <3>5, <3>6, <3>7 DEF BudgetFits
  <2> QED BY <2>2, <2>3 DEF FeedInvariant
<1> QED BY <1>3, <1>4

-----------------------------------------------------------------------------
(* A batch handed to the reducers.                                         *)

LEMMA BatchNumbers ==
  ASSUME FeedInvariant, NEW batch \in Seq(1..Len(log))
  PROVE  /\ Len(batch) \in Nat /\ DOMAIN batch = 1..Len(batch)
         /\ \A n \in 1..Len(batch) : batch[n] \in 1..Len(log) /\ batch[n] \in Replies
<1>1. /\ Len(batch) \in Nat /\ DOMAIN batch = 1..Len(batch)
      /\ \A n \in 1..Len(batch) : batch[n] \in 1..Len(log)
  OBVIOUS
<1> QED BY <1>1, LogTypes, InvariantParts DEF Replies

LEMMA AppliedIs ==
  ASSUME FeedInvariant, NEW batch \in Seq(1..Len(log)), shown' = Applied(batch)
  PROVE  /\ shown' \in [status : {"loading", "ready", "error"}, value : Held, base : 0..MaxSockets]
         /\ shown'.status = shown.status /\ shown'.base = shown.base
         /\ shown.status = "ready" => shown'.value = FoldLeft(Reduce, shown.value, batch)
<1> USE InvariantParts
<1>1. /\ shown \in [status : {"loading", "ready", "error"}, value : Held, base : 0..MaxSockets]
      /\ shown.value \in Held /\ (shown.status = "ready" => mounted)
  BY DEF ProviderFits
<1> PICK w : w = FoldLeft(Reduce, shown.value, batch)
  OBVIOUS
<1>2. w \in Held
  BY <1>1, FoldHolds
<1>3. CASE shown.status = "ready"
  <2>1. shown' = [shown EXCEPT !.value = w]
    BY <1>1, <1>3 DEF Applied
  <2> PICK st, b : st = shown.status /\ b = shown.base
    OBVIOUS
  <2>2. shown' = [status |-> st, value |-> w, base |-> b]
    BY <1>1, <2>1
  <2> QED BY <1>1, <1>2, <2>2
<1>4. CASE shown.status # "ready"
  <2>1. shown' = shown
    BY <1>4 DEF Applied
  <2> QED BY <1>1, <1>4, <2>1
<1> QED BY <1>3, <1>4

\* The order of a reply that ends it has ended.
LEMMA EndedIsOver ==
  ASSUME FeedInvariant, NEW batch \in Seq(1..Len(log)), NEW o \in Orders, Ended(o, batch)
  PROVE  Over(o)
<1> USE InvariantParts
<1>1. PICK n \in DOMAIN batch : log[batch[n]].order = o /\ log[batch[n]].status \notin Resting
  BY DEF Ended
<1> PICK i : i = batch[n]
  OBVIOUS
<1> PICK p : p = i - 1
  OBVIOUS
<1>2. i \in 1..Len(log) /\ Len(log) \in Nat
  BY BatchNumbers, LogTypes
<1>3. p \in 0..(Len(log) - 1) /\ p + 1 = i /\ i \in 0..Len(log) /\ i <= Len(log) /\ Len(log) \in 0..Len(log)
  BY <1>2
<1>4. Follows(StatusAfter(p, o), log[i].status) /\ StatusAfter(i, o) = log[i].status
  BY <1>1, <1>3, LifeFacts
<1>5. StatusAfter(i, o) \in {"filled", "cancelled"}
  BY <1>1, <1>4 DEF Follows, Resting
<1>6. StatusAfter(Len(log), o) = StatusAfter(i, o)
  BY <1>3, <1>5, EndStays
<1> QED BY <1>5, <1>6 DEF Over

LEMMA WatchIs ==
  ASSUME FeedInvariant, NEW batch \in Seq(1..Len(log)), Watch(batch)
  PROVE  /\ cancels' \in [Orders -> CancelRecords]
         /\ \A o \in Orders :
              /\ cancels'[o].stage = cancels[o].stage /\ cancels'[o].removed = cancels[o].removed
              /\ cancels'[o].base = cancels[o].base
              /\ cancels'[o].finished => cancels[o].finished \/ Over(o)
              /\ ~cancels'[o].finished => ~cancels[o].finished
              /\ ~cancels'[o].finished /\ cancels[o].stage # "none" /\ shown.status = "ready" => ~Ended(o, batch)
<1> USE InvariantParts
<1>1. cancels \in [Orders -> CancelRecords] /\ \A o \in Orders : cancels[o] \in CancelRecords
  BY DEF CancelsFit
<1>2. ASSUME NEW r \in CancelRecords, NEW m, m = [r EXCEPT !.finished = TRUE]
      PROVE  /\ m \in CancelRecords /\ m.stage = r.stage /\ m.removed = r.removed /\ m.base = r.base
             /\ m.finished
  BY <1>2 DEF CancelRecords
<1>3. ASSUME NEW o \in Orders
      PROVE  /\ cancels'[o] \in CancelRecords
             /\ cancels'[o].stage = cancels[o].stage /\ cancels'[o].removed = cancels[o].removed
             /\ cancels'[o].base = cancels[o].base
             /\ cancels'[o].finished => cancels[o].finished \/ Over(o)
             /\ ~cancels'[o].finished => ~cancels[o].finished
             /\ ~cancels'[o].finished /\ cancels[o].stage # "none" /\ shown.status = "ready" => ~Ended(o, batch)
  <2>1. CASE shown.status = "ready" /\ cancels[o].stage # "none" /\ Ended(o, batch)
    <3>1. PICK m : m = [cancels[o] EXCEPT !.finished = TRUE]
      OBVIOUS
    <3>2. cancels'[o] = m
      BY <2>1, <3>1 DEF Watch
    <3>3. /\ m \in CancelRecords /\ m.stage = cancels[o].stage /\ m.removed = cancels[o].removed
          /\ m.base = cancels[o].base /\ m.finished
      BY <1>1, <1>2, <3>1
    <3>4. Over(o)
      BY <2>1, EndedIsOver
    <3> QED BY <3>2, <3>3, <3>4
  <2>2. CASE ~(shown.status = "ready" /\ cancels[o].stage # "none" /\ Ended(o, batch))
    <3>1. cancels'[o] = cancels[o]
      BY <2>2 DEF Watch
    <3> QED BY <1>1, <2>2, <3>1
  <2> QED BY <2>1, <2>2
<1>4. cancels' = [o \in Orders |-> cancels'[o]]
  BY DEF Watch
<1>5. cancels' \in [Orders -> CancelRecords]
  BY <1>3, <1>4
<1> QED BY <1>3, <1>5

LEMMA DispatchKeeps ==
  ASSUME FeedInvariant, NEW batch \in Seq(1..Len(log)), Dispatch(batch), SocketsGoOn,
         UNCHANGED <<log, view, mounted, current, loads, deposit>>
  PROVE  ProviderFits' /\ DepositFits' /\ NoneTwice' /\ CancelsFit'
<1> USE InvariantParts
<1>1. shown' = Applied(batch) /\ Watch(batch) /\ Announce(batch)
  BY DEF Dispatch
<1>2. /\ shown' \in [status : {"loading", "ready", "error"}, value : Held, base : 0..MaxSockets]
      /\ shown'.status = shown.status /\ shown'.base = shown.base
  BY <1>1, AppliedIs
<1>3. LogMoves
  BY DEF LogMoves
<1>4. ProviderFits'
  <2>1. Held' = Held
    BY DEF Held, PartFilled
  <2>2. LoadRecords' = LoadRecords
    BY <2>1 DEF LoadRecords
  <2> QED BY <1>2, <2>1, <2>2 DEF ProviderFits, SocketsGoOn
<1>5. DepositFits'
  BY <1>3, DepositStays
<1>6. NoneTwice'
  <2>1. \A i \in Replies : announced[i] \in {0, 1}
    BY DEF NoneTwice
  <2>2. \A i \in Replies : announced'[i] \in {0, 1}
    BY <1>1, <2>1 DEF Announce
  <2>3. announced' = [i \in Replies |-> announced'[i]]
    BY <1>1 DEF Announce
  <2> QED BY <2>2, <2>3 DEF NoneTwice
<1>7. CancelsFit'
  <2>1. \A o \in Orders : (Over(o)' <=> Over(o)) /\ (PartFilled(o)' <=> PartFilled(o))
    BY DEF Over, StatusAfter, About, PartFilled
  <2>2. /\ cancels' \in [Orders -> CancelRecords]
        /\ \A o \in Orders :
              /\ cancels'[o].stage = cancels[o].stage /\ cancels'[o].removed = cancels[o].removed
              /\ cancels'[o].base = cancels[o].base
              /\ cancels'[o].finished => cancels[o].finished \/ Over(o)
    BY <1>1, WatchIs
  <2> QED BY <2>1, <2>2 DEF CancelsFit
<1> QED BY <1>4, <1>5, <1>6, <1>7

LEMMA DispatchFollows ==
  ASSUME FeedInvariant, NEW batch \in Seq(1..Len(log)), Dispatch(batch),
         UNCHANGED <<log, view, loads>>,
         NEW p \in Nat, \A j \in 1..Len(batch) : batch[j] = p + j,
         NEW s, s # None, loads[s].phase \notin {"asked", "read"}, Abreast(s, p)
  PROVE  Abreast(s, p + Len(batch))'
<1> USE InvariantParts
<1>1. /\ Len(batch) \in Nat /\ DOMAIN batch = 1..Len(batch) /\ Len(log) \in Nat
      /\ \A n \in 1..Len(batch) : batch[n] \in 1..Len(log)
  BY BatchNumbers, LogTypes
<1> PICK q, b : q = p + Len(batch) /\ b = Len(batch)
  OBVIOUS
<1>2. /\ q \in Nat /\ b \in Nat /\ p <= q
      /\ \A m \in p..Len(log) : m \in q..Len(log) \/ (m < q /\ q <= Len(log))
  <2>1. q \in Nat /\ b \in Nat /\ p <= q /\ q = p + b
    BY <1>1
  <2>2. b > 0 => q <= Len(log)
    <3> SUFFICES ASSUME b > 0 PROVE q <= Len(log)
      OBVIOUS
    <3>1. b \in 1..Len(batch) /\ batch[b] = p + b
      BY <1>1
    <3>2. p + b \in 1..Len(log)
      BY <1>1, <3>1
    <3> QED BY <1>1, <2>1, <3>2
  <2> QED BY <1>1, <2>1, <2>2
<1>3. /\ shown'.status = shown.status /\ shown'.base = shown.base
      /\ shown.status = "ready" => shown'.value = FoldLeft(Reduce, shown.value, batch)
  BY AppliedIs DEF Dispatch
<1>4. \A o \in Orders :
        /\ cancels'[o].stage = cancels[o].stage /\ cancels'[o].base = cancels[o].base
        /\ ~cancels'[o].finished => ~cancels[o].finished
        /\ ~cancels'[o].finished /\ cancels[o].stage # "none" /\ shown.status = "ready" => ~Ended(o, batch)
  BY WatchIs DEF Dispatch
<1>5. InFlight' = InFlight /\ InFlight \subseteq Orders
  BY <1>4 DEF InFlight
<1>6. shown.base = s => shown.status = "ready"
  BY DEF ProviderFits
<1>7. ASSUME shown.base = s PROVE Since(shown.value, q, InFlight)'
  <2> PICK v, w, C : v = shown.value /\ w = FoldLeft(Reduce, v, batch) /\ C = InFlight
    OBVIOUS
  <2>1. v \in Held
    BY DEF ProviderFits
  <2>2. Since(v, p, C)
    BY <1>7 DEF Abreast
  <2>3. Since(w, q, C)
    BY <2>1, <2>2, FoldFollows
  <2>4. w = shown'.value /\ C = InFlight'
    BY <1>3, <1>5, <1>6, <1>7
  <2>5. Since(w, q, C)' <=> Since(w, q, C)
    BY DEF Since, Live, StatusAfter, About
  <2>6. Since(shown.value, q, InFlight)' <=> Since(w, q, C)'
    BY <2>4 DEF Since
  <2> QED BY <2>3, <2>5, <2>6
<1>8. ASSUME NEW o \in InFlight, shown.base = s, cancels[o].base = s, ~cancels'[o].finished
      PROVE  (\E m \in q..Len(log) : Live(m, o))'
  <2>1. o \in Orders /\ cancels[o].stage # "none" /\ ~cancels[o].finished /\ ~Ended(o, batch)
    BY <1>4, <1>6, <1>8 DEF InFlight
  <2>2. PICK m \in p..Len(log) : Live(m, o)
    BY <1>8, <2>1 DEF Abreast
  <2>3. \E n \in q..Len(log) : Live(n, o)
    <3>1. CASE m \in q..Len(log)
      BY <2>2, <3>1
    <3>2. CASE m < q /\ q <= Len(log)
      <4>1. m \in 0..Len(log) /\ q \in 0..Len(log) /\ m <= q /\ q \in q..Len(log)
        BY <1>1, <1>2, <3>2
      <4>2. ASSUME NEW i \in (m + 1)..q, log[i].order = o PROVE log[i].status \in Resting
        <5> PICK j : j = i - p
          OBVIOUS
        <5>1. j \in 1..Len(batch) /\ i = p + j
          BY <1>1, <2>2
        <5>2. batch[j] = i
          BY <5>1
        <5> QED BY <1>1, <2>1, <4>2, <5>1, <5>2 DEF Ended
      <4>3. Live(q, o)
        BY <2>1, <2>2, <4>1, <4>2, RestsOn
      <4> QED BY <4>1, <4>3
    <3> QED BY <1>2, <2>2, <3>1, <3>2
  <2>4. \A n : Live(n, o)' <=> Live(n, o)
    BY DEF Live, StatusAfter, About
  <2> QED BY <2>3, <2>4
<1>9. Abreast(s, q)'
  BY <1>3, <1>4, <1>5, <1>7, <1>8 DEF Abreast
<1> QED BY <1>9

-----------------------------------------------------------------------------
(* The actions of the socket that reach the screen.                        *)

\* What a step of one socket leaves of the sockets.
LEMMA OneSocketMoves ==
  ASSUME FeedInvariant, NEW k \in DOMAIN sockets, NEW r \in SocketRecords,
         r.mine = sockets[k].mine, r.state = "open", sockets' = [sockets EXCEPT ![k] = r]
  PROVE  /\ DOMAIN sockets' = DOMAIN sockets /\ Len(sockets') = Len(sockets) /\ SocketsGoOn
         /\ sockets' \in Seq(SocketRecords)
         /\ \A j \in DOMAIN sockets : sockets'[j].mine = sockets[j].mine
         /\ \A j \in DOMAIN sockets : j # k => sockets'[j] = sockets[j]
         /\ sockets'[k] = r
<1> USE InvariantParts
<1>1. sockets[k] \in SocketRecords /\ sockets \in Seq(SocketRecords) /\ k \in 1..Len(sockets)
  BY SocketTypes DEF SocketsFit
<1>3. /\ sockets' \in Seq(SocketRecords) /\ Len(sockets') = Len(sockets)
      /\ \A j \in 1..Len(sockets) : sockets'[j] = IF j = k THEN r ELSE sockets[j]
  <2> PICK q, n : q = sockets /\ n = Len(sockets)
    OBVIOUS
  <2>1. q \in Seq(SocketRecords) /\ k \in 1..Len(q) /\ sockets' = [q EXCEPT ![k] = r]
    BY <1>1
  <2>2. /\ [q EXCEPT ![k] = r] \in Seq(SocketRecords) /\ Len([q EXCEPT ![k] = r]) = Len(q)
        /\ \A j \in 1 .. Len(q) : [q EXCEPT ![k] = r][j] = IF j = k THEN r ELSE q[j]
    BY <2>1, ExceptSeq
  <2> QED BY <2>1, <2>2
<1>4. DOMAIN sockets = 1..Len(sockets) /\ DOMAIN sockets' = 1..Len(sockets')
  BY <1>1, <1>3
<1> QED BY <1>1, <1>3, <1>4 DEF SocketsGoOn

\* What a step that moves one socket, and perhaps what has been published, leaves.
LEMMA SocketMoves ==
  ASSUME FeedInvariant, UNCHANGED <<log, written, tickets, retryTimer, timers, tab, generation, socket, faults, view>>,
         published' \in 0..Len(log), Len(sockets') = Len(sockets)
  PROVE  LogFits' /\ BudgetFits'
<1> USE InvariantParts
<1>1. LogMoves
  BY DEF LogMoves
<1>2. written' \in 0..Len(log')
  BY DEF LogFits
<1>3. LogFits'
  BY <1>1, <1>2, LogStays
<1>4. BudgetFits'
  BY FaultsFit, BudgetStays
<1> QED BY <1>3, <1>4

LEMMA NothingIsHeld ==
  ASSUME LogFits
  PROVE  Nothing \in Held
<1>1. Len(log) \in Nat
  BY LogTypes
<1>2. CASE view = "orders"
  <2>1. Nothing \in Rows /\ \A o \in Orders : Nothing[o] = "absent"
    BY <1>2 DEF Nothing, Rows
  <2> QED BY <1>2, <2>1 DEF Held
<1>3. CASE view # "orders"
  BY <1>1, <1>3 DEF Nothing, Held
<1> QED BY <1>2, <1>3

LEMMA LoadAsked ==
  ASSUME NEW c, NEW v, v = Nothing
  PROVE  [NoLoad EXCEPT !.phase = "asked", !.mine = c] = [phase |-> "asked", value |-> v, base |-> None, mine |-> c]
<1> PICK m : m = [NoLoad EXCEPT !.phase = "asked", !.mine = c]
  OBVIOUS
<1>1. m = [phase |-> "asked", value |-> v, base |-> None, mine |-> c]
  BY DEF NoLoad
<1> QED BY <1>1

\* What load, as call k, makes of the provider.
LEMMA LoadIs ==
  ASSUME FeedInvariant, NEW k \in Calls, Load(k), UNCHANGED <<log, view>>
  PROVE  /\ current' \in Nat /\ loads' \in [Calls -> LoadRecords]
         /\ \A c \in Calls : c # k => loads'[c] = loads[c]
         /\ loads'[k].phase = "asked" /\ loads'[k].base = None
         /\ shown' = IF shown.status = "ready" THEN shown ELSE Empty
         /\ shown' \in [status : {"loading", "ready", "error"}, value : Held, base : 0..MaxSockets]
<1> USE InvariantParts
<1>1. current \in Nat /\ loads \in [Calls -> LoadRecords] /\ current' = current + 1
  BY DEF ProviderFits, Load
<1>2. 0 \in 0..MaxSockets /\ Nothing \in Held /\ None = 0
  BY SocketTypes, NothingIsHeld DEF None
<1> PICK c, v : c = current + 1 /\ v = Nothing
  OBVIOUS
<1> PICK r : r = [phase |-> "asked", value |-> v, base |-> None, mine |-> c]
  OBVIOUS
<1>3. r = [NoLoad EXCEPT !.phase = "asked", !.mine = c]
  BY LoadAsked
<1>4. r \in LoadRecords /\ r.phase = "asked" /\ r.base = None
  <2>1. c \in Nat /\ v \in Held /\ None \in 0..MaxSockets
    BY <1>1, <1>2
  <2>2. r.phase = "asked" /\ r.base = None
    OBVIOUS
  <2> QED BY <2>1, <2>2 DEF LoadRecords
<1>5. loads' = [loads EXCEPT ![k] = r]
  BY <1>1, <1>3 DEF Load
<1>6. Empty \in [status : {"loading", "ready", "error"}, value : Held, base : 0..MaxSockets]
  BY <1>2 DEF Empty
<1>7. /\ shown' = IF shown.status = "ready" THEN shown ELSE Empty
      /\ shown \in [status : {"loading", "ready", "error"}, value : Held, base : 0..MaxSockets]
  BY DEF Load, ProviderFits
<1>8. shown' \in [status : {"loading", "ready", "error"}, value : Held, base : 0..MaxSockets]
  BY <1>6, <1>7
<1> QED BY <1>1, <1>4, <1>5, <1>7, <1>8

\* A load asked for when the one before it, if any, has no place on screen.
LEMMA LoadKeeps ==
  ASSUME FeedInvariant, NEW k \in Calls, Load(k), UNCHANGED <<log, view, cancels, deposit, announced>>,
         mounted', mounted' \in BOOLEAN, SocketsGoOn,
         k \in 1..MaxSockets => k \in DOMAIN sockets /\ sockets'[k].state # "opening" /\ loads[k].phase # "done"
  PROVE  ProviderFits' /\ DepositFits' /\ NoneTwice' /\ CancelsFit'
<1> USE InvariantParts
<1>1. /\ current' \in Nat /\ loads' \in [Calls -> LoadRecords]
      /\ \A c \in Calls : c # k => loads'[c] = loads[c]
      /\ loads'[k].phase = "asked" /\ loads'[k].base = None
      /\ shown' = IF shown.status = "ready" THEN shown ELSE Empty
      /\ shown' \in [status : {"loading", "ready", "error"}, value : Held, base : 0..MaxSockets]
  BY LoadIs
<1>2. Held' = Held /\ LoadRecords' = LoadRecords
  <2>1. Held' = Held
    BY DEF Held, PartFilled
  <2> QED BY <2>1 DEF LoadRecords
<1>3. LogMoves
  BY DEF LogMoves
<1>4. \A c \in 0..MaxSockets : c \in Calls /\ (c # None => c \in 1..MaxSockets)
  BY SocketTypes DEF Calls, None
<1>5. ProviderFits'
  <2>1. \A c \in 1..MaxSockets :
          loads'[c].phase # "none" => c \in DOMAIN sockets' /\ sockets'[c].state # "opening"
    <3> SUFFICES ASSUME NEW c \in 1..MaxSockets, loads'[c].phase # "none"
                 PROVE  c \in DOMAIN sockets' /\ sockets'[c].state # "opening"
      OBVIOUS
    <3>1. CASE c = k
      BY <3>1 DEF SocketsGoOn
    <3>2. CASE c # k
      <4>1. c \in Calls
        BY <1>4
      <4>2. loads[c].phase # "none"
        BY <1>1, <3>2, <4>1
      <4> QED BY <4>2 DEF ProviderFits, SocketsGoOn
    <3> QED BY <3>1, <3>2
  <2>2. shown'.status # "loading" => mounted'
    OBVIOUS
  <2>3. shown'.base # None => shown'.status = "ready" /\ loads'[shown'.base].phase = "done"
    <3> SUFFICES ASSUME shown'.base # None
                 PROVE  shown'.status = "ready" /\ loads'[shown'.base].phase = "done"
      OBVIOUS
    <3>1. shown' = shown /\ shown.status = "ready"
      BY <1>1 DEF Empty
    <3>2. loads[shown.base].phase = "done" /\ shown.base \in 0..MaxSockets
      BY <3>1 DEF ProviderFits
    <3>3. shown.base \in 1..MaxSockets /\ shown.base \in Calls
      BY <1>4, <3>1, <3>2
    <3>4. shown.base # k
      BY <3>2, <3>3
    <3> QED BY <1>1, <3>1, <3>2, <3>3, <3>4
  <2>4. \A c \in Calls : loads'[c].phase # "none" => mounted'
    OBVIOUS
  <2>5. \A c \in Calls : loads'[c].base # None => loads'[c].base = c
    BY <1>1 DEF ProviderFits
  <2>6. view' \in Views
    BY DEF ProviderFits
  <2> QED BY <1>1, <1>2, <2>1, <2>2, <2>3, <2>4, <2>5, <2>6 DEF ProviderFits
<1>6. DepositFits'
  BY <1>3, DepositStays
<1>7. NoneTwice'
  BY DEF NoneTwice
<1>8. CancelsFit'
  <2>1. \A o \in Orders : (Over(o)' <=> Over(o)) /\ (PartFilled(o)' <=> PartFilled(o))
    BY DEF Over, StatusAfter, About, PartFilled
  <2>2. ASSUME NEW o \in Orders, cancels[o].base # None PROVE loads'[cancels[o].base].phase = "done"
    <3>1. cancels[o].base \in 0..MaxSockets /\ loads[cancels[o].base].phase = "done"
      BY <2>2 DEF CancelsFit, CancelRecords
    <3>2. cancels[o].base \in 1..MaxSockets /\ cancels[o].base \in Calls
      BY <1>4, <2>2, <3>1
    <3>3. cancels[o].base # k
      BY <3>1, <3>2
    <3> QED BY <1>1, <3>1, <3>2, <3>3
  <2> QED BY <2>1, <2>2 DEF CancelsFit
<1> QED BY <1>5, <1>6, <1>7, <1>8

LEMMA OnOpenKeeps ==
  ASSUME FeedInvariant, NEW k \in DOMAIN sockets, OnOpen(k)
  PROVE  FeedInvariant'
<1> USE InvariantParts
<1>1. /\ sockets[k].state = "opening" /\ published' \in published..Len(log)
      /\ UNCHANGED <<log, written, socket, tickets, retryTimer, timers, tab, generation, view,
                     mounted, cancels, deposit, announced, faults>>
  BY DEF OnOpen, Subscribes
<1>2. published' \in 0..Len(log)
  BY <1>1, LogTypes DEF LogFits
<1>3. /\ DOMAIN sockets' = DOMAIN sockets /\ Len(sockets') = Len(sockets) /\ SocketsGoOn
      /\ sockets' \in Seq(SocketRecords)
      /\ \A j \in DOMAIN sockets : sockets'[j].mine = sockets[j].mine
      /\ \A j \in DOMAIN sockets : j # k => sockets'[j] = sockets[j]
      /\ sockets'[k].state = "open" /\ sockets'[k].got = published'
  <2> PICK got, q : got = published' /\ q = sockets[k]
    OBVIOUS
  <2> PICK r : r = [q EXCEPT !.state = "open", !.got = got]
    OBVIOUS
  <2>1. sockets' = [sockets EXCEPT ![k] = r]
    BY DEF OnOpen, Subscribes
  <2>2. r \in SocketRecords /\ r.mine = sockets[k].mine /\ r.state = "open" /\ r.got = got
    <3>1. q \in SocketRecords
      BY SocketTypes
    <3>2. r = [state |-> "open", mine |-> q.mine, got |-> got, full |-> q.full]
      BY <3>1 DEF SocketRecords
    <3> QED BY <1>2, <3>1, <3>2 DEF SocketRecords
  <2> QED BY <2>1, <2>2, OneSocketMoves
<1>4. LogFits' /\ BudgetFits'
  BY <1>1, <1>2, <1>3, SocketMoves
<1>5. /\ SocketRecords' = SocketRecords /\ Len(log') = Len(log) /\ Len(log) \in Nat
      /\ k \in 1..MaxSockets /\ k # None /\ k \in Calls
  <2>1. SocketRecords' = SocketRecords
    BY <1>1 DEF SocketRecords
  <2> QED BY <1>1, <2>1, SocketTypes DEF None, Calls
<1>6. loads[k].phase = "none"
  BY <1>1, <1>5 DEF ProviderFits
<1>7. LogMoves /\ SameCancels
  BY <1>1, CancelsAreSame DEF LogMoves
<1>8. CASE sockets[k].mine # generation
  <2>1. UNCHANGED <<buffering, buffer, status, resyncs, loads, current, shown>>
    BY <1>8 DEF OnOpen
  <2>2. k # socket \/ socket = None
    BY <1>8 DEF SocketsFit
  <2>3. SameChannel
    BY <1>1, <1>3, <2>1, <2>2, SocketTypes DEF SameChannel, None
  <2>4. SocketsFit'
    <3>1. socket # None => sockets'[socket] = sockets[socket]
      BY <1>3, <2>2, SocketTypes DEF None
    <3> QED BY <1>1, <1>3, <1>5, <2>1, <3>1 DEF SocketsFit
  <2>5. ProviderFits'
    BY <1>1, <1>3, <1>7, <2>1, ProviderStays
  <2>6. DepositFits' /\ NoneTwice'
    BY <1>1, <1>7, DepositStays DEF NoneTwice
  <2>7. CancelsFit'
    BY <1>1, <1>7, <2>1, CancelsStay
  <2>8. Following'
    BY <1>1, <1>7, <2>1, <2>3, FollowingStays
  <2> QED BY <1>4, <2>4, <2>5, <2>6, <2>7, <2>8 DEF FeedInvariant
<1>9. CASE sockets[k].mine = generation
  <2>1. /\ buffering' = TRUE /\ buffer' = <<>> /\ status' = "syncing" /\ resyncs' = resyncs \cup {k}
        /\ IF mounted THEN Load(k) ELSE UNCHANGED <<loads, current, shown>>
    BY <1>9 DEF OnOpen, Keep
  <2>2. SocketsFit'
    <3>1. buffering' \in BOOLEAN /\ buffering'
      BY <2>1, Zenon
    <3>2. buffer' \in Seq(1..Len(log'))
      BY <2>1
    <3>3. socket # None /\ socket \in DOMAIN sockets /\ socket \in 1..Len(sockets)
      BY <1>9, SocketTypes DEF SocketsFit, None
    <3>4. sockets'[socket].mine = generation' /\ sockets'[socket].state # "closed"
      BY <1>1, <1>3, <1>9, <3>3 DEF SocketsFit
    <3>5. resyncs' \subseteq DOMAIN sockets'
      BY <1>3, <2>1 DEF SocketsFit
    <3> QED BY <1>1, <1>3, <1>5, <2>1, <3>1, <3>2, <3>3, <3>4, <3>5 DEF SocketsFit
  <2>3. ProviderFits' /\ DepositFits' /\ NoneTwice' /\ CancelsFit'
    <3>1. CASE mounted
      <4>1. Load(k) /\ mounted' /\ mounted' \in BOOLEAN
        BY <1>1, <2>1, <3>1 DEF ProviderFits
      <4>2. k \in DOMAIN sockets /\ sockets'[k].state # "opening" /\ loads[k].phase # "done"
        BY <1>3, <1>6
      <4> QED BY <1>1, <1>3, <1>5, <4>1, <4>2, LoadKeeps
    <3>2. CASE ~mounted
      <4>1. UNCHANGED <<loads, current, shown>>
        BY <2>1, <3>2
      <4>2. ProviderFits'
        BY <1>1, <1>3, <1>7, <4>1, ProviderStays
      <4>3. DepositFits' /\ NoneTwice'
        BY <1>1, <1>7, DepositStays DEF NoneTwice
      <4>4. CancelsFit'
        BY <1>1, <1>7, <4>1, CancelsStay
      <4> QED BY <4>2, <4>3, <4>4
    <3> QED BY <3>1, <3>2
  <2>4. Following'
    <3> SUFFICES ASSUME Alone', ~sockets'[socket'].full PROVE Queued(Handed)' /\ Abreast(socket, Handed)'
      BY DEF Following
    <3>1. k = socket'
      BY <1>1, <1>3, <1>9 DEF Alone
    <3> PICK h : h = Handed'
      OBVIOUS
    <3>2. h \in Nat
      BY <1>2, <1>3, <2>1, <3>1 DEF Handed
    <3>3. Queued(Handed)'
      BY <2>1, <3>2 DEF Queued
    <3>4. loads'[k].phase # "read" /\ shown'.base # k
      <4>1. shown.base # k
        BY <1>5, <1>6 DEF ProviderFits
      <4>2. CASE mounted
        <5>1. Load(k)
          BY <2>1, <4>2
        <5>2. loads'[k].phase = "asked" /\ shown' = IF shown.status = "ready" THEN shown ELSE Empty
          BY <1>1, <1>5, <5>1, LoadIs
        <5> QED BY <1>5, <4>1, <5>2 DEF Empty
      <4>3. CASE ~mounted
        BY <1>6, <2>1, <4>1, <4>3
      <4> QED BY <4>2, <4>3
    <3>5. Abreast(socket, Handed)'
      BY <2>1, <3>1, <3>4 DEF Abreast
    <3> QED BY <3>3, <3>5
  <2> QED BY <1>4, <2>2, <2>3, <2>4 DEF FeedInvariant
<1> QED BY <1>8, <1>9

LEMMA MaxOfTwo ==
  ASSUME NEW a \in Nat, NEW b \in Nat
  PROVE  Max({a, b}) \in {a, b}
<1>1. \E x \in {a, b} : \A y \in {a, b} : x >= y
  <2>1. CASE a >= b
    BY <2>1
  <2>2. CASE ~(a >= b)
    BY <2>2
  <2> QED BY <2>1, <2>2
<1> QED BY <1>1 DEF Max

LEMMA OnMessageKeeps ==
  ASSUME FeedInvariant, NEW k \in DOMAIN sockets, OnMessage(k)
  PROVE  FeedInvariant'
<1> USE InvariantParts
<1> PICK i : i = sockets[k].got + 1
  OBVIOUS
<1>1. /\ sockets[k].state = "open" /\ sockets[k].got < Len(log)
      /\ UNCHANGED <<log, written, socket, tickets, retryTimer, timers, tab, generation, buffering,
                     status, resyncs, view, mounted, loads, current, deposit, faults>>
      /\ published' = Max({published, i})
  BY DEF OnMessage
<1>2. /\ i \in 1..Len(log) /\ Len(log) \in Nat /\ i \in Nat /\ sockets[k].got \in 0..Len(log)
      /\ sockets[k].got = i - 1 /\ k \in 1..Len(sockets)
  BY <1>1, SocketTypes
<1>3. published' \in 0..Len(log)
  <2>1. published \in 0..Len(log) /\ published \in Nat /\ i \in 0..Len(log)
    BY <1>2 DEF LogFits
  <2>2. Max({published, i}) \in {published, i}
    BY <1>2, <2>1, MaxOfTwo
  <2> QED BY <1>1, <2>1, <2>2
<1>4. /\ DOMAIN sockets' = DOMAIN sockets /\ Len(sockets') = Len(sockets) /\ SocketsGoOn
      /\ sockets' \in Seq(SocketRecords)
      /\ \A j \in DOMAIN sockets : sockets'[j].mine = sockets[j].mine
      /\ \A j \in DOMAIN sockets : j # k => sockets'[j] = sockets[j]
      /\ sockets'[k].state = "open" /\ sockets'[k].got = i
      /\ ~sockets'[k].full => ~sockets[k].full /\ ~Full(k)
  <2> PICK q, f : q = sockets[k] /\ f = (sockets[k].full \/ Full(k))
    OBVIOUS
  <2>1. q \in SocketRecords /\ q.state = "open" /\ i = q.got + 1
    BY <1>1, <1>2, SocketTypes
  <2>2. f \in BOOLEAN /\ (~f => ~sockets[k].full /\ ~Full(k))
    BY Zenon
  <2> PICK r : r = [q EXCEPT !.got = i, !.full = f]
    OBVIOUS
  <2>3. r = [state |-> "open", mine |-> q.mine, got |-> i, full |-> f]
    BY <2>1 DEF SocketRecords
  <2>4. sockets' = [sockets EXCEPT ![k] = r]
    BY <2>1 DEF OnMessage
  <2>5. i \in 0..Len(log)
    BY <1>2
  <2>6. r \in SocketRecords /\ r.mine = sockets[k].mine /\ r.state = "open" /\ r.got = i /\ r.full = f
    BY <2>1, <2>2, <2>3, <2>5 DEF SocketRecords
  <2>7. /\ DOMAIN sockets' = DOMAIN sockets /\ Len(sockets') = Len(sockets) /\ SocketsGoOn
        /\ sockets' \in Seq(SocketRecords)
        /\ \A j \in DOMAIN sockets : sockets'[j].mine = sockets[j].mine
        /\ \A j \in DOMAIN sockets : j # k => sockets'[j] = sockets[j]
        /\ sockets'[k] = r
    BY <2>4, <2>6, OneSocketMoves
  <2>8. sockets'[k].full = f
    BY <2>6, <2>7
  <2>9. ~sockets'[k].full => ~sockets[k].full /\ ~Full(k)
    BY <2>2, <2>8, Zenon
  <2> QED BY <2>6, <2>7, <2>9
<1>5. LogFits' /\ BudgetFits'
  BY <1>1, <1>3, <1>4, SocketMoves
<1>6. SocketRecords' = SocketRecords /\ Len(log') = Len(log) /\ LogMoves
  BY <1>1 DEF SocketRecords, LogMoves
<1>7. socket # None => sockets'[socket].mine = generation /\ sockets'[socket].state # "closed"
  <2> SUFFICES ASSUME socket # None
               PROVE  sockets'[socket].mine = generation /\ sockets'[socket].state # "closed"
    OBVIOUS
  <2>1. socket \in DOMAIN sockets
    BY SocketTypes DEF None
  <2> QED BY <1>4, <2>1 DEF SocketsFit
<1>8. CASE sockets[k].mine # generation
  <2>1. UNCHANGED <<buffer, shown, cancels, announced>>
    BY <1>8 DEF OnMessage
  <2>2. k # socket \/ socket = None
    BY <1>8 DEF SocketsFit
  <2>3. SameChannel
    BY <1>1, <1>4, <2>1, <2>2, SocketTypes DEF SameChannel, None
  <2>4. SameCancels
    BY <2>1, CancelsAreSame
  <2>5. SocketsFit'
    BY <1>1, <1>4, <1>6, <1>7, <2>1 DEF SocketsFit
  <2>6. ProviderFits'
    BY <1>1, <1>4, <1>6, <2>1, ProviderStays
  <2>7. DepositFits' /\ NoneTwice'
    BY <1>1, <1>6, <2>1, DepositStays DEF NoneTwice
  <2>8. CancelsFit'
    BY <1>1, <1>6, <2>1, CancelsStay
  <2>9. Following'
    BY <1>1, <1>6, <2>1, <2>3, <2>4, FollowingStays
  <2> QED BY <1>5, <2>5, <2>6, <2>7, <2>8, <2>9 DEF FeedInvariant
<1>9. CASE sockets[k].mine = generation /\ buffering /\ Full(k)
  <2>1. UNCHANGED <<buffer, shown, cancels, announced>>
    BY <1>9 DEF OnMessage
  <2>2. SocketsFit'
    BY <1>1, <1>4, <1>6, <1>7, <2>1 DEF SocketsFit
  <2>3. ProviderFits'
    BY <1>1, <1>4, <1>6, <2>1, ProviderStays
  <2>4. DepositFits' /\ NoneTwice'
    BY <1>1, <1>6, <2>1, DepositStays DEF NoneTwice
  <2>5. CancelsFit'
    BY <1>1, <1>6, <2>1, CancelsStay
  <2>6. Following'
    <3> SUFFICES ASSUME Alone' PROVE sockets'[socket'].full
      BY DEF Following
    <3>1. k = socket'
      BY <1>1, <1>4, <1>9 DEF Alone
    <3> QED BY <1>4, <1>9, <3>1
  <2> QED BY <1>5, <2>2, <2>3, <2>4, <2>5, <2>6 DEF FeedInvariant
<1>11. CASE sockets[k].mine = generation /\ buffering /\ ~Full(k)
  <2>1. buffer' = buffer \o <<i>> /\ UNCHANGED <<shown, cancels, announced>>
    BY <1>11 DEF OnMessage
  <2> PICK b : b = Len(buffer)
    OBVIOUS
  <2>2. /\ buffer \in Seq(1..Len(log)) /\ b \in Nat /\ buffer' \in Seq(1..Len(log)) /\ Len(buffer') = b + 1
        /\ buffer'[b + 1] = i /\ \A j \in 1..b : buffer'[j] = buffer[j]
    <3>1. buffer \in Seq(1..Len(log)) /\ <<i>> \in Seq(1..Len(log)) /\ Len(<<i>>) = 1 /\ b \in Nat
      BY <1>2 DEF SocketsFit
    <3> PICK s, t : s = buffer /\ t = <<i>>
      OBVIOUS
    <3>2. /\ s \o t \in Seq(1..Len(log)) /\ Len(s \o t) = Len(s) + Len(t)
          /\ \A j \in 1 .. Len(s) + Len(t) : (s \o t)[j] = IF j <= Len(s) THEN s[j] ELSE t[j - Len(s)]
      BY <3>1, ConcatProperties
    <3>3. buffer' = s \o t /\ Len(s) = b /\ Len(t) = 1 /\ t[1] = i
      BY <2>1, <3>1
    <3>4. b + 1 \in 1..(b + 1) /\ ~(b + 1 <= b) /\ (b + 1) - b = 1 /\ \A j \in 1..b : j \in 1..(b + 1) /\ j <= b
      BY <3>1
    <3> QED BY <3>1, <3>2, <3>3, <3>4
  <2>3. SameCancels
    BY <2>1, CancelsAreSame
  <2>4. SocketsFit'
    BY <1>1, <1>4, <1>6, <1>7, <1>11, <2>2 DEF SocketsFit
  <2>5. ProviderFits'
    BY <1>1, <1>4, <1>6, <2>1, ProviderStays
  <2>6. DepositFits' /\ NoneTwice'
    BY <1>1, <1>6, <2>1, DepositStays DEF NoneTwice
  <2>7. CancelsFit'
    BY <1>1, <1>6, <2>1, CancelsStay
  <2>8. Following'
    <3> SUFFICES ASSUME Alone', ~sockets'[socket'].full PROVE Queued(Handed)' /\ Abreast(socket, Handed)'
      BY DEF Following
    <3>1. k = socket /\ Alone /\ socket # None
      <4>1. Alone
        BY <1>1, <1>4 DEF Alone
      <4> QED BY <1>11, <4>1 DEF Alone, SocketsFit
    <3> PICK h, s : h = Handed /\ s = socket
      OBVIOUS
    <3>2. Queued(h) /\ Abreast(s, h)
      BY <1>1, <1>4, <3>1 DEF Following
    <3>3. h = (i - 1) - b /\ h \in Nat
      BY <1>2, <3>1, <3>2 DEF Handed, Queued
    <3>4. Handed' = i - (b + 1)
      BY <1>1, <1>4, <2>2, <3>1 DEF Handed
    <3>5. Handed' = h /\ socket' = s /\ i = h + (b + 1)
      <4>1. i \in Nat /\ b \in Nat /\ socket' = s
        BY <1>1, <1>2, <2>2
      <4>2. i - (b + 1) = (i - 1) - b /\ i = ((i - 1) - b) + (b + 1)
        BY <4>1
      <4> QED BY <3>3, <3>4, <4>1, <4>2
    <3>6. Queued(Handed)'
      <4>1. ASSUME NEW j \in 1..(b + 1) PROVE buffer'[j] = h + j
        <5>1. CASE j \in 1..b
          BY <2>2, <3>2, <5>1 DEF Queued
        <5>2. CASE j = b + 1
          BY <2>2, <3>5, <5>2
        <5> QED BY <2>2, <5>1, <5>2
      <4> QED BY <2>2, <3>3, <3>5, <4>1 DEF Queued
    <3>7. Abreast(socket, Handed)'
      <4>1. Abreast(s, h)' <=> Abreast(s, h)
        BY <1>1, <2>1 DEF Abreast, Since, InFlight, Live, StatusAfter, About
      <4>2. Abreast(socket, Handed)' <=> Abreast(s, h)'
        BY <3>5 DEF Abreast, Since
      <4> QED BY <3>2, <4>1, <4>2
    <3> QED BY <3>6, <3>7
  <2> QED BY <1>5, <2>4, <2>5, <2>6, <2>7, <2>8 DEF FeedInvariant
<1>10. CASE sockets[k].mine = generation /\ ~buffering
  <2> PICK batch : batch = <<i>>
    OBVIOUS
  <2>1. Dispatch(batch) /\ buffer' = buffer /\ buffer = <<>>
    BY <1>10 DEF OnMessage, SocketsFit
  <2>2. batch \in Seq(1..Len(log)) /\ Len(batch) = 1 /\ \A j \in 1..Len(batch) : batch[j] = (i - 1) + j
    BY <1>2
  <2>3. ProviderFits' /\ DepositFits' /\ NoneTwice' /\ CancelsFit'
    BY <1>1, <1>4, <2>1, <2>2, DispatchKeeps
  <2>4. SocketsFit'
    BY <1>1, <1>4, <1>6, <1>7, <1>10, <2>1 DEF SocketsFit
  <2>5. Following'
    <3> SUFFICES ASSUME Alone', ~sockets'[socket'].full PROVE Queued(Handed)' /\ Abreast(socket, Handed)'
      BY DEF Following
    <3>1. k = socket /\ Alone /\ socket # None
      <4>1. Alone
        BY <1>1, <1>4 DEF Alone
      <4> QED BY <1>10, <4>1 DEF Alone, SocketsFit
    <3> PICK h, s : h = Handed /\ s = socket
      OBVIOUS
    <3>2. Queued(h) /\ Abreast(s, h)
      BY <1>1, <1>4, <3>1 DEF Following
    <3>0. Len(buffer) = 0 /\ Len(buffer') = 0
      BY <2>1
    <3>3. h = i - 1 /\ h \in Nat
      <4>1. h = sockets[k].got - 0
        BY <3>0, <3>1 DEF Handed
      <4>2. h \in Nat
        BY <3>2 DEF Queued
      <4>3. sockets[k].got = i - 1 /\ i - 1 \in Nat
        BY <1>2
      <4> QED BY <4>1, <4>2, <4>3
    <3>4. Handed' = i /\ h + Len(batch) = i /\ socket' = s
      BY <1>1, <1>2, <1>4, <2>1, <2>2, <3>1, <3>3 DEF Handed
    <3>5. loads[s].phase \notin {"asked", "read"}
      BY <1>10, <3>2 DEF Abreast
    <3>6. Abreast(s, h + Len(batch))'
      BY <1>1, <2>1, <2>2, <3>1, <3>2, <3>3, <3>5, DispatchFollows
    <3>7. Abreast(socket, Handed)' <=> Abreast(s, h + Len(batch))'
      BY <3>4 DEF Abreast, Since
    <3>8. Queued(Handed)'
      <4>1. Handed' \in Nat
        BY <1>2, <3>4
      <4>2. \A j \in 1..Len(buffer') : FALSE
        BY <3>0
      <4> QED BY <4>1, <4>2 DEF Queued
    <3> QED BY <3>6, <3>7, <3>8
  <2> QED BY <1>5, <2>3, <2>4, <2>5 DEF FeedInvariant
<1> QED BY <1>8, <1>9, <1>10, <1>11

LEMMA ResyncEndsKeeps ==
  ASSUME FeedInvariant, NEW k \in DOMAIN sockets, ResyncEnds(k)
  PROVE  FeedInvariant'
<1> USE InvariantParts
<1>1. /\ k \in resyncs /\ loads[k].phase \in {"none", "done"} /\ resyncs' = resyncs \ {k}
      /\ UNCHANGED <<log, written, published>>
      /\ UNCHANGED <<sockets, socket, tickets, retryTimer, timers, tab, generation, view,
                     mounted, loads, current, deposit, faults>>
  BY DEF ResyncEnds, world
<1>2. LogFits' /\ BudgetFits'
  <2>1. published' \in 0..Len(log) /\ Len(sockets') = Len(sockets)
    BY <1>1 DEF LogFits
  <2> QED BY <1>1, <2>1, SocketMoves
<1>3. LogMoves /\ SocketsGoOn
  BY <1>1, SocketsUnchanged DEF LogMoves
<1>4. SocketRecords' = SocketRecords /\ Len(log') = Len(log)
  BY <1>1 DEF SocketRecords
<1>5. CASE sockets[k].mine # generation
  <2>1. UNCHANGED <<buffering, buffer, status, shown, cancels, announced>>
    BY <1>5 DEF ResyncEnds
  <2>2. SameCancels /\ SameChannel
    BY <1>1, <2>1, CancelsAreSame, ChannelIsSame
  <2>3. SocketsFit'
    BY <1>1, <1>4, <2>1 DEF SocketsFit
  <2>4. ProviderFits'
    BY <1>1, <1>3, <2>1, ProviderStays
  <2>5. DepositFits' /\ NoneTwice'
    BY <1>1, <1>3, <2>1, DepositStays DEF NoneTwice
  <2>6. CancelsFit'
    BY <1>1, <1>3, <2>1, CancelsStay
  <2>7. Following'
    BY <1>1, <1>3, <2>1, <2>2, FollowingStays
  <2> QED BY <1>2, <2>3, <2>4, <2>5, <2>6, <2>7 DEF FeedInvariant
<1>6. CASE sockets[k].mine = generation
  <2> PICK batch : batch = buffer
    OBVIOUS
  <2>1. buffer' = <<>> /\ buffering' = FALSE /\ status' = "live" /\ Dispatch(batch)
    BY <1>6 DEF ResyncEnds
  <2>2. batch \in Seq(1..Len(log))
    BY DEF SocketsFit
  <2>3. ProviderFits' /\ DepositFits' /\ NoneTwice' /\ CancelsFit'
    BY <1>1, <1>3, <2>1, <2>2, DispatchKeeps
  <2>4. SocketsFit'
    <3>1. buffering' \in BOOLEAN /\ ~buffering'
      BY <2>1, Zenon
    <3>2. buffer' \in Seq(1..Len(log')) /\ socket # None
      BY <1>6, <2>1 DEF SocketsFit
    <3> QED BY <1>1, <1>4, <2>1, <3>1, <3>2 DEF SocketsFit
  <2>5. Following'
    <3> SUFFICES ASSUME Alone', ~sockets'[socket'].full PROVE Queued(Handed)' /\ Abreast(socket, Handed)'
      BY DEF Following
    <3>1. k = socket /\ Alone /\ socket # None
      <4>1. Alone
        BY <1>1 DEF Alone
      <4> QED BY <1>6, <4>1 DEF Alone, SocketsFit
    <3> PICK h, s : h = Handed /\ s = socket
      OBVIOUS
    <3>2. Queued(h) /\ Abreast(s, h)
      BY <1>1, <3>1 DEF Following
    <3>3. h \in Nat /\ \A j \in 1..Len(batch) : batch[j] = h + j
      BY <3>2 DEF Queued
    <3>4. Len(batch) \in Nat /\ Handed' = h + Len(batch) /\ socket' = s
      <4>1. Len(batch) \in Nat /\ Len(buffer') = 0 /\ sockets[socket].got \in Nat
        BY <2>1, <2>2, <3>1, SocketTypes
      <4>2. Handed' = sockets[socket].got - 0 /\ h = sockets[socket].got - Len(batch)
        BY <1>1, <4>1 DEF Handed
      <4> QED BY <1>1, <4>1, <4>2
    <3>5. loads[s].phase \notin {"asked", "read"}
      BY <1>1, <3>1
    <3>6. Abreast(s, h + Len(batch))'
      BY <1>1, <2>1, <2>2, <3>1, <3>2, <3>3, <3>5, DispatchFollows
    <3>7. Abreast(socket, Handed)' <=> Abreast(s, h + Len(batch))'
      BY <3>4 DEF Abreast, Since
    <3>8. Queued(Handed)'
      BY <2>1, <3>3, <3>4 DEF Queued
    <3> QED BY <3>6, <3>7, <3>8
  <2> QED BY <1>2, <2>3, <2>4, <2>5 DEF FeedInvariant
<1> QED BY <1>5, <1>6

-----------------------------------------------------------------------------
(* The actions of the snapshots.                                           *)

\* What a step of the screen leaves of the channel.
LEMMA ScreenMoves ==
  ASSUME FeedInvariant, UNCHANGED <<log, published, channel>>, view' = view, written' \in 0..Len(log),
         faults' \in faults..MaxFaults
  PROVE  LogFits' /\ BudgetFits' /\ SocketsFit' /\ LogMoves /\ SocketsGoOn /\ SameChannel
         /\ UNCHANGED <<sockets, socket, buffering>>
<1> USE InvariantParts
<1>1. LogMoves
  BY DEF LogMoves
<1>2. /\ UNCHANGED <<sockets, socket, tickets, retryTimer, timers, tab, generation, buffering, buffer,
                    status, resyncs>>
      /\ Len(sockets') = Len(sockets) /\ status' \in {status, "connecting", "reconnecting"}
  BY DEF channel
<1>3. published' \in 0..Len(log') /\ written' \in 0..Len(log')
  BY DEF LogFits
<1>4. LogFits'
  BY <1>1, <1>3, LogStays
<1>5. BudgetFits'
  BY <1>2, BudgetStays
<1>6. SocketsFit'
  BY <1>1, <1>2, SocketsStay
<1>7. SocketsGoOn /\ SameChannel
  BY <1>2, SocketsUnchanged, ChannelIsSame
<1> QED BY <1>1, <1>2, <1>4, <1>5, <1>6, <1>7

\* The log being what it was, so is what is said of it.
LEMMA LogIsSame ==
  ASSUME UNCHANGED <<log, view>>
  PROVE  /\ Held' = Held /\ LoadRecords' = LoadRecords
         /\ \A n, o : Live(n, o)' <=> Live(n, o)
         /\ \A o : (Over(o)' <=> Over(o)) /\ (PartFilled(o)' <=> PartFilled(o))
         /\ \A v, n, C : Since(v, n, C)' <=> Since(v, n, C)
<1>1. Held' = Held
  BY DEF Held, PartFilled
<1>2. LoadRecords' = LoadRecords
  BY <1>1 DEF LoadRecords
<1>3. ASSUME NEW n, NEW o PROVE Live(n, o)' <=> Live(n, o)
  BY DEF Live, StatusAfter, About
<1>4. ASSUME NEW o PROVE (Over(o)' <=> Over(o)) /\ (PartFilled(o)' <=> PartFilled(o))
  BY DEF Over, StatusAfter, About, PartFilled
<1>5. ASSUME NEW v, NEW n, NEW C PROVE Since(v, n, C)' <=> Since(v, n, C)
  BY DEF Since, Live, StatusAfter, About
<1> QED BY <1>1, <1>2, <1>3, <1>4, <1>5

\* The numbers of what is followed.
LEMMA HandedFits ==
  ASSUME FeedInvariant, socket # None, Handed \in Nat
  PROVE  Handed <= Len(log) /\ Len(log) \in Handed..Len(log) /\ socket \in 1..MaxSockets /\ socket \in Calls
<1>1. Len(log) \in Nat /\ socket \in 1..Len(sockets) /\ Len(sockets) <= MaxSockets /\ Len(sockets) \in Nat
      /\ MaxSockets \in Nat
  BY SocketTypes DEF None
<1>2. sockets[socket].got \in 0..Len(log)
  BY <1>1, SocketTypes
<1>3. buffer \in Seq(1..Len(log))
  BY InvariantParts DEF SocketsFit
<1>4. Len(buffer) \in Nat
  BY <1>3
<1>5. Handed <= Len(log)
  BY <1>1, <1>2, <1>4 DEF Handed
<1> QED BY <1>1, <1>5 DEF Calls

LEMMA SnapshotFacts ==
  ASSUME FeedInvariant, NEW n \in 0..Len(log)
  PROVE  /\ Snapshot(n) \in Held
         /\ n = Len(log) => \A h \in 0..Len(log) : Since(Snapshot(n), h, {})
<1> USE InvariantParts
<1>1. Len(log) \in Nat /\ n \in Nat
  BY LogTypes
<1>2. CASE view # "orders"
  <2>1. Snapshot(n) = n
    BY <1>2 DEF Snapshot
  <2> QED BY <1>1, <1>2, <2>1 DEF Held, Since
<1>3. CASE view = "orders"
  <2> DEFINE S == Snapshot(n)
  <2>1. /\ S \in [Orders -> {"absent"} \cup Resting]
        /\ \A o \in Orders : S[o] = IF StatusAfter(n, o) \in Resting THEN StatusAfter(n, o) ELSE "absent"
    BY <1>3 DEF Snapshot
  <2>2. ASSUME NEW o \in Orders, StatusAfter(n, o) = "partially_filled" PROVE PartFilled(o)
    <3>1. About(n, o) # {} /\ log[Max(About(n, o))].status = "partially_filled"
      BY <2>2 DEF StatusAfter
    <3>2. Max(About(n, o)) \in About(n, o) /\ About(n, o) \in SUBSET (1..n)
      <4>1. About(n, o) \in SUBSET (1..n)
        BY DEF About
      <4> QED BY <1>1, <3>1, <4>1, Greatest
    <3>3. Max(About(n, o)) \in 1..Len(log) /\ log[Max(About(n, o))].order = o
      BY <1>1, <3>2 DEF About
    <3> QED BY <3>1, <3>3 DEF PartFilled
  <2> HIDE DEF S
  <2>3. S \in Held
    <3>1. \A o \in Orders : S[o] = "partially_filled" => PartFilled(o)
      BY <2>1, <2>2 DEF Resting
    <3> QED BY <1>3, <2>1, <3>1 DEF Held, Rows
  <2>4. ASSUME n = Len(log), NEW h \in 0..Len(log) PROVE Since(S, h, {})
    <3>1. n \in h..Len(log)
      BY <1>1, <2>4
    <3>2. \A o \in Orders : S[o] # "absent" <=> Live(n, o)
      BY <2>1 DEF Live, Resting
    <3> QED BY <1>3, <3>1, <3>2 DEF Since
  <2> QED BY <2>3, <2>4 DEF S
<1> QED BY <1>2, <1>3

\* A load whose answer has been read.
LEMMA ReadKeeps ==
  ASSUME FeedInvariant, NEW k \in Calls, loads[k].phase = "asked", NEW n \in 0..Len(log), ReadAs(k, n),
         written' \in 0..Len(log),
         UNCHANGED <<log, published, channel, view, mounted, current, shown, cancels, deposit, announced, faults>>
  PROVE  FeedInvariant'
<1> USE InvariantParts
<1>1. /\ LogFits' /\ BudgetFits' /\ SocketsFit' /\ LogMoves /\ SocketsGoOn /\ SameChannel
      /\ UNCHANGED <<sockets, socket, buffering>>
  BY FaultsFit, ScreenMoves
<1>2. /\ Held' = Held /\ LoadRecords' = LoadRecords
      /\ \A v, m, C : Since(v, m, C)' <=> Since(v, m, C)
  BY LogIsSame
<1> PICK v, b : v = Snapshot(n) /\ b = BaseOf(k, n)
  OBVIOUS
<1>3. v \in Held /\ (n = Len(log) => \A h \in 0..Len(log) : Since(v, h, {}))
  BY SnapshotFacts
<1>4. /\ b \in 0..MaxSockets /\ (b # None => b = k /\ n = Len(log))
      /\ MaxSockets \in Nat /\ Len(log) \in Nat
  <2>1. MaxSockets \in Nat /\ Len(log) \in Nat /\ Calls = 0..(MaxSockets + 1) /\ Again = MaxSockets + 1
    BY SocketTypes DEF Calls, Again
  <2> QED BY <2>1 DEF BaseOf, None
<1>5. loads \in [Calls -> LoadRecords] /\ loads[k] \in LoadRecords
  BY DEF ProviderFits
<1> PICK q : q = loads[k]
  OBVIOUS
<1> PICK r : r = [phase |-> "read", value |-> v, base |-> b, mine |-> q.mine]
  OBVIOUS
<1>6. loads' = [loads EXCEPT ![k] = r]
  <2> PICK l : l = [q EXCEPT !.phase = "read"]
    OBVIOUS
  <2>1. l = [phase |-> "read", value |-> q.value, base |-> q.base, mine |-> q.mine]
    BY <1>5 DEF LoadRecords
  <2> PICK m : m = [l EXCEPT !.value = v]
    OBVIOUS
  <2>2. m = [phase |-> "read", value |-> v, base |-> q.base, mine |-> q.mine]
    BY <2>1
  <2> PICK t : t = [m EXCEPT !.base = b]
    OBVIOUS
  <2>3. t = r
    <3>1. t = [phase |-> "read", value |-> v, base |-> b, mine |-> q.mine]
      BY <2>2
    <3> QED BY <3>1
  <2>4. loads' = [loads EXCEPT ![k] = t]
    BY <1>5 DEF ReadAs
  <2> QED BY <2>3, <2>4
<1>7. r \in LoadRecords /\ r.phase = "read" /\ r.value = v /\ r.base = b
  BY <1>3, <1>4, <1>5 DEF LoadRecords
<1>8. /\ loads' \in [Calls -> LoadRecords] /\ loads'[k] = r
      /\ \A c \in Calls : c # k => loads'[c] = loads[c]
  BY <1>5, <1>6, <1>7
<1>9. \A c \in 0..MaxSockets : c \in Calls /\ (loads[c].phase = "done" => loads'[c].phase = "done")
  <2>1. \A c \in 0..MaxSockets : c \in Calls
    BY <1>4 DEF Calls
  <2> QED BY <1>8, <2>1
<1>10. ProviderFits'
  <2>1. \A c \in Calls : loads'[c].phase # "none" => loads[c].phase # "none"
    BY <1>8
  <2>2. \A c \in Calls : loads'[c].base # None => loads'[c].base = c
    BY <1>4, <1>7, <1>8 DEF ProviderFits
  <2>3. shown.base # None => shown.status = "ready" /\ loads'[shown.base].phase = "done"
    BY <1>9 DEF ProviderFits
  <2>4. \A c \in 1..MaxSockets : c \in Calls
    BY <1>4 DEF Calls
  <2> QED BY <1>1, <1>2, <1>8, <2>1, <2>2, <2>3, <2>4 DEF ProviderFits
<1>11. DepositFits' /\ NoneTwice'
  BY <1>1, DepositStays DEF NoneTwice
<1>12. CancelsFit'
  BY <1>1, <1>9, CancelsStay
<1>13. Following'
  <2> SUFFICES ASSUME NEW s, NEW h, s = socket, h = Handed, s # None, h \in Nat, Abreast(s, h)
               PROVE  Abreast(s, h)'
    BY <1>1, AbreastSuffices
  <2>1. h \in 0..Len(log) /\ s \in Calls
    BY <1>4, HandedFits
  <2>2. loads'[s].phase \in {"asked", "read"} => loads[s].phase \in {"asked", "read"}
    BY <1>8, <2>1
  <2>3. loads'[s].phase = "read" /\ loads'[s].base = s => Since(loads'[s].value, h, {})
    <3>1. CASE s = k
      BY <1>3, <1>4, <1>7, <1>8, <2>1, <3>1
    <3>2. CASE s # k
      BY <1>8, <2>1, <3>2 DEF Abreast
    <3> QED BY <3>1, <3>2
  <2>4. Since(loads[s].value, h, {})' <=> Since(loads'[s].value, h, {})
    BY DEF Since, Live, StatusAfter, About
  <2>5. Since(shown.value, h, InFlight)' <=> Since(shown.value, h, InFlight)
    BY DEF Since, InFlight, Live, StatusAfter, About
  <2>6. InFlight' = InFlight
    BY DEF InFlight
  <2>7. \A m, o : Live(m, o)' <=> Live(m, o)
    BY LogIsSame
  <2> QED BY <1>1, <2>2, <2>3, <2>4, <2>5, <2>6, <2>7 DEF Abreast
<1> QED BY <1>1, <1>10, <1>11, <1>12, <1>13 DEF FeedInvariant

LEMMA ReadRowsKeeps ==
  ASSUME FeedInvariant, NEW k \in Calls, ReadRows(k)
  PROVE  FeedInvariant'
<1> PICK n : n = written'
  OBVIOUS
<1>1. n \in 0..Len(log)
  BY InvariantParts, LogTypes DEF ReadRows, LogFits
<1>2. ReadAs(k, n) /\ loads[k].phase = "asked"
  BY DEF ReadRows
<1> QED BY <1>1, <1>2, ReadKeeps DEF ReadRows

LEMMA ReadStoreKeeps ==
  ASSUME FeedInvariant, NEW k \in Calls, ReadStore(k)
  PROVE  FeedInvariant'
<1> PICK n : n = Len(log)
  OBVIOUS
<1>1. n \in 0..Len(log) /\ written \in 0..Len(log)
  BY InvariantParts, LogTypes DEF LogFits
<1>2. ReadAs(k, n) /\ loads[k].phase = "asked"
  BY DEF ReadStore
<1>3. /\ UNCHANGED <<log, published, written>>
      /\ UNCHANGED <<channel, view, mounted, current, shown, cancels, deposit, announced, faults>>
  BY DEF ReadStore, world
<1> QED BY <1>1, <1>2, <1>3, ReadKeeps

\* A load that is over, whatever it has put on screen.
LEMMA SettleKeeps ==
  ASSUME FeedInvariant, NEW k \in Calls, loads[k].phase \in {"asked", "read"}, Settles(k),
         UNCHANGED <<world, channel, view, mounted, current, cancels, deposit, announced>>,
         faults' \in faults..MaxFaults,
         \/ shown' = shown
         \/ shown'.base = None
         \/ shown'.base = k /\ shown'.status = "ready" /\ loads[k].phase = "read" /\ loads[k].base = k
            /\ shown'.value = loads[k].value,
         shown' \in [status : {"loading", "ready", "error"}, value : Held, base : 0..MaxSockets]
  PROVE  FeedInvariant'
<1> USE InvariantParts
<1>1. UNCHANGED <<log, written, published>> /\ written' \in 0..Len(log)
  BY DEF world, LogFits
<1>2. /\ LogFits' /\ BudgetFits' /\ SocketsFit' /\ LogMoves /\ SocketsGoOn /\ SameChannel
      /\ UNCHANGED <<sockets, socket, buffering>>
  BY <1>1, ScreenMoves
<1>3. /\ Held' = Held /\ LoadRecords' = LoadRecords
      /\ \A v, m, C : Since(v, m, C)' <=> Since(v, m, C)
      /\ \A m, o : Live(m, o)' <=> Live(m, o)
  BY <1>1, LogIsSame
<1>4. 0 \in 0..MaxSockets /\ Nothing \in Held /\ None = 0 /\ MaxSockets \in Nat
  BY SocketTypes, NothingIsHeld DEF None
<1> PICK v : v = Nothing
  OBVIOUS
<1> PICK r : r = [phase |-> "done", value |-> v, base |-> None, mine |-> 0]
  OBVIOUS
<1>5. loads' = [loads EXCEPT ![k] = r]
  <2> PICK m : m = [NoLoad EXCEPT !.phase = "done"]
    OBVIOUS
  <2>1. m = [phase |-> "done", value |-> v, base |-> None, mine |-> 0]
    BY DEF NoLoad
  <2>2. loads' = [loads EXCEPT ![k] = m]
    BY DEF Settles
  <2> QED BY <2>1, <2>2
<1>6. r \in LoadRecords /\ r.phase = "done" /\ r.base = None
  <2>1. v \in Held /\ None \in 0..MaxSockets
    BY <1>4
  <2>2. r.phase = "done" /\ r.base = None
    OBVIOUS
  <2> QED BY <2>1, <2>2 DEF LoadRecords
<1>7. /\ loads' \in [Calls -> LoadRecords] /\ loads'[k] = r
      /\ \A c \in Calls : c # k => loads'[c] = loads[c]
  BY <1>5, <1>6 DEF ProviderFits
<1>8. \A c \in 0..MaxSockets : c \in Calls /\ (loads[c].phase = "done" => loads'[c].phase = "done")
  <2>1. \A c \in 0..MaxSockets : c \in Calls
    BY <1>4 DEF Calls
  <2> QED BY <1>6, <1>7, <2>1
<1>9. ProviderFits'
  <2>1. mounted /\ mounted' \in BOOLEAN /\ mounted' = mounted /\ view' \in Views /\ current' \in Nat
    BY DEF ProviderFits
  <2>2. \A c \in Calls : loads'[c].base # None => loads'[c].base = c
    BY <1>6, <1>7 DEF ProviderFits
  <2>3. shown'.base # None => shown'.status = "ready" /\ loads'[shown'.base].phase = "done"
    <3> SUFFICES ASSUME shown'.base # None
                 PROVE  shown'.status = "ready" /\ loads'[shown'.base].phase = "done"
      OBVIOUS
    <3>1. CASE shown' = shown
      <4>1. shown.base \in 0..MaxSockets /\ shown.status = "ready" /\ loads[shown.base].phase = "done"
        BY <3>1 DEF ProviderFits
      <4> QED BY <1>8, <3>1, <4>1
    <3>2. CASE shown'.base = k /\ shown'.status = "ready"
      BY <1>6, <1>7, <3>2
    <3> QED BY <3>1, <3>2
  <2>4. \A c \in 1..MaxSockets :
          loads'[c].phase # "none" => c \in DOMAIN sockets' /\ sockets'[c].state # "opening"
    <3> SUFFICES ASSUME NEW c \in 1..MaxSockets, loads'[c].phase # "none"
                 PROVE  c \in DOMAIN sockets /\ sockets[c].state # "opening"
      BY <1>2
    <3>1. c \in Calls
      BY <1>4 DEF Calls
    <3>2. loads[c].phase # "none"
      BY <1>7, <3>1
    <3> QED BY <3>2 DEF ProviderFits
  <2>5. \A c \in Calls : loads'[c].phase # "none" => mounted'
    BY <2>1
  <2>6. shown'.status # "loading" => mounted'
    BY <2>1
  <2> QED BY <1>3, <1>7, <2>1, <2>2, <2>3, <2>4, <2>5, <2>6 DEF ProviderFits
<1>10. DepositFits' /\ NoneTwice'
  BY <1>2, DepositStays DEF NoneTwice
<1>11. CancelsFit'
  BY <1>2, <1>8, CancelsStay
<1>12. Following'
  <2> SUFFICES ASSUME NEW s, NEW h, s = socket, h = Handed, s # None, h \in Nat, Abreast(s, h)
               PROVE  Abreast(s, h)'
    BY <1>2, AbreastSuffices
  <2>1. s \in Calls /\ s \in 0..MaxSockets
    BY HandedFits, SocketTypes DEF None
  <2>2. s = k => loads'[s].phase = "done"
    BY <1>6, <1>7
  <2>3. s # k => loads'[s] = loads[s]
    BY <1>7, <2>1
  <2> PICK C : C = InFlight
    OBVIOUS
  <2>4. InFlight' = C /\ C \subseteq Orders
    BY DEF InFlight
  <2>5. shown'.base = s => Since(shown'.value, h, C)
    <3>1. CASE shown' = shown
      BY <3>1 DEF Abreast
    <3>2. CASE shown'.base = None
      BY <3>2
    <3>3. CASE shown'.base = k /\ loads[k].phase = "read" /\ loads[k].base = k /\ shown'.value = loads[k].value
      <4> SUFFICES ASSUME s = k PROVE Since(shown'.value, h, C)
        BY <3>3
      <4>1. Since(loads[s].value, h, {})
        BY <3>3 DEF Abreast
      <4>2. Since(loads[s].value, h, C)
        BY <4>1 DEF Since
      <4> QED BY <3>3, <4>2
    <3> QED BY <3>1, <3>2, <3>3
  <2>6. ASSUME NEW o \in C, shown'.base = s, cancels[o].base = s, ~cancels[o].finished
        PROVE  \E m \in h..Len(log) : Live(m, o)
    <3>1. loads[s].phase = "done"
      BY <2>4, <2>6 DEF CancelsFit
    <3>2. shown' = shown
      BY <2>6, <3>1
    <3> QED BY <2>6, <3>2 DEF Abreast
  <2>7. loads'[s].phase \in {"asked", "read"} => buffering'
    BY <1>2, <2>2, <2>3 DEF Abreast
  <2>8. loads'[s].phase = "read" /\ loads'[s].base = s => Since(loads'[s].value, h, {})
    BY <2>2, <2>3 DEF Abreast
  <2> PICK x, y : x = loads'[s].value /\ y = shown'.value
    OBVIOUS
  <2>9. (Since(x, h, {})' <=> Since(x, h, {})) /\ (Since(y, h, C)' <=> Since(y, h, C))
    BY <1>3
  <2>10. Since(loads[s].value, h, {})' <=> Since(x, h, {})'
    BY DEF Since
  <2>11. Since(shown.value, h, InFlight)' <=> Since(y, h, C)'
    BY <2>4 DEF Since
  <2>12. (loads[s].phase = "read" /\ loads[s].base = s => Since(loads[s].value, h, {}))'
    BY <2>8, <2>9, <2>10
  <2>13. (shown.base = s => Since(shown.value, h, InFlight))'
    BY <2>5, <2>9, <2>11
  <2>14. (\A o \in InFlight :
            shown.base = s /\ cancels[o].base = s /\ ~cancels[o].finished =>
              \E m \in h..Len(log) : Live(m, o))'
    BY <1>1, <1>3, <2>4, <2>6
  <2> QED BY <2>7, <2>12, <2>13, <2>14 DEF Abreast
<1> QED BY <1>2, <1>9, <1>10, <1>11, <1>12 DEF FeedInvariant

LEMMA LandKeeps ==
  ASSUME FeedInvariant, NEW k \in Calls, Land(k)
  PROVE  FeedInvariant'
<1> USE InvariantParts
<1>1. /\ loads[k].phase = "read" /\ Settles(k)
      /\ UNCHANGED <<world, channel, view, mounted, current, cancels, deposit, announced, faults>>
  BY DEF Land
<1>2. loads[k] \in LoadRecords /\ (loads[k].base # None => loads[k].base = k)
  BY DEF ProviderFits
<1>3. CASE Overtaken(k)
  <2>1. shown' = shown /\ shown \in [status : {"loading", "ready", "error"}, value : Held, base : 0..MaxSockets]
    BY <1>3 DEF Land, ProviderFits
  <2> QED BY <1>1, <2>1, FaultsFit, SettleKeeps
<1>4. CASE ~Overtaken(k)
  <2> PICK v, b : v = loads[k].value /\ b = loads[k].base
    OBVIOUS
  <2>1. shown' = [status |-> "ready", value |-> v, base |-> b]
    BY <1>4 DEF Land, Overtaken
  <2>2. v \in Held /\ b \in 0..MaxSockets
    BY <1>2 DEF LoadRecords
  <2>3. shown'.status = "ready" /\ shown'.value = v /\ shown'.base = b
    BY <2>1
  <2>4. shown' \in [status : {"loading", "ready", "error"}, value : Held, base : 0..MaxSockets]
    BY <2>1, <2>2
  <2>5. shown'.base = None \/ (shown'.base = k /\ loads[k].base = k)
    BY <1>2, <2>3
  <2> QED BY <1>1, <2>3, <2>4, <2>5, FaultsFit, SettleKeeps
<1> QED BY <1>3, <1>4

LEMMA LoadFailsKeeps ==
  ASSUME FeedInvariant, NEW k \in Calls, LoadFails(k)
  PROVE  FeedInvariant'
<1> USE InvariantParts
<1>1. /\ loads[k].phase \in {"asked", "read"} /\ Settles(k) /\ faults' = faults + 1 /\ faults < MaxFaults
      /\ UNCHANGED <<world, channel, view, mounted, current, cancels, deposit, announced>>
  BY DEF LoadFails
<1>2. faults' \in faults..MaxFaults
  BY <1>1, FaultsFit
<1>3. CASE Overtaken(k)
  <2>1. shown' = shown /\ shown \in [status : {"loading", "ready", "error"}, value : Held, base : 0..MaxSockets]
    BY <1>3 DEF LoadFails, ProviderFits
  <2> QED BY <1>1, <1>2, <2>1, SettleKeeps
<1>4. CASE ~Overtaken(k)
  <2> PICK v : v = Nothing
    OBVIOUS
  <2> PICK m : m = [Empty EXCEPT !.status = "error"]
    OBVIOUS
  <2>1. m = [status |-> "error", value |-> v, base |-> None]
    BY DEF Empty
  <2>2. shown' = m
    BY <1>4 DEF LoadFails
  <2>3. v \in Held /\ None \in 0..MaxSockets
    BY NothingIsHeld, SocketTypes DEF None
  <2>4. shown' \in [status : {"loading", "ready", "error"}, value : Held, base : 0..MaxSockets]
    BY <2>1, <2>2, <2>3
  <2>5. shown'.base = None
    BY <2>1, <2>2
  <2> QED BY <1>1, <1>2, <2>4, <2>5, SettleKeeps
<1> QED BY <1>3, <1>4

\* The load of a page that opens, or of its "Try again".
LEMMA AskKeeps ==
  ASSUME FeedInvariant, NEW k \in {0, Again}, Load(k), mounted', mounted' \in BOOLEAN,
         UNCHANGED <<world, channel, view, cancels, deposit, announced, faults>>
  PROVE  FeedInvariant'
<1> USE InvariantParts
<1>1. UNCHANGED <<log, written, published>> /\ written' \in 0..Len(log)
  BY DEF world, LogFits
<1>2. /\ LogFits' /\ BudgetFits' /\ SocketsFit' /\ LogMoves /\ SocketsGoOn /\ SameChannel
      /\ UNCHANGED <<sockets, socket, buffering>>
  BY <1>1, FaultsFit, ScreenMoves
<1>3. MaxSockets \in Nat /\ k \in Calls /\ k \notin 1..MaxSockets
  BY SocketTypes DEF Calls, Again
<1>4. ProviderFits' /\ DepositFits' /\ NoneTwice' /\ CancelsFit'
  BY <1>1, <1>2, <1>3, LoadKeeps
<1>5. /\ \A c \in Calls : c # k => loads'[c] = loads[c]
      /\ shown' = IF shown.status = "ready" THEN shown ELSE Empty
  BY <1>1, <1>3, LoadIs
<1>6. Following'
  <2> SUFFICES ASSUME NEW s, NEW h, s = socket, h = Handed, s # None, h \in Nat, Abreast(s, h)
               PROVE  Abreast(s, h)'
    BY <1>2, AbreastSuffices
  <2>1. s \in Calls /\ s # k
    BY <1>3, HandedFits
  <2>2. loads'[s] = loads[s]
    BY <1>5, <2>1
  <2>3. shown'.base = s => shown' = shown
    BY <1>5 DEF Empty
  <2> PICK C, x, y : C = InFlight /\ x = loads[s].value /\ y = shown'.value
    OBVIOUS
  <2>4. InFlight' = C /\ C \subseteq Orders
    BY DEF InFlight
  <2>5. /\ \A m, o : Live(m, o)' <=> Live(m, o)
        /\ (Since(x, h, {})' <=> Since(x, h, {})) /\ (Since(y, h, C)' <=> Since(y, h, C))
    BY <1>1, LogIsSame
  <2>6. Since(loads[s].value, h, {})' <=> Since(x, h, {})'
    BY <2>2 DEF Since
  <2>7. Since(shown.value, h, InFlight)' <=> Since(y, h, C)'
    BY <2>4 DEF Since
  <2>8. (loads[s].phase = "read" /\ loads[s].base = s => Since(loads[s].value, h, {}))'
    BY <2>2, <2>5, <2>6 DEF Abreast
  <2>9. (shown.base = s => Since(shown.value, h, InFlight))'
    BY <2>3, <2>5, <2>7 DEF Abreast
  <2>10. (\A o \in InFlight :
            shown.base = s /\ cancels[o].base = s /\ ~cancels[o].finished =>
              \E m \in h..Len(log) : Live(m, o))'
    BY <1>1, <2>3, <2>4, <2>5 DEF Abreast
  <2>11. loads'[s].phase \in {"asked", "read"} => buffering'
    BY <1>2, <2>2 DEF Abreast
  <2> QED BY <2>8, <2>9, <2>10, <2>11 DEF Abreast
<1> QED BY <1>2, <1>4, <1>6 DEF FeedInvariant

LEMMA RetryKeeps ==
  ASSUME FeedInvariant, Retry
  PROVE  FeedInvariant'
<1>1. mounted' /\ mounted' \in BOOLEAN
  BY InvariantParts DEF Retry, ProviderFits
<1>2. Load(Again) /\ UNCHANGED <<world, channel, view, cancels, deposit, announced, faults>>
  BY DEF Retry
<1> QED BY <1>1, <1>2, AskKeeps

LEMMA MountKeeps ==
  ASSUME FeedInvariant, Mount
  PROVE  FeedInvariant'
<1>1. mounted' /\ mounted' \in BOOLEAN
  BY Zenon DEF Mount
<1>2. Load(0) /\ UNCHANGED <<world, channel, view, cancels, deposit, announced, faults>>
  BY DEF Mount
<1> QED BY <1>1, <1>2, AskKeeps

-----------------------------------------------------------------------------
(* The actions of the cancel button, and the answer of a deposit.          *)

\* A step that changes what is on screen, or the cancels in flight, and no load.
LEMMA ShownKeeps ==
  ASSUME FeedInvariant, UNCHANGED <<world, channel, view, mounted, loads, current, announced>>,
         faults' \in faults..MaxFaults, DepositFits', CancelsFit',
         shown' \in [status : {"loading", "ready", "error"}, value : Held, base : 0..MaxSockets],
         shown'.status = shown.status, shown'.base \in {shown.base, None},
         \A s, h : /\ s = shown'.base /\ s = shown.base /\ s # None /\ h \in Nat /\ h <= Len(log)
                   /\ Since(shown.value, h, InFlight)
                   /\ \A o \in InFlight : cancels[o].base = s /\ ~cancels[o].finished =>
                        \E m \in h..Len(log) : Live(m, o)
           => /\ Since(shown'.value, h, InFlight')
              /\ \A o \in InFlight' : cancels'[o].base = s /\ ~cancels'[o].finished =>
                   \E m \in h..Len(log) : Live(m, o)
  PROVE  FeedInvariant'
<1> USE InvariantParts
<1>1. UNCHANGED <<log, written, published>> /\ written' \in 0..Len(log)
  BY DEF world, LogFits
<1>2. /\ LogFits' /\ BudgetFits' /\ SocketsFit' /\ LogMoves /\ SocketsGoOn /\ SameChannel
      /\ UNCHANGED <<sockets, socket, buffering>>
  BY <1>1, ScreenMoves
<1>3. Held' = Held /\ LoadRecords' = LoadRecords
  BY <1>1, LogIsSame
<1>4. ProviderFits'
  <2>1. shown'.base # None => shown'.status = "ready" /\ loads'[shown'.base].phase = "done"
    BY DEF ProviderFits
  <2>2. shown'.status # "loading" => mounted'
    BY DEF ProviderFits
  <2> QED BY <1>2, <1>3, <2>1, <2>2 DEF ProviderFits
<1>5. NoneTwice'
  BY DEF NoneTwice
<1>6. Following'
  <2> SUFFICES ASSUME NEW s, NEW h, s = socket, h = Handed, s # None, h \in Nat, Abreast(s, h)
               PROVE  Abreast(s, h)'
    BY <1>2, AbreastSuffices
  <2>1. h <= Len(log)
    BY HandedFits
  <2> PICK C, x, y : C = InFlight' /\ x = loads[s].value /\ y = shown'.value
    OBVIOUS
  <2>2. /\ \A m, o : Live(m, o)' <=> Live(m, o)
        /\ (Since(x, h, {})' <=> Since(x, h, {})) /\ (Since(y, h, C)' <=> Since(y, h, C))
    BY <1>1, LogIsSame
  <2>3. ASSUME shown'.base = s
        PROVE  /\ Since(y, h, C)
               /\ \A o \in C : cancels'[o].base = s /\ ~cancels'[o].finished =>
                    \E m \in h..Len(log) : Live(m, o)
    <3>1. shown.base = s
      BY <2>3
    <3>2. /\ Since(shown.value, h, InFlight)
          /\ \A o \in InFlight : cancels[o].base = s /\ ~cancels[o].finished =>
               \E m \in h..Len(log) : Live(m, o)
      BY <3>1 DEF Abreast
    <3> QED BY <2>1, <2>3, <3>1, <3>2
  <2>4. Since(loads[s].value, h, {})' <=> Since(x, h, {})'
    BY DEF Since
  <2>5. Since(shown.value, h, InFlight)' <=> Since(y, h, C)'
    BY DEF Since
  <2>6. (loads[s].phase = "read" /\ loads[s].base = s => Since(loads[s].value, h, {}))'
    BY <2>2, <2>4 DEF Abreast
  <2>7. (shown.base = s => Since(shown.value, h, InFlight))'
    BY <2>2, <2>3, <2>5
  <2>8. (\A o \in InFlight :
            shown.base = s /\ cancels[o].base = s /\ ~cancels[o].finished =>
              \E m \in h..Len(log) : Live(m, o))'
    BY <1>1, <2>2, <2>3
  <2>9. loads'[s].phase \in {"asked", "read"} => buffering'
    BY <1>2 DEF Abreast
  <2> QED BY <2>6, <2>7, <2>8, <2>9 DEF Abreast
<1> QED BY <1>2, <1>4, <1>5, <1>6 DEF FeedInvariant

\* The cancels of the other orders are what they were.
LEMMA OneCancelMoves ==
  ASSUME FeedInvariant, NEW o \in Orders, NEW r \in CancelRecords, cancels' = [cancels EXCEPT ![o] = r],
         UNCHANGED <<log, view, loads>>,
         r.stage # "none" => view = "orders" /\ r.removed # "absent",
         r.removed = "partially_filled" => PartFilled(o),
         r.stage = "accepted" \/ r.finished => Over(o),
         r.base # None => loads[r.base].phase = "done"
  PROVE  /\ CancelsFit'
         /\ cancels'[o] = r /\ \A q \in Orders : q # o => cancels'[q] = cancels[q]
         /\ InFlight' = IF r.stage = "none" THEN InFlight \ {o} ELSE InFlight \cup {o}
<1> USE InvariantParts
<1>1. /\ cancels'[o] = r /\ \A q \in Orders : q # o => cancels'[q] = cancels[q]
      /\ cancels' \in [Orders -> CancelRecords]
  BY DEF CancelsFit
<1>2. \A q : (Over(q)' <=> Over(q)) /\ (PartFilled(q)' <=> PartFilled(q))
  BY LogIsSame
<1>3. CancelsFit'
  <2>1. ASSUME NEW q \in Orders
        PROVE  LET c == cancels'[q] IN
               /\ c.stage # "none" => view' = "orders" /\ c.removed # "absent"
               /\ c.removed = "partially_filled" => PartFilled(q)'
               /\ c.stage = "accepted" \/ c.finished => Over(q)'
               /\ c.base # None => loads'[c.base].phase = "done"
    <3>1. CASE q = o
      BY <1>1, <1>2, <3>1
    <3>2. CASE q # o
      BY <1>1, <1>2, <3>2 DEF CancelsFit
    <3> QED BY <3>1, <3>2
  <2> QED BY <1>1, <2>1 DEF CancelsFit
<1>4. InFlight' = IF r.stage = "none" THEN InFlight \ {o} ELSE InFlight \cup {o}
  BY <1>1 DEF InFlight
<1> QED BY <1>1, <1>3, <1>4

LEMMA NoCancelFits ==
  ASSUME FeedInvariant
  PROVE  /\ NoCancel \in CancelRecords /\ NoCancel.stage = "none" /\ NoCancel.removed = "absent"
         /\ NoCancel.finished = FALSE /\ NoCancel.base = None
<1>1. None \in 0..MaxSockets
  BY SocketTypes DEF None
<1> QED BY <1>1 DEF NoCancel, CancelRecords

\* The rows on screen, when there is a list of them.
LEMMA ShownRows ==
  ASSUME FeedInvariant
  PROVE  /\ shown \in [status : {"loading", "ready", "error"}, value : Held, base : 0..MaxSockets]
         /\ shown.value \in Held /\ (shown.base # None => shown.status = "ready")
         /\ view = "orders" =>
              /\ shown.value \in Rows
              /\ \A o \in Orders : /\ shown.value[o] \in {"absent"} \cup Resting
                                   /\ shown.value[o] = "partially_filled" => PartFilled(o)
<1>1. /\ shown \in [status : {"loading", "ready", "error"}, value : Held, base : 0..MaxSockets]
      /\ shown.base # None => shown.status = "ready"
  BY InvariantParts DEF ProviderFits
<1>2. shown.value \in Held
  BY <1>1
<1> QED BY <1>1, <1>2 DEF Held, Rows

\* A row that changes, and the list it changes in.
RowSet(w, o, x) ==
  /\ o \in Orders /\ x \in {"absent"} \cup Resting /\ (x = "partially_filled" => PartFilled(o))
  /\ w = [shown.value EXCEPT ![o] = x]

LEMMA OneRowMoves ==
  ASSUME FeedInvariant, view = "orders", NEW o, NEW x, NEW w, RowSet(w, o, x)
  PROVE  w \in Held /\ w[o] = x /\ \A q \in Orders : q # o => w[q] = shown.value[q]
<1>0. /\ o \in Orders /\ x \in {"absent"} \cup Resting /\ (x = "partially_filled" => PartFilled(o))
      /\ w = [shown.value EXCEPT ![o] = x]
  BY DEF RowSet
<1>1. /\ shown.value \in Rows
      /\ \A q \in Orders : shown.value[q] = "partially_filled" => PartFilled(q)
  BY ShownRows
<1>2. w \in Rows /\ w[o] = x /\ \A q \in Orders : q # o => w[q] = shown.value[q]
  BY <1>0, <1>1 DEF Rows
<1>3. \A q \in Orders : w[q] = "partially_filled" => PartFilled(q)
  BY <1>0, <1>1, <1>2
<1> QED BY <1>2, <1>3 DEF Held

LEMMA CancelKeeps ==
  ASSUME FeedInvariant, NEW o \in Orders, Cancel(o)
  PROVE  FeedInvariant'
<1> USE InvariantParts
<1>1. /\ view = "orders" /\ shown.status = "ready" /\ shown.value[o] # "absent"
      /\ UNCHANGED <<world, channel, view, mounted, loads, current, announced>>
      /\ UNCHANGED <<deposit, faults>> /\ UNCHANGED log
  BY DEF Cancel, world
<1> PICK v, x, b : v = shown.value /\ x = v[o] /\ b = shown.base
  OBVIOUS
<1>2. /\ v \in Rows /\ x \in Resting /\ (x = "partially_filled" => PartFilled(o)) /\ b \in 0..MaxSockets
  BY <1>1, ShownRows
<1> PICK w : w = [v EXCEPT ![o] = "absent"]
  OBVIOUS
<1>3. w \in Held /\ w[o] = "absent" /\ \A q \in Orders : q # o => w[q] = v[q]
  <2> PICK y : y = "absent"
    OBVIOUS
  <2>1. y \in {"absent"} \cup Resting /\ (y = "partially_filled" => PartFilled(o))
    OBVIOUS
  <2>2. w = [shown.value EXCEPT ![o] = y]
    OBVIOUS
  <2>3. w \in Held /\ w[o] = y /\ \A q \in Orders : q # o => w[q] = shown.value[q]
    <3>1. RowSet(w, o, y)
      BY <2>1, <2>2 DEF RowSet
    <3>2. view = "orders"
      BY <1>1
    <3>3. w \in Held
      BY <3>1, <3>2, OneRowMoves
    <3>4. w[o] = y
      BY <1>2 DEF Rows
    <3>5. \A q \in Orders : q # o => w[q] = shown.value[q]
      BY <3>1, <3>2, OneRowMoves
    <3> QED BY <3>3, <3>4, <3>5
  <2> QED BY <2>3
<1>4. shown' = [status |-> "ready", value |-> w, base |-> b]
  <2>1. shown' = [shown EXCEPT !.value = w]
    BY <1>2 DEF Cancel
  <2> QED BY <1>1, <2>1, ShownRows
<1> PICK r : r = [stage |-> "sent", removed |-> x, finished |-> FALSE, base |-> b]
  OBVIOUS
<1>5. /\ r \in CancelRecords /\ r.stage = "sent" /\ r.removed = x /\ r.base = b /\ ~r.finished
      /\ cancels' = [cancels EXCEPT ![o] = r]
  <2>1. r \in CancelRecords /\ r.stage = "sent" /\ r.removed = x /\ r.base = b /\ ~r.finished
    BY <1>2 DEF CancelRecords
  <2>2. cancels' = [cancels EXCEPT ![o] = r]
    BY DEF Cancel
  <2> QED BY <2>1, <2>2
<1>6. /\ CancelsFit' /\ cancels'[o] = r /\ (\A q \in Orders : q # o => cancels'[q] = cancels[q])
      /\ InFlight' = InFlight \cup {o}
  <2>1. x # "absent" /\ (r.base # None => loads[r.base].phase = "done")
    BY <1>1, <1>5 DEF ProviderFits
  <2> QED BY <1>1, <1>2, <1>5, <2>1, OneCancelMoves
<1>7. DepositFits'
  BY <1>1, DepositStays DEF LogMoves
<1>8. /\ shown' \in [status : {"loading", "ready", "error"}, value : Held, base : 0..MaxSockets]
      /\ shown'.status = shown.status /\ shown'.base = b /\ shown'.value = w
  BY <1>1, <1>2, <1>3, <1>4
<1>9. ASSUME NEW h, h \in Nat, Since(v, h, InFlight),
             \A q \in InFlight : cancels[q].base = b /\ ~cancels[q].finished =>
               \E m \in h..Len(log) : Live(m, q)
      PROVE  /\ Since(w, h, InFlight')
             /\ \A q \in InFlight' : cancels'[q].base = b /\ ~cancels'[q].finished =>
                  \E m \in h..Len(log) : Live(m, q)
  <2>1. \A q \in Orders : /\ v[q] # "absent" => \E m \in h..Len(log) : Live(m, q)
                          /\ q \notin InFlight /\ v[q] = "absent" => \E m \in h..Len(log) : ~Live(m, q)
    BY <1>1, <1>9 DEF Since
  <2>2. Since(w, h, InFlight')
    BY <1>1, <1>3, <1>6, <2>1 DEF Since
  <2>3. \E m \in h..Len(log) : Live(m, o)
    BY <1>1, <2>1
  <2> QED BY <1>6, <1>9, <2>2, <2>3 DEF InFlight
<1> QED BY <1>1, <1>6, <1>7, <1>8, <1>9, FaultsFit, ShownKeeps

\* What a cancel that is over leaves on screen: the row as it was, or the row put back.
RowBack(o, w, b) ==
  /\ \A q \in Orders : q # o => w[q] = shown.value[q]
  /\ \/ w[o] = shown.value[o] /\ (Over(o) \/ shown.value[o] # "absent")
     \/ w[o] = shown.value[o] /\ shown.base = None
     \/ /\ w[o] # "absent" /\ ~cancels[o].finished
        /\ b = None \/ b = cancels[o].base

\* The cancel of an order is over, and what is on screen is the row it leaves.
LEMMA CancelOver ==
  ASSUME FeedInvariant, NEW o \in Orders, cancels[o].stage # "none",
         cancels' = [cancels EXCEPT ![o] = NoCancel],
         UNCHANGED <<world, channel, view, mounted, loads, current, deposit, announced>>,
         faults' \in faults..MaxFaults,
         NEW w \in Held, NEW b, b \in {shown.base, None}, shown' = [status |-> shown.status, value |-> w, base |-> b],
         RowBack(o, w, b)
  PROVE  FeedInvariant'
<1> USE InvariantParts DEF RowBack
<1>1. UNCHANGED log /\ UNCHANGED <<log, view, loads>> /\ view = "orders"
  BY DEF world, CancelsFit
<1>2. /\ CancelsFit' /\ cancels'[o] = NoCancel /\ (\A q \in Orders : q # o => cancels'[q] = cancels[q])
      /\ InFlight' = InFlight \ {o}
  <2> PICK r : r = NoCancel
    OBVIOUS
  <2>1. /\ r \in CancelRecords /\ r.stage = "none" /\ r.removed = "absent" /\ r.finished = FALSE /\ r.base = None
        /\ cancels' = [cancels EXCEPT ![o] = r]
    BY NoCancelFits
  <2>2. /\ CancelsFit' /\ cancels'[o] = r /\ (\A q \in Orders : q # o => cancels'[q] = cancels[q])
        /\ InFlight' = InFlight \ {o}
    BY <1>1, <2>1, OneCancelMoves
  <2> QED BY <2>2
<1>3. DepositFits'
  BY <1>1, DepositStays DEF LogMoves
<1>4. /\ shown' \in [status : {"loading", "ready", "error"}, value : Held, base : 0..MaxSockets]
      /\ shown'.status = shown.status /\ shown'.base = b /\ shown'.value = w
  <2>1. b \in 0..MaxSockets /\ shown.status \in {"loading", "ready", "error"}
    BY ShownRows, SocketTypes DEF None
  <2> QED BY <2>1
<1> PICK v : v = shown.value
  OBVIOUS
<1>5. ASSUME NEW s, NEW h, s = b, s = shown.base, s # None, h \in Nat, h <= Len(log), Since(v, h, InFlight),
             \A q \in InFlight : cancels[q].base = s /\ ~cancels[q].finished =>
               \E m \in h..Len(log) : Live(m, q)
      PROVE  /\ Since(w, h, InFlight')
             /\ \A q \in InFlight' : cancels'[q].base = s /\ ~cancels'[q].finished =>
                  \E m \in h..Len(log) : Live(m, q)
  <2>1. \A q \in Orders : /\ v[q] # "absent" => \E m \in h..Len(log) : Live(m, q)
                          /\ q \notin InFlight /\ v[q] = "absent" => \E m \in h..Len(log) : ~Live(m, q)
    BY <1>1, <1>5 DEF Since
  <2>2. o \in InFlight
    BY DEF InFlight
  <2>3. /\ w[o] # "absent" => \E m \in h..Len(log) : Live(m, o)
        /\ w[o] = "absent" => \E m \in h..Len(log) : ~Live(m, o)
    <3>1. CASE w[o] = v[o] /\ (Over(o) \/ v[o] # "absent")
      <4>1. Over(o) => ~Live(Len(log), o) /\ Len(log) \in h..Len(log)
        BY <1>5, LogTypes DEF Over, Live, Resting
      <4> QED BY <2>1, <3>1, <4>1
    <3>2. CASE w[o] # "absent" /\ ~cancels[o].finished /\ b = cancels[o].base
      BY <1>5, <2>2, <3>2
    <3> QED BY <1>5, <3>1, <3>2
  <2>4. Since(w, h, InFlight')
    BY <1>1, <1>2, <2>1, <2>3 DEF Since
  <2> QED BY <1>2, <1>5, <2>4 DEF InFlight
<1>6. UNCHANGED <<world, channel, view, mounted, loads, current, announced>>
  OBVIOUS
<1> QED BY <1>2, <1>3, <1>4, <1>5, <1>6, ShownKeeps

LEMMA ShownRecord ==
  ASSUME FeedInvariant, NEW v, NEW b, v = shown.value, b = shown.base
  PROVE  /\ shown = [status |-> shown.status, value |-> v, base |-> b]
         /\ v \in Held
BY ShownRows

LEMMA CancelledKeeps ==
  ASSUME FeedInvariant, NEW o \in Orders, Cancelled(o)
  PROVE  FeedInvariant'
<1> PICK v, b : v = shown.value /\ b = shown.base
  OBVIOUS
<1>1. /\ cancels[o].stage # "none" /\ cancels' = [cancels EXCEPT ![o] = NoCancel]
      /\ UNCHANGED <<world, channel, view, mounted, loads, current, deposit, announced>>
      /\ shown' = shown /\ faults' \in faults..MaxFaults
  BY FaultsFit DEF Cancelled
<1>2. Over(o)
  BY InvariantParts DEF Cancelled, CancelsFit
<1>3. shown' = [status |-> shown.status, value |-> v, base |-> b] /\ v \in Held
  BY <1>1, ShownRecord
<1>4. RowBack(o, v, b)
  BY <1>2 DEF RowBack
<1> QED BY <1>1, <1>3, <1>4, CancelOver

LEMMA CancelFailsKeeps ==
  ASSUME FeedInvariant, NEW o \in Orders, CancelFails(o)
  PROVE  FeedInvariant'
<1> USE InvariantParts
<1> PICK v, b, c : v = shown.value /\ b = shown.base /\ c = cancels[o]
  OBVIOUS
<1>1. /\ c.stage # "none" /\ cancels' = [cancels EXCEPT ![o] = NoCancel]
      /\ UNCHANGED <<world, channel, view, mounted, loads, current, deposit, announced>>
      /\ faults' \in faults..MaxFaults /\ shown' = Restored(o)
  BY FaultsFit DEF CancelFails
<1>2. /\ c \in CancelRecords /\ view = "orders" /\ c.removed # "absent"
      /\ c.removed = "partially_filled" => PartFilled(o)
      /\ c.finished => Over(o)
  BY <1>1 DEF CancelsFit
<1>3. c.removed \in Resting /\ c.finished \in BOOLEAN
  BY <1>2 DEF CancelRecords
<1>4. /\ shown = [status |-> shown.status, value |-> v, base |-> b] /\ v \in Held
      /\ v \in Rows /\ (b # None => shown.status = "ready")
  BY <1>2, ShownRecord, ShownRows
<1>5. CASE shown.status = "ready" /\ v[o] = "absent" /\ ~c.finished
  <2> PICK x, w, d : x = c.removed /\ w = [v EXCEPT ![o] = x] /\ d = IF b = c.base THEN b ELSE None
    OBVIOUS
  <2>1. w \in Held /\ \A q \in Orders : q # o => w[q] = v[q]
    <3>1. RowSet(w, o, x)
      BY <1>2, <1>3 DEF RowSet
    <3> QED BY <1>2, <3>1, OneRowMoves
  <2>2. w[o] # "absent"
    BY <1>2, <1>4 DEF Rows
  <2>3. shown' = [status |-> shown.status, value |-> w, base |-> d]
    <3> PICK l : l = [shown EXCEPT !.value = w]
      OBVIOUS
    <3>1. l = [status |-> shown.status, value |-> w, base |-> b]
      BY <1>4
    <3> PICK m : m = [l EXCEPT !.base = d]
      OBVIOUS
    <3>2. m = [status |-> shown.status, value |-> w, base |-> d]
      BY <3>1
    <3>3. shown' = m
      BY <1>1, <1>5, <3>1 DEF Restored
    <3> QED BY <3>2, <3>3
  <2>4. d \in {shown.base, None} /\ (d = None \/ d = cancels[o].base)
    OBVIOUS
  <2>5. RowBack(o, w, d)
    BY <1>5, <2>1, <2>2, <2>4 DEF RowBack
  <2> QED BY <1>1, <2>1, <2>3, <2>4, <2>5, CancelOver
<1>6. CASE ~(shown.status = "ready" /\ v[o] = "absent" /\ ~c.finished)
  <2>1. shown' = shown
    BY <1>1, <1>6 DEF Restored
  <2>2. shown' = [status |-> shown.status, value |-> v, base |-> b]
    BY <1>4, <2>1
  <2>3. (Over(o) \/ v[o] # "absent") \/ shown.base = None
    BY <1>2, <1>4, <1>6
  <2>4. RowBack(o, v, b)
    BY <2>3 DEF RowBack
  <2> QED BY <1>1, <1>4, <2>2, <2>4, CancelOver
<1> QED BY <1>5, <1>6

LEMMA DepositedKeeps ==
  ASSUME FeedInvariant, Deposited
  PROVE  FeedInvariant'
<1> USE InvariantParts
<1>1. /\ deposit.stage = "answered" /\ shown' = ApplyDeposit /\ view = "account"
      /\ UNCHANGED <<world, channel, view, mounted, loads, current, announced>>
      /\ UNCHANGED <<cancels, faults>> /\ UNCHANGED log
  BY DEF Deposited, DepositFits, world
<1>2. /\ Len(log) \in Nat /\ deposit.at \in 0..Len(log) /\ deposit.made \in 0..MaxDeposits
  BY LogTypes DEF DepositFits
<1>3. DepositFits'
  <2> PICK d : d = [deposit EXCEPT !.stage = "none", !.at = None]
    OBVIOUS
  <2>1. d = [stage |-> "none", at |-> None, made |-> deposit.made]
    BY DEF DepositFits
  <2>2. deposit' = d /\ 0 \in 0..Len(log)
    BY <1>2 DEF Deposited, DepositOver
  <2> QED BY <1>1, <1>2, <2>1, <2>2 DEF DepositFits, None
<1>4. CancelsFit'
  <2>1. LogMoves
    BY <1>1 DEF LogMoves
  <2> QED BY <1>1, <2>1, CancelsStay
<1> PICK v, b, a : v = shown.value /\ b = shown.base /\ a = deposit.at
  OBVIOUS
<1> PICK w, d : /\ w = IF shown.status = "ready" THEN a ELSE v
                /\ d = IF shown.status = "ready" /\ v > a THEN None ELSE b
  OBVIOUS
<1>5. shown = [status |-> shown.status, value |-> v, base |-> b] /\ v \in Held
  BY ShownRecord
<1>6. shown' = [status |-> shown.status, value |-> w, base |-> d]
  <2>1. CASE shown.status = "ready"
    <3> PICK l : l = [shown EXCEPT !.value = w]
      OBVIOUS
    <3>1. l = [status |-> shown.status, value |-> w, base |-> b]
      BY <1>5
    <3> PICK m : m = [l EXCEPT !.base = d]
      OBVIOUS
    <3>2. m = [status |-> shown.status, value |-> w, base |-> d]
      BY <3>1
    <3>3. shown' = m
      BY <1>1, <2>1, <3>1 DEF ApplyDeposit
    <3> QED BY <3>2, <3>3
  <2>2. CASE shown.status # "ready"
    <3>1. shown' = shown /\ w = v /\ d = b
      BY <1>1, <2>2 DEF ApplyDeposit
    <3> QED BY <1>5, <3>1
  <2> QED BY <2>1, <2>2
<1>7. w \in Held /\ Held = 0..Len(log)
  BY <1>1, <1>2, <1>5 DEF Held
<1>8. /\ shown' \in [status : {"loading", "ready", "error"}, value : Held, base : 0..MaxSockets]
      /\ shown'.status = shown.status /\ shown'.base = d /\ shown'.value = w /\ d \in {shown.base, None}
  <2>1. d \in 0..MaxSockets /\ shown.status \in {"loading", "ready", "error"}
    BY ShownRows, SocketTypes DEF None
  <2> QED BY <1>6, <1>7, <2>1
<1>9. ASSUME NEW s, NEW h, s = d, s = b, s # None, h \in Nat, h <= Len(log), Since(v, h, InFlight)
      PROVE  Since(w, h, InFlight')
  <2>1. shown.status = "ready"
    BY <1>9, ShownRows
  <2>2. ~(v > a) /\ w = a
    BY <1>9, <2>1
  <2>3. v \in h..Len(log)
    BY <1>1, <1>9 DEF Since
  <2>4. w \in h..Len(log)
    BY <1>2, <1>9, <2>2, <2>3
  <2> QED BY <1>1, <2>4 DEF Since
<1>10. InFlight' = InFlight /\ InFlight \subseteq Orders
  BY <1>1 DEF InFlight
<1> QED BY <1>1, <1>3, <1>4, <1>8, <1>9, <1>10, FaultsFit, ShownKeeps


-----------------------------------------------------------------------------
(* Every step, and what follows.                                           *)

LEMMA InitFits ==
  ASSUME Init
  PROVE  FeedInvariant
<1>1. LogFits
  <2>1. Len(log) = 0 /\ log \in Seq(LogRecords)
    BY DEF Init
  <2>2. Len(log) <= MaxReplies /\ 0 \in 0..Len(log)
    BY <2>1, FeedAssumption
  <2> QED BY <2>1, <2>2 DEF Init, LogFits
<1>2. BudgetFits
  <2>1. 0 \in 0..MaxFaults /\ MaxFaults \in Nat /\ Len(sockets) = 0
    BY FeedAssumption DEF Init
  <2>2. tickets \in [0..MaxFaults -> Nat] /\ tickets[0] = 1 /\ \A g \in 0..MaxFaults : g # 0 => tickets[g] = 0
    BY <2>1 DEF Init
  <2>3. Waiting = {<<0, 1>>}
    <3>1. Waiting = {t \in (0..MaxFaults) \X {1} : t[1] = 0}
      <4>1. ASSUME NEW g \in 0..MaxFaults, NEW n
            PROVE  n \in 1..tickets[g] <=> g = 0 /\ n = 1
        BY <2>2
      <4> QED BY <4>1 DEF Waiting
    <3> QED BY <2>1, <3>1
  <2>4. IsFiniteSet(Waiting) /\ Cardinality(Waiting) = 1
    BY <2>3, FS_Singleton
  <2> QED BY <2>1, <2>2, <2>4 DEF Init, BudgetFits
<1>3. SocketsFit
  <2>1. Len(sockets) = 0 /\ DOMAIN sockets = {} /\ sockets \in Seq(SocketRecords)
    BY DEF Init
  <2>2. buffer \in Seq(1..Len(log)) /\ MaxSockets \in Nat
    BY FeedAssumption DEF Init, MaxSockets
  <2>3. /\ socket = 0 /\ generation = 0 /\ buffering = FALSE /\ buffer = <<>>
        /\ status = "connecting" /\ resyncs = {}
    BY DEF Init, None
  <2>4. Len(sockets) <= MaxSockets /\ socket \in 0..Len(sockets)
    BY <2>1, <2>2, <2>3
  <2> QED BY <2>1, <2>2, <2>3, <2>4 DEF SocketsFit, None
<1>4. ProviderFits
  <2>1. Nothing \in Held
    BY <1>1, NothingIsHeld
  <2>2. None \in 0..MaxSockets /\ MaxSockets \in Nat /\ 0 \in Calls
    BY FeedAssumption DEF None, MaxSockets, Calls
  <2> PICK n : n = NoLoad
    OBVIOUS
  <2>3. n = [phase |-> "none", value |-> Nothing, base |-> None, mine |-> 0]
    BY DEF NoLoad
  <2> PICK c, a : c = 1 /\ a = [NoLoad EXCEPT !.phase = "asked", !.mine = c]
    OBVIOUS
  <2>4. a = [phase |-> "asked", value |-> Nothing, base |-> None, mine |-> c]
    BY LoadAsked
  <2>5. n \in LoadRecords /\ a \in LoadRecords
    BY <2>1, <2>2, <2>3, <2>4 DEF LoadRecords
  <2>6. loads = [k \in Calls |-> IF mounted /\ k = 0 THEN a ELSE n] /\ mounted \in BOOLEAN
    BY DEF Init
  <2>7. /\ loads \in [Calls -> LoadRecords]
        /\ \A k \in Calls : /\ loads[k].base = None
                            /\ loads[k].phase # "none" => k = 0 /\ mounted
    <3>1. n.base = None /\ n.phase = "none" /\ a.base = None
      BY <2>3, <2>4
    <3>2. CASE mounted
      <4>1. loads = [k \in Calls |-> IF k = 0 THEN a ELSE n]
        BY <2>6, <3>2, Zenon
      <4> QED BY <2>5, <3>1, <3>2, <4>1
    <3>3. CASE ~mounted
      <4>1. loads = [k \in Calls |-> n]
        BY <2>6, <3>3, Zenon
      <4> QED BY <2>5, <3>1, <4>1
    <3> QED BY <3>2, <3>3
  <2>8. 0 \notin 1..MaxSockets /\ 1..MaxSockets \subseteq Calls
    BY <2>2 DEF Calls
  <2>9. /\ shown = [status |-> "loading", value |-> Nothing, base |-> None]
        /\ view \in Views /\ current \in Nat
    BY DEF Init, Empty
  <2> QED BY <2>1, <2>2, <2>6, <2>7, <2>8, <2>9 DEF ProviderFits
<1>5. DepositFits
  <2>1. Len(log) = 0 /\ MaxDeposits \in Nat
    BY FeedAssumption DEF Init
  <2> QED BY <2>1 DEF Init, DepositFits, None
<1>6. NoneTwice
  BY DEF Init, NoneTwice
<1>7. CancelsFit
  <2> PICK r : r = NoCancel
    OBVIOUS
  <2>1. r = [stage |-> "none", removed |-> "absent", finished |-> FALSE, base |-> None]
    BY DEF NoCancel
  <2>2. None \in 0..MaxSockets
    BY FeedAssumption DEF None, MaxSockets
  <2>3. cancels \in [Orders -> CancelRecords] /\ \A o \in Orders : cancels[o] = r
    BY <2>1, <2>2 DEF Init, CancelRecords
  <2> QED BY <2>1, <2>3 DEF CancelsFit
<1>8. Following
  BY DEF Init, Following
<1> QED BY <1>1, <1>2, <1>3, <1>4, <1>5, <1>6, <1>7, <1>8 DEF FeedInvariant

LEMMA StutterKeeps ==
  ASSUME FeedInvariant, UNCHANGED vars
  PROVE  FeedInvariant'
<1>1. /\ UNCHANGED <<world, channel, view, mounted, loads, current, announced>>
      /\ UNCHANGED <<log, view, loads>> /\ UNCHANGED <<shown, cancels, deposit, faults>>
  BY DEF vars, world, screen
<1>2. LogMoves
  BY <1>1 DEF LogMoves
<1>3. DepositFits' /\ CancelsFit'
  BY <1>1, <1>2, InvariantParts, DepositStays, CancelsStay
<1>4. /\ shown' \in [status : {"loading", "ready", "error"}, value : Held, base : 0..MaxSockets]
      /\ faults' \in faults..MaxFaults
  BY <1>1, ShownRows, FaultsFit
<1>5. InFlight' = InFlight
  BY <1>1 DEF InFlight
<1>6. ASSUME NEW s, NEW h, Since(shown.value, h, InFlight),
             \A o \in InFlight : cancels[o].base = s /\ ~cancels[o].finished =>
               \E m \in h..Len(log) : Live(m, o)
      PROVE  /\ Since(shown'.value, h, InFlight')
             /\ \A o \in InFlight' : cancels'[o].base = s /\ ~cancels'[o].finished =>
                  \E m \in h..Len(log) : Live(m, o)
  BY <1>1, <1>5, <1>6
<1> QED BY <1>1, <1>3, <1>4, <1>6, ShownKeeps

\* No action takes the tab out of the invariant.
LEMMA NextKeeps ==
  ASSUME FeedInvariant, [Next]_vars
  PROVE  FeedInvariant'
<1>1. CASE \E o \in Orders, s \in Resting \cup {"filled", "cancelled"} : Reply(o, s)
  BY <1>1, ReplyKeeps
<1>2. CASE Channel
  <2>1. CASE \E g \in 0..MaxFaults : TicketArrives(g)
    BY <2>1, TicketArrivesKeeps
  <2>2. CASE \E k \in DOMAIN sockets : OnOpen(k) \/ OnMessage(k) \/ ResyncEnds(k)
    BY <2>2, OnOpenKeeps, OnMessageKeeps, ResyncEndsKeeps
  <2>3. CASE RetryFires
    BY <2>3, RetryFiresKeeps
  <2> QED BY <1>2, <2>1, <2>2, <2>3 DEF Channel
<1>3. CASE Answers
  BY <1>3, ReadRowsKeeps, ReadStoreKeeps, LandKeeps DEF Answers
<1>4. CASE Failures
  <2>1. CASE \E k \in Calls : LoadFails(k)
    BY <2>1, LoadFailsKeeps
  <2>2. CASE \E g \in 0..MaxFaults : TicketFails(g)
    BY <2>2, TicketFailsKeeps
  <2>3. CASE \E k \in DOMAIN sockets : Drops(k)
    BY <2>3, DropsKeeps
  <2> QED BY <1>4, <2>1, <2>2, <2>3 DEF Failures
<1>5. CASE Hide \/ GraceEnds \/ Show
  BY <1>5, HideKeeps, GraceEndsKeeps, ShowKeeps
<1>6. CASE Mount \/ Retry
  BY <1>6, MountKeeps, RetryKeeps
<1>7. CASE \E o \in Orders : Cancel(o) \/ EngineCancels(o) \/ Cancelled(o) \/ CancelFails(o)
  BY <1>7, CancelKeeps, EngineCancelsKeeps, CancelledKeeps, CancelFailsKeeps
<1>8. CASE Deposit \/ Onramp \/ Deposited \/ DepositFails
  BY <1>8, DepositKeeps, OnrampKeeps, DepositedKeeps
<1>9. CASE UNCHANGED vars
  BY <1>9, StutterKeeps
<1> QED BY <1>1, <1>2, <1>3, <1>4, <1>5, <1>6, <1>7, <1>8, <1>9 DEF Next

\* The invariant holds in every state of the tab: user-feed.tsx keeps no replayed
\* event out of order, and no provider shows what is older than what was handed to it.
THEOREM AccountInvariantHolds == Spec => []FeedInvariant
<1>1. Init => FeedInvariant
  BY InitFits
<1>2. FeedInvariant /\ [Next]_vars => FeedInvariant'
  BY NextKeeps
<1> QED BY <1>1, <1>2, PTL DEF Spec

LEMMA TypesFollow ==
  ASSUME FeedInvariant
  PROVE  TypeOK
<1> USE InvariantParts
<1>1. /\ log \in Seq([order : Orders \cup {NoOrder},
                      status : Resting \cup {"filled", "cancelled", "deposit"}])
      /\ published \in 0..Len(log) /\ written \in 0..Len(log) /\ Len(log) <= MaxReplies
      /\ Len(log) \in Nat /\ MaxReplies \in Nat
  BY FeedAssumption, LogTypes DEF LogFits, LogRecords
<1>2. generation \in 0..MaxFaults /\ 0..generation \subseteq 0..MaxFaults
  BY FeedAssumption DEF BudgetFits
<1>3. sockets \in Seq([state : {"opening", "open", "closed"}, mine : 0..MaxFaults,
                       got : 0..Len(log), full : BOOLEAN])
  <2> DEFINE R == [state : {"opening", "open", "closed"}, mine : 0..MaxFaults, got : 0..Len(log),
                   full : BOOLEAN]
  <2>1. sockets \in Seq(SocketRecords) /\ SocketRecords \subseteq R
    BY <1>2 DEF SocketsFit, SocketRecords
  <2> HIDE DEF R
  <2>2. sockets \in Seq(R)
    BY <2>1
  <2> QED BY <2>2 DEF R
<1>4. buffer \in Seq(Replies)
  <2>1. buffer \in Seq(1..Len(log)) /\ 1..Len(log) \subseteq Replies
    BY <1>1 DEF SocketsFit, Replies
  <2> HIDE DEF Replies
  <2> QED BY <2>1
<1>5. /\ Len(sockets) <= MaxSockets /\ socket \in 0..Len(sockets)
      /\ buffering \in BOOLEAN /\ resyncs \subseteq DOMAIN sockets
      /\ status \in {"connecting", "syncing", "live", "reconnecting", "disconnected"}
  BY DEF SocketsFit
<1>6. /\ tickets \in [0..MaxFaults -> Nat]
      /\ retryTimer \in BOOLEAN /\ timers \in Nat /\ (retryTimer => timers > 0)
      /\ tab \in {"shown", "grace", "hidden"} /\ faults \in 0..MaxFaults
  BY DEF BudgetFits
<1>7. /\ view \in Views /\ mounted \in BOOLEAN
      /\ shown.status \in {"loading", "ready", "error"} /\ shown.base \in 0..MaxSockets
      /\ shown.value \in Held
  BY DEF ProviderFits
<1>8. shown.value \in (IF view = "orders" THEN Rows ELSE 0..Len(log))
  BY <1>7 DEF Held
<1>9. cancels \in [Orders -> [stage : {"none", "sent", "accepted", "refused"},
                              removed : {"absent"} \cup Resting, finished : BOOLEAN,
                              base : 0..MaxSockets]]
  BY DEF CancelsFit, CancelRecords
<1>10. deposit \in [stage : {"none", "sent", "answered"}, at : 0..Len(log),
                    made : 0..MaxDeposits]
  BY DEF DepositFits
<1> QED BY <1>1, <1>2, <1>3, <1>4, <1>5, <1>6, <1>7, <1>8, <1>9, <1>10 DEF TypeOK

\* The tab is well typed, and within its budget: no more sockets, generations or
\* tickets than the faults it has met account for (user-feed.tsx:190-328).
THEOREM AccountFeedIsTyped == Spec => []TypeOK
<1>1. FeedInvariant => TypeOK
  BY TypesFollow
<1> QED BY <1>1, AccountInvariantHolds, PTL

\* One socket of the generation, and it is the one of the variable.
LEMMA NotRaced ==
  ASSUME FeedInvariant, ~Raced, socket # None
  PROVE  Alone
<1> USE InvariantParts
<1> DEFINE S == {k \in DOMAIN sockets : sockets[k].mine = generation}
<1>1. Len(sockets) \in Nat /\ DOMAIN sockets = 1..Len(sockets) /\ socket \in S
  BY SocketTypes DEF SocketsFit, None
<1>2. IsFiniteSet(S) /\ Cardinality(S) \in Nat /\ Cardinality(S) <= 1
  <2>1. IsFiniteSet(1..Len(sockets)) /\ S \subseteq 1..Len(sockets)
    BY <1>1, FS_Interval
  <2>2. IsFiniteSet(S)
    BY <2>1, FS_Subset
  <2>3. Cardinality(S) \in Nat
    BY <2>2, FS_CardinalityType
  <2> HIDE DEF S
  <2>4. ~(Cardinality(S) > 1)
    BY DEF Raced, S
  <2> QED BY <2>2, <2>3, <2>4
<1>3. ASSUME NEW k \in S, k # socket
      PROVE  FALSE
  <2> HIDE DEF S
  <2>1. IsFiniteSet({k}) /\ Cardinality({k}) = 1
    BY FS_Singleton
  <2> PICK m : m = socket
    OBVIOUS
  <2>2. /\ IsFiniteSet({k} \cup {m})
        /\ Cardinality({k} \cup {m}) = IF m \in {k} THEN Cardinality({k}) ELSE Cardinality({k}) + 1
    BY <2>1, FS_AddElement
  <2>3. {k} \cup {m} \subseteq S
    BY <1>1, <1>3
  <2>4. Cardinality({k} \cup {m}) <= Cardinality(S)
    BY <1>2, <2>3, FS_Subset
  <2>5. Cardinality({k} \cup {m}) = 2
    BY <1>3, <2>1, <2>2
  <2> QED BY <1>2, <2>4, <2>5
<1> QED BY <1>3 DEF Alone

LEMMA ScreenFollows ==
  ASSUME FeedInvariant
  PROVE  ScreenSettles
<1> USE InvariantParts
<1> SUFFICES ASSUME Quiet, ~Raced, ~sockets[socket].full, shown.status = "ready", shown.base = socket
             PROVE  OnScreen = Truth
  BY DEF ScreenSettles
<1>1. socket # None /\ ~buffering /\ buffer = <<>> /\ Len(log) \in Nat
  BY SocketTypes DEF Quiet, SocketsFit
<1>2. Handed = Len(log)
  <2>1. Len(buffer) = 0
    BY <1>1
  <2> QED BY <1>1, <2>1 DEF Handed, Quiet
<1>3. Since(shown.value, Len(log), InFlight)
  BY <1>1, <1>2, NotRaced DEF Following, Abreast
<1>4. InFlight = {}
  BY DEF Quiet, InFlight
<1>5. \A m \in Len(log)..Len(log) : m = Len(log)
  BY <1>1
<1>6. CASE view = "orders"
  <2>1. \A o \in Orders : shown.value[o] # "absent" <=> Live(Len(log), o)
    BY <1>3, <1>4, <1>5, <1>6 DEF Since
  <2> QED BY <1>6, <2>1 DEF OnScreen, Truth, Live
<1>7. CASE view # "orders"
  BY <1>1, <1>3, <1>7 DEF Since, OnScreen, Truth
<1> QED BY <1>6, <1>7

\* What the resync of the connection has loaded, with what was buffered and came
\* after it, is what the engine holds once nothing is under way, whatever the lag of
\* the channel, the cancels that failed and the loads that came late (user-feed.tsx:216-241
\* and 312-324, user-feed-core.ts, orders.tsx, positions.tsx, account.tsx).
THEOREM ResyncedScreenSettles == Spec => []ScreenSettles
<1>1. FeedInvariant => ScreenSettles
  BY ScreenFollows
<1> QED BY <1>1, AccountInvariantHolds, PTL

\* No fill is announced twice, though drains replay it and two sockets may carry it
\* (fill-notifications.tsx remembers what it has announced).
THEOREM FillsAreAnnouncedOnce == Spec => []AnnouncedOnce
<1>1. FeedInvariant => AnnouncedOnce
  BY InvariantParts DEF NoneTwice, AnnouncedOnce
<1> QED BY <1>1, AccountInvariantHolds, PTL
=============================================================================
