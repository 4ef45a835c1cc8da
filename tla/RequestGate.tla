---------------------------- MODULE RequestGate ----------------------------
(***************************************************************************)
(* The market maker's HTTP client: apps/market-maker/src/services          *)
(* api-client.ts.  Every request takes a slot of a gate that admits `limit`*)
(* of them.  A request that is answered 401 signs in, once for all that are*)
(* refused together, and is then made again through the gate, while it     *)
(* still holds the slot of its first attempt.                              *)
(*                                                                         *)
(* JavaScript runs one continuation at a time; a step here is the run of   *)
(* one continuation, from one await to the next.                           *)
(***************************************************************************)
EXTENDS Integers, Sequences, FiniteSets

CONSTANTS
  Calls,        \* the requests that get, post and del are called for
  Limit,        \* createGate(concurrency)
  MaxExpiries,  \* bound: how often the backend forgets its sessions
  MaxBreaks     \* bound: fetches that throw

ASSUME GateAssumption ==
  /\ IsFiniteSet(Calls)
  /\ Limit \in Nat \ {0}
  /\ MaxExpiries \in Nat /\ MaxBreaks \in Nat

VARIABLES
  active,   \* createGate: tasks admitted
  waiting,  \* createGate: who waits for a slot, in order
  pc,       \* call -> the await it is at
  carried,  \* call -> the cookie its last fetch carried
  result,   \* call -> what it settled with
  cookie,   \* the jar: a session of the backend, or None
  userId,   \* a sign-in has gone through since the process started
  signIn,   \* pendingSignIn: the await signIn is at
  session,  \* the backend: the session it accepts
  account,  \* the backend: the bot has signed up
  breaks    \* fetches that have thrown

gate   == <<active, waiting>>
calls  == <<pc, carried, result>>
jar    == <<cookie, userId, signIn>>
server == <<session, account>>
gateVars == <<gate, calls, jar, server, breaks>>

None == 0
Sessions == 1..MaxExpiries + 1

GateInit ==
  /\ active = 0 /\ waiting = <<>>
  /\ pc = [c \in Calls |-> "idle"]
  /\ carried = [c \in Calls |-> None]
  /\ result = [c \in Calls |-> "none"]
  /\ cookie = None /\ userId = FALSE /\ signIn = "none"
  /\ session = 1 /\ account \in BOOLEAN
  /\ breaks = 0

-----------------------------------------------------------------------------
(* The gate.                                                               *)

\* A call comes to the gate: it goes in and sends at once, or it queues.
Ask(c, queued, sent) ==
  IF active >= Limit
    THEN /\ waiting' = Append(waiting, c)
         /\ pc' = [pc EXCEPT ![c] = queued]
         /\ UNCHANGED <<active, carried>>
    ELSE /\ active' = active + 1
         /\ pc' = [pc EXCEPT ![c] = sent]
         /\ carried' = [carried EXCEPT ![c] = cookie]
         /\ UNCHANGED waiting

\* Its promise is resolved and its continuation runs: it does not look again.
WakeAs(c, woken, sent) ==
  /\ pc[c] = woken
  /\ active' = active + 1
  /\ pc' = [pc EXCEPT ![c] = sent]
  /\ carried' = [carried EXCEPT ![c] = cookie]
  /\ UNCHANGED <<waiting, result, jar, server, breaks>>

Wake(c) == WakeAs(c, "woken", "sent") \/ WakeAs(c, "wokenAgain", "sentAgain")

\* A mutant of LeavesTo: the slot is given back and nobody is told.
LeavesToSilently(c, next) ==
  /\ active' = active - 1
  /\ UNCHANGED waiting
  /\ pc' = [pc EXCEPT ![c] = next]

\* The finally of a task: the slot is given back and the first waiter's promise resolved.
LeavesTo(c, next) ==
  /\ active' = active - 1
  /\ IF waiting = <<>>
       THEN /\ UNCHANGED waiting
            /\ pc' = [pc EXCEPT ![c] = next]
       ELSE /\ waiting' = Tail(waiting)
            /\ pc' = [pc EXCEPT ![c] = next,
                                ![Head(waiting)] = IF @ = "queued" THEN "woken" ELSE "wokenAgain"]

-----------------------------------------------------------------------------
(* request.                                                                *)

Call(c) ==
  /\ userId
  /\ pc[c] = "idle"
  /\ Ask(c, "queued", "sent")
  /\ UNCHANGED <<result, jar, server, breaks>>

\* The backend accepts the session the request carried.
Accepted(c) ==
  /\ pc[c] = "sent" /\ carried[c] = session
  /\ result' = [result EXCEPT ![c] = "ok"]
  /\ LeavesTo(c, "done")
  /\ UNCHANGED <<carried, jar, server, breaks>>

\* ensureSession, the jar being empty: one sign-in for everybody.
JoinSignIn == signIn' = IF signIn = "none" THEN "signin" ELSE signIn

\* It does not: the jar is emptied, whoever has filled it in the meantime.
Refused(c) ==
  /\ pc[c] = "sent" /\ carried[c] # session
  /\ cookie' = None
  /\ JoinSignIn
  /\ pc' = [pc EXCEPT ![c] = "signing"]
  /\ UNCHANGED <<gate, carried, result, userId, server, breaks>>

\* The nested call of request asks for a slot of its own.
Retry(c) ==
  /\ pc[c] = "retrying"
  /\ Ask(c, "queuedAgain", "sentAgain")
  /\ UNCHANGED <<result, jar, server, breaks>>

\* A mutant of RetryAnswered: the answer to the retry settles the call, and the slot of
\* the first attempt is never given back.
RetryAnsweredOnce(c) ==
  /\ pc[c] = "sentAgain"
  /\ result' = [result EXCEPT ![c] = IF carried[c] = session THEN "ok" ELSE "refused"]
  /\ LeavesTo(c, "done")
  /\ UNCHANGED <<carried, jar, server, breaks>>

\* The retry is answered, and leaves the gate; the first attempt is still in it.
RetryAnswered(c) ==
  /\ pc[c] = "sentAgain"
  /\ result' = [result EXCEPT ![c] = IF carried[c] = session THEN "ok" ELSE "refused"]
  /\ LeavesTo(c, "unwinding")
  /\ UNCHANGED <<carried, jar, server, breaks>>

\* The finally of the first attempt.
Unwind(c) ==
  /\ pc[c] = "unwinding"
  /\ LeavesTo(c, "done")
  /\ UNCHANGED <<carried, result, jar, server, breaks>>

\* fetch throws.
Breaks(c) ==
  /\ breaks < MaxBreaks
  /\ breaks' = breaks + 1
  /\ result' = [result EXCEPT ![c] = "broken"]
  /\ \/ pc[c] = "sent" /\ LeavesTo(c, "done")
     \/ pc[c] = "sentAgain" /\ LeavesTo(c, "unwinding")
  /\ UNCHANGED <<carried, jar, server>>

-----------------------------------------------------------------------------
(* signIn, which does not go through the gate.                             *)

\* index.ts signs in before anything else runs, and starts over if that fails.
Boot ==
  /\ ~userId /\ signIn = "none"
  /\ signIn' = "signin"
  /\ UNCHANGED <<gate, calls, cookie, userId, server, breaks>>

\* POST /signin is answered: the cookie is in the jar before the body is read.
SignInAnswered ==
  /\ signIn = "signin"
  /\ IF account
       THEN signIn' = "body" /\ cookie' = session
       ELSE signIn' = "signup" /\ UNCHANGED cookie
  /\ UNCHANGED <<gate, calls, userId, server, breaks>>

SignUpAnswered ==
  /\ signIn = "signup"
  /\ account' = TRUE
  /\ signIn' = "body" /\ cookie' = session
  /\ UNCHANGED <<gate, calls, userId, session, breaks>>

\* Everybody who waits for the sign-in goes on.
SignInEnds ==
  /\ signIn = "body"
  /\ signIn' = "none" /\ userId' = TRUE
  /\ pc' = [c \in Calls |-> IF pc[c] = "signing" THEN "retrying" ELSE pc[c]]
  /\ UNCHANGED <<gate, carried, result, cookie, server, breaks>>

\* The fetch of a sign-in throws, and everybody who waits for it gets the error.
SignInBreaks ==
  /\ signIn # "none"
  /\ breaks < MaxBreaks
  /\ breaks' = breaks + 1
  /\ signIn' = "none"
  /\ pc' = [c \in Calls |-> IF pc[c] = "signing" THEN "unwinding" ELSE pc[c]]
  /\ result' = [c \in Calls |-> IF pc[c] = "signing" THEN "broken" ELSE result[c]]
  /\ UNCHANGED <<gate, carried, cookie, userId, server>>

\* The backend restarts with another secret, or a week has passed.
Expire ==
  /\ session <= MaxExpiries
  /\ session' = session + 1
  /\ UNCHANGED <<gate, calls, jar, account, breaks>>

-----------------------------------------------------------------------------
Proceed(c) ==
  Wake(c) \/ Accepted(c) \/ Refused(c) \/ Retry(c) \/ RetryAnswered(c) \/ Unwind(c)

SigningIn == Boot \/ SignInAnswered \/ SignUpAnswered \/ SignInEnds

GateNext ==
  \/ \E c \in Calls : Call(c) \/ Proceed(c) \/ Breaks(c)
  \/ SigningIn \/ SignInBreaks \/ Expire

\* The event loop runs every continuation that is ready, and the backend
\* answers or the connection fails.  Nobody has to call, and sessions need not expire.
GateSpec ==
  /\ GateInit /\ [][GateNext]_gateVars
  /\ \A c \in Calls : WF_gateVars(Proceed(c))
  /\ WF_gateVars(SigningIn)

-----------------------------------------------------------------------------
(* Properties.                                                             *)

Queued == {c \in Calls : pc[c] \in {"queued", "queuedAgain"}}
Woken  == {c \in Calls : pc[c] \in {"woken", "wokenAgain"}}

\* In the gate with its first attempt, and with its second too.
Inside == {c \in Calls : pc[c] \in {"sent", "signing", "retrying", "queuedAgain", "wokenAgain",
                                    "sentAgain", "unwinding"}}
InsideTwice == {c \in Calls : pc[c] = "sentAgain"}

\* The state is well formed.
GateTypeOK ==
  /\ active \in Nat
  /\ waiting \in Seq(Queued)
  /\ pc \in [Calls -> {"idle", "queued", "woken", "sent", "signing", "retrying", "queuedAgain",
                       "wokenAgain", "sentAgain", "unwinding", "done"}]
  /\ carried \in [Calls -> Sessions \cup {None}]
  /\ result \in [Calls -> {"none", "ok", "refused", "broken"}]
  /\ cookie \in Sessions \cup {None} /\ userId \in BOOLEAN
  /\ signIn \in {"none", "signin", "signup", "body"}
  /\ session \in Sessions /\ account \in BOOLEAN
  /\ breaks \in 0..MaxBreaks

\* No path out of a task forgets its slot or gives it back twice: the counter
\* of the gate is the number of slots taken, a call that is made again taking
\* two of them.  And no wake-up is lost: while a call waits for a slot, every
\* slot is taken or promised to a call whose continuation is about to run, and
\* a call that waits stands in the queue exactly once.
SlotsAreAccounted ==
  /\ active = Cardinality(Inside) + Cardinality(InsideTwice)
  /\ waiting # <<>> => active + Cardinality(Woken) >= Limit
  /\ \A c \in Queued : \E i \in DOMAIN waiting :
       waiting[i] = c /\ \A j \in DOMAIN waiting : waiting[j] = c => j = i

\* Every slot is held by a call that waits for a second one.
Full == Inside # {} /\ \A c \in Inside : pc[c] = "queuedAgain"

\* A call always settles, unless the gate fills up with calls that wait for their second slot.
HangsOnlyWhenFull ==
  \A c \in Calls : pc[c] # "idle" ~> pc[c] = "done" \/ Full
=============================================================================
