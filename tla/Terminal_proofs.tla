-------------------------- MODULE Terminal_proofs --------------------------
(***************************************************************************)
(* Proofs about what a browser tab shows.                                  *)
(*                                                                         *)
(* Session, for any accounts, any number of requests under way and of      *)
(* tokens: the state is well formed; a visitor who is not signed in is     *)
(* taken off a protected page unless they have signed out before; no       *)
(* session's expiry is announced twice; and the name on a settled screen is*)
(* the account the next request acts for.                                  *)
(*                                                                         *)
(* MarketFeed, for any markets, number of updates and failures, and any    *)
(* MAX_BUFFER and MAX_TRADES: what draining the buffer does; the inductive *)
(* invariant, one lemma for each action; and what follows: no print is lost*)
(* but those that fall off the end of the tape, and the book on the screen *)
(* never goes back.                                                        *)
(***************************************************************************)
EXTENDS Session, MarketFeed, FiniteSetTheorems, SequenceTheorems, TLAPS

-----------------------------------------------------------------------------
(* Types.                                                                  *)

Kinds == {"none", "me", "call", "signin", "signout"}
Stages == {"none", "sent", "answered", "body"}
Request == [kind : Kinds, token : Tokens \cup {None}, user : Users \cup {NoOne}, stage : Stages, ok : BOOLEAN,
            session : Nat, spared : BOOLEAN]
Expiry == [session : Nat, by : Nat, spared : BOOLEAN]

\* The backend knows every token the browser has.
Jar == owner \in Seq(Users) /\ cookie \in Tokens \cup {None} /\ dead \subseteq Tokens

\* A sign-in is somebody's, and the probe's good answer is about a token.
Requests ==
  /\ request \in [Slots -> Request]
  /\ \A s \in Slots :
       /\ request[s].kind = "signin" => request[s].user \in Users
       /\ request[s].kind = "me" /\ request[s].ok => request[s].token # None

\* A name is on the screen when the screen says signed in.
Named(s) == s \in States /\ (s.identity # NoOne <=> s.status = "authed")

React == Named(state) /\ Named(shown)

Route ==
  /\ page \in Pages /\ going \in Pages \cup {"none"} /\ atMount \in Nat /\ submitting \in BOOLEAN

Counts ==
  /\ announced \in Nat /\ sessions \in Nat
  /\ said \subseteq Nat /\ ended \subseteq Nat /\ expiry \in Expiry

Notice == Counts /\ parted \in BOOLEAN

TypeInvariant == Jar /\ Requests /\ React /\ Route /\ Notice

LEMMA IdleType == Idle \in Request
BY DEF Idle, Request, Kinds, Stages

LEMMA NoExpiryType == NoExpiry \in Expiry
BY DEF NoExpiry, Expiry

LEMMA BootingNamed == Named(Booting)
BY DEF Booting, Named, States

LEMMA StateTypes ==
  ASSUME NEW s, Named(s)
  PROVE  /\ Named(Anonymous(s))
         /\ Named([Anonymous(s) EXCEPT !.signingOut = TRUE])
         /\ Named([Anonymous(s) EXCEPT !.expired = @ + 1])
         /\ \A u \in Users : /\ Named(SignedIn(s, u))
                             /\ Named(SignedIn([s EXCEPT !.signingOut = FALSE], u))
<1>1. NoOne \notin Users
  BY SessionAssumption
<1>2. s \in States
  BY DEF Named
<1>3. /\ Anonymous(s) \in States
      /\ Anonymous(s).identity = NoOne /\ Anonymous(s).status = "anon"
  BY <1>2 DEF States, Anonymous
<1>4. Named(Anonymous(s))
  BY <1>3 DEF Named
<1>5. Named([Anonymous(s) EXCEPT !.signingOut = TRUE])
  BY <1>3 DEF Named, States
<1>6. Named([Anonymous(s) EXCEPT !.expired = @ + 1])
  BY <1>3 DEF Named, States
<1>7. ASSUME NEW u \in Users, NEW r \in States
      PROVE  Named(SignedIn(r, u))
  <2>1. SignedIn(r, u) \in States /\ SignedIn(r, u).identity = u /\ SignedIn(r, u).status = "authed"
    BY DEF States, SignedIn
  <2> QED  BY <1>1, <2>1 DEF Named
<1>8. [s EXCEPT !.signingOut = FALSE] \in States
  BY <1>2 DEF States
<1> QED  BY <1>2, <1>4, <1>5, <1>6, <1>7, <1>8

\* A request is sent.
LEMMA SentTypes ==
  ASSUME Jar, Requests, NEW s \in Slots, NEW kind \in Kinds, NEW u \in Users \cup {NoOne},
         kind = "signin" => u \in Users, request' = Sent(s, kind, u), UNCHANGED jar, sessions \in Nat
  PROVE  Jar' /\ Requests'
<1> DEFINE r == [kind |-> kind, token |-> cookie, user |-> u, stage |-> "sent", ok |-> FALSE,
                 session |-> IF kind = "call" THEN sessions ELSE 0, spared |-> FALSE]
<1>1. Jar' /\ Request' = Request
  BY DEF Jar, jar, Tokens, Request
<1>2. r \in Request
  BY DEF Jar, Request, Stages
<1>3. request' = [request EXCEPT ![s] = r]
  BY DEF Sent
<1>4. request' \in [Slots -> Request]
  BY <1>2, <1>3 DEF Requests
<1>5. r.kind = kind /\ r.user = u /\ r.ok = FALSE
  OBVIOUS
<1> HIDE DEF r
<1> QED  BY <1>1, <1>3, <1>4, <1>5 DEF Requests

\* A request ends, others perhaps with it; what an abort does not reach it marks.
LEMMA ClearedTypes ==
  ASSUME Jar, Requests, UNCHANGED jar, NEW f, request' = [t \in Slots |-> f[t]],
         \A t \in Slots : f[t] \in {Idle, request[t], [request[t] EXCEPT !.spared = TRUE]}
  PROVE  Jar' /\ Requests'
<1>1. Jar' /\ Request' = Request
  BY DEF Jar, jar, Tokens, Request
<1>2. \A t \in Slots :
        /\ f[t] \in Request
        /\ \/ f[t] = Idle
           \/ /\ f[t].kind = request[t].kind /\ f[t].user = request[t].user
              /\ f[t].ok = request[t].ok /\ f[t].token = request[t].token
  <2> TAKE t \in Slots
  <2>1. request[t] \in Request
    BY DEF Requests
  <2> DEFINE r == [request[t] EXCEPT !.spared = TRUE]
  <2>2. r \in Request /\ r.kind = request[t].kind /\ r.user = request[t].user
        /\ r.ok = request[t].ok /\ r.token = request[t].token
    BY <2>1 DEF Request
  <2>3. f[t] = Idle \/ f[t] = request[t] \/ f[t] = r
    OBVIOUS
  <2> HIDE DEF r
  <2> QED  BY <2>1, <2>2, <2>3, IdleType, Zenon
<1>3. request' \in [Slots -> Request]
  BY <1>2
<1>4. Idle.kind = "none"
  BY DEF Idle
<1>5. \A t \in Slots : request'[t] = f[t]
  OBVIOUS
<1> QED  BY <1>1, <1>2, <1>3, <1>4, <1>5 DEF Requests

LEMMA ClearTypes ==
  ASSUME Jar, Requests, NEW s \in Slots, UNCHANGED jar, request' = [request EXCEPT ![s] = Idle]
  PROVE  Jar' /\ Requests'
<1> DEFINE f == [t \in Slots |-> IF t = s THEN Idle ELSE request[t]]
<1>1. request' = [t \in Slots |-> f[t]]
  BY DEF Requests
<1>2. \A t \in Slots : f[t] \in {Idle, request[t], [request[t] EXCEPT !.spared = TRUE]}
  OBVIOUS
<1> HIDE DEF f
<1> QED  BY <1>1, <1>2, ClearedTypes

\* The backend answers: the tokens it knows of only grow.
LEMMA AnsweredTypes ==
  ASSUME Jar, Requests, NEW s \in Slots, NEW ok \in BOOLEAN, NEW token,
         owner' \in Seq(Users), Len(owner') >= Len(owner), UNCHANGED <<cookie, dead>>,
         token \in (Tokens \cup {None})', request[s].kind = "me" /\ ok => token # None,
         Answered(s, ok, token)
  PROVE  Jar' /\ Requests'
<1>1. Len(owner) \in Nat /\ Len(owner') \in Nat
  BY DEF Jar
<1>2. Tokens \subseteq Tokens'
  BY <1>1 DEF Tokens
<1>3. Jar'
  BY <1>2 DEF Jar
<1>4. \A t \in Slots : request[t] \in Request'
  BY <1>2 DEF Requests, Request
<1> DEFINE r == [request[s] EXCEPT !.stage = "answered", !.ok = ok, !.token = token]
<1>5. r \in Request' /\ r.kind = request[s].kind /\ r.user = request[s].user /\ r.ok = ok /\ r.token = token
  BY <1>4 DEF Request, Stages
<1>6. request' = [request EXCEPT ![s] = r]
  BY DEF Answered
<1> HIDE DEF r
<1>7. request' = [t \in Slots |-> IF t = s THEN r ELSE request[t]]
  BY <1>6 DEF Requests
<1>8. request' \in [Slots -> Request']
  BY <1>4, <1>5, <1>7
<1> QED  BY <1>3, <1>5, <1>7, <1>8 DEF Requests

LEMMA InitTypes == Init => TypeInvariant
<1> SUFFICES ASSUME Init PROVE TypeInvariant
  OBVIOUS
<1>1. Jar
  <2>1. CASE \E u \in Users : cookie = 1 /\ owner = <<u>>
    BY <2>1 DEF Init, Jar, Tokens
  <2>2. CASE cookie = None /\ owner = <<>>
    BY <2>2 DEF Init, Jar
  <2> QED  BY <2>1, <2>2 DEF Init
<1>2. Requests
  <2>1. PICK s \in Slots : request = [[t \in Slots |-> Idle] EXCEPT ![s] =
                             [Idle EXCEPT !.kind = "me", !.token = cookie, !.stage = "sent"]]
    BY DEF Init
  <2> DEFINE r == [Idle EXCEPT !.kind = "me", !.token = cookie, !.stage = "sent"]
  <2>2. r \in Request /\ r.ok = FALSE /\ r.kind = "me"
    BY <1>1 DEF Jar, Idle, Request, Kinds, Stages
  <2>3. Idle.kind = "none"
    BY DEF Idle
  <2> HIDE DEF r
  <2>4. request = [t \in Slots |-> IF t = s THEN r ELSE Idle]
    BY <2>1 DEF r
  <2> QED  BY <2>2, <2>3, <2>4, IdleType DEF Requests
<1>3. React /\ Route /\ Notice
  BY BootingNamed, NoExpiryType DEF Init, React, Route, Notice, Counts
<1> QED  BY <1>1, <1>2, <1>3 DEF TypeInvariant
-----------------------------------------------------------------------------
(* The page.                                                               *)

LEMMA ReloadTypes ==
  ASSUME TypeInvariant, Reload
  PROVE  TypeInvariant'
<1>1. Jar' /\ Request' = Request /\ cookie \in Tokens \cup {None}
  BY DEF TypeInvariant, Reload, jar, Jar, Tokens, Request
<1>2. Requests'
  <2>1. PICK s \in Slots : request' = [[t \in Slots |-> Idle] EXCEPT ![s] =
                             [Idle EXCEPT !.kind = "me", !.token = cookie, !.stage = "sent"]]
    BY DEF Reload
  <2> DEFINE r == [Idle EXCEPT !.kind = "me", !.token = cookie, !.stage = "sent"]
  <2>2. r \in Request /\ r.ok = FALSE /\ r.kind = "me"
    BY <1>1 DEF Idle, Request, Kinds, Stages
  <2>3. Idle.kind = "none"
    BY DEF Idle
  <2> HIDE DEF r
  <2>4. request' = [t \in Slots |-> IF t = s THEN r ELSE Idle]
    BY <2>1 DEF r
  <2> QED  BY <1>1, <2>2, <2>3, <2>4, IdleType DEF Requests
<1>3. React' /\ Route' /\ Notice'
  BY BootingNamed, NoExpiryType DEF TypeInvariant, Reload, React, Named, States, Route, Notice, Counts
<1> QED  BY <1>1, <1>2, <1>3 DEF TypeInvariant

\* Jar and Requests depend on their own variables only, and so do the others.
LEMMA JarUnchanged ==
  ASSUME Jar, Requests, UNCHANGED <<jar, request>>
  PROVE  Jar' /\ Requests'
BY DEF Jar, jar, Requests, Request, Tokens

LEMMA ShownCounts ==
  ASSUME Counts, NEW s, s.expired \in Nat, Shows(s), UNCHANGED sessions
  PROVE  Counts'
<1>1. expiry.session \in Nat
  BY DEF Counts, Expiry
<1> QED  BY <1>1, NoExpiryType DEF Counts, Shows

LEMMA RenderTypes ==
  ASSUME TypeInvariant, Render
  PROVE  TypeInvariant'
<1>1. Jar' /\ Requests'
  BY JarUnchanged DEF TypeInvariant, Render
<1>2. React' /\ state.expired \in Nat
  BY DEF TypeInvariant, Render, Shows, React, Named, States
<1>3. Notice'
  BY <1>2, ShownCounts DEF TypeInvariant, Render, Notice
<1>4. Route'
  BY DEF TypeInvariant, Render, Route, Pages
<1> QED  BY <1>1, <1>2, <1>3, <1>4 DEF TypeInvariant

LEMMA NavigateTypes ==
  ASSUME TypeInvariant, Navigate
  PROVE  TypeInvariant'
<1>1. Jar' /\ Requests'
  BY JarUnchanged DEF TypeInvariant, Navigate
<1>2. React' /\ shown.expired \in Nat
  BY DEF TypeInvariant, Navigate, react, React, Named, States
<1>3. Notice'
  BY DEF TypeInvariant, Navigate, notice, past, Notice, Counts
<1>4. Route'
  BY <1>2 DEF TypeInvariant, Navigate, Route, Pages
<1> QED  BY <1>1, <1>2, <1>3, <1>4 DEF TypeInvariant

LEMMA ClickTypes ==
  ASSUME TypeInvariant, NEW p \in Pages, Click(p)
  PROVE  TypeInvariant'
<1>1. Jar' /\ Requests'
  BY JarUnchanged DEF TypeInvariant, Click
<1> QED  BY <1>1 DEF TypeInvariant, Click, react, React, Named, States, notice, past, Notice, Counts, Route

LEMMA ExpireTypes ==
  ASSUME TypeInvariant, Expire
  PROVE  TypeInvariant'
<1>1. Jar' /\ Requests'
  BY DEF TypeInvariant, Expire, Jar, Requests, Request, Tokens
<1> QED  BY <1>1 DEF TypeInvariant, Expire, react, React, Named, States, notice, past, Notice, Counts, route, Route

-----------------------------------------------------------------------------
(* What is sent, and the backend.                                          *)

LEMMA CallTypes ==
  ASSUME TypeInvariant, NEW s \in Slots, Call(s)
  PROVE  TypeInvariant'
<1>1. Jar' /\ Requests'
  BY SentTypes DEF TypeInvariant, Call, Kinds, Notice, Counts
<1> QED  BY <1>1 DEF TypeInvariant, Call, react, React, Named, States, notice, past, Notice, Counts, route, Route

LEMMA SubmitTypes ==
  ASSUME TypeInvariant, NEW s \in Slots, NEW u \in Users, Submit(s, u)
  PROVE  TypeInvariant'
<1>1. Jar' /\ Requests'
  BY SentTypes DEF TypeInvariant, Submit, Kinds, Notice, Counts
<1> QED  BY <1>1 DEF TypeInvariant, Submit, react, React, Named, States, notice, past, Notice, Counts, route, Route

LEMMA SignOutTypes ==
  ASSUME TypeInvariant, NEW s \in Slots, SignOut(s)
  PROVE  TypeInvariant'
<1>1. Jar' /\ Requests'
  BY SentTypes DEF TypeInvariant, SignOut, Kinds, Notice, Counts
<1>2. Named([Anonymous(state) EXCEPT !.signingOut = TRUE])
  BY StateTypes DEF TypeInvariant, React
<1>3. state' = [Anonymous(state) EXCEPT !.signingOut = TRUE] /\ shown' = state'
  BY DEF SignOut, Shows
<1>4. React' /\ state'.expired \in Nat
  BY <1>2, <1>3 DEF React, Named, States
<1>5. Notice'
  <2>1. Shows(state') /\ UNCHANGED sessions
    BY <1>3 DEF SignOut
  <2>2. Counts'
    BY <1>4, <2>1, ShownCounts DEF TypeInvariant, Notice
  <2> QED  BY <2>2 DEF SignOut, TypeInvariant, Notice
<1> QED  BY <1>1, <1>4, <1>5 DEF TypeInvariant, SignOut, route, Route

LEMMA BackendKeepsRequests ==
  ASSUME Jar, Requests, NEW s \in Slots, Authenticate(s) \/ IssueToken(s) \/ ClearToken(s)
  PROVE  Jar' /\ Requests'
<1>1. request[s] \in Request /\ Len(owner) \in Nat /\ UNCHANGED <<cookie, dead>>
  <2>1. UNCHANGED cookie /\ UNCHANGED dead
    BY DEF Authenticate, IssueToken, ClearToken, jar
  <2> QED  BY <2>1 DEF Jar, Requests
<1>2. UNCHANGED owner => owner' \in Seq(Users) /\ Len(owner') >= Len(owner) /\ Tokens' = Tokens
  BY <1>1 DEF Jar, Tokens
<1>3. CASE Authenticate(s)
  <2> DEFINE ok == request[s].token # None /\ request[s].token \notin dead
             token == IF request[s].kind = "me" THEN request[s].token ELSE None
  <2>1. ok \in BOOLEAN
    OBVIOUS
  <2>2. Answered(s, ok, token) /\ UNCHANGED owner
    BY <1>3 DEF Authenticate, jar
  <2>3. request[s].kind = "me" /\ ok => token # None
    OBVIOUS
  <2>4. token \in Tokens \cup {None}
    BY <1>1 DEF Request
  <2> HIDE DEF ok, token
  <2> QED  BY <1>1, <1>2, <2>1, <2>2, <2>3, <2>4, AnsweredTypes
<1>4. CASE IssueToken(s)
  <2>1. CASE owner' = Append(owner, request[s].user) /\ Answered(s, TRUE, Len(owner) + 1)
    <3>1. request[s].user \in Users /\ request[s].kind = "signin"
      BY <1>4 DEF Requests, IssueToken
    <3>2. owner' \in Seq(Users) /\ Len(owner') = Len(owner) + 1
      BY <2>1, <3>1 DEF Jar
    <3>3. Len(owner) + 1 \in (Tokens \cup {None})'
      BY <1>1, <3>2 DEF Tokens
    <3>4. Len(owner') >= Len(owner)
      BY <1>1, <3>2
    <3>5. ~(request[s].kind = "me")
      BY <3>1
    <3> QED  BY <1>1, <2>1, <3>2, <3>3, <3>4, <3>5, AnsweredTypes
  <2>2. CASE UNCHANGED owner /\ Answered(s, FALSE, None)
    BY <1>1, <1>2, <2>2, AnsweredTypes
  <2> QED  BY <1>4, <2>1, <2>2 DEF IssueToken
<1>5. CASE ClearToken(s)
  <2>1. Answered(s, TRUE, None) /\ UNCHANGED owner /\ request[s].kind = "signout"
    BY <1>5 DEF ClearToken, jar
  <2>2. ~(request[s].kind = "me")
    BY <2>1
  <2> QED  BY <1>1, <1>2, <2>1, <2>2, AnsweredTypes
<1> QED  BY <1>3, <1>4, <1>5

LEMMA BackendTypes ==
  ASSUME TypeInvariant, NEW s \in Slots, Authenticate(s) \/ IssueToken(s) \/ ClearToken(s)
  PROVE  TypeInvariant'
<1>1. Jar' /\ Requests'
  BY BackendKeepsRequests DEF TypeInvariant
<1>2. UNCHANGED <<react, route, notice, past, sessions, parted>>
  BY DEF Authenticate, IssueToken, ClearToken
<1> QED  BY <1>1, <1>2 DEF TypeInvariant, react, React, Named, States, notice, past, Notice, Counts, route, Route

LEMMA HeadersTypes ==
  ASSUME TypeInvariant, NEW s \in Slots, Headers(s)
  PROVE  TypeInvariant'
<1>1. Jar /\ Requests /\ request[s] \in Request
  BY DEF TypeInvariant, Requests
<1>2. cookie' \in Tokens \cup {None}
  BY <1>1 DEF Headers, Jar, Request
<1>3. Jar' /\ Request' = Request
  BY <1>1, <1>2 DEF Headers, Jar, Tokens, Request
<1> DEFINE r == [request[s] EXCEPT !.stage = "body"]
<1>4. r \in Request /\ r.kind = request[s].kind /\ r.user = request[s].user /\ r.ok = request[s].ok
      /\ r.token = request[s].token
  BY <1>1 DEF Request, Stages
<1>5. request' = [t \in Slots |-> IF t = s THEN r ELSE request[t]]
  BY <1>1 DEF Headers, Requests
<1> HIDE DEF r
<1>6. Requests'
  BY <1>1, <1>3, <1>4, <1>5 DEF Requests
<1> QED  BY <1>3, <1>6 DEF TypeInvariant, Headers, react, React, Named, States, notice, past, Notice, Counts, route, Route

-----------------------------------------------------------------------------
(* The answers.                                                            *)

LEMMA EndsTypes ==
  ASSUME TypeInvariant, NEW s \in Slots, Ends(s)
  PROVE  /\ Named(state') /\ (going' = going \/ going' \in Pages)
         /\ expiry' \in Expiry /\ ended' \subseteq Nat
<1>0. /\ React /\ expiry \in Expiry /\ ended \subseteq Nat /\ sessions \in Nat
      /\ request[s].session \in Nat /\ request[s].spared \in BOOLEAN
  BY DEF TypeInvariant, Notice, Counts, Requests, Request
<1>1. CASE shown.status = "anon"
  <2>1. state' = Anonymous(state) \/ state' = state
    BY <1>1 DEF Ends
  <2> QED  BY <1>0, <1>1, <2>1, StateTypes DEF Ends, React, past
<1>2. CASE shown.status # "anon"
  <2>1. Expires(s)
    BY <1>2 DEF Ends
  <2>2. expiry' \in Expiry /\ ended' \subseteq Nat
    BY <1>0, <2>1 DEF Expires, Expiry
  <2> QED  BY <1>0, <2>1, <2>2, StateTypes DEF Expires, React, Pages
<1> QED  BY <1>1, <1>2

LEMMA EndedTypes ==
  ASSUME TypeInvariant, NEW s \in Slots, NEW ok, NEW refused, Ended(s, ok, refused),
         ok => request[s].ok
  PROVE  Jar' /\ Requests' /\ React' /\ Route' /\ Counts'
<1>1. Jar /\ Requests /\ React /\ Route /\ UNCHANGED jar /\ UNCHANGED shown /\ UNCHANGED notice
      /\ Named(state) /\ Named(shown) /\ request[s] \in Request /\ sessions \in Nat
  BY DEF TypeInvariant, Ended, React, Requests, Notice, Counts
<1>2. /\ sessions' \in Nat /\ (UNCHANGED past \/ (expiry' \in Expiry /\ ended' \subseteq Nat)) => Counts'
  BY <1>1 DEF TypeInvariant, Notice, Counts, notice, past
<1>3. CASE WhoAmI(s, ok) /\ UNCHANGED past
  <2>1. request' = [request EXCEPT ![s] = Idle] /\ UNCHANGED route
    BY <1>3 DEF WhoAmI
  <2>2. Named(state')
    <3>1. CASE ok
      <4>1. request[s].token \in Tokens
        BY <1>1, <1>3, <3>1 DEF WhoAmI, Requests, Request
      <4>2. owner[request[s].token] \in Users
        BY <1>1, <4>1 DEF Jar, Tokens
      <4> QED  BY <1>1, <1>3, <3>1, <4>2, StateTypes DEF WhoAmI
    <3>2. CASE ~ok
      BY <1>1, <1>3, <3>2, StateTypes DEF WhoAmI
    <3> QED  BY <3>1, <3>2
  <2>3. sessions' \in Nat
    BY <1>1, <1>3 DEF WhoAmI
  <2>4. Jar' /\ Requests'
    BY <1>1, <2>1, ClearTypes
  <2>5. React' /\ Route'
    BY <1>1, <2>1, <2>2 DEF React, Named, States, route, Route
  <2> QED  BY <1>2, <1>3, <2>3, <2>4, <2>5
<1>4. CASE SignInEnds(s, ok) /\ UNCHANGED past
  <2>1. Jar' /\ Requests'
    BY <1>1, <1>4, ClearTypes DEF SignInEnds
  <2>2. CASE \E destination \in {"home", "trade"} : Entered(s, destination)
    <3>1. request[s].user \in Users
      BY <1>1, <1>4 DEF SignInEnds, Requests
    <3>2. Named(state')
      BY <1>1, <2>2, <3>1, StateTypes DEF Entered
    <3>3. Route' /\ sessions' \in Nat
      BY <1>1, <2>2 DEF Entered, Route, Pages
    <3> QED  BY <1>1, <1>2, <1>4, <2>1, <3>2, <3>3 DEF React, Named, States
  <2>3. CASE submitting' = FALSE /\ UNCHANGED <<state, sessions, page, going, atMount>>
    BY <1>1, <1>2, <1>4, <2>1, <2>3 DEF React, Named, States, Route
  <2> QED  BY <1>4, <2>2, <2>3 DEF SignInEnds
<1>5. CASE SignOutEnds(s) /\ UNCHANGED past
  <2>1. Jar' /\ Requests'
    BY <1>1, <1>5, ClearTypes DEF SignOutEnds
  <2> QED  BY <1>1, <1>2, <1>5, <2>1 DEF SignOutEnds, React, Named, States, Route, Pages
<1>6. CASE CallEnds(s, refused)
  <2>1. CASE Ends(s) /\ request' = [t \in Slots |-> IF t = s THEN Idle ELSE Spared(t)]
    <3> DEFINE f == [t \in Slots |-> IF t = s THEN Idle ELSE Spared(t)]
    <3>1. /\ request' = [t \in Slots |-> f[t]]
          /\ \A t \in Slots : f[t] \in {Idle, request[t], [request[t] EXCEPT !.spared = TRUE]}
      BY <2>1 DEF Spared
    <3> HIDE DEF f
    <3>2. Jar' /\ Requests'
      BY <1>1, <3>1, ClearedTypes
    <3>3. Named(state') /\ (going' = going \/ going' \in Pages) /\ expiry' \in Expiry /\ ended' \subseteq Nat
      BY <2>1, EndsTypes
    <3> QED  BY <1>1, <1>2, <1>6, <3>2, <3>3 DEF CallEnds, React, Named, States, Route
  <2>2. CASE request' = [request EXCEPT ![s] = Idle] /\ UNCHANGED <<state, going, past>>
    <3>1. Jar' /\ Requests'
      BY <1>1, <2>2, ClearTypes
    <3> QED  BY <1>1, <1>2, <1>6, <2>2, <3>1 DEF CallEnds, React, Named, States, Route
  <2> QED  BY <1>6, <2>1, <2>2 DEF CallEnds
<1> QED  BY <1>3, <1>4, <1>5, <1>6 DEF Ended

LEMMA AnswerTypes ==
  ASSUME TypeInvariant, NEW s \in Slots, BodyRead(s) \/ Lost(s)
  PROVE  TypeInvariant'
<1>1. parted' \in BOOLEAN
  BY DEF TypeInvariant, Notice, BodyRead, Lost
<1>2. Ended(s, request[s].ok, ~request[s].ok) \/ Ended(s, FALSE, FALSE)
  BY DEF BodyRead, Lost
<1> QED  BY <1>1, <1>2, EndedTypes DEF TypeInvariant, Notice

LEMMA TypesHold == Spec => []TypeInvariant
<1>1. TypeInvariant /\ [Next]_vars => TypeInvariant'
  <2> SUFFICES ASSUME TypeInvariant, [Next]_vars PROVE TypeInvariant'
    OBVIOUS
  <2>1. CASE UNCHANGED vars
    <3>1. Jar' /\ Requests'
      BY <2>1, JarUnchanged DEF TypeInvariant, vars, jar
    <3> QED  BY <2>1, <3>1 DEF vars, TypeInvariant, react, React, Named, States, notice, past, Notice, Counts, route, Route
  <2>2. CASE Reload \/ Render \/ Navigate \/ Expire
    BY <2>2, ReloadTypes, RenderTypes, NavigateTypes, ExpireTypes
  <2>3. CASE \E p \in Pages : Click(p)
    BY <2>3, ClickTypes
  <2>4. ASSUME NEW s \in Slots,
               \/ Call(s) \/ SignOut(s) \/ (\E u \in Users : Submit(s, u))
               \/ Authenticate(s) \/ IssueToken(s) \/ ClearToken(s)
               \/ Headers(s) \/ BodyRead(s) \/ Lost(s)
        PROVE  TypeInvariant'
    BY <2>4, CallTypes, SignOutTypes, SubmitTypes, BackendTypes, HeadersTypes, AnswerTypes
  <2> QED  BY <2>1, <2>2, <2>3, <2>4 DEF Next
<1> QED  BY <1>1, InitTypes, PTL DEF Spec

\* The state is well formed; the screen names a visitor exactly while it says
\* signed in, and every token the browser has was issued by the backend.
THEOREM SessionTypes == Spec => []TypeOK
<1>1. TypeInvariant => TypeOK
  BY DEF TypeInvariant, TypeOK, Jar, Requests, Request, Kinds, Stages, React, Named, Route, Notice, Counts, Expiry
<1> QED  BY <1>1, TypesHold, PTL

-----------------------------------------------------------------------------
(* The guard.                                                              *)

\* A guard that stays where it is has seen every session that expired.
GuardIsCurrent == page = "trade" /\ going = "none" => atMount = state.expired

\* A screen without a session stays on a protected page after a sign-out only.
GuardRedirects == page = "trade" /\ going = "none" /\ shown.status = "anon" => shown.signingOut

GuardInvariant == GuardIsCurrent /\ GuardRedirects

LEMMA GuardInit == Init => GuardInvariant
<1> SUFFICES ASSUME Init PROVE GuardInvariant
  OBVIOUS
<1>1. state.expired = 0 /\ shown.status = "loading" /\ atMount = 0
  BY DEF Init, Booting
<1> QED  BY <1>1 DEF GuardInvariant, GuardIsCurrent, GuardRedirects

\* What an answer does: the page goes somewhere, or no session has expired.
LEMMA EndedGuard ==
  ASSUME TypeInvariant, GuardInvariant, NEW s \in Slots, NEW ok, NEW refused, Ended(s, ok, refused)
  PROVE  GuardInvariant'
<1>1. state \in States /\ shown' = shown
  BY DEF TypeInvariant, React, Named, Ended
<1>2. \A r \in States : /\ Anonymous(r).expired = r.expired
                        /\ \A u : SignedIn(r, u).expired = r.expired
  BY DEF States, Anonymous, SignedIn
<1>3. /\ page' = page /\ atMount' = atMount
      /\ going' \in Pages \/ (going' = going /\ state'.expired = state.expired)
  <2>1. CASE WhoAmI(s, ok)
    <3>1. state' = SignedIn(state, owner[request[s].token]) \/ state' = Anonymous(state)
      BY <2>1 DEF WhoAmI
    <3> QED  BY <1>1, <1>2, <2>1, <3>1 DEF WhoAmI, route
  <2>2. CASE SignInEnds(s, ok)
    <3>1. CASE \E destination \in {"home", "trade"} : Entered(s, destination)
      BY <3>1 DEF Entered, Pages
    <3>2. CASE UNCHANGED <<state, sessions, page, going, atMount>>
      BY <3>2
    <3> QED  BY <2>2, <3>1, <3>2 DEF SignInEnds
  <2>3. CASE SignOutEnds(s)
    BY <2>3 DEF SignOutEnds, Pages
  <2>4. CASE CallEnds(s, refused)
    <3>1. CASE UNCHANGED <<state, going>>
      BY <2>4, <3>1 DEF CallEnds
    <3>2. CASE Ends(s)
      <4>1. CASE shown.status = "anon"
        <5>1. (state' = Anonymous(state) \/ state' = state) /\ going' = going
          BY <3>2, <4>1 DEF Ends
        <5> QED  BY <1>1, <1>2, <2>4, <5>1 DEF CallEnds
      <4>2. CASE shown.status # "anon"
        BY <2>4, <3>2, <4>2 DEF CallEnds, Ends, Expires, Pages
      <4> QED  BY <4>1, <4>2
    <3> QED  BY <2>4, <3>1, <3>2 DEF CallEnds
  <2> QED  BY <2>1, <2>2, <2>3, <2>4 DEF Ended
<1>4. "none" \notin Pages
  BY DEF Pages
<1> QED  BY <1>1, <1>3, <1>4 DEF GuardInvariant, GuardIsCurrent, GuardRedirects

LEMMA RenderGuard ==
  ASSUME GuardInvariant, Render
  PROVE  GuardInvariant'
<1>1. shown' = state /\ page' = page /\ state' = state /\ atMount' = atMount
  BY DEF Render, Shows
<1>2. CASE page = "trade" /\ Redirects(state, atMount)
  BY <1>1, <1>2 DEF Render, GuardInvariant, GuardIsCurrent, GuardRedirects
<1>3. CASE ~(page = "trade" /\ Redirects(state, atMount))
  <2>1. going' = going
    BY <1>3 DEF Render
  <2> QED  BY <1>1, <1>3, <2>1 DEF GuardInvariant, GuardIsCurrent, GuardRedirects, Redirects
<1> QED  BY <1>2, <1>3

LEMMA NavigateGuard ==
  ASSUME Navigate
  PROVE  GuardInvariant'
<1>1. shown' = state /\ shown = state /\ state' = state /\ page' = going
  BY DEF Navigate, Rendered, react
<1>2. going = "trade" => atMount' = state.expired
  BY <1>1 DEF Navigate
<1>3. going = "trade" /\ going' = "none" => ~Redirects(state, state.expired)
  BY <1>1 DEF Navigate
<1> QED  BY <1>1, <1>2, <1>3 DEF GuardInvariant, GuardIsCurrent, GuardRedirects, Redirects

LEMMA SignOutGuard ==
  ASSUME TypeInvariant, GuardInvariant, NEW s \in Slots, SignOut(s)
  PROVE  GuardInvariant'
<1>1. state \in States
  BY DEF TypeInvariant, React, Named
<1>2. /\ [Anonymous(state) EXCEPT !.signingOut = TRUE].expired = state.expired
      /\ [Anonymous(state) EXCEPT !.signingOut = TRUE].signingOut = TRUE
  BY <1>1 DEF States, Anonymous
<1>3. shown' = [Anonymous(state) EXCEPT !.signingOut = TRUE] /\ state' = shown' /\ UNCHANGED route
  BY DEF SignOut, Shows
<1> QED  BY <1>2, <1>3 DEF GuardInvariant, GuardIsCurrent, GuardRedirects, route

\* However renders, navigations, refused requests and answers of the probe, of
\* sign-ins and of sign-outs interleave, a screen without a session stays on a
\* protected page only if the visitor has signed out (require-session.tsx).
THEOREM GuardTakesThemAway == Spec => []StuckOnlyAfterSignOut
<1>1. TypeInvariant /\ GuardInvariant /\ [Next]_vars => GuardInvariant'
  <2> SUFFICES ASSUME TypeInvariant, GuardInvariant, [Next]_vars PROVE GuardInvariant'
    OBVIOUS
  <2>1. CASE UNCHANGED <<react, route>>
    BY <2>1 DEF react, route, GuardInvariant, GuardIsCurrent, GuardRedirects
  <2>2. CASE Reload
    <3>1. state'.expired = 0 /\ shown'.status = "loading" /\ atMount' = 0
      BY <2>2 DEF Reload, Booting
    <3> QED  BY <3>1 DEF GuardInvariant, GuardIsCurrent, GuardRedirects
  <2>3. CASE Render
    BY <2>3, RenderGuard
  <2>4. CASE Navigate
    BY <2>4, NavigateGuard
  <2>5. ASSUME NEW p \in Pages, Click(p) PROVE GuardInvariant'
    BY <2>5 DEF Click, Pages, GuardInvariant, GuardIsCurrent, GuardRedirects
  <2>6. ASSUME NEW s \in Slots, SignOut(s) PROVE GuardInvariant'
    BY <2>6, SignOutGuard
  <2>7. ASSUME NEW s \in Slots, BodyRead(s) \/ Lost(s) PROVE GuardInvariant'
    BY <2>7, EndedGuard DEF BodyRead, Lost
  <2>8. ASSUME NEW s \in Slots, NEW u \in Users, Submit(s, u) PROVE GuardInvariant'
    BY <2>8 DEF Submit, react, GuardInvariant, GuardIsCurrent, GuardRedirects
  <2>9. ASSUME Expire \/ \E s \in Slots : Call(s) \/ Authenticate(s) \/ IssueToken(s) \/ ClearToken(s) \/ Headers(s)
        PROVE  UNCHANGED <<react, route>>
    BY <2>9 DEF Expire, Call, Authenticate, IssueToken, ClearToken, Headers
  <2>10. UNCHANGED vars => UNCHANGED <<react, route>>
    BY DEF vars
  <2> QED  BY <2>1, <2>2, <2>3, <2>4, <2>5, <2>6, <2>7, <2>8, <2>9, <2>10 DEF Next
<1>2. GuardInvariant => StuckOnlyAfterSignOut
  BY DEF GuardInvariant, GuardRedirects, StuckOnlyAfterSignOut
<1> QED  BY <1>1, <1>2, GuardInit, TypesHold, PTL DEF Spec

-----------------------------------------------------------------------------
(* The notice.                                                             *)

\* Nothing is called before the first answer is on the screen, and once it is
\* the provider does not go back to asking who is there.
StillLoading ==
  /\ state.status = "loading" => shown.status = "loading"
  /\ shown.status = "loading" => \A s \in Slots : request[s].kind # "call"

\* An expiry that has not been rendered meets a screen that says signed in.
Told ==
  /\ announced = shown.expired /\ announced <= state.expired
  /\ state.expired # announced => shown.status = "authed"

\* A session that the notice has spoken of has ended, one that is on the screen
\* has not been spoken of, and the expiry about to be spoken of is a new one.
SpokenOfOnce ==
  /\ said \subseteq ended /\ ended \subseteq 0..sessions
  /\ state.status = "authed" => sessions \notin ended
  /\ shown.status = "authed" => sessions \notin said
  /\ state.expired # announced => expiry.session \in ended /\ expiry.session \notin said

\* A call that has outlived the expiry of its session is one the abort did not reach.
Accounted(calls) ==
  \A s \in Slots : calls[s].kind = "call" =>
    calls[s].session <= sessions /\ (calls[s].session \in ended => calls[s].spared)

\* What ended a session that is about to be spoken of.
ByItsOwn ==
  state.expired # announced =>
    \/ expiry.by = expiry.session
    \/ expiry.by < expiry.session /\ (expiry.spared \/ expiry.by \notin ended)

NoticeInvariant == StillLoading /\ Told /\ SpokenOfOnce /\ Accounted(request) /\ ByItsOwn

\* A step that sends no call.
OnlyOldCalls ==
  \A t \in Slots : request'[t].kind = "call" =>
    /\ request[t].kind = "call" /\ request'[t].session = request[t].session
    /\ request[t].spared => request'[t].spared

\* What the provider's transitions leave in the state.
LEMMA StateFields ==
  ASSUME NEW r \in States
  PROVE  /\ Anonymous(r).status = "anon" /\ Anonymous(r).expired = r.expired
         /\ LET out == [Anonymous(r) EXCEPT !.signingOut = TRUE]
            IN  out.status = "anon" /\ out.expired = r.expired
         /\ LET over == [Anonymous(r) EXCEPT !.expired = @ + 1]
            IN  over.status = "anon" /\ over.expired = r.expired + 1
         /\ \A u : /\ SignedIn(r, u).status = "authed" /\ SignedIn(r, u).expired = r.expired
                   /\ SignedIn(r, u).identity = u
                   /\ LET in == SignedIn([r EXCEPT !.signingOut = FALSE], u)
                      IN  in.status = "authed" /\ in.expired = r.expired /\ in.identity = u
BY DEF States, Anonymous, SignedIn

\* A step that leaves the session and the screen alone.
LEMMA ElsewhereKeepsNotice ==
  ASSUME NoticeInvariant, UNCHANGED <<react, notice, past, sessions>>, Accounted(request'),
         shown.status = "loading" => \A s \in Slots : request'[s].kind # "call"
  PROVE  NoticeInvariant'
BY DEF NoticeInvariant, StillLoading, Told, SpokenOfOnce, Accounted, ByItsOwn, react, notice, past

LEMMA OldCallsAccounted ==
  ASSUME TypeInvariant, NoticeInvariant, OnlyOldCalls
  PROVE  /\ Accounted(request')
         /\ shown.status = "loading" => \A s \in Slots : request'[s].kind # "call"
BY DEF NoticeInvariant, StillLoading, Accounted, OnlyOldCalls

\* The calls of a step that begins no session and ends none by an expiry.
LEMMA StaysAccounted ==
  ASSUME Accounted(request'), UNCHANGED <<ended, sessions>>
  PROVE  Accounted(request)'
BY DEF Accounted

\* Rendering raises a notice only for an expiry the screen has not shown.
LEMMA ShowsKeepsNotice ==
  ASSUME TypeInvariant, NoticeInvariant, NEW s \in States, s.expired = state.expired,
         s = state \/ s.status = "anon", Shows(s), state' = s, UNCHANGED sessions, OnlyOldCalls
  PROVE  NoticeInvariant'
<1>1. /\ state.expired \in Nat /\ announced \in Nat
      /\ shown' = s /\ announced' = s.expired /\ ended' = ended
      /\ said' = IF state.expired # announced THEN said \cup {expiry.session} ELSE said
  BY DEF TypeInvariant, React, Named, States, Notice, Counts, Shows
<1>2. StillLoading'
  BY <1>1, OldCallsAccounted DEF NoticeInvariant, StillLoading
<1>3. Told' /\ ByItsOwn'
  BY <1>1 DEF Told, ByItsOwn
<1>4. SpokenOfOnce'
  <2>1. said' \subseteq ended
    BY <1>1 DEF NoticeInvariant, SpokenOfOnce
  <2>2. s.status = "authed" => sessions \notin ended
    BY DEF NoticeInvariant, SpokenOfOnce
  <2> QED  BY <1>1, <2>1, <2>2 DEF NoticeInvariant, SpokenOfOnce
<1>5. Accounted(request)'
  BY <1>1, OldCallsAccounted, StaysAccounted
<1> QED  BY <1>2, <1>3, <1>4, <1>5 DEF NoticeInvariant

\* A session begins.
LEMMA BeginsKeepsNotice ==
  ASSUME TypeInvariant, NoticeInvariant, state'.status = "authed", state'.expired = state.expired,
         sessions' = sessions + 1, UNCHANGED <<shown, notice, past>>, OnlyOldCalls
  PROVE  NoticeInvariant'
<1>1. sessions \in Nat /\ announced' = announced /\ said' = said /\ ended' = ended /\ expiry' = expiry
      /\ \A t \in Slots : request[t].session \in Nat
  BY DEF TypeInvariant, Notice, Counts, Requests, Request, notice, past
<1>2. StillLoading' /\ Told' /\ ByItsOwn'
  BY <1>1, OldCallsAccounted DEF NoticeInvariant, StillLoading, Told, ByItsOwn
<1>3. SpokenOfOnce'
  <2>1. ended \subseteq 0..(sessions + 1) /\ sessions + 1 \notin ended
    BY <1>1 DEF NoticeInvariant, SpokenOfOnce
  <2> QED  BY <1>1, <2>1 DEF NoticeInvariant, SpokenOfOnce
<1>4. Accounted(request)'
  BY <1>1 DEF NoticeInvariant, Accounted, OnlyOldCalls
<1> QED  BY <1>2, <1>3, <1>4 DEF NoticeInvariant

\* A session ends otherwise than by an expiry, or turns out not to be one.
LEMMA AnonymousKeepsNotice ==
  ASSUME TypeInvariant, NoticeInvariant, UNCHANGED <<shown, notice, past, sessions>>,
         state'.status = "anon", state'.expired = state.expired, OnlyOldCalls
  PROVE  NoticeInvariant'
<1>1. announced' = announced /\ said' = said /\ ended' = ended /\ expiry' = expiry
  BY DEF notice, past
<1>2. StillLoading' /\ Told' /\ ByItsOwn'
  BY <1>1, OldCallsAccounted DEF NoticeInvariant, StillLoading, Told, ByItsOwn
<1>3. SpokenOfOnce'
  BY <1>1 DEF NoticeInvariant, SpokenOfOnce
<1>4. Accounted(request)'
  BY <1>1, OldCallsAccounted, StaysAccounted
<1> QED  BY <1>2, <1>3, <1>4 DEF NoticeInvariant

\* A session expires: every call that is left is one the abort did not reach.
LEMMA ExpiresKeepsNotice ==
  ASSUME TypeInvariant, NoticeInvariant, NEW s \in Slots, request[s].kind = "call", Expires(s),
         shown.status = "authed", UNCHANGED <<shown, notice, sessions>>, OnlyOldCalls,
         \A t \in Slots : request'[t].kind = "call" => request'[t].spared
  PROVE  NoticeInvariant'
<1>1. /\ sessions \in Nat /\ state.expired \in Nat /\ announced \in Nat /\ state \in States
      /\ request[s].session \in Nat
  BY DEF TypeInvariant, React, Named, States, Notice, Counts, Requests, Request
<1>2. /\ state'.status = "anon" /\ state'.expired = state.expired + 1
      /\ announced' = announced /\ said' = said /\ ended' = ended \cup {sessions}
      /\ expiry'.session = sessions /\ expiry'.by = request[s].session
      /\ expiry'.spared = request[s].spared
  BY <1>1, StateFields DEF Expires, notice
<1>3. StillLoading' /\ Told'
  BY <1>1, <1>2, OldCallsAccounted DEF NoticeInvariant, StillLoading, Told
<1>4. SpokenOfOnce'
  BY <1>1, <1>2 DEF NoticeInvariant, SpokenOfOnce
<1>5. Accounted(request)'
  BY <1>2 DEF NoticeInvariant, Accounted, OnlyOldCalls
<1>6. ByItsOwn'
  <2>1. request[s].session <= sessions /\ (request[s].session \in ended => request[s].spared)
    BY DEF NoticeInvariant, Accounted
  <2>2. request[s].session = sessions \/ request[s].session < sessions
    BY <1>1, <2>1
  <2>3. request[s].session < sessions => request[s].session # sessions
    BY <1>1
  <2> QED  BY <1>2, <2>1, <2>2, <2>3, Zenon DEF ByItsOwn
<1> QED  BY <1>3, <1>4, <1>5, <1>6 DEF NoticeInvariant

\* Answering takes requests off and sends none; a 401 leaves the calls it cannot reach.
LEMMA EndedSendsNothing ==
  ASSUME TypeInvariant, NEW s \in Slots, NEW ok, NEW refused, Ended(s, ok, refused)
  PROVE  /\ OnlyOldCalls
         /\ (CallEnds(s, refused) /\ refused) =>
               \A t \in Slots : request'[t].kind = "call" => request'[t].spared
<1>1. request \in [Slots -> Request] /\ Idle.kind = "none"
  BY DEF TypeInvariant, Requests, Idle
<1>2. CASE request' = [t \in Slots |-> IF t = s THEN Idle ELSE Spared(t)]
  <2>1. ASSUME NEW t \in Slots, request'[t].kind = "call"
        PROVE  /\ request[t].kind = "call" /\ request'[t].session = request[t].session
               /\ request'[t].spared
    <3>1. request'[t] = Spared(t)
      BY <1>1, <1>2, <2>1
    <3>2. request[t] \in Request
      BY <1>1
    <3>3. t \notin InScope
      BY <1>1, <2>1, <3>1 DEF Spared
    <3>4. request[t].kind = "call" /\ request'[t] = [request[t] EXCEPT !.spared = TRUE]
      BY <2>1, <3>1, <3>3 DEF Spared
    <3> QED  BY <3>2, <3>4 DEF Request
  <2> QED  BY <2>1 DEF OnlyOldCalls
<1>3. CASE request' = [request EXCEPT ![s] = Idle] /\ ~(CallEnds(s, refused) /\ refused)
  BY <1>1, <1>3 DEF OnlyOldCalls
<1> QED  BY <1>2, <1>3 DEF Ended, WhoAmI, SignInEnds, SignOutEnds, CallEnds

LEMMA EndedKeepsNotice ==
  ASSUME TypeInvariant, NoticeInvariant, NEW s \in Slots, NEW ok, NEW refused, Ended(s, ok, refused)
  PROVE  NoticeInvariant'
<1>1. state \in States /\ UNCHANGED <<shown, notice>>
  BY DEF TypeInvariant, React, Named, Ended
<1>2. OnlyOldCalls
  BY EndedSendsNothing
<1>3. CASE WhoAmI(s, ok) /\ ok /\ UNCHANGED past
  <2>1. state' = SignedIn(state, owner[request[s].token]) /\ sessions' = sessions + 1
    BY <1>3 DEF WhoAmI
  <2>2. state'.status = "authed" /\ state'.expired = state.expired
    BY <1>1, <2>1, StateFields
  <2> QED  BY <1>1, <1>2, <1>3, <2>1, <2>2, BeginsKeepsNotice
<1>4. CASE WhoAmI(s, ok) /\ ~ok /\ UNCHANGED past
  <2>1. state' = Anonymous(state) /\ UNCHANGED sessions
    BY <1>4 DEF WhoAmI
  <2> QED  BY <1>1, <1>2, <1>4, <2>1, StateFields, AnonymousKeepsNotice
<1>5. CASE UNCHANGED past /\ \E destination \in {"home", "trade"} : Entered(s, destination)
  <2>1. /\ state' = SignedIn([state EXCEPT !.signingOut = FALSE], request[s].user)
        /\ sessions' = sessions + 1
    BY <1>5 DEF Entered
  <2> QED  BY <1>1, <1>2, <1>5, <2>1, StateFields, BeginsKeepsNotice
<1>6. CASE UNCHANGED <<state, sessions, past>>
  <2>1. UNCHANGED <<react, notice, past, sessions>>
    BY <1>1, <1>6 DEF react
  <2> QED  BY <1>2, <2>1, OldCallsAccounted, ElsewhereKeepsNotice
<1>7. CASE CallEnds(s, refused) /\ refused
  <2>1. shown.status # "loading" /\ UNCHANGED sessions /\ request[s].kind = "call" /\ Ends(s)
    BY <1>7 DEF NoticeInvariant, StillLoading, CallEnds
  <2>2. shown.status \in {"loading", "anon", "authed"}
    BY DEF TypeInvariant, React, Named, States
  <2>3. CASE shown.status = "anon"
    <3>1. (state' = Anonymous(state) \/ state' = state) /\ UNCHANGED past
      BY <2>1, <2>3 DEF Ends
    <3>2. CASE state' = state
      BY <1>6, <2>1, <3>1, <3>2
    <3>3. CASE state' = Anonymous(state)
      BY <1>1, <1>2, <2>1, <3>1, <3>3, StateFields, AnonymousKeepsNotice
    <3> QED  BY <3>1, <3>2, <3>3
  <2>4. CASE shown.status = "authed"
    <3>1. Expires(s)
      BY <2>1, <2>4 DEF Ends
    <3>2. \A t \in Slots : request'[t].kind = "call" => request'[t].spared
      BY <1>7, EndedSendsNothing
    <3> QED  BY <1>1, <1>2, <2>1, <2>4, <3>1, <3>2, ExpiresKeepsNotice
  <2> QED  BY <2>1, <2>2, <2>3, <2>4
<1>8. \/ WhoAmI(s, ok) /\ UNCHANGED past
      \/ UNCHANGED <<state, sessions, past>>
      \/ UNCHANGED past /\ \E destination \in {"home", "trade"} : Entered(s, destination)
      \/ CallEnds(s, refused) /\ refused
  <2>1. CASE SignInEnds(s, ok) /\ UNCHANGED past
    BY <2>1 DEF SignInEnds
  <2>2. CASE CallEnds(s, refused)
    BY <2>2 DEF CallEnds
  <2> QED  BY <2>1, <2>2 DEF Ended, SignOutEnds
<1> QED  BY <1>3, <1>4, <1>5, <1>6, <1>7, <1>8

\* The steps that send, and the backend's, are no business of the notice.
LEMMA SendingKeepsNotice ==
  ASSUME TypeInvariant, NoticeInvariant, NEW s \in Slots,
         \/ Call(s) \/ (\E u \in Users : Submit(s, u))
         \/ Authenticate(s) \/ IssueToken(s) \/ ClearToken(s) \/ Headers(s)
  PROVE  NoticeInvariant'
<1>1. request \in [Slots -> Request]
  BY DEF TypeInvariant, Requests
<1>2. UNCHANGED <<react, notice, past, sessions>>
  BY DEF Call, Submit, Authenticate, IssueToken, ClearToken, Headers
<1>3. CASE Call(s)
  <2>1. shown.status = "authed" /\ state.status = "authed" /\ sessions \in Nat
    BY <1>3 DEF Call, Rendered, TypeInvariant, Notice, Counts
  <2>2. request'[s].session = sessions /\ \A t \in Slots \ {s} : request'[t] = request[t]
    BY <1>1, <1>3 DEF Call, Sent
  <2>3. sessions \notin ended
    BY <2>1 DEF NoticeInvariant, SpokenOfOnce
  <2>4. Accounted(request')
    BY <2>1, <2>2, <2>3 DEF NoticeInvariant, Accounted
  <2> QED  BY <1>2, <2>1, <2>4, ElsewhereKeepsNotice
<1>4. CASE \E u \in Users : Submit(s, u)
  <2>1. OnlyOldCalls
    BY <1>1, <1>4 DEF Submit, Sent, OnlyOldCalls
  <2> QED  BY <1>2, <2>1, OldCallsAccounted, ElsewhereKeepsNotice
<1>5. CASE Authenticate(s) \/ IssueToken(s) \/ ClearToken(s) \/ Headers(s)
  <2>1. \A t \in Slots : /\ request'[t].kind = request[t].kind
                         /\ request'[t].session = request[t].session
                         /\ request'[t].spared = request[t].spared
    BY <1>1, <1>5 DEF Request, Authenticate, IssueToken, ClearToken, Headers, Answered
  <2>2. OnlyOldCalls
    BY <2>1 DEF OnlyOldCalls
  <2> QED  BY <1>2, <2>2, OldCallsAccounted, ElsewhereKeepsNotice
<1> QED  BY <1>3, <1>4, <1>5

\* SignOut renders at once, what has expired before included.
LEMMA SignOutKeepsNotice ==
  ASSUME TypeInvariant, NoticeInvariant, NEW s \in Slots, SignOut(s)
  PROVE  NoticeInvariant'
<1> DEFINE out == [Anonymous(state) EXCEPT !.signingOut = TRUE]
<1>1. state \in States /\ request \in [Slots -> Request]
  BY DEF TypeInvariant, React, Named, Requests
<1>2. out.status = "anon" /\ out.expired = state.expired
  BY <1>1, StateFields
<1>3. out \in States
  BY <1>1, StateTypes DEF TypeInvariant, React, Named
<1>4. Shows(out) /\ state' = out /\ UNCHANGED sessions
  BY DEF SignOut
<1>5. OnlyOldCalls
  BY <1>1 DEF SignOut, Sent, OnlyOldCalls
<1> HIDE DEF out
<1> QED  BY <1>2, <1>3, <1>4, <1>5, ShowsKeepsNotice

LEMMA NoticeInit == Init => NoticeInvariant
<1> SUFFICES ASSUME Init PROVE NoticeInvariant
  OBVIOUS
<1>1. /\ state.status = "loading" /\ state.expired = 0
      /\ shown.status = "loading" /\ shown.expired = 0
      /\ announced = 0 /\ said = {} /\ ended = {} /\ sessions = 0
  BY DEF Init, Booting
<1>2. \A t \in Slots : request[t].kind # "call"
  BY DEF Init, Idle
<1> QED  BY <1>1, <1>2 DEF NoticeInvariant, StillLoading, Told, SpokenOfOnce, Accounted, ByItsOwn

LEMMA ReloadRestartsNotice == Reload => NoticeInvariant'
<1> SUFFICES ASSUME Reload PROVE NoticeInvariant'
  OBVIOUS
<1>1. /\ state'.status = "loading" /\ state'.expired = 0
      /\ shown'.status = "loading" /\ shown'.expired = 0
      /\ announced' = 0 /\ said' = {} /\ ended' = {} /\ sessions' = 0
  BY DEF Reload, Booting
<1>2. \A t \in Slots : request'[t].kind # "call"
  BY DEF Reload, Idle
<1> QED  BY <1>1, <1>2 DEF NoticeInvariant, StillLoading, Told, SpokenOfOnce, Accounted, ByItsOwn

LEMMA NoticesHold == Spec => []NoticeInvariant
<1>1. TypeInvariant /\ NoticeInvariant /\ [Next]_vars => NoticeInvariant'
  <2> SUFFICES ASSUME TypeInvariant, NoticeInvariant, [Next]_vars PROVE NoticeInvariant'
    OBVIOUS
  <2>1. CASE UNCHANGED <<request, react, notice, past, sessions>>
    BY <2>1, ElsewhereKeepsNotice DEF NoticeInvariant, StillLoading, Accounted
  <2>2. CASE Render
    <3>1. Shows(state) /\ state' = state /\ UNCHANGED <<request, sessions>>
      BY <2>2 DEF Render
    <3>2. state \in States /\ OnlyOldCalls
      BY <3>1 DEF TypeInvariant, React, Named, OnlyOldCalls
    <3> QED  BY <3>1, <3>2, ShowsKeepsNotice
  <2>3. ASSUME NEW s \in Slots, BodyRead(s) \/ Lost(s) PROVE NoticeInvariant'
    BY <2>3, EndedKeepsNotice DEF BodyRead, Lost
  <2>4. ASSUME Navigate \/ Expire \/ (\E p \in Pages : Click(p)) \/ UNCHANGED vars
        PROVE  UNCHANGED <<request, react, notice, past, sessions>>
    BY <2>4 DEF Navigate, Expire, Click, vars
  <2> QED  BY <2>1, <2>2, <2>3, <2>4, ReloadRestartsNotice, SignOutKeepsNotice, SendingKeepsNotice DEF Next
<1> QED  BY <1>1, NoticeInit, TypesHold, PTL DEF Spec

\* However many calls a session has under way when it ends, however late they
\* are refused and whoever signs in meanwhile, no session's end is spoken of
\* twice, nor over a screen that a sign-out has left; and a session is ended by
\* a call of its own, or by one of an earlier session that no abort has reached
\* (session-provider.tsx onAuthFailure, session-notice.tsx, http.ts).
THEOREM ExpiryIsSaidOncePerSession == Spec => ExpiryIsSaidOnce
<1> DEFINE About == /\ expiry.session \notin said
                    /\ \/ expiry.by = expiry.session
                       \/ expiry.by < expiry.session /\ (expiry.spared \/ expiry.by \notin ended)
                    /\ ~(shown.status = "anon" /\ shown.signingOut)
           Said == announced' > announced => About
<1>1. TypeInvariant /\ NoticeInvariant /\ [Next]_vars => Said
  <2> SUFFICES ASSUME TypeInvariant, NoticeInvariant, [Next]_vars, announced' > announced
               PROVE  About
    OBVIOUS
  <2>1. announced \in Nat /\ state \in States
    BY DEF TypeInvariant, Notice, Counts, React, Named
  <2>2. ASSUME NEW r, Shows(r), r.expired = state.expired
        PROVE  About
    <3>1. state.expired # announced
      BY <2>1, <2>2 DEF Shows
    <3> QED  BY <3>1 DEF NoticeInvariant, Told, SpokenOfOnce, ByItsOwn
  <2> HIDE DEF About
  <2>3. CASE Render
    BY <2>2, <2>3 DEF Render
  <2>4. ASSUME NEW s \in Slots, SignOut(s) PROVE About
    BY <2>1, <2>2, <2>4, StateFields DEF SignOut
  <2>5. ASSUME UNCHANGED announced PROVE FALSE
    BY <2>1, <2>5
  <2>6. CASE Reload
    BY <2>1, <2>6 DEF Reload
  <2>7. ASSUME NEW s \in Slots, BodyRead(s) \/ Lost(s) PROVE UNCHANGED announced
    BY <2>7 DEF BodyRead, Lost, Ended, notice
  <2>8. ASSUME \/ UNCHANGED vars \/ Navigate \/ Expire \/ \E p \in Pages : Click(p)
               \/ \E s \in Slots : \/ Call(s) \/ (\E u \in Users : Submit(s, u)) \/ Authenticate(s)
                                   \/ IssueToken(s) \/ ClearToken(s) \/ Headers(s)
        PROVE  UNCHANGED announced
    BY <2>8 DEF vars, notice, Navigate, Expire, Click, Call, Submit, Authenticate, IssueToken, ClearToken, Headers
  <2> QED  BY <2>3, <2>4, <2>5, <2>6, <2>7, <2>8 DEF Next
<1>2. [][TypeInvariant /\ NoticeInvariant /\ [Next]_vars]_vars => [][Said]_vars
  BY <1>1, PTL
<1> QED  BY <1>2, TypesHold, NoticesHold, PTL DEF Spec, ExpiryIsSaidOnce

-----------------------------------------------------------------------------
(* Who acts.                                                               *)

\* A token that was handed out is the account's that signed in.
TokensAreTheirs ==
  \A s \in Slots : request[s].kind = "signin" /\ request[s].ok =>
    request[s].token # None /\ owner[request[s].token] = request[s].user

\* One request at a time decides who is signed in.
OneDecides == \A s, t \in Deciding : s = t

\* Its answer has set the cookie.
SignedInBy(s) == request[s].kind = "signin" /\ request[s].stage = "body" /\ request[s].ok

\* The probe asks about the cookie that is in the jar, a sign-in whose headers
\* are in has put it there, and nobody is signed in while a sign-out is on its way.
DecidersKnow ==
  \A s \in Slots :
    /\ request[s].kind = "me" => request[s].token = cookie
    /\ SignedInBy(s) => request[s].token = cookie
    /\ request[s].kind = "signout" => state.status # "authed"

\* The provider's name is the cookie's, unless an answer that will change the name is in.
NameIsCurrent ==
  state.status = "authed" =>
    \/ cookie # None /\ owner[cookie] = state.identity
    \/ \E s \in Slots : request[s].kind = "me" \/ SignedInBy(s)

IdentityInvariant == TokensAreTheirs /\ (~parted => OneDecides /\ DecidersKnow /\ NameIsCurrent)

LEMMA IdentityInit == Init => IdentityInvariant
<1> SUFFICES ASSUME Init PROVE IdentityInvariant
  OBVIOUS
<1>1. PICK s \in Slots : request = [[t \in Slots |-> Idle] EXCEPT ![s] =
                           [Idle EXCEPT !.kind = "me", !.token = cookie, !.stage = "sent"]]
  BY DEF Init
<1>2. /\ \A t \in Slots : t # s => request[t].kind = "none"
      /\ request[s].kind = "me" /\ request[s].token = cookie
  BY <1>1 DEF Idle
<1>3. state.status # "authed"
  BY DEF Init, Booting
<1> QED  BY <1>2, <1>3 DEF IdentityInvariant, TokensAreTheirs, OneDecides, Deciding, DecidersKnow,
                           SignedInBy, NameIsCurrent

LEMMA ReloadIdentity == Reload => IdentityInvariant'
<1> SUFFICES ASSUME Reload PROVE IdentityInvariant'
  OBVIOUS
<1>1. PICK s \in Slots : request' = [[t \in Slots |-> Idle] EXCEPT ![s] =
                           [Idle EXCEPT !.kind = "me", !.token = cookie, !.stage = "sent"]]
  BY DEF Reload
<1>2. /\ \A t \in Slots : t # s => request'[t].kind = "none"
      /\ request'[s].kind = "me" /\ request'[s].token = cookie'
  BY <1>1 DEF Idle, Reload, jar
<1>3. state'.status # "authed"
  BY DEF Reload, Booting
<1> QED  BY <1>2, <1>3 DEF IdentityInvariant, TokensAreTheirs, OneDecides, Deciding, DecidersKnow,
                           SignedInBy, NameIsCurrent

LEMMA ElsewhereKeepsIdentity ==
  ASSUME IdentityInvariant, UNCHANGED <<request, cookie, owner, parted, state>>
  PROVE  IdentityInvariant'
BY DEF IdentityInvariant, TokensAreTheirs, OneDecides, Deciding, DecidersKnow, SignedInBy, NameIsCurrent

\* A request goes out: if it decides, nothing else may be deciding.
LEMMA SentKeepsIdentity ==
  ASSUME Requests, IdentityInvariant, NEW s \in Slots, request[s] = Idle, NEW kind, NEW u,
         request' = Sent(s, kind, u), UNCHANGED <<cookie, owner>>,
         kind \in {"call", "signin", "signout"},
         kind # "call" /\ Deciding # {} => parted',
         parted => parted',
         IF kind = "signout" THEN state'.status # "authed" ELSE UNCHANGED state
  PROVE  IdentityInvariant'
<1>1. /\ request'[s].kind = kind /\ request'[s].ok = FALSE
      /\ \A t \in Slots : t # s => request'[t] = request[t]
      /\ request[s].kind = "none"
  BY DEF Requests, Sent, Idle
<1>2. TokensAreTheirs'
  BY <1>1 DEF IdentityInvariant, TokensAreTheirs
<1> SUFFICES ASSUME ~parted' PROVE OneDecides' /\ DecidersKnow' /\ NameIsCurrent'
  BY <1>2 DEF IdentityInvariant
<1>3. OneDecides /\ DecidersKnow /\ NameIsCurrent /\ (kind # "call" => Deciding = {})
  BY DEF IdentityInvariant
<1>4. OneDecides'
  BY <1>1, <1>3 DEF OneDecides, Deciding
<1>5. DecidersKnow'
  BY <1>1, <1>3 DEF DecidersKnow, SignedInBy
<1>6. NameIsCurrent'
  BY <1>1, <1>3 DEF NameIsCurrent, SignedInBy
<1> QED  BY <1>4, <1>5, <1>6

\* The backend answers: the probe's token stays the cookie's, and a sign-in's
\* token is its account's.
LEMMA AnsweredKeepsIdentity ==
  ASSUME Jar, Requests, IdentityInvariant, NEW s \in Slots, NEW ok, NEW token,
         request[s].stage = "sent", Answered(s, ok, token),
         request[s].kind = "me" => token = request[s].token,
         UNCHANGED <<cookie, state, parted>>,
         \/ UNCHANGED owner /\ (request[s].kind = "signin" => ok = FALSE)
         \/ request[s].kind = "signin" /\ owner' = Append(owner, request[s].user) /\ token = Len(owner) + 1
  PROVE  IdentityInvariant'
<1>1. /\ request'[s].kind = request[s].kind /\ request'[s].user = request[s].user
      /\ request'[s].ok = ok /\ request'[s].token = token /\ request'[s].stage = "answered"
      /\ \A t \in Slots : t # s => request'[t] = request[t]
  BY DEF Requests, Request, Answered
<1>2. \A t \in Slots : request'[t].kind = request[t].kind
  BY <1>1
<1>3. Len(owner) \in Nat /\ \A t \in Tokens : owner'[t] = owner[t]
  <2>1. CASE UNCHANGED owner
    BY <2>1 DEF Jar
  <2>2. CASE owner' = Append(owner, request[s].user) /\ request[s].kind = "signin"
    <3>1. request[s].user \in Users
      BY <2>2 DEF Requests
    <3> QED  BY <2>2, <3>1 DEF Jar, Tokens
  <2> QED  BY <2>1, <2>2
<1>4. request[s].kind = "signin" /\ ok => token # None /\ owner'[token] = request[s].user
  <2> SUFFICES ASSUME request[s].kind = "signin", ok
               PROVE  token # None /\ owner'[token] = request[s].user
    OBVIOUS
  <2>1. owner' = Append(owner, request[s].user) /\ token = Len(owner) + 1
    OBVIOUS
  <2>2. request[s].user \in Users /\ owner \in Seq(Users)
    BY DEF Requests, Jar
  <2> QED  BY <1>3, <2>1, <2>2 DEF None
<1>5. TokensAreTheirs'
  <2> SUFFICES ASSUME NEW t \in Slots, request'[t].kind = "signin", request'[t].ok
               PROVE  request'[t].token # None /\ owner'[request'[t].token] = request'[t].user
    BY DEF TokensAreTheirs
  <2>1. CASE t = s
    BY <1>1, <1>4, <2>1
  <2>2. CASE t # s
    <3>1. request[t].token # None /\ owner[request[t].token] = request[t].user
      BY <1>1, <2>2 DEF IdentityInvariant, TokensAreTheirs
    <3>2. request[t].token \in Tokens
      BY <3>1 DEF Requests, Request
    <3> QED  BY <1>1, <1>3, <2>2, <3>1, <3>2
  <2> QED  BY <2>1, <2>2
<1> SUFFICES ASSUME ~parted PROVE OneDecides' /\ DecidersKnow' /\ NameIsCurrent'
  BY <1>5 DEF IdentityInvariant
<1>6. OneDecides /\ DecidersKnow /\ NameIsCurrent
  BY DEF IdentityInvariant
<1>7. OneDecides'
  BY <1>2, <1>6 DEF OneDecides, Deciding
<1>8. \A t \in Slots : SignedInBy(t)' <=> SignedInBy(t)
  BY <1>1 DEF SignedInBy
<1>9. DecidersKnow'
  <2>1. \A t \in Slots : request'[t].kind = "me" => request'[t].token = request[t].token
    BY <1>1
  <2> QED  BY <1>1, <1>2, <1>6, <1>8, <2>1 DEF DecidersKnow, SignedInBy
<1>10. cookie # None => owner'[cookie] = owner[cookie]
  BY <1>3 DEF Jar
<1>11. NameIsCurrent'
  BY <1>2, <1>6, <1>8, <1>10 DEF NameIsCurrent
<1> QED  BY <1>7, <1>9, <1>11

LEMMA BackendKeepsIdentity ==
  ASSUME TypeInvariant, IdentityInvariant, NEW s \in Slots,
         Authenticate(s) \/ IssueToken(s) \/ ClearToken(s)
  PROVE  IdentityInvariant'
<1>1. Jar /\ Requests /\ UNCHANGED <<cookie, state, parted>> /\ request[s].stage = "sent"
  BY DEF TypeInvariant, Authenticate, IssueToken, ClearToken, jar, react
<1>2. CASE Authenticate(s)
  <2>1. PICK ok : Answered(s, ok, IF request[s].kind = "me" THEN request[s].token ELSE None)
    BY <1>2 DEF Authenticate
  <2>2. UNCHANGED owner /\ request[s].kind # "signin"
    BY <1>2 DEF Authenticate, jar
  <2> QED  BY <1>1, <2>1, <2>2, AnsweredKeepsIdentity
<1>3. CASE IssueToken(s)
  <2>1. request[s].kind = "signin"
    BY <1>3 DEF IssueToken
  <2>2. CASE owner' = Append(owner, request[s].user) /\ Answered(s, TRUE, Len(owner) + 1)
    BY <1>1, <2>1, <2>2, AnsweredKeepsIdentity
  <2>3. CASE UNCHANGED owner /\ Answered(s, FALSE, None)
    BY <1>1, <2>1, <2>3, AnsweredKeepsIdentity
  <2> QED  BY <1>3, <2>2, <2>3 DEF IssueToken
<1>4. CASE ClearToken(s)
  <2>1. Answered(s, TRUE, None) /\ UNCHANGED owner /\ request[s].kind = "signout"
    BY <1>4 DEF ClearToken, jar
  <2> QED  BY <1>1, <2>1, AnsweredKeepsIdentity
<1> QED  BY <1>2, <1>3, <1>4

\* The headers set the cookie: of a sign-in, to the token of its account; of a
\* sign-out, to none, when nobody is signed in any more.
LEMMA HeadersKeepIdentity ==
  ASSUME TypeInvariant, IdentityInvariant, NEW s \in Slots, Headers(s)
  PROVE  IdentityInvariant'
<1>1. /\ request \in [Slots -> Request] /\ UNCHANGED <<owner, state, parted>>
      /\ request[s].stage = "answered"
  BY DEF TypeInvariant, Requests, Headers, react
<1>2. /\ \A t \in Slots : /\ request'[t].kind = request[t].kind /\ request'[t].ok = request[t].ok
                          /\ request'[t].token = request[t].token /\ request'[t].user = request[t].user
      /\ request'[s].stage = "body"
      /\ \A t \in Slots : t # s => request'[t] = request[t]
  BY <1>1 DEF Headers, Request
<1>3. TokensAreTheirs'
  BY <1>1, <1>2 DEF IdentityInvariant, TokensAreTheirs
<1> SUFFICES ASSUME ~parted PROVE OneDecides' /\ DecidersKnow' /\ NameIsCurrent'
  BY <1>1, <1>3 DEF IdentityInvariant
<1>4. OneDecides /\ DecidersKnow /\ NameIsCurrent
  BY DEF IdentityInvariant
<1>5. OneDecides'
  BY <1>2, <1>4 DEF OneDecides, Deciding
<1>6. \A t \in Slots : t # s => (SignedInBy(t)' <=> SignedInBy(t))
  BY <1>2 DEF SignedInBy
<1>7. CASE request[s].kind \in {"signin", "signout"} /\ request[s].ok
  <2>1. cookie' = request[s].token
    BY <1>7 DEF Headers
  <2>2. \A t \in Slots : t # s => request[t].kind \notin {"me", "signin", "signout"}
    BY <1>4, <1>7 DEF OneDecides, Deciding
  <2>3. DecidersKnow'
    BY <1>1, <1>2, <1>4, <1>7, <2>1, <2>2 DEF DecidersKnow, SignedInBy
  <2>4. request[s].kind = "signin" => SignedInBy(s)'
    BY <1>2, <1>7 DEF SignedInBy
  <2>5. request[s].kind = "signout" => state'.status # "authed"
    BY <1>1, <1>4 DEF DecidersKnow
  <2>6. NameIsCurrent'
    BY <1>7, <2>4, <2>5 DEF NameIsCurrent
  <2> QED  BY <1>5, <2>3, <2>6
<1>8. CASE ~(request[s].kind \in {"signin", "signout"} /\ request[s].ok)
  <2>1. cookie' = cookie
    BY <1>8 DEF Headers
  <2>2. ~SignedInBy(s)' /\ ~SignedInBy(s)
    BY <1>2, <1>8 DEF SignedInBy
  <2>3. DecidersKnow'
    BY <1>1, <1>2, <1>4, <1>6, <2>1, <2>2 DEF DecidersKnow
  <2>4. NameIsCurrent'
    BY <1>1, <1>2, <1>4, <1>6, <2>1, <2>2 DEF NameIsCurrent
  <2> QED  BY <1>5, <2>3, <2>4
<1> QED  BY <1>7, <1>8

\* What a request is about stays what it was.
Stays(t) ==
  /\ request'[t].kind = request[t].kind /\ request'[t].stage = request[t].stage
  /\ request'[t].ok = request[t].ok /\ request'[t].token = request[t].token
  /\ request'[t].user = request[t].user

\* A request has been answered for good, lost, or cancelled: the name is the
\* answer's, or still the cookie's, or nobody's.
LEMMA GoneKeepsIdentity ==
  ASSUME Requests, IdentityInvariant, NEW gone \in SUBSET Slots, UNCHANGED <<cookie, owner>>,
         \A t \in Slots : IF t \in gone THEN request'[t] = Idle ELSE Stays(t),
         parted => parted',
         ~parted' => \/ state'.status # "authed"
                     \/ cookie # None /\ owner[cookie] = state'.identity
                     \/ UNCHANGED state /\ \A t \in gone : request[t].kind # "me" /\ ~SignedInBy(t),
         ~parted' /\ state'.status = "authed" /\ state.status # "authed" =>
           \A t \in Slots \ gone : request[t].kind # "signout"
  PROVE  IdentityInvariant'
<1>1. \A t \in gone : request'[t].kind = "none"
  BY DEF Idle
<1>2. TokensAreTheirs'
  <2> SUFFICES ASSUME NEW t \in Slots, request'[t].kind = "signin", request'[t].ok
               PROVE  request'[t].token # None /\ owner'[request'[t].token] = request'[t].user
    BY DEF TokensAreTheirs
  <2>1. Stays(t)
    BY <1>1
  <2> QED  BY <2>1 DEF Stays, IdentityInvariant, TokensAreTheirs
<1> SUFFICES ASSUME ~parted' PROVE OneDecides' /\ DecidersKnow' /\ NameIsCurrent'
  BY <1>2 DEF IdentityInvariant
<1>3. OneDecides /\ DecidersKnow /\ NameIsCurrent
  BY DEF IdentityInvariant
<1>4. \A t \in Slots \ gone : /\ request'[t].kind = request[t].kind /\ request'[t].token = request[t].token
                              /\ SignedInBy(t)' <=> SignedInBy(t)
  BY DEF SignedInBy, Stays
<1>5. \A t \in gone : ~SignedInBy(t)'
  BY <1>1 DEF SignedInBy
<1>6. OneDecides'
  BY <1>1, <1>3, <1>4 DEF OneDecides, Deciding
<1>7. DecidersKnow'
  <2> SUFFICES ASSUME NEW t \in Slots
               PROVE  /\ request'[t].kind = "me" => request'[t].token = cookie'
                      /\ SignedInBy(t)' => request'[t].token = cookie'
                      /\ request'[t].kind = "signout" => state'.status # "authed"
    BY DEF DecidersKnow
  <2>1. CASE t \in gone
    BY <1>1, <1>5, <2>1
  <2>2. CASE t \notin gone
    BY <1>3, <1>4, <2>2 DEF DecidersKnow
  <2> QED  BY <2>1, <2>2
<1>8. NameIsCurrent'
  <2> SUFFICES ASSUME state'.status = "authed"
               PROVE  \/ cookie' # None /\ owner'[cookie'] = state'.identity
                      \/ \E t \in Slots : request'[t].kind = "me" \/ SignedInBy(t)'
    BY DEF NameIsCurrent
  <2>1. CASE cookie # None /\ owner[cookie] = state'.identity
    BY <2>1
  <2>2. CASE UNCHANGED state /\ \A t \in gone : request[t].kind # "me" /\ ~SignedInBy(t)
    BY <1>3, <1>4, <2>2 DEF NameIsCurrent
  <2> QED  BY <2>1, <2>2
<1> QED  BY <1>6, <1>7, <1>8

LEMMA EndedKeepsIdentity ==
  ASSUME TypeInvariant, IdentityInvariant, NEW s \in Slots, BodyRead(s) \/ Lost(s)
  PROVE  IdentityInvariant'
<1>1. /\ Requests /\ state \in States
      /\ UNCHANGED <<cookie, owner>> /\ (parted => parted')
  <2>1. Requests /\ state \in States
    BY DEF TypeInvariant, Requests, React, Named
  <2>2. UNCHANGED jar
    BY DEF BodyRead, Lost, Ended
  <2>3. parted => parted'
    BY DEF BodyRead, Lost
  <2> QED  BY <2>1, <2>2, <2>3 DEF jar
<1>2. ~parted' => OneDecides /\ DecidersKnow /\ NameIsCurrent
  BY <1>1 DEF IdentityInvariant
<1>3. TokensAreTheirs
  BY DEF IdentityInvariant
<1>4. PICK ok \in BOOLEAN, refused \in BOOLEAN :
        /\ Ended(s, ok, refused)
        /\ ok => request[s].ok /\ request[s].stage = "body"
        /\ ~ok /\ ~parted' => ~SignedInBy(s)
  <2>1. CASE BodyRead(s)
    <3>1. request[s].ok \in BOOLEAN /\ Ended(s, request[s].ok, ~request[s].ok) /\ request[s].stage = "body"
      BY <1>1, <2>1 DEF BodyRead, Requests, Request
    <3> QED  BY <3>1 DEF SignedInBy
  <2>2. CASE Lost(s)
    <3>1. Ended(s, FALSE, FALSE) /\ (~parted' => ~SignedInBy(s))
      BY <2>2 DEF Lost, SignedInBy
    <3> QED  BY <3>1
  <2> QED  BY <2>1, <2>2
<1>5. request' = [request EXCEPT ![s] = Idle] =>
        \A t \in Slots : IF t \in {s} THEN request'[t] = Idle ELSE Stays(t)
  BY <1>1 DEF Requests, Stays
<1>6. request[s].kind \in {"me", "signin"} /\ ~parted' =>
        \A t \in Slots \ {s} : request[t].kind # "signout"
  BY <1>2 DEF OneDecides, Deciding
<1>7. CASE WhoAmI(s, ok)
  <2>1. request' = [request EXCEPT ![s] = Idle] /\ request[s].kind = "me"
    BY <1>7 DEF WhoAmI
  <2>2. CASE ok
    <3>1. state' = SignedIn(state, owner[request[s].token])
      BY <1>7, <2>2 DEF WhoAmI
    <3>2. state'.identity = owner[request[s].token]
      BY <1>1, <3>1 DEF SignedIn, States
    <3>3. ~parted' => request[s].token = cookie /\ request[s].token # None
      BY <1>1, <1>2, <1>4, <2>1, <2>2 DEF DecidersKnow, Requests
    <3> QED  BY <1>1, <1>5, <1>6, <2>1, <3>2, <3>3, GoneKeepsIdentity
  <2>3. CASE ~ok
    <3>1. state' = Anonymous(state)
      BY <1>7, <2>3 DEF WhoAmI
    <3>2. state'.status # "authed"
      BY <1>1, <3>1, StateFields
    <3> QED  BY <1>1, <1>5, <2>1, <3>2, GoneKeepsIdentity
  <2> QED  BY <2>2, <2>3
<1>8. CASE SignInEnds(s, ok)
  <2>1. request' = [request EXCEPT ![s] = Idle] /\ request[s].kind = "signin"
    BY <1>8 DEF SignInEnds
  <2>2. CASE ok
    <3>1. state' = SignedIn([state EXCEPT !.signingOut = FALSE], request[s].user)
      BY <1>8, <2>2 DEF SignInEnds, Entered
    <3>2. state'.identity = request[s].user
      BY <1>1, <3>1 DEF SignedIn, States
    <3>3. request[s].token # None /\ owner[request[s].token] = request[s].user
      BY <1>3, <1>4, <2>1, <2>2 DEF TokensAreTheirs
    <3>4. ~parted' => request[s].token = cookie
      BY <1>2, <1>4, <2>1, <2>2 DEF DecidersKnow, SignedInBy
    <3> QED  BY <1>1, <1>5, <1>6, <2>1, <3>2, <3>3, <3>4, GoneKeepsIdentity
  <2>3. CASE ~ok
    <3>1. UNCHANGED state
      BY <1>8, <2>3 DEF SignInEnds
    <3> QED  BY <1>1, <1>4, <1>5, <2>1, <2>3, <3>1, GoneKeepsIdentity
  <2> QED  BY <2>2, <2>3
<1>9. CASE SignOutEnds(s)
  <2>1. request' = [request EXCEPT ![s] = Idle] /\ request[s].kind = "signout" /\ UNCHANGED state
    BY <1>9 DEF SignOutEnds
  <2>2. ~SignedInBy(s)
    BY <2>1 DEF SignedInBy
  <2> QED  BY <1>1, <1>5, <2>1, <2>2, GoneKeepsIdentity
<1>10. CASE CallEnds(s, refused)
  <2>0. request[s].kind = "call" /\ ~SignedInBy(s)
    BY <1>10 DEF CallEnds, SignedInBy
  <2>1. CASE ~refused
    <3>1. request' = [request EXCEPT ![s] = Idle] /\ UNCHANGED state
      BY <1>10, <2>1 DEF CallEnds
    <3> QED  BY <1>1, <1>5, <2>0, <3>1, GoneKeepsIdentity
  <2>2. CASE refused
    <3> DEFINE gone == {s} \cup InScope
    <3>1. Ends(s) /\ request' = [t \in Slots |-> IF t = s THEN Idle ELSE Spared(t)]
      BY <1>10, <2>2 DEF CallEnds
    <3>2. gone \in SUBSET Slots
      BY DEF InScope
    <3>3. \A t \in Slots : IF t \in gone THEN request'[t] = Idle ELSE Stays(t)
      <4> TAKE t \in Slots
      <4>1. request[t] \in Request
        BY <1>1 DEF Requests
      <4>2. t \in gone => request'[t] = Idle
        BY <3>1 DEF Spared
      <4>3. t \notin gone => request'[t] \in {request[t], [request[t] EXCEPT !.spared = TRUE]}
        BY <3>1 DEF Spared
      <4>4. t \notin gone => Stays(t)
        BY <4>1, <4>3 DEF Request, Stays
      <4> HIDE DEF gone
      <4> QED  BY <4>2, <4>4
    <3>4. \/ state'.status # "authed"
          \/ UNCHANGED state /\ \A t \in gone : request[t].kind # "me" /\ ~SignedInBy(t)
      <4>1. CASE shown.status = "anon" /\ ~\E t \in InScope : request[t].kind = "me"
        <5>1. UNCHANGED state
          BY <3>1, <4>1 DEF Ends
        <5>2. \A t \in InScope : ~SignedInBy(t)
          BY DEF InScope, SignedInBy
        <5> QED  BY <2>0, <4>1, <5>1, <5>2
      <4>2. CASE ~(shown.status = "anon" /\ ~\E t \in InScope : request[t].kind = "me")
        <5>1. state' = Anonymous(state) \/ state' = [Anonymous(state) EXCEPT !.expired = @ + 1]
          BY <3>1, <4>2 DEF Ends, Expires
        <5> QED  BY <1>1, <5>1, StateFields
      <4> QED  BY <4>1, <4>2
    <3> HIDE DEF gone
    <3> QED  BY <1>1, <3>2, <3>3, <3>4, GoneKeepsIdentity
  <2> QED  BY <2>1, <2>2
<1> QED  BY <1>4, <1>7, <1>8, <1>9, <1>10 DEF Ended

LEMMA IdentityHolds == Spec => []IdentityInvariant
<1>1. TypeInvariant /\ IdentityInvariant /\ [Next]_vars => IdentityInvariant'
  <2> SUFFICES ASSUME TypeInvariant, IdentityInvariant, [Next]_vars PROVE IdentityInvariant'
    OBVIOUS
  <2>1. Requests
    BY DEF TypeInvariant
  <2>2. ASSUME UNCHANGED vars \/ Render \/ Navigate \/ Expire \/ (\E p \in Pages : Click(p))
        PROVE  IdentityInvariant'
    <3>1. UNCHANGED <<request, cookie, owner, parted, state>>
      BY <2>2 DEF vars, jar, react, Render, Navigate, Expire, Click
    <3> QED  BY <3>1, ElsewhereKeepsIdentity
  <2>3. ASSUME NEW s \in Slots, Call(s) PROVE IdentityInvariant'
    <3>1. request[s] = Idle /\ request' = Sent(s, "call", NoOne) /\ UNCHANGED <<cookie, owner, state, parted>>
      BY <2>3 DEF Call, jar, react
    <3> QED  BY <2>1, <3>1, SentKeepsIdentity
  <2>4. ASSUME NEW s \in Slots, NEW u \in Users, Submit(s, u) PROVE IdentityInvariant'
    <3>1. /\ request[s] = Idle /\ request' = Sent(s, "signin", u) /\ UNCHANGED <<cookie, owner, state>>
          /\ parted' = (parted \/ Deciding # {})
      BY <2>4 DEF Submit, jar, react
    <3> QED  BY <2>1, <3>1, SentKeepsIdentity
  <2>5. ASSUME NEW s \in Slots, SignOut(s) PROVE IdentityInvariant'
    <3>1. /\ request[s] = Idle /\ request' = Sent(s, "signout", NoOne) /\ UNCHANGED <<cookie, owner>>
          /\ parted' = (parted \/ Deciding # {})
          /\ state' = [Anonymous(state) EXCEPT !.signingOut = TRUE]
      BY <2>5 DEF SignOut, jar
    <3>2. state'.status # "authed"
      BY <3>1, StateFields DEF TypeInvariant, React, Named
    <3> QED  BY <2>1, <3>1, <3>2, SentKeepsIdentity
  <2> QED  BY <2>2, <2>3, <2>4, <2>5, ReloadIdentity, BackendKeepsIdentity, HeadersKeepIdentity,
              EndedKeepsIdentity DEF Next
<1> QED  BY <1>1, IdentityInit, TypesHold, PTL DEF Spec

\* However sign-ins, sign-outs, probes, expiries and lost answers come in, the
\* name on a settled screen is the account whose cookie the next request
\* carries, unless two requests that decide it were under way at once or a
\* sign-in broke off behind its headers (session-provider.tsx, auth-controllers.ts).
THEOREM TheNameShownActs == Spec => []ShownIsWhoActs
<1>1. TypeInvariant /\ IdentityInvariant => ShownIsWhoActs
  <2> SUFFICES ASSUME TypeInvariant, IdentityInvariant, shown.status = "authed", Rendered, Deciding = {}, ~parted
               PROVE  cookie # None /\ owner[cookie] = shown.identity
    BY DEF ShownIsWhoActs
  <2>1. NameIsCurrent /\ state.status = "authed" /\ state.identity = shown.identity
    BY DEF IdentityInvariant, Rendered
  <2>2. \A s \in Slots : request[s].kind # "me" /\ ~SignedInBy(s)
    BY DEF Deciding, SignedInBy
  <2> QED  BY <2>1, <2>2 DEF NameIsCurrent
<1> QED  BY <1>1, TypesHold, IdentityHolds, PTL

-----------------------------------------------------------------------------
(* MarketFeed: draining the buffer.                                        *)

LEMMA LeastNumber ==
  ASSUME NEW T \in SUBSET Nat, T # {}
  PROVE  \E n \in T : \A m \in T : n <= m
<1> DEFINE R == OpToRel(<, Nat)
<1>1. IsWellFoundedOn(R, Nat)
  BY NatLessThanWellFounded
<1>2. \A x, y \in Nat : <<x, y>> \in R <=> x < y
  BY DEF OpToRel
<1> HIDE DEF R
<1>3. PICK n \in T : \A y \in T : ~ (<<y, n>> \in R)
  BY <1>1, WFMin
<1>4. \A y \in T : ~(y < n)
  BY <1>2, <1>3
<1> QED BY <1>4

\* Induction on the natural numbers, for a property that a set collects.
LEMMA SetInduction ==
  ASSUME NEW T \in SUBSET Nat, 0 \in T, \A n \in T : n + 1 \in T
  PROVE  T = Nat
<1> SUFFICES ASSUME T # Nat PROVE FALSE
  OBVIOUS
<1>1. PICK n \in Nat \ T : \A m \in Nat \ T : n <= m
  <2>1. Nat \ T \in SUBSET Nat /\ Nat \ T # {}
    OBVIOUS
  <2> QED BY <2>1, LeastNumber
<1>2. n - 1 \in Nat /\ n - 1 \notin Nat \ T
  BY <1>1
<1> QED BY <1>2

\* A set of numbers up to k that has a member has a greatest one.
LEMMA Greatest ==
  ASSUME NEW k \in Nat, NEW s \in SUBSET (1..k), s # {}
  PROVE  Max(s) \in s /\ \A n \in s : n <= Max(s)
<1> DEFINE T == {k - n : n \in s}
<1>1. T \in SUBSET Nat /\ T # {}
  <2>1. \A n \in s : n \in 1..k
    OBVIOUS
  <2>2. \A n \in s : k - n \in Nat
    BY <2>1
  <2> QED BY <2>2
<1>2. PICK d \in T : \A e \in T : d <= e
  BY <1>1, LeastNumber
<1>3. k - d \in s /\ \A n \in s : k - d >= n
  BY <1>2
<1> QED BY <1>3 DEF Max

\* What FoldLeft(ApplyFrame, m, seq) is made of: a machine for each set of places.
Applied(g, m, seq, S) ==
  g = [s \in S |-> IF s = {} THEN m ELSE ApplyFrame(g[s \ {Max(s)}], seq[Max(s)])]

UpTo(k, n) == {s \in SUBSET (1..k) : Cardinality(s) <= n}

LEMMA SubsetsCounted ==
  ASSUME NEW k \in Nat, NEW s \in SUBSET (1..k)
  PROVE  /\ IsFiniteSet(s) /\ Cardinality(s) \in 0..k
         /\ s # {} => Cardinality(s \ {Max(s)}) = Cardinality(s) - 1
<1>1. IsFiniteSet(1..k) /\ Cardinality(1..k) = k
  BY FS_Interval
<1>2. IsFiniteSet(s) /\ Cardinality(s) <= k /\ Cardinality(s) \in Nat
  BY <1>1, FS_Subset, FS_CardinalityType
<1>3. s # {} => Max(s) \in s
  BY Greatest
<1> QED BY <1>2, <1>3, FS_RemoveElement

LEMMA UpToIs ==
  ASSUME NEW k \in Nat, NEW n \in Nat
  PROVE  /\ UpTo(k, n) \subseteq UpTo(k, n + 1)
         /\ \A s \in UpTo(k, n + 1) : s # {} => s \ {Max(s)} \in UpTo(k, n)
         /\ UpTo(k, 0) = {{}}
         /\ UpTo(k, k) = SUBSET (1..k)
<1>1. ASSUME NEW s \in SUBSET (1..k)
      PROVE  /\ IsFiniteSet(s) /\ Cardinality(s) \in Nat /\ Cardinality(s) <= k
             /\ s # {} => Cardinality(s \ {Max(s)}) = Cardinality(s) - 1
  BY SubsetsCounted
<1>2. UpTo(k, n) \subseteq UpTo(k, n + 1)
  <2> SUFFICES ASSUME NEW s \in SUBSET (1..k), Cardinality(s) <= n PROVE Cardinality(s) <= n + 1
    BY DEF UpTo
  <2>1. Cardinality(s) \in Nat
    BY <1>1
  <2> QED BY <2>1
<1>3. ASSUME NEW s \in UpTo(k, n + 1), s # {} PROVE s \ {Max(s)} \in UpTo(k, n)
  <2>1. s \in SUBSET (1..k) /\ Cardinality(s) <= n + 1
    BY DEF UpTo
  <2>2. Cardinality(s \ {Max(s)}) <= n
    BY <1>1, <1>3, <2>1
  <2> QED BY <2>1, <2>2 DEF UpTo
<1>4. UpTo(k, 0) = {{}}
  <2>1. {} \in UpTo(k, 0)
    BY FS_EmptySet DEF UpTo
  <2>2. ASSUME NEW s \in UpTo(k, 0) PROVE s = {}
    <3>1. s \in SUBSET (1..k) /\ Cardinality(s) <= 0
      BY DEF UpTo
    <3>2. IsFiniteSet(s) /\ Cardinality(s) \in Nat
      BY <1>1, <3>1
    <3>3. Cardinality(s) = 0
      BY <3>1, <3>2
    <3> QED BY <3>2, <3>3, FS_EmptySet
  <2> QED BY <2>1, <2>2
<1>5. UpTo(k, k) = SUBSET (1..k)
  <2>1. ASSUME NEW s \in SUBSET (1..k) PROVE s \in UpTo(k, k)
    BY <1>1 DEF UpTo
  <2> QED BY <2>1 DEF UpTo
<1> QED BY <1>2, <1>3, <1>4, <1>5

LEMMA AppliedExists ==
  ASSUME NEW m, NEW k \in Nat, NEW seq
  PROVE  \E g : Applied(g, m, seq, SUBSET (1..k))
<1> DEFINE P(n) == \E g : Applied(g, m, seq, UpTo(k, n))
           N == {n \in Nat : P(n)}
<1>1. P(0)
  <2>1. \A s \in UpTo(k, 0) : s = {}
    BY UpToIs
  <2>2. Applied([s \in UpTo(k, 0) |-> m], m, seq, UpTo(k, 0))
    BY <2>1 DEF Applied
  <2> QED BY <2>2
<1>2. ASSUME NEW n \in Nat, P(n) PROVE P(n + 1)
  <2>1. PICK g : Applied(g, m, seq, UpTo(k, n))
    BY <1>2
  <2> DEFINE body(h, s) == IF s = {} THEN m ELSE ApplyFrame(h[s \ {Max(s)}], seq[Max(s)])
             h == [s \in UpTo(k, n + 1) |-> body(g, s)]
  <2>2. \A s \in UpTo(k, n) : g[s] = body(g, s)
    BY <2>1 DEF Applied
  <2>3. \A s \in UpTo(k, n) : s \in UpTo(k, n + 1)
    BY UpToIs
  <2>4. \A s \in UpTo(k, n) : h[s] = g[s]
    BY <2>2, <2>3
  <2>5. ASSUME NEW s \in UpTo(k, n + 1), s # {} PROVE s \ {Max(s)} \in UpTo(k, n)
    BY <2>5, UpToIs
  <2>6. \A s \in UpTo(k, n + 1) : body(g, s) = body(h, s)
    BY <2>4, <2>5
  <2>7. h = [s \in UpTo(k, n + 1) |-> body(h, s)]
    BY <2>6
  <2>8. Applied(h, m, seq, UpTo(k, n + 1))
    BY <2>7 DEF Applied
  <2> QED BY <2>8
<1>3. N = Nat
  <2>1. N \in SUBSET Nat /\ 0 \in N
    BY <1>1
  <2>2. ASSUME NEW n \in N PROVE n + 1 \in N
    BY <1>2
  <2> HIDE DEF N
  <2> QED BY <2>1, <2>2, SetInduction
<1>4. UpTo(k, k) = SUBSET (1..k)
  BY UpToIs
<1> QED BY <1>3, <1>4

\* The machines on the way from m through the frames of seq.
Runs(h, m, seq) ==
  h[0] = m /\ \A n \in 1..Len(seq) : h[n] = ApplyFrame(h[n - 1], seq[n])

LEMMA DrainRuns ==
  ASSUME NEW m, NEW seq \in Seq(Frames)
  PROVE  \E h : Runs(h, m, seq) /\ FoldLeft(ApplyFrame, m, seq) = h[Len(seq)]
<1> DEFINE k == Len(seq)
           Q(g) == g = [s \in SUBSET (1..k) |->
                     IF s = {} THEN m ELSE ApplyFrame(g[s \ {Max(s)}], seq[Max(s)])]
           it == CHOOSE g : Q(g)
           h == [n \in 0..k |-> it[1..n]]
<1>1. k \in Nat /\ DOMAIN seq = 1..k
  OBVIOUS
<1>2. FoldLeft(ApplyFrame, m, seq) = it[1..k]
  BY <1>1 DEF FoldLeft, MapThenFoldSet
<1>3. \E g : Q(g)
  <2>1. PICK g : Applied(g, m, seq, SUBSET (1..k))
    BY <1>1, AppliedExists
  <2> QED BY <2>1 DEF Applied
<1> HIDE DEF Q
<1>4. Q(it)
  BY <1>3
<1> HIDE DEF it, k
<1>5. it[{}] = m
  BY <1>4 DEF Q
<1>6. \A s \in SUBSET (1..k) : s # {} => it[s] = ApplyFrame(it[s \ {Max(s)}], seq[Max(s)])
  BY <1>4 DEF Q
<1>7. h[0] = m
  BY <1>1, <1>5
<1>8. ASSUME NEW n \in 1..k PROVE h[n] = ApplyFrame(h[n - 1], seq[n])
  <2>1. 1..n \in SUBSET (1..k) /\ 1..n # {} /\ n \in 1..n
    BY <1>1
  <2>2. Max(1..n) \in 1..n /\ n <= Max(1..n)
    BY <1>1, <2>1, Greatest
  <2>3. Max(1..n) = n /\ (1..n) \ {n} = 1..(n - 1)
    BY <1>1, <2>2
  <2>4. it[1..n] = ApplyFrame(it[1..(n - 1)], seq[n])
    BY <1>6, <2>1, <2>3
  <2> QED BY <1>1, <2>4
<1>9. h[k] = it[1..k]
  BY <1>1
<1> HIDE DEF h
<1>10. Runs(h, m, seq) /\ FoldLeft(ApplyFrame, m, seq) = h[Len(seq)]
  BY <1>2, <1>7, <1>8, <1>9 DEF Runs, k
<1> QED BY <1>10

\* The prints among the first n frames, and among all.
PrintsTo(seq, n) == {seq[i].id : i \in {j \in 1..n : seq[j].kind = "trade"}}
Prints(seq) == PrintsTo(seq, Len(seq))

Falling(tape) == \A i, j \in 1..Len(tape) : i < j => tape[i] > tape[j]
Rising(seq) ==
  \A i, j \in 1..Len(seq) :
    i < j /\ seq[i].kind = "trade" /\ seq[j].kind = "trade" => seq[i].id < seq[j].id
Behind(A, B) == \A a \in A, b \in B : a < b

LEMMA PrintOnTape ==
  ASSUME NEW t \in Seq(Ids), NEW x \in Ids
  PROVE  /\ <<x>> \o t \in Seq(Ids) /\ Range(<<x>> \o t) = {x} \cup Range(t)
         /\ Falling(t) /\ Behind(Range(t), {x}) => Falling(<<x>> \o t)
<1> DEFINE u == <<x>> \o t
<1>1. <<x>> \in Seq(Ids) /\ Len(<<x>>) = 1 /\ <<x>>[1] = x
  OBVIOUS
<1>2. /\ u \in Seq(Ids) /\ Len(u) = 1 + Len(t)
      /\ \A i \in 1..Len(t) + 1 : u[i] = IF i <= 1 THEN x ELSE t[i - 1]
  BY <1>1, ConcatProperties
<1>3. Range(u) = {x} \cup Range(t)
  <2>1. Range(<<x>>) = {x}
    BY <1>1 DEF Range
  <2>2. Range(<<x>> \o t) = Range(<<x>>) \cup Range(t)
    BY <1>1, RangeConcatenation
  <2> QED BY <2>1, <2>2
<1>4. ASSUME Falling(t), Behind(Range(t), {x}) PROVE Falling(u)
  <2> SUFFICES ASSUME NEW i \in 1..Len(u), NEW j \in 1..Len(u), i < j PROVE u[i] > u[j]
    BY DEF Falling
  <2>1. Len(t) \in Nat /\ j - 1 \in 1..Len(t) /\ u[j] = t[j - 1]
    BY <1>2
  <2>2. t[j - 1] \in Range(t) /\ t[j - 1] \in Nat
    <3>1. t[j - 1] \in Ids
      BY <2>1
    <3>2. DOMAIN t = 1..Len(t)
      OBVIOUS
    <3> QED BY <2>1, <3>1, <3>2 DEF Range, Ids
  <2>3. CASE i = 1
    <3>1. u[i] = x /\ x \in Nat /\ t[j - 1] < x
      BY <1>2, <1>4, <2>1, <2>2, <2>3 DEF Behind, Ids
    <3> QED BY <2>1, <2>2, <3>1
  <2>4. CASE i # 1
    <3>1. i - 1 \in 1..Len(t) /\ u[i] = t[i - 1] /\ i - 1 < j - 1
      BY <1>2, <2>1, <2>4
    <3> QED BY <1>4, <2>1, <3>1 DEF Falling
  <2> QED BY <2>3, <2>4
<1> QED BY <1>2, <1>3, <1>4

\* The prints a tape shows, or has shown and has no room for any more.
Seen(tape) == {i \in Nat : i \in Range(tape) \/ FellOff(tape, i)}

LEMMA PrintedTape ==
  ASSUME NEW t \in Seq(Ids), NEW x \in Ids
  PROVE  /\ Printed(t, x) \in Seq(Ids) /\ Range(Printed(t, x)) \subseteq Range(t) \cup {x}
         /\ Falling(t) /\ Behind(Range(t), {x}) =>
              Falling(Printed(t, x)) /\ Seen(t) \cup {x} \subseteq Seen(Printed(t, x))
<1> DEFINE k == IF Len(t) < MaxTrades THEN t ELSE SubSeq(t, 1, MaxTrades - 1)
           u == Printed(t, x)
<1>1. MaxTrades \in Nat \ {0} /\ Len(t) \in Nat /\ x \in Nat /\ Ids \subseteq Nat
  BY FeedAssumption DEF Ids
<1>2. /\ k \in Seq(Ids) /\ Len(k) \in Nat /\ Len(k) <= Len(t)
      /\ Len(k) = (IF Len(t) < MaxTrades THEN Len(t) ELSE MaxTrades - 1)
      /\ \A i \in 1..Len(k) : k[i] = t[i]
  <2>1. CASE Len(t) < MaxTrades
    BY <1>1, <2>1
  <2>2. CASE ~(Len(t) < MaxTrades)
    <3>1. k = SubSeq(t, 1, MaxTrades - 1) /\ MaxTrades - 1 \in 0..Len(t)
      BY <1>1, <2>2
    <3>2. \A i \in 1..MaxTrades - 1 : t[i] \in Ids /\ (1 + i) - 1 = i
      BY <1>1, <2>2
    <3> QED BY <1>1, <2>2, <3>1, <3>2
  <2> QED BY <2>1, <2>2
<1>0. \A i \in 1..Len(t) : t[i] \in Range(t) /\ t[i] \in Nat
  <2>1. \A i \in 1..Len(t) : t[i] \in Ids
    OBVIOUS
  <2>2. DOMAIN t = 1..Len(t)
    OBVIOUS
  <2> QED BY <1>1, <2>1, <2>2 DEF Range
<1>3. u = <<x>> \o k
  BY DEF Printed
<1> HIDE DEF k, u
<1>4. Range(k) \subseteq Range(t)
  BY <1>1, <1>2 DEF Range
<1>5. u \in Seq(Ids) /\ Range(u) = {x} \cup Range(k)
      /\ (Falling(k) /\ Behind(Range(k), {x}) => Falling(u))
  BY <1>2, <1>3, PrintOnTape
<1>6. Len(u) = Len(k) + 1
  BY <1>1, <1>2, <1>3
<1>7. ASSUME Falling(t), Behind(Range(t), {x})
      PROVE  Falling(u) /\ Seen(t) \cup {x} \subseteq Seen(u)
  <2>1. Falling(k) /\ Behind(Range(k), {x})
    BY <1>1, <1>2, <1>4, <1>7 DEF Falling, Behind
  <2>2. x \in Seen(u)
    BY <1>1, <1>5 DEF Seen
  <2>3. ASSUME NEW j \in 1..Len(t), t[j] \notin Range(k) PROVE FellOff(u, t[j])
    <3>1. \A i \in 1..Len(k) : k[i] \in Range(k)
      BY <1>2 DEF Range
    <3>2. ~(j <= Len(k))
      BY <1>1, <1>2, <2>3, <3>1
    <3>3. Len(u) = MaxTrades
      BY <1>1, <1>2, <1>6, <3>2
    <3>4. ASSUME NEW i \in 1..Len(k) PROVE k[i] > t[j]
      <4>1. i \in 1..Len(t) /\ i < j /\ k[i] = t[i]
        BY <1>1, <1>2, <3>2
      <4> QED BY <1>7, <4>1 DEF Falling
    <3>5. t[j] \in Range(t) /\ t[j] \in Nat
      BY <1>0
    <3>6. x > t[j]
      BY <1>1, <1>7, <3>5 DEF Behind
    <3>7. \A v \in Range(k) : v > t[j]
      BY <1>2, <3>4 DEF Range
    <3> QED BY <1>5, <3>3, <3>6, <3>7 DEF FellOff
  <2>4. ASSUME NEW i \in Nat, FellOff(t, i) PROVE FellOff(u, i)
    <3>1. Len(t) = MaxTrades /\ \A v \in Range(t) : v > i
      BY <2>4 DEF FellOff
    <3>2. Len(u) = MaxTrades
      BY <1>1, <1>2, <1>6, <3>1
    <3>3. t[1] \in Range(t) /\ t[1] \in Nat
      <4>1. 1 \in 1..Len(t)
        BY <1>1, <3>1
      <4> QED BY <1>0, <4>1
    <3>4. x > i
      BY <1>1, <1>7, <3>1, <3>3 DEF Behind
    <3> QED BY <1>4, <1>5, <3>1, <3>2, <3>4 DEF FellOff
  <2>5. ASSUME NEW i \in Seen(t) PROVE i \in Seen(u)
    <3>1. i \in Nat /\ (i \in Range(t) \/ FellOff(t, i))
      BY DEF Seen
    <3>2. CASE FellOff(t, i)
      BY <2>4, <3>1, <3>2 DEF Seen
    <3>3. CASE i \in Range(k)
      BY <1>5, <3>1, <3>3 DEF Seen
    <3>4. CASE i \in Range(t) /\ i \notin Range(k)
      <4>1. PICK j \in 1..Len(t) : i = t[j]
        BY <3>4 DEF Range
      <4> QED BY <2>3, <3>1, <3>4, <4>1 DEF Seen
    <3> QED BY <3>1, <3>2, <3>3, <3>4
  <2> QED BY <1>5, <2>1, <2>2, <2>5
<1>8. u \in Seq(Ids) /\ Range(u) \subseteq Range(t) \cup {x}
  BY <1>4, <1>5
<1> QED BY <1>7, <1>8 DEF u

\* What one frame makes of m: a.
Moved(m, frame, a) ==
  /\ a \in Machines
  /\ a.source = m.source /\ a.buffer = m.buffer /\ a.buffering = m.buffering
  /\ a.depth \in {m.depth, frame.id} /\ a.depth >= m.depth
  /\ Range(a.tape) \subseteq Range(m.tape) \cup (IF frame.kind = "trade" THEN {frame.id} ELSE {})
  /\ Falling(m.tape) /\ (frame.kind = "trade" => Behind(Range(m.tape), {frame.id})) =>
       /\ Falling(a.tape)
       /\ Seen(m.tape) \cup (IF frame.kind = "trade" THEN {frame.id} ELSE {}) \subseteq Seen(a.tape)

LEMMA ApplyFrameFacts ==
  ASSUME NEW m \in Machines, NEW frame \in Frames
  PROVE  Moved(m, frame, ApplyFrame(m, frame))
<1> DEFINE a == ApplyFrame(m, frame)
<1>0. /\ frame.id \in Ids /\ frame.id \in Nat \ {0} /\ frame.kind \in {"depth", "trade"}
      /\ m.depth \in Nat /\ m.tape \in Seq(Ids)
  BY DEF Frames, Machines, Ids, NoBook
<1>1. CASE frame.kind = "depth" /\ (m.depth = NoBook \/ frame.id > m.depth)
  <2>1. a = [m EXCEPT !.depth = frame.id]
    BY <1>1 DEF ApplyFrame
  <2>2. a \in Machines /\ a.depth = frame.id /\ a.tape = m.tape
        /\ a.source = m.source /\ a.buffer = m.buffer /\ a.buffering = m.buffering
    BY <1>0, <2>1 DEF Machines
  <2>3. frame.kind # "trade" /\ frame.id >= m.depth
    BY <1>0, <1>1 DEF NoBook
  <2> HIDE DEF a
  <2>9. Moved(m, frame, a)
    BY <1>0, <2>2, <2>3 DEF Moved
  <2> QED BY <2>9 DEF a
<1>2. CASE frame.kind = "trade"
  <2>1. a = [m EXCEPT !.tape = Printed(m.tape, frame.id)]
    BY <1>2 DEF ApplyFrame
  <2>2. Printed(m.tape, frame.id) \in Seq(Ids)
    BY <1>0, PrintedTape
  <2>3. a \in Machines /\ a.depth = m.depth /\ a.tape = Printed(m.tape, frame.id)
        /\ a.source = m.source /\ a.buffer = m.buffer /\ a.buffering = m.buffering
    BY <2>1, <2>2 DEF Machines
  <2> HIDE DEF a
  <2>4. Range(a.tape) \subseteq Range(m.tape) \cup {frame.id}
    BY <1>0, <2>3, PrintedTape
  <2>5. Falling(m.tape) /\ Behind(Range(m.tape), {frame.id}) =>
          Falling(a.tape) /\ Seen(m.tape) \cup {frame.id} \subseteq Seen(a.tape)
    BY <1>0, <2>3, PrintedTape
  <2>6. a.depth >= m.depth
    BY <1>0, <2>3
  <2>9. Moved(m, frame, a)
    BY <1>0, <1>2, <2>3, <2>4, <2>5, <2>6 DEF Moved
  <2> QED BY <2>9 DEF a
<1>3. CASE ~(frame.kind = "depth" /\ (m.depth = NoBook \/ frame.id > m.depth)) /\ frame.kind # "trade"
  <2>1. a = m
    BY <1>3 DEF ApplyFrame
  <2>2. m.depth >= m.depth
    BY <1>0
  <2> HIDE DEF a
  <2>9. Moved(m, frame, a)
    BY <1>0, <1>3, <2>1, <2>2 DEF Moved
  <2> QED BY <2>9 DEF a
<1> QED BY <1>1, <1>2, <1>3

\* Draining puts every print that was kept on the tape, where newer ones may push it off,
\* and never lets the book go back.
Drained(m, seq, n, d) ==
  /\ d \in Machines
  /\ d.source = m.source /\ d.buffer = m.buffer /\ d.buffering = m.buffering
  /\ d.depth \in {m.depth} \cup {seq[i].id : i \in 1..n} /\ d.depth >= m.depth
  /\ Range(d.tape) \subseteq Range(m.tape) \cup PrintsTo(seq, n)
  /\ Falling(m.tape) /\ Rising(seq) /\ Behind(Range(m.tape), Prints(seq)) =>
       Falling(d.tape) /\ Seen(m.tape) \cup PrintsTo(seq, n) \subseteq Seen(d.tape)

LEMMA DrainFacts ==
  ASSUME NEW m \in Machines, NEW seq \in Seq(Frames)
  PROVE  Drained(m, seq, Len(seq), FoldLeft(ApplyFrame, m, seq))
<1>1. PICK h : Runs(h, m, seq) /\ FoldLeft(ApplyFrame, m, seq) = h[Len(seq)]
  BY DrainRuns
<1> DEFINE k == Len(seq)
           N == {n \in Nat : n <= k => Drained(m, seq, n, h[n])}
<1>2. k \in Nat /\ \A n \in 1..k : seq[n] \in Frames
  OBVIOUS
<1>3. 0 \in N
  <2>1. h[0] = m
    BY <1>1 DEF Runs
  <2>2. PrintsTo(seq, 0) = {}
    BY DEF PrintsTo
  <2>3. m.depth \in Nat
    BY DEF Machines, Ids, NoBook
  <2>4. Drained(m, seq, 0, m)
    BY <2>2, <2>3 DEF Drained
  <2> QED BY <2>1, <2>4
<1>4. ASSUME NEW n \in N PROVE n + 1 \in N
  <2> SUFFICES ASSUME n + 1 <= k PROVE Drained(m, seq, n + 1, h[n + 1])
    OBVIOUS
  <2> DEFINE d == h[n]
             frame == seq[n + 1]
             a == ApplyFrame(d, frame)
  <2>1. n \in Nat /\ n + 1 \in 1..k /\ Drained(m, seq, n, d)
    BY <1>2
  <2>2. h[n + 1] = a
    <3>1. (n + 1) - 1 = n
      BY <2>1
    <3> QED BY <1>1, <2>1, <3>1 DEF Runs
  <2>3. d \in Machines /\ frame \in Frames
    BY <1>2, <2>1 DEF Drained
  <2> HIDE DEF d, frame
  <2>4. Moved(d, frame, a)
    BY <2>3, ApplyFrameFacts
  <2> HIDE DEF a
  <2>5. PrintsTo(seq, n + 1) = PrintsTo(seq, n) \cup (IF frame.kind = "trade" THEN {frame.id} ELSE {})
    <3>1. 1..(n + 1) = (1..n) \cup {n + 1}
      BY <2>1
    <3> QED BY <3>1 DEF PrintsTo, frame
  <2>6. a.depth \in {m.depth} \cup {seq[i].id : i \in 1..(n + 1)}
    <3>1. 1..(n + 1) = (1..n) \cup {n + 1}
      BY <2>1
    <3> QED BY <2>1, <2>4, <3>1 DEF Drained, Moved, frame
  <2>7. a.depth >= m.depth
    <3>1. a.depth \in Nat /\ d.depth \in Nat /\ m.depth \in Nat
      BY <2>3, <2>4 DEF Machines, Moved, Ids, NoBook
    <3> QED BY <2>1, <2>4, <3>1 DEF Drained, Moved
  <2>8. ASSUME Falling(m.tape), Rising(seq), Behind(Range(m.tape), Prints(seq))
        PROVE  Falling(a.tape) /\ Seen(m.tape) \cup PrintsTo(seq, n + 1) \subseteq Seen(a.tape)
    <3>1. Falling(d.tape) /\ Seen(m.tape) \cup PrintsTo(seq, n) \subseteq Seen(d.tape)
      BY <2>1, <2>8 DEF Drained
    <3>2. ASSUME frame.kind = "trade" PROVE Behind(Range(d.tape), {frame.id})
      <4>1. Range(d.tape) \subseteq Range(m.tape) \cup PrintsTo(seq, n)
        BY <2>1 DEF Drained
      <4>2. frame.id \in Prints(seq)
        BY <1>2, <2>1, <3>2 DEF Prints, PrintsTo, frame
      <4>3. Behind(PrintsTo(seq, n), {frame.id})
        <5>1. ASSUME NEW i \in 1..n, seq[i].kind = "trade" PROVE seq[i].id < frame.id
          <6>1. i \in 1..k /\ i < n + 1
            BY <1>2, <2>1
          <6> QED BY <2>1, <2>8, <3>2, <5>1, <6>1 DEF Rising, frame
        <5> QED BY <5>1 DEF PrintsTo, Behind
      <4> QED BY <2>8, <4>1, <4>2, <4>3 DEF Behind
    <3> QED BY <2>4, <2>5, <3>1, <3>2 DEF Moved
  <2>9. Range(a.tape) \subseteq Range(m.tape) \cup PrintsTo(seq, n + 1)
    BY <2>1, <2>4, <2>5 DEF Drained, Moved
  <2>10. Drained(m, seq, n + 1, a)
    BY <2>1, <2>4, <2>6, <2>7, <2>8, <2>9 DEF Drained, Moved
  <2> QED BY <2>2, <2>10
<1>5. N = Nat
  <2>1. N \in SUBSET Nat
    OBVIOUS
  <2> HIDE DEF N
  <2> QED BY <1>3, <1>4, <2>1, SetInduction
<1>6. Drained(m, seq, k, h[k])
  BY <1>2, <1>5
<1> QED BY <1>1, <1>6

-----------------------------------------------------------------------------
(* Frames kept and on their way.                                           *)

IdsOf(seq) == {seq[i].id : i \in 1..Len(seq)}
AtMost(A, n) == \A a \in A : a <= n

LEMMA FramesOne ==
  ASSUME NEW f \in Frames
  PROVE  /\ <<f>> \in Seq(Frames) /\ Rising(<<f>>) /\ IdsOf(<<f>>) = {f.id}
         /\ Prints(<<f>>) = IF f.kind = "trade" THEN {f.id} ELSE {}
<1>1. <<f>> \in Seq(Frames) /\ Len(<<f>>) = 1 /\ <<f>>[1] = f
  OBVIOUS
<1>2. 1..1 = {1}
  OBVIOUS
<1> QED BY <1>1, <1>2 DEF Rising, IdsOf, Prints, PrintsTo

LEMMA FramesJoined ==
  ASSUME NEW s \in Seq(Frames), NEW t \in Seq(Frames)
  PROVE  /\ s \o t \in Seq(Frames)
         /\ IdsOf(s \o t) = IdsOf(s) \cup IdsOf(t)
         /\ Prints(s \o t) = Prints(s) \cup Prints(t)
         /\ Rising(s \o t) <=> Rising(s) /\ Rising(t) /\ Behind(Prints(s), Prints(t))
<1> DEFINE u == s \o t
           a == Len(s)
           b == Len(t)
<1>1. /\ a \in Nat /\ b \in Nat /\ u \in Seq(Frames) /\ Len(u) = a + b
      /\ \A i \in 1..a + b : u[i] = IF i <= a THEN s[i] ELSE t[i - a]
  BY ConcatProperties
<1> HIDE DEF u
<1>2. \A i \in 1..a : i \in 1..a + b /\ u[i] = s[i]
  BY <1>1
<1>3. \A i \in 1..b : a + i \in 1..a + b /\ u[a + i] = t[i]
  <2> SUFFICES ASSUME NEW i \in 1..b PROVE a + i \in 1..a + b /\ u[a + i] = t[i]
    OBVIOUS
  <2>1. a + i \in 1..a + b /\ ~(a + i <= a) /\ (a + i) - a = i
    BY <1>1
  <2> QED BY <1>1, <2>1
<1>4. \A i \in 1..a + b : (i \in 1..a /\ u[i] = s[i]) \/ (i - a \in 1..b /\ u[i] = t[i - a])
  BY <1>1
<1> HIDE DEF a, b
<1>5. IdsOf(u) = IdsOf(s) \cup IdsOf(t)
  <2>1. IdsOf(u) \subseteq IdsOf(s) \cup IdsOf(t)
    BY <1>1, <1>4 DEF IdsOf, a, b
  <2>2. IdsOf(s) \subseteq IdsOf(u)
    BY <1>1, <1>2 DEF IdsOf, a, b
  <2>3. ASSUME NEW i \in 1..b PROVE t[i].id \in IdsOf(u)
    <3>1. a + i \in 1..Len(u) /\ u[a + i].id = t[i].id
      BY <1>1, <1>3
    <3> QED BY <3>1 DEF IdsOf
  <2> QED BY <2>1, <2>2, <2>3 DEF IdsOf, b
<1>6. Prints(u) = Prints(s) \cup Prints(t)
  <2>1. Prints(u) \subseteq Prints(s) \cup Prints(t)
    BY <1>1, <1>4 DEF Prints, PrintsTo, a, b
  <2>2. Prints(s) \subseteq Prints(u)
    BY <1>1, <1>2 DEF Prints, PrintsTo, a, b
  <2>3. Prints(t) \subseteq Prints(u)
    <3>1. ASSUME NEW i \in 1..b, t[i].kind = "trade" PROVE t[i].id \in Prints(u)
      <4>1. a + i \in 1..Len(u) /\ u[a + i] = t[i]
        BY <1>1, <1>3
      <4> QED BY <3>1, <4>1 DEF Prints, PrintsTo
    <3> QED BY <3>1 DEF Prints, PrintsTo, b
  <2> QED BY <2>1, <2>2, <2>3
<1>7. ASSUME Rising(s), Rising(t), Behind(Prints(s), Prints(t)) PROVE Rising(u)
  <2> SUFFICES ASSUME NEW i \in 1..a + b, NEW j \in 1..a + b, i < j,
                      u[i].kind = "trade", u[j].kind = "trade"
               PROVE  u[i].id < u[j].id
    BY <1>1 DEF Rising
  <2>1. CASE i \in 1..a /\ j \in 1..a
    BY <1>2, <1>7, <2>1 DEF Rising, a
  <2>2. CASE i \in 1..a /\ j \notin 1..a
    <3>1. u[i] = s[i] /\ j - a \in 1..b /\ u[j] = t[j - a]
      BY <1>2, <1>4, <2>2
    <3>2. u[i].id \in Prints(s) /\ u[j].id \in Prints(t)
      BY <2>2, <3>1 DEF Prints, PrintsTo, a, b
    <3> QED BY <1>7, <3>2 DEF Behind
  <2>3. CASE i \notin 1..a
    <3>1. j \notin 1..a
      BY <1>1, <2>3
    <3>2. i - a \in 1..b /\ u[i] = t[i - a] /\ j - a \in 1..b /\ u[j] = t[j - a] /\ i - a < j - a
      BY <1>1, <1>4, <2>3, <3>1
    <3> QED BY <1>7, <3>2 DEF Rising, b
  <2> QED BY <2>1, <2>2, <2>3
<1>8. ASSUME Rising(u) PROVE Rising(s) /\ Rising(t) /\ Behind(Prints(s), Prints(t))
  <2>1. Rising(s)
    BY <1>1, <1>2, <1>8 DEF Rising, a
  <2>2. Rising(t)
    <3> SUFFICES ASSUME NEW i \in 1..b, NEW j \in 1..b, i < j, t[i].kind = "trade", t[j].kind = "trade"
                 PROVE  t[i].id < t[j].id
      BY DEF Rising, b
    <3>1. a + i \in 1..a + b /\ a + j \in 1..a + b /\ u[a + i] = t[i] /\ u[a + j] = t[j] /\ a + i < a + j
      BY <1>1, <1>3
    <3> QED BY <1>1, <1>8, <3>1 DEF Rising
  <2>3. Behind(Prints(s), Prints(t))
    <3> SUFFICES ASSUME NEW i \in 1..a, NEW j \in 1..b, s[i].kind = "trade", t[j].kind = "trade"
                 PROVE  s[i].id < t[j].id
      BY DEF Behind, Prints, PrintsTo, a, b
    <3>1. i \in 1..a + b /\ a + j \in 1..a + b /\ u[i] = s[i] /\ u[a + j] = t[j] /\ i < a + j
      BY <1>1, <1>2, <1>3
    <3> QED BY <1>1, <1>8, <3>1 DEF Rising
  <2> QED BY <2>1, <2>2, <2>3
<1> QED BY <1>1, <1>5, <1>6, <1>7, <1>8 DEF u

LEMMA FramesNone == <<>> \in Seq(Frames) /\ Rising(<<>>) /\ IdsOf(<<>>) = {} /\ Prints(<<>>) = {}
BY DEF Rising, IdsOf, Prints, PrintsTo

\* The first frame on the wire and the others.
LEMMA FramesTaken ==
  ASSUME NEW s \in Seq(Frames), s # <<>>
  PROVE  /\ Head(s) \in Frames /\ Tail(s) \in Seq(Frames)
         /\ IdsOf(s) = {Head(s).id} \cup IdsOf(Tail(s))
         /\ Prints(s) = Prints(<<Head(s)>>) \cup Prints(Tail(s))
         /\ Rising(s) => Rising(Tail(s)) /\ Behind(Prints(<<Head(s)>>), Prints(Tail(s)))
<1>1. Head(s) \in Frames /\ Tail(s) \in Seq(Frames) /\ s = <<Head(s)>> \o Tail(s)
  OBVIOUS
<1>2. <<Head(s)>> \in Seq(Frames) /\ IdsOf(<<Head(s)>>) = {Head(s).id}
  BY <1>1, FramesOne
<1> DEFINE h == Head(s)
           t == Tail(s)
<1> HIDE DEF h, t
<1>3. IdsOf(<<h>> \o t) = IdsOf(<<h>>) \cup IdsOf(t) /\ Prints(<<h>> \o t) = Prints(<<h>>) \cup Prints(t)
      /\ (Rising(<<h>> \o t) <=> Rising(<<h>>) /\ Rising(t) /\ Behind(Prints(<<h>>), Prints(t)))
  BY <1>1, <1>2, FramesJoined DEF h, t
<1> QED BY <1>1, <1>2, <1>3 DEF h, t

-----------------------------------------------------------------------------
(* The invariant.                                                          *)

Up == socket \in {"open", "cut"}

\* While a socket is up the machine keeps frames or is live, and without one it
\* does neither; a retry is only awaited without one.
PhasesAgree ==
  /\ Up <=> machine.buffering \/ machine.source = "live"
  /\ ~(machine.buffering /\ machine.source = "live")
  /\ ~Up => wire = <<>> /\ opened = NotOpened
  /\ ~machine.buffering => machine.buffer = <<>>
  /\ retry => socket = "none"

\* Of the requests whose answer counts, one at most is of the socket that is up, and
\* its book is as new as the one it replaces; one at most is of no socket, and then
\* there is no book to replace.
FetchesFit ==
  /\ \A f \in fetches : f.at <= Len(stream)
  /\ \A f, g \in fetches : f.mine /\ g.mine /\ f.cold = g.cold => f = g
  /\ \A f \in fetches : f.mine /\ ~f.cold =>
       machine.buffering /\ (f.answered => f.at >= machine.depth /\ f.at >= opened.stream)
  /\ \A f \in fetches : f.mine /\ f.cold => machine.depth = NoBook \/ Up

\* Nobody is ahead of whom he hears from; a live book is of this connection.
DepthsFit ==
  /\ machine.depth <= Len(stream) /\ screen.depth <= machine.depth
  /\ AtMost(IdsOf(wire), read) /\ AtMost(IdsOf(machine.buffer), read)
  /\ \A m \in Markets : pending[m] <= read
  /\ machine.source = "live" => machine.depth >= opened.stream

\* The tape, what is kept and what is on the wire follow each other.
InOrder ==
  /\ Falling(machine.tape) /\ AtMost(Range(machine.tape), read)
  /\ Rising(machine.buffer) /\ Rising(wire)
  /\ Behind(Range(machine.tape), Prints(machine.buffer))
  /\ Behind(Range(machine.tape), Prints(wire))
  /\ Behind(Prints(machine.buffer), Prints(wire))

NoneLost ==
  socket = "open" /\ ~opened.full =>
    \A i \in opened.read + 1..read : stream[i] = market =>
      i \in Seen(machine.tape) \cup Prints(machine.buffer) \cup Prints(wire)

\* All of them are prints of the market on the screen.
OneMarket ==
  \A i \in Range(machine.tape) \cup Prints(machine.buffer) \cup Prints(wire) : stream[i] = market

FeedInvariant ==
  FeedTypeOK /\ PhasesAgree /\ FetchesFit /\ DepthsFit /\ InOrder /\ NoneLost /\ OneMarket

LEMMA Numbers ==
  ASSUME FeedTypeOK
  PROVE  /\ MaxUpdates \in Nat /\ Len(stream) \in Nat /\ read \in Nat /\ read <= Len(stream)
         /\ machine.depth \in Nat /\ screen.depth \in Nat /\ \A f \in fetches : f.at \in Nat
         /\ opened.stream \in Nat /\ opened.read \in Nat /\ Ids \subseteq Nat
<1>1. MaxUpdates \in Nat /\ Ids \subseteq Nat
  BY FeedAssumption DEF Ids
<1>2. Len(stream) \in Nat /\ read \in Nat /\ read <= Len(stream)
  BY DEF FeedTypeOK
<1>3. machine.depth \in Nat /\ screen.depth \in Nat
  <2>1. machine.depth \in Ids \cup {NoBook} /\ screen.depth \in Ids \cup {NoBook}
    BY DEF FeedTypeOK, Machines, Screens
  <2> QED BY <1>1, <2>1 DEF NoBook, Ids
<1>4. ASSUME NEW f \in fetches PROVE f.at \in Nat
  <2>1. f.at \in Ids \cup {NoBook}
    BY DEF FeedTypeOK, Fetches
  <2> QED BY <1>1, <2>1 DEF NoBook, Ids
<1>5. opened.stream \in Nat /\ opened.read \in Nat
  BY <1>2 DEF FeedTypeOK
<1> QED BY <1>1, <1>2, <1>3, <1>4, <1>5

LEMMA InitInvariant == FeedInit => FeedInvariant
<1> SUFFICES ASSUME FeedInit PROVE FeedInvariant
  OBVIOUS
<1>1. MaxUpdates \in Nat /\ First \in Markets
  BY FeedAssumption
<1>2. FeedTypeOK
  <2>1. machine \in Machines
    BY DEF FeedInit, InitialMachine, Machines, Sources, NoBook
  <2>2. screen \in Screens
    BY DEF FeedInit, InitialMachine, State, Screens, Sources, NoBook
  <2>3. opened \in [stream : 0..Len(stream), read : 0..read, full : BOOLEAN]
    BY DEF FeedInit, NotOpened
  <2>4. stream \in Seq(Markets) /\ Len(stream) = 0 /\ wire \in Seq(Frames)
    BY DEF FeedInit
  <2>5. read \in 0..Len(stream) /\ Len(stream) <= MaxUpdates
    BY <1>1, <2>4 DEF FeedInit
  <2>6. pending \in [Markets -> Ids \cup {NoBook}] /\ window \in [Markets -> BOOLEAN] /\ market \in Markets
    BY <1>1 DEF FeedInit
  <2>7. /\ socket \in {"none", "connecting", "open", "cut"} /\ (socket \in {"open", "connecting"} => ~retry)
        /\ fetches \subseteq Fetches /\ {due, retry, again} \subseteq BOOLEAN
        /\ hidden \in {"no", "grace", "yes"}
    BY DEF FeedInit
  <2> QED BY <2>1, <2>2, <2>3, <2>4, <2>5, <2>6, <2>7 DEF FeedTypeOK
<1>3. PhasesAgree
  BY DEF FeedInit, InitialMachine, PhasesAgree, Up
<1>4. FetchesFit
  BY DEF FeedInit, FetchesFit
<1>5. DepthsFit
  BY FramesNone DEF FeedInit, InitialMachine, State, DepthsFit, AtMost, NoBook
<1>6. InOrder
  BY FramesNone DEF FeedInit, InitialMachine, InOrder, Falling, AtMost, Behind, Range
<1>7. NoneLost
  BY DEF FeedInit, NoneLost
<1>8. OneMarket
  BY FramesNone DEF FeedInit, InitialMachine, OneMarket, Range
<1> QED BY <1>2, <1>3, <1>4, <1>5, <1>6, <1>7, <1>8 DEF FeedInvariant

\* A step of the browser that ends a connection, or leaves it ended: what it keeps of the
\* machine m, and of the requests.
Parted(m) ==
  /\ UNCHANGED <<stream, server>>
  /\ wire' = <<>> /\ socket' \in {"none", "connecting"} /\ opened' = NotOpened
  /\ market' \in Markets
  /\ m \in Machines /\ machine' = m
  /\ \/ screen' = State(m) /\ due' = FALSE
     \/ m = machine /\ UNCHANGED <<screen, due>>
  /\ m.source # "live" /\ ~m.buffering /\ m.buffer = <<>>
  /\ m.depth <= Len(stream) /\ Falling(m.tape) /\ AtMost(Range(m.tape), read)
  /\ \A i \in Range(m.tape) : stream[i] = market'
  /\ fetches' \subseteq Fetches
  /\ \A f \in fetches' : f.at <= Len(stream) /\ (f.mine => f.cold /\ m.depth = NoBook)
  /\ \A f, g \in fetches' : f.mine /\ g.mine => f = g
  /\ retry' \in BOOLEAN /\ again' \in BOOLEAN /\ hidden' \in {"no", "grace", "yes"}
  /\ retry' => socket' = "none"

LEMMA PartedKeeps ==
  ASSUME FeedInvariant, NEW m, Parted(m)
  PROVE  FeedInvariant'
<1>1. FeedTypeOK /\ PhasesAgree /\ FetchesFit /\ DepthsFit /\ InOrder /\ NoneLost /\ OneMarket
  BY DEF FeedInvariant
<1>2. m.depth \in Nat /\ Len(stream) \in Nat /\ read \in Nat
  BY <1>1, Numbers DEF Parted, Machines, NoBook
<1>3. stream' = stream /\ read' = read /\ pending' = pending /\ window' = window
  BY DEF Parted, server
<1>4. State(m) \in Screens /\ State(m).depth = m.depth
  BY DEF Parted, State, Machines, Screens
<1>11. screen' \in Screens /\ screen'.depth <= m.depth /\ due' \in BOOLEAN
  <2>1. CASE screen' = State(m) /\ due' = FALSE
    <3>1. State(m) \in Screens /\ State(m).depth <= m.depth
      BY <1>2, <1>4
    <3> QED BY <2>1, <3>1
  <2>2. CASE m = machine /\ UNCHANGED <<screen, due>>
    BY <1>1, <2>2 DEF DepthsFit, FeedTypeOK
  <2> QED BY <2>1, <2>2 DEF Parted
<1>5. FeedTypeOK'
  <2>1. (opened \in [stream : 0..Len(stream), read : 0..read, full : BOOLEAN])'
    BY <1>2, <1>3 DEF Parted, NotOpened
  <2>2. (stream \in Seq(Markets) /\ Len(stream) <= MaxUpdates /\ read \in 0..Len(stream)
         /\ pending \in [Markets -> Ids \cup {NoBook}] /\ window \in [Markets -> BOOLEAN])'
    BY <1>1, <1>3 DEF FeedTypeOK
  <2>3. (wire \in Seq(Frames))'
    BY DEF Parted
  <2> QED BY <1>11, <2>1, <2>2, <2>3 DEF FeedTypeOK, Parted
<1>6. PhasesAgree'
  BY DEF PhasesAgree, Parted, Up
<1>7. FetchesFit'
  BY <1>3 DEF FetchesFit, Parted
<1>8. DepthsFit'
  <2>1. screen'.depth <= machine'.depth
    BY <1>11 DEF Parted
  <2>2. \A k \in Markets : pending'[k] <= read'
    BY <1>1, <1>3 DEF DepthsFit
  <2>3. IdsOf(wire') = {} /\ IdsOf(machine'.buffer) = {}
    BY FramesNone DEF Parted
  <2> QED BY <1>3, <2>1, <2>2, <2>3 DEF DepthsFit, AtMost, Parted
<1>9. InOrder'
  <2>1. Rising(wire') /\ Rising(machine'.buffer) /\ Prints(wire') = {} /\ Prints(machine'.buffer) = {}
    BY FramesNone DEF Parted
  <2> QED BY <1>3, <2>1 DEF InOrder, Behind, AtMost, Parted
<1>10. NoneLost'
  BY DEF NoneLost, Parted
<1>12. OneMarket'
  <2>1. Prints(wire') = {} /\ Prints(machine'.buffer) = {}
    BY FramesNone DEF Parted
  <2> QED BY <1>3, <2>1 DEF OneMarket, Parted
<1> QED BY <1>5, <1>6, <1>7, <1>8, <1>9, <1>10, <1>12 DEF FeedInvariant

\* Requests that are outdated are requests, and their answers do not count.
LEMMA OutdatedCountForNothing ==
  ASSUME fetches \subseteq Fetches, NEW S \in SUBSET fetches, NEW f \in {[g EXCEPT !.mine = FALSE] : g \in S}
  PROVE  f \in Fetches /\ ~f.mine /\ \E g \in S : f.at = g.at
<1>1. PICK g \in S : f = [g EXCEPT !.mine = FALSE]
  OBVIOUS
<1>2. g \in Fetches
  OBVIOUS
<1>3. f \in Fetches /\ f.mine = FALSE /\ f.at = g.at
  BY <1>1, <1>2 DEF Fetches
<1> QED BY <1>3

LEMMA ColdFetch ==
  ASSUME FeedTypeOK
  PROVE  Fetch(TRUE) \in Fetches /\ Fetch(TRUE).mine /\ Fetch(TRUE).cold /\ Fetch(TRUE).at = 0
BY DEF FeedTypeOK, Fetch, Fetches, NoBook

\* Outdated requests, and a cold one where there is no book.
LEMMA PartedRequests ==
  ASSUME FeedInvariant, NEW S \in SUBSET fetches,
         NEW cold, cold \in {{}, {Fetch(TRUE)}}, cold # {} => machine.depth = NoBook,
         NEW F, F = {[g EXCEPT !.mine = FALSE] : g \in S} \cup cold
  PROVE  /\ F \subseteq Fetches
         /\ \A f \in F : f.at <= Len(stream) /\ (f.mine => f.cold /\ machine.depth = NoBook)
         /\ \A f, g \in F : f.mine /\ g.mine => f = g
<1>1. FeedTypeOK /\ \A f \in fetches : f.at <= Len(stream)
  BY DEF FeedInvariant, FetchesFit
<1>2. fetches \subseteq Fetches /\ 0 <= Len(stream)
  BY <1>1, Numbers DEF FeedTypeOK
<1>3. ASSUME NEW f \in {[g EXCEPT !.mine = FALSE] : g \in S}
      PROVE  f \in Fetches /\ ~f.mine /\ f.at <= Len(stream)
  BY <1>1, <1>2, OutdatedCountForNothing
<1>4. ASSUME NEW f \in cold
      PROVE  f = Fetch(TRUE) /\ f \in Fetches /\ f.cold /\ f.at <= Len(stream) /\ machine.depth = NoBook
  BY <1>1, <1>2, ColdFetch
<1> QED BY <1>3, <1>4

LEMMA DisconnectedMachine ==
  ASSUME FeedInvariant, NEW again1 \in BOOLEAN
  PROVE  LET m == OnDisconnect(machine, again1) IN
         /\ m \in Machines /\ m.depth = machine.depth /\ m.tape = machine.tape
         /\ m.source # "live" /\ ~m.buffering /\ m.buffer = <<>>
         /\ m.depth <= Len(stream) /\ Falling(m.tape) /\ AtMost(Range(m.tape), read)
         /\ \A i \in Range(m.tape) : stream[i] = market
<1> DEFINE m == OnDisconnect(machine, again1)
<1>1. machine \in Machines
  BY DEF FeedInvariant, FeedTypeOK
<1> DEFINE s == IF again1 THEN "reconnecting" ELSE "disconnected"
<1>0. s \in Sources /\ s # "live"
  BY DEF Sources
<1>4. m = [machine EXCEPT !.source = s, !.buffer = <<>>, !.buffering = FALSE]
  BY DEF OnDisconnect
<1> HIDE DEF s, m
<1>2. /\ m \in Machines /\ m.depth = machine.depth /\ m.tape = machine.tape
      /\ m.source # "live" /\ ~m.buffering /\ m.buffer = <<>>
  <2>1. DOMAIN machine = {"depth", "tape", "source", "buffer", "buffering"}
    BY <1>1 DEF Machines
  <2>2. m.source = s /\ m.buffer = <<>> /\ m.buffering = FALSE
        /\ m.depth = machine.depth /\ m.tape = machine.tape
    BY <1>4, <2>1
  <2>3. m \in Machines
    <3>1. machine.depth \in Ids \cup {NoBook} /\ machine.tape \in Seq(Ids) /\ <<>> \in Seq(Frames)
      BY <1>1 DEF Machines
    <3>2. m = [depth |-> machine.depth, tape |-> machine.tape, source |-> s, buffer |-> <<>>,
               buffering |-> FALSE]
      BY <1>1, <1>4 DEF Machines
    <3> QED BY <1>0, <3>1, <3>2 DEF Machines
  <2> QED BY <1>0, <2>2, <2>3
<1>3. /\ m \in Machines /\ m.depth = machine.depth /\ m.tape = machine.tape
      /\ m.source # "live" /\ ~m.buffering /\ m.buffer = <<>>
      /\ m.depth <= Len(stream) /\ Falling(m.tape) /\ AtMost(Range(m.tape), read)
      /\ \A i \in Range(m.tape) : stream[i] = market
  BY <1>2 DEF FeedInvariant, DepthsFit, InOrder, OneMarket
<1> QED BY <1>3 DEF m

LEMMA FailKeeps ==
  ASSUME FeedInvariant, Fail
  PROVE  FeedInvariant'
<1> DEFINE m == OnDisconnect(machine, TRUE)
<1>1. /\ m \in Machines /\ m.depth = machine.depth /\ m.source # "live" /\ ~m.buffering /\ m.buffer = <<>>
      /\ m.depth <= Len(stream) /\ Falling(m.tape) /\ AtMost(Range(m.tape), read)
      /\ \A i \in Range(m.tape) : stream[i] = market
  BY DisconnectedMachine
<1>2. /\ fetches' \subseteq Fetches
      /\ \A f \in fetches' : f.at <= Len(stream) /\ (f.mine => f.cold /\ machine.depth = NoBook)
      /\ \A f, g \in fetches' : f.mine /\ g.mine => f = g
  <2> DEFINE cold == IF machine.depth = NoBook THEN {Fetch(TRUE)} ELSE {}
  <2>1. fetches' = {[g EXCEPT !.mine = FALSE] : g \in fetches} \cup cold
    BY DEF Fail, Outdated
  <2>2. cold \in {{}, {Fetch(TRUE)}} /\ (cold # {} => machine.depth = NoBook)
    OBVIOUS
  <2> HIDE DEF cold
  <2> QED BY <2>1, <2>2, PartedRequests
<1>3. machine' = m /\ screen' = State(m) /\ due' = FALSE
  BY DEF Fail, Commit
<1> HIDE DEF m
<1>4. market \in Markets /\ hidden \in {"no", "grace", "yes"}
  BY DEF FeedInvariant, FeedTypeOK
<1>5. Parted(m)
  BY <1>1, <1>2, <1>3, <1>4 DEF Parted, Fail, Teardown
<1> QED BY <1>5, PartedKeeps

LEMMA GraceEndsKeeps ==
  ASSUME FeedInvariant, GraceEnds
  PROVE  FeedInvariant'
<1> DEFINE m == OnDisconnect(machine, FALSE)
<1>1. /\ m \in Machines /\ m.depth = machine.depth /\ m.source # "live" /\ ~m.buffering /\ m.buffer = <<>>
      /\ m.depth <= Len(stream) /\ Falling(m.tape) /\ AtMost(Range(m.tape), read)
      /\ \A i \in Range(m.tape) : stream[i] = market
  BY DisconnectedMachine
<1>2. /\ fetches' \subseteq Fetches
      /\ \A f \in fetches' : f.at <= Len(stream) /\ (f.mine => f.cold /\ machine.depth = NoBook)
      /\ \A f, g \in fetches' : f.mine /\ g.mine => f = g
  <2>1. fetches' = {[g EXCEPT !.mine = FALSE] : g \in fetches} \cup {}
    BY DEF GraceEnds, Outdated
  <2> QED BY <2>1, PartedRequests
<1>3. machine' = m /\ screen' = State(m) /\ due' = FALSE
  BY DEF GraceEnds, Commit
<1> HIDE DEF m
<1>4. market \in Markets /\ again \in BOOLEAN
  BY DEF FeedInvariant, FeedTypeOK
<1>5. Parted(m)
  BY <1>1, <1>2, <1>3, <1>4 DEF Parted, GraceEnds, Teardown
<1> QED BY <1>5, PartedKeeps

LEMMA SwitchKeeps ==
  ASSUME FeedInvariant, NEW k \in Markets, Switch(k)
  PROVE  FeedInvariant'
<1> DEFINE m == InitialMachine
<1>0. Len(stream) \in Nat
  BY Numbers DEF FeedInvariant
<1>1. /\ m \in Machines /\ m.depth = 0 /\ m.source # "live" /\ ~m.buffering /\ m.buffer = <<>>
      /\ Falling(m.tape) /\ AtMost(Range(m.tape), read) /\ Range(m.tape) = {}
  BY DEF InitialMachine, Machines, Sources, NoBook, Falling, AtMost, Range
<1>2. /\ fetches' \subseteq Fetches
      /\ \A f \in fetches' : f.at <= Len(stream) /\ ~f.mine
  <2>1. fetches \subseteq Fetches /\ \A f \in fetches : f.at <= Len(stream)
    BY DEF FeedInvariant, FeedTypeOK, FetchesFit
  <2>2. ASSUME NEW f \in fetches' PROVE f \in Fetches /\ ~f.mine /\ \E g \in fetches : f.at = g.at
    <3>1. f \in {[g EXCEPT !.mine = FALSE] : g \in fetches}
      BY DEF Switch, Outdated
    <3> QED BY <2>1, <3>1, OutdatedCountForNothing
  <2> QED BY <2>1, <2>2
<1>3. machine' = m /\ screen' = State(m) /\ due' = FALSE
  BY DEF Switch, Commit
<1> HIDE DEF m
<1>4. hidden \in {"no", "grace", "yes"}
  BY DEF FeedInvariant, FeedTypeOK
<1>6. m.depth <= Len(stream)
  BY <1>0, <1>1
<1>7. UNCHANGED <<stream, server>> /\ wire' = <<>> /\ socket' = "connecting" /\ opened' = NotOpened
      /\ market' \in Markets /\ retry' = FALSE /\ again' = FALSE /\ hidden' = hidden
  BY DEF Switch
<1>5. Parted(m)
  BY <1>1, <1>2, <1>3, <1>4, <1>6, <1>7 DEF Parted
<1> QED BY <1>5, PartedKeeps

\* A step that leaves the connection and the machine alone.
Quiet ==
  /\ UNCHANGED <<stream, server, wire, socket, market, machine, retry, opened>>
  /\ fetches' \subseteq fetches
  /\ screen' \in {screen, State(machine)}
  /\ due' \in BOOLEAN /\ again' \in BOOLEAN /\ hidden' \in {"no", "grace", "yes"}

LEMMA QuietKeeps ==
  ASSUME FeedInvariant, Quiet
  PROVE  FeedInvariant'
<1>1. FeedTypeOK /\ PhasesAgree /\ FetchesFit /\ DepthsFit /\ InOrder /\ NoneLost /\ OneMarket
  BY DEF FeedInvariant
<1>2. machine.depth \in Nat /\ machine \in Machines
  BY <1>1, Numbers DEF FeedTypeOK
<1>3. stream' = stream /\ read' = read /\ pending' = pending /\ window' = window
      /\ wire' = wire /\ socket' = socket /\ market' = market /\ machine' = machine
      /\ retry' = retry /\ opened' = opened
  BY DEF Quiet, server
<1>4. State(machine) \in Screens /\ State(machine).depth <= machine.depth
  BY <1>2 DEF State, Machines, Screens
<1>5. screen' \in Screens /\ screen'.depth <= machine.depth
  BY <1>1, <1>4 DEF Quiet, DepthsFit, FeedTypeOK
<1>6. FeedTypeOK'
  BY <1>1, <1>3, <1>5 DEF FeedTypeOK, Quiet
<1>7. PhasesAgree'
  BY <1>1, <1>3 DEF PhasesAgree, Up
<1>8. FetchesFit'
  BY <1>1, <1>3 DEF FetchesFit, Quiet, Up
<1>9. DepthsFit'
  BY <1>1, <1>3, <1>5 DEF DepthsFit
<1>10. InOrder'
  BY <1>1, <1>3 DEF InOrder
<1>11. NoneLost' /\ OneMarket'
  BY <1>1, <1>3 DEF NoneLost, OneMarket
<1> QED BY <1>6, <1>7, <1>8, <1>9, <1>10, <1>11 DEF FeedInvariant

\* Without a socket, a request that counts is a cold one, and there is no book.
LEMMA RequestsWithoutSocket ==
  ASSUME FeedInvariant, ~Up
  PROVE  /\ machine.source # "live" /\ ~machine.buffering /\ machine.buffer = <<>>
         /\ wire = <<>> /\ opened = NotOpened
         /\ \A f \in fetches : f.at <= Len(stream) /\ (f.mine => f.cold /\ machine.depth = NoBook)
         /\ \A f, g \in fetches : f.mine /\ g.mine => f = g
<1>1. PhasesAgree /\ FetchesFit
  BY DEF FeedInvariant
<1>2. machine.source # "live" /\ ~machine.buffering /\ machine.buffer = <<>>
      /\ wire = <<>> /\ opened = NotOpened
  BY <1>1 DEF PhasesAgree
<1>3. ASSUME NEW f \in fetches
      PROVE  f.at <= Len(stream) /\ (f.mine => f.cold /\ machine.depth = NoBook)
  BY <1>1, <1>2 DEF FetchesFit
<1>4. ASSUME NEW f \in fetches, NEW g \in fetches, f.mine, g.mine PROVE f = g
  <2>1. f.cold /\ g.cold /\ f.cold \in BOOLEAN /\ g.cold \in BOOLEAN
    BY <1>3, <1>4 DEF FeedInvariant, FeedTypeOK, Fetches
  <2>2. f.cold = g.cold
    BY <2>1
  <2> QED BY <1>1, <1>4, <2>2 DEF FetchesFit
<1> QED BY <1>2, <1>3, <1>4

LEMMA RetryFiresKeeps ==
  ASSUME FeedInvariant, RetryFires
  PROVE  FeedInvariant'
<1>1. FeedTypeOK /\ socket = "none"
  BY DEF FeedInvariant, PhasesAgree, RetryFires
<1>2. ~Up
  BY <1>1 DEF Up
<1> DEFINE n == OnRetrying(machine)
<1>3. machine \in Machines /\ machine.depth <= Len(stream) /\ Falling(machine.tape)
      /\ AtMost(Range(machine.tape), read) /\ machine.source # "live" /\ ~machine.buffering
      /\ machine.buffer = <<>> /\ \A i \in Range(machine.tape) : stream[i] = market
  BY <1>1, <1>2, RequestsWithoutSocket DEF FeedInvariant, DepthsFit, InOrder, OneMarket, FeedTypeOK
<1>4. n = [machine EXCEPT !.source = "reconnecting", !.buffering = FALSE]
  BY DEF OnRetrying
<1> HIDE DEF n
<1>5. n \in Machines /\ n.depth = machine.depth /\ n.tape = machine.tape /\ n.source # "live"
      /\ ~n.buffering /\ n.buffer = <<>>
  BY <1>3, <1>4 DEF Machines, Sources
<1>6. /\ fetches' \subseteq Fetches
      /\ \A f \in fetches' : f.at <= Len(stream) /\ (f.mine => f.cold /\ machine.depth = NoBook)
      /\ \A f, g \in fetches' : f.mine /\ g.mine => f = g
  BY <1>1, <1>2, RequestsWithoutSocket DEF RetryFires, FeedTypeOK
<1>7. UNCHANGED <<stream, server>> /\ wire' = <<>> /\ socket' = "connecting" /\ opened' = NotOpened
      /\ market' \in Markets /\ market' = market /\ retry' = FALSE /\ again' \in BOOLEAN
      /\ hidden' \in {"no", "grace", "yes"}
  BY <1>1, <1>2, RequestsWithoutSocket DEF RetryFires, Connect, FeedTypeOK
<1>8. CASE again
  <2>1. machine' = n /\ screen' = State(n) /\ due' = FALSE
    BY <1>8 DEF RetryFires, Connect, Commit, n
  <2>2. Parted(n)
    BY <1>3, <1>5, <1>6, <1>7, <2>1 DEF Parted
  <2> QED BY <2>2, PartedKeeps
<1>9. CASE ~again
  <2>1. machine' = machine /\ UNCHANGED <<screen, due>>
    BY <1>9 DEF RetryFires, Connect
  <2>2. Parted(machine)
    BY <1>3, <1>6, <1>7, <2>1 DEF Parted
  <2> QED BY <2>2, PartedKeeps
<1> QED BY <1>8, <1>9

LEMMA ShowKeeps ==
  ASSUME FeedInvariant, Show
  PROVE  FeedInvariant'
<1>1. FeedTypeOK
  BY DEF FeedInvariant
<1>2. CASE socket = "none" /\ ~retry
  <2>1. ~Up
    BY <1>2 DEF Up
  <2>2. machine \in Machines /\ machine.depth <= Len(stream) /\ Falling(machine.tape)
        /\ AtMost(Range(machine.tape), read) /\ \A i \in Range(machine.tape) : stream[i] = market
    BY <1>1 DEF FeedInvariant, DepthsFit, InOrder, OneMarket, FeedTypeOK
  <2>3. machine.source # "live" /\ ~machine.buffering /\ machine.buffer = <<>>
        /\ wire = <<>> /\ opened = NotOpened
    BY <2>1, RequestsWithoutSocket
  <2>4. /\ fetches' \subseteq Fetches
        /\ \A f \in fetches' : f.at <= Len(stream) /\ (f.mine => f.cold /\ machine.depth = NoBook)
        /\ \A f, g \in fetches' : f.mine /\ g.mine => f = g
    BY <1>1, <2>1, RequestsWithoutSocket DEF Show, FeedTypeOK
  <2>5. UNCHANGED <<stream, server>> /\ wire' = <<>> /\ socket' = "connecting"
        /\ opened' = NotOpened /\ market' \in Markets /\ market' = market
        /\ retry' \in BOOLEAN /\ ~retry' /\ again' = FALSE
        /\ hidden' = "no" /\ machine' = machine /\ UNCHANGED <<screen, due>>
    BY <1>1, <1>2, <2>3 DEF Show, FeedTypeOK
  <2>6. Parted(machine)
    BY <2>2, <2>3, <2>4, <2>5 DEF Parted
  <2> QED BY <2>6, PartedKeeps
<1>3. CASE ~(socket = "none" /\ ~retry)
  <2>1. Quiet
    BY <1>1, <1>3 DEF Show, Quiet, FeedTypeOK
  <2> QED BY <2>1, QuietKeeps
<1> QED BY <1>2, <1>3

LEMMA QuietSteps ==
  ASSUME FeedInvariant, Paint \/ Hide \/ UNCHANGED feedVars
  PROVE  FeedInvariant'
<1>1. FeedTypeOK
  BY DEF FeedInvariant
<1>2. CASE Paint
  <2>1. Quiet
    BY <1>1, <1>2 DEF Paint, Quiet, FeedTypeOK
  <2> QED BY <2>1, QuietKeeps
<1>3. CASE Hide
  <2>1. Quiet
    BY <1>1, <1>3 DEF Hide, Quiet, FeedTypeOK
  <2> QED BY <2>1, QuietKeeps
<1>4. CASE UNCHANGED feedVars
  <2>1. Quiet
    BY <1>1, <1>4 DEF feedVars, browser, Quiet, FeedTypeOK
  <2> QED BY <2>1, QuietKeeps
<1> QED BY <1>2, <1>3, <1>4

LEMMA RejectKeeps ==
  ASSUME FeedInvariant, NEW f \in fetches, Reject(f)
  PROVE  FeedInvariant'
<1>1. FeedTypeOK
  BY DEF FeedInvariant
<1>2. CASE f.mine /\ ~f.cold
  <2> DEFINE m == OnDisconnect(machine, TRUE)
  <2>1. /\ m \in Machines /\ m.depth = machine.depth /\ m.source # "live" /\ ~m.buffering
        /\ m.buffer = <<>> /\ m.depth <= Len(stream) /\ Falling(m.tape) /\ AtMost(Range(m.tape), read)
        /\ \A i \in Range(m.tape) : stream[i] = market
    BY DisconnectedMachine
  <2>2. /\ fetches' \subseteq Fetches
        /\ \A g \in fetches' : g.at <= Len(stream) /\ (g.mine => g.cold /\ machine.depth = NoBook)
        /\ \A g, h \in fetches' : g.mine /\ h.mine => g = h
    <3> DEFINE cold == IF machine.depth = NoBook THEN {Fetch(TRUE)} ELSE {}
               S == fetches \ {f}
    <3>1. fetches' = {[g EXCEPT !.mine = FALSE] : g \in S} \cup cold
      BY <1>2 DEF Reject
    <3>2. cold \in {{}, {Fetch(TRUE)}} /\ (cold # {} => machine.depth = NoBook) /\ S \in SUBSET fetches
      OBVIOUS
    <3> HIDE DEF cold, S
    <3> QED BY <3>1, <3>2, PartedRequests
  <2>3. machine' = m /\ screen' = State(m) /\ due' = FALSE
    BY <1>2 DEF Reject, Commit
  <2> HIDE DEF m
  <2>4. UNCHANGED <<stream, server>> /\ wire' = <<>> /\ socket' = "none" /\ opened' = NotOpened
        /\ market' \in Markets /\ market' = market /\ retry' = TRUE /\ again' = TRUE
        /\ hidden' \in {"no", "grace", "yes"}
    BY <1>1, <1>2 DEF Reject, Teardown, FeedTypeOK
  <2>5. Parted(m)
    BY <2>1, <2>2, <2>3, <2>4 DEF Parted
  <2> QED BY <2>5, PartedKeeps
<1>3. CASE ~(f.mine /\ ~f.cold)
  <2>1. Quiet
    BY <1>1, <1>3 DEF Reject, Quiet, FeedTypeOK
  <2> QED BY <2>1, QuietKeeps
<1> QED BY <1>2, <1>3

-----------------------------------------------------------------------------
(* The engine and ws-server.                                               *)

LEMMA PrintsAreIds ==
  ASSUME NEW s \in Seq(Frames)
  PROVE  Prints(s) \subseteq IdsOf(s) /\ IdsOf(s) \subseteq Ids
<1>1. \A i \in 1..Len(s) : s[i] \in Frames
  OBVIOUS
<1> QED BY <1>1 DEF Prints, PrintsTo, IdsOf, Frames

LEMMA TapeIsIds ==
  ASSUME NEW t \in Seq(Ids)
  PROVE  Range(t) \subseteq Ids
BY DEF Range

\* New frames fs on the wire, whose prints are all beyond what has been read so far.
LEMMA WireGrows ==
  ASSUME FeedInvariant, NEW k, NEW fs \in Seq(Frames), NEW r \in read..Len(stream),
         Published(k, fs), Rising(fs), AtMost(IdsOf(fs), r),
         \A p \in Prints(fs) : p > read /\ stream[p] = k
  PROVE  /\ wire' \in Seq(Frames) /\ AtMost(IdsOf(wire'), r) /\ Rising(wire')
         /\ Behind(Range(machine.tape), Prints(wire')) /\ Behind(Prints(machine.buffer), Prints(wire'))
         /\ ~Up => wire' = <<>>
         /\ Prints(wire) \subseteq Prints(wire')
         /\ k = market /\ socket = "open" => Prints(fs) \subseteq Prints(wire')
         /\ AtMost(IdsOf(machine.buffer), r) /\ AtMost(Range(machine.tape), r)
         /\ \A p \in Prints(wire') : stream[p] = market
<1>1. FeedTypeOK /\ PhasesAgree /\ DepthsFit /\ InOrder /\ OneMarket
  BY DEF FeedInvariant
<1>2. read \in Nat /\ r \in Nat /\ read <= r /\ Ids \subseteq Nat
  <2>1. read \in Nat /\ Len(stream) \in Nat /\ Ids \subseteq Nat
    BY <1>1, Numbers
  <2> QED BY <2>1
<1>3. wire \in Seq(Frames) /\ machine.buffer \in Seq(Frames) /\ machine.tape \in Seq(Ids)
  BY <1>1 DEF FeedTypeOK, Machines
<1>4. /\ IdsOf(wire) \subseteq Nat /\ Prints(wire) \subseteq IdsOf(wire)
      /\ IdsOf(machine.buffer) \subseteq Nat /\ Prints(machine.buffer) \subseteq IdsOf(machine.buffer)
      /\ Range(machine.tape) \subseteq Nat /\ IdsOf(fs) \subseteq Nat /\ Prints(fs) \subseteq IdsOf(fs)
  BY <1>2, <1>3, PrintsAreIds, TapeIsIds
<1>5. ASSUME NEW A \in SUBSET Nat, AtMost(A, read)
      PROVE  AtMost(A, r) /\ Behind(A, Prints(fs))
  BY <1>2, <1>4, <1>5 DEF AtMost, Behind
<1>6. /\ AtMost(IdsOf(wire), read) /\ AtMost(IdsOf(machine.buffer), read)
      /\ AtMost(Range(machine.tape), read)
  BY <1>1 DEF DepthsFit, InOrder
<1>7. /\ AtMost(IdsOf(wire), r) /\ AtMost(IdsOf(machine.buffer), r) /\ AtMost(Range(machine.tape), r)
      /\ Behind(IdsOf(wire), Prints(fs)) /\ Behind(IdsOf(machine.buffer), Prints(fs))
      /\ Behind(Range(machine.tape), Prints(fs))
  BY <1>4, <1>5, <1>6
<1>8. Behind(Prints(wire), Prints(fs)) /\ Behind(Prints(machine.buffer), Prints(fs))
  BY <1>4, <1>7 DEF Behind
<1>9. CASE k = market /\ socket = "open"
  <2>1. wire' = wire \o fs /\ Up
    BY <1>9 DEF Published, Up
  <2>2. /\ wire \o fs \in Seq(Frames) /\ IdsOf(wire \o fs) = IdsOf(wire) \cup IdsOf(fs)
        /\ Prints(wire \o fs) = Prints(wire) \cup Prints(fs)
        /\ (Rising(wire \o fs) <=> Rising(wire) /\ Rising(fs) /\ Behind(Prints(wire), Prints(fs)))
    BY <1>3, FramesJoined
  <2>3. Rising(wire \o fs)
    BY <1>1, <1>8, <2>2 DEF InOrder
  <2>4. Behind(Range(machine.tape), Prints(wire')) /\ Behind(Prints(machine.buffer), Prints(wire'))
    BY <1>1, <1>7, <1>8, <2>1, <2>2 DEF InOrder, Behind
  <2>5. AtMost(IdsOf(wire'), r)
    BY <1>7, <2>1, <2>2 DEF AtMost
  <2>6. \A p \in Prints(wire') : stream[p] = market
    BY <1>1, <1>9, <2>1, <2>2 DEF OneMarket
  <2> QED BY <1>7, <2>1, <2>2, <2>3, <2>4, <2>5, <2>6
<1>10. CASE ~(k = market /\ socket = "open")
  <2>1. wire' = wire
    BY <1>10 DEF Published
  <2>2. \A p \in Prints(wire') : stream[p] = market
    BY <1>1, <2>1 DEF OneMarket
  <2> QED BY <1>1, <1>3, <1>7, <1>10, <2>1, <2>2 DEF InOrder, PhasesAgree
<1> QED BY <1>9, <1>10

LEMMA UpdateKeeps ==
  ASSUME FeedInvariant, NEW k \in Markets, Update(k)
  PROVE  FeedInvariant'
<1>1. FeedTypeOK /\ PhasesAgree /\ FetchesFit /\ DepthsFit /\ InOrder /\ NoneLost /\ OneMarket
  BY DEF FeedInvariant
<1>2. /\ MaxUpdates \in Nat /\ Len(stream) \in Nat /\ read \in Nat /\ read <= Len(stream)
      /\ machine.depth \in Nat /\ \A f \in fetches : f.at \in Nat
  BY <1>1, Numbers
<1>3. stream \in Seq(Markets)
  BY <1>1 DEF FeedTypeOK
<1>4. /\ stream' \in Seq(Markets) /\ Len(stream') = Len(stream) + 1
      /\ \A i \in 1..Len(stream) : stream'[i] = stream[i]
  BY <1>3 DEF Update
<1>5. read' = read /\ pending' = pending /\ window' = window
      /\ wire' = wire /\ socket' = socket /\ market' = market /\ machine' = machine
      /\ screen' = screen /\ due' = due /\ fetches' = fetches /\ retry' = retry /\ again' = again
      /\ hidden' = hidden /\ opened' = opened /\ Len(stream) < MaxUpdates
  BY DEF Update, server, browser
<1>6. FeedTypeOK'
  <2>1. read' \in 0..Len(stream') /\ Len(stream') <= MaxUpdates
    BY <1>2, <1>4, <1>5
  <2>2. opened' \in [stream : 0..Len(stream'), read : 0..read', full : BOOLEAN]
    <3>1. opened \in [stream : 0..Len(stream), read : 0..read, full : BOOLEAN]
      BY <1>1 DEF FeedTypeOK
    <3>2. 0..Len(stream) \subseteq 0..Len(stream')
      BY <1>2, <1>4
    <3> QED BY <1>5, <3>1, <3>2
  <2> QED BY <1>1, <1>4, <1>5, <2>1, <2>2 DEF FeedTypeOK
<1>7. PhasesAgree'
  BY <1>1, <1>5 DEF PhasesAgree, Up
<1>8. FetchesFit'
  <2>1. \A f \in fetches : f.at <= Len(stream')
    BY <1>1, <1>2, <1>4 DEF FetchesFit
  <2> QED BY <1>1, <1>5, <2>1 DEF FetchesFit, Up
<1>9. DepthsFit'
  <2>1. machine.depth <= Len(stream')
    BY <1>1, <1>2, <1>4 DEF DepthsFit
  <2> QED BY <1>1, <1>5, <2>1 DEF DepthsFit
<1>10. InOrder'
  BY <1>1, <1>5 DEF InOrder
<1>11. NoneLost'
  <2>1. opened.read \in Nat
    BY <1>1, Numbers
  <2>2. \A i \in opened.read + 1..read : i \in 1..Len(stream)
    BY <1>2, <2>1
  <2> QED BY <1>1, <1>4, <1>5, <2>2 DEF NoneLost
<1>12. OneMarket'
  <2> SUFFICES ASSUME NEW i \in Range(machine.tape) \cup Prints(machine.buffer) \cup Prints(wire)
               PROVE  stream'[i] = market
    BY <1>5 DEF OneMarket
  <2>1. machine.tape \in Seq(Ids) /\ machine.buffer \in Seq(Frames) /\ wire \in Seq(Frames)
    BY <1>1 DEF FeedTypeOK, Machines
  <2>2. i \in Ids /\ i <= read
    BY <1>1, <2>1, PrintsAreIds, TapeIsIds DEF InOrder, DepthsFit, AtMost
  <2>3. i \in 1..Len(stream)
    BY <1>2, <2>2 DEF Ids
  <2> QED BY <1>1, <1>4, <2>3 DEF OneMarket
<1> QED BY <1>6, <1>7, <1>8, <1>9, <1>10, <1>11, <1>12 DEF FeedInvariant

\* What the invariant needs of a step of ws-server, in which only wire, read, pending and
\* window change and the wire grows as WireGrows says.
LEMMA ServerStepKeeps ==
  ASSUME FeedInvariant, read' \in read..Len(stream),
         UNCHANGED <<stream, socket, browser, opened, events>>,
         wire' \in Seq(Frames), AtMost(IdsOf(wire'), read'), Rising(wire'),
         Behind(Range(machine.tape), Prints(wire')), Behind(Prints(machine.buffer), Prints(wire')),
         ~Up => wire' = <<>>, Prints(wire) \subseteq Prints(wire'),
         AtMost(IdsOf(machine.buffer), read'), AtMost(Range(machine.tape), read'),
         pending' \in [Markets -> Ids \cup {NoBook}], \A m \in Markets : pending'[m] <= read',
         window' \in [Markets -> BOOLEAN],
         \A i \in read + 1..read' : socket = "open" /\ stream[i] = market => i \in Prints(wire'),
         \A p \in Prints(wire') : stream[p] = market
  PROVE  FeedInvariant'
<1>1. FeedTypeOK /\ PhasesAgree /\ FetchesFit /\ DepthsFit /\ InOrder /\ NoneLost /\ OneMarket
  BY DEF FeedInvariant
<1>2. Len(stream) \in Nat /\ read \in Nat /\ read <= Len(stream) /\ opened.read \in Nat
  BY <1>1, Numbers
<1>3. stream' = stream /\ socket' = socket /\ market' = market /\ machine' = machine
      /\ screen' = screen /\ due' = due /\ fetches' = fetches /\ retry' = retry /\ again' = again
      /\ hidden' = hidden /\ opened' = opened
  BY DEF browser
<1>4. FeedTypeOK'
  <2>1. read' \in 0..Len(stream') /\ 0..read \subseteq 0..read'
    BY <1>2, <1>3
  <2>2. opened' \in [stream : 0..Len(stream'), read : 0..read', full : BOOLEAN]
    <3>1. opened \in [stream : 0..Len(stream), read : 0..read, full : BOOLEAN]
      BY <1>1 DEF FeedTypeOK
    <3> QED BY <1>3, <2>1, <3>1
  <2> QED BY <1>1, <1>3, <2>1, <2>2 DEF FeedTypeOK
<1>5. PhasesAgree'
  BY <1>1, <1>3 DEF PhasesAgree, Up
<1>6. FetchesFit'
  BY <1>1, <1>3 DEF FetchesFit, Up
<1>7. DepthsFit'
  BY <1>1, <1>3 DEF DepthsFit
<1>8. InOrder'
  BY <1>1, <1>3 DEF InOrder
<1>9. NoneLost'
  <2> SUFFICES ASSUME socket = "open" /\ ~opened.full, NEW i \in opened.read + 1..read',
                      stream[i] = market
               PROVE  i \in Seen(machine.tape) \cup Prints(machine.buffer) \cup Prints(wire')
    BY <1>3 DEF NoneLost
  <2>1. CASE i <= read
    <3>1. i \in opened.read + 1..read
      BY <1>2, <2>1
    <3> QED BY <1>1, <3>1 DEF NoneLost
  <2>2. CASE ~(i <= read)
    <3>1. i \in read + 1..read'
      BY <1>2, <2>2
    <3> QED BY <3>1
  <2> QED BY <2>1, <2>2
<1>10. OneMarket'
  BY <1>1, <1>3 DEF OneMarket
<1> QED BY <1>4, <1>5, <1>6, <1>7, <1>8, <1>9, <1>10 DEF FeedInvariant

LEMMA HandleKeeps ==
  ASSUME FeedInvariant, Handle
  PROVE  FeedInvariant'
<1> DEFINE r == read + 1
           k == stream[r]
<1>1. FeedTypeOK /\ DepthsFit
  BY DEF FeedInvariant
<1>2. Len(stream) \in Nat /\ read \in Nat /\ Ids \subseteq Nat /\ MaxUpdates \in Nat
  BY <1>1, Numbers
<1>3. read' = r /\ r \in 1..Len(stream) /\ r \in read..Len(stream)
  BY <1>2 DEF Handle
<1>4. r \in Ids
  BY <1>1, <1>2, <1>3 DEF FeedTypeOK, Ids
<1>5. k \in Markets
  BY <1>1, <1>3 DEF FeedTypeOK
<1>6. Trade(r) \in Frames /\ Book(r) \in Frames
  BY <1>4 DEF Trade, Book, Frames
<1>7. UNCHANGED <<stream, socket, browser, opened, events>>
  BY DEF Handle
<1>8. ASSUME NEW fs \in Seq(Frames), Published(k, fs), Rising(fs), IdsOf(fs) = {r}, Prints(fs) = {r},
             pending' \in [Markets -> Ids \cup {NoBook}], \A m \in Markets : pending'[m] <= r,
             window' \in [Markets -> BOOLEAN]
      PROVE  FeedInvariant'
  <2>1. AtMost(IdsOf(fs), r) /\ \A p \in Prints(fs) : p > read /\ stream[p] = k
    BY <1>2, <1>8 DEF AtMost
  <2> HIDE DEF k, r
  <2>2. /\ wire' \in Seq(Frames) /\ AtMost(IdsOf(wire'), r) /\ Rising(wire')
        /\ Behind(Range(machine.tape), Prints(wire')) /\ Behind(Prints(machine.buffer), Prints(wire'))
        /\ (~Up => wire' = <<>>) /\ Prints(wire) \subseteq Prints(wire')
        /\ (k = market /\ socket = "open" => Prints(fs) \subseteq Prints(wire'))
        /\ AtMost(IdsOf(machine.buffer), r) /\ AtMost(Range(machine.tape), r)
        /\ \A p \in Prints(wire') : stream[p] = market
    BY <1>3, <1>8, <2>1, WireGrows
  <2>3. ASSUME NEW i \in read + 1..read', socket = "open" /\ stream[i] = market
        PROVE  i \in Prints(wire')
    <3>1. i = r
      BY <1>2, <1>3 DEF r
    <3> QED BY <1>8, <2>2, <2>3, <3>1 DEF k
  <2> QED BY <1>3, <1>7, <1>8, <2>2, <2>3, ServerStepKeeps
<1>9. pending \in [Markets -> Ids \cup {NoBook}] /\ window \in [Markets -> BOOLEAN]
      /\ \A m \in Markets : pending[m] <= r
  <2>1. pending \in [Markets -> Ids \cup {NoBook}] /\ window \in [Markets -> BOOLEAN]
    BY <1>1 DEF FeedTypeOK
  <2>2. ASSUME NEW m \in Markets PROVE pending[m] <= r
    <3>1. pending[m] \in Ids \cup {NoBook} /\ NoBook \in Nat
      BY <2>1 DEF NoBook
    <3>2. pending[m] \in Nat
      BY <1>2, <3>1
    <3>3. pending[m] <= read
      BY <1>1 DEF DepthsFit
    <3> QED BY <1>2, <3>2, <3>3
  <2> QED BY <2>1, <2>2
<1>10. CASE window[k]
  <2>1. pending' = [pending EXCEPT ![k] = r] /\ Published(k, <<Trade(r)>>) /\ window' = window
    BY <1>10, <1>3 DEF Handle
  <2>2. <<Trade(r)>> \in Seq(Frames) /\ Rising(<<Trade(r)>>) /\ IdsOf(<<Trade(r)>>) = {r}
        /\ Prints(<<Trade(r)>>) = {r}
    <3>1. Trade(r).id = r /\ Trade(r).kind = "trade"
      BY DEF Trade
    <3> QED BY <1>6, <3>1, FramesOne
  <2>3. pending' \in [Markets -> Ids \cup {NoBook}] /\ \A m \in Markets : pending'[m] <= r
    <3>1. r <= r
      BY <1>2
    <3> HIDE DEF r, k
    <3> QED BY <1>4, <1>9, <2>1, <3>1
  <2> QED BY <1>8, <1>9, <2>1, <2>2, <2>3
<1>11. CASE ~window[k]
  <2>1. Published(k, <<Trade(r), Book(r)>>) /\ window' = [window EXCEPT ![k] = TRUE]
        /\ pending' = pending
    BY <1>11, <1>3 DEF Handle
  <2> DEFINE a == <<Trade(r)>>
             b == <<Book(r)>>
  <2>2. a \in Seq(Frames) /\ Rising(a) /\ IdsOf(a) = {r} /\ Prints(a) = {r}
    <3>1. Trade(r).id = r /\ Trade(r).kind = "trade"
      BY DEF Trade
    <3> QED BY <1>6, <3>1, FramesOne
  <2>3. b \in Seq(Frames) /\ Rising(b) /\ IdsOf(b) = {r} /\ Prints(b) = {}
    <3>1. Book(r).id = r /\ Book(r).kind # "trade"
      BY DEF Book
    <3> QED BY <1>6, <3>1, FramesOne
  <2>4. <<Trade(r), Book(r)>> = a \o b
    OBVIOUS
  <2> HIDE DEF a, b, r, k
  <2>5. a \o b \in Seq(Frames) /\ IdsOf(a \o b) = {r} /\ Prints(a \o b) = {r} /\ Rising(a \o b)
    <3>1. Behind(Prints(a), Prints(b))
      BY <2>3 DEF Behind
    <3> QED BY <2>2, <2>3, <3>1, FramesJoined
  <2>6. window' \in [Markets -> BOOLEAN]
    BY <1>9, <2>1
  <2> QED BY <1>8, <1>9, <2>1, <2>4, <2>5, <2>6
<1> QED BY <1>10, <1>11

LEMMA FlushKeeps ==
  ASSUME FeedInvariant, NEW k \in Markets, Flush(k)
  PROVE  FeedInvariant'
<1>1. FeedTypeOK /\ PhasesAgree /\ FetchesFit /\ DepthsFit /\ InOrder /\ NoneLost /\ OneMarket
  BY DEF FeedInvariant
<1>2. Len(stream) \in Nat /\ read \in Nat /\ Ids \subseteq Nat /\ read <= Len(stream)
  BY <1>1, Numbers
<1>3. UNCHANGED <<stream, socket, browser, opened, events>> /\ read' = read
      /\ read' \in read..Len(stream)
  BY <1>2 DEF Flush
<1>4. pending \in [Markets -> Ids \cup {NoBook}] /\ window \in [Markets -> BOOLEAN]
      /\ \A m \in Markets : pending[m] <= read
  BY <1>1 DEF FeedTypeOK, DepthsFit
<1>5. \A i \in read + 1..read' : FALSE
  BY <1>2, <1>3
<1>6. CASE pending[k] = NoBook
  <2>1. window' = [window EXCEPT ![k] = FALSE] /\ pending' = pending /\ wire' = wire
    BY <1>6 DEF Flush
  <2>2. /\ wire' \in Seq(Frames) /\ AtMost(IdsOf(wire'), read') /\ Rising(wire')
        /\ Behind(Range(machine.tape), Prints(wire')) /\ Behind(Prints(machine.buffer), Prints(wire'))
        /\ (~Up => wire' = <<>>) /\ Prints(wire) \subseteq Prints(wire')
        /\ AtMost(IdsOf(machine.buffer), read') /\ AtMost(Range(machine.tape), read')
        /\ \A p \in Prints(wire') : stream[p] = market
    BY <1>1, <1>3, <2>1 DEF FeedTypeOK, PhasesAgree, DepthsFit, InOrder, OneMarket
  <2>3. window' \in [Markets -> BOOLEAN]
    BY <1>4, <2>1
  <2> QED BY <1>3, <1>4, <1>5, <2>1, <2>2, <2>3, ServerStepKeeps
<1>7. CASE pending[k] # NoBook
  <2> DEFINE r == pending[k]
             fs == <<Book(r)>>
  <2>1. Published(k, fs) /\ pending' = [pending EXCEPT ![k] = NoBook] /\ window' = window
    BY <1>7 DEF Flush
  <2>2. r \in Ids /\ r <= read
    BY <1>4, <1>7
  <2>3. fs \in Seq(Frames) /\ Rising(fs) /\ IdsOf(fs) = {r} /\ Prints(fs) = {}
    <3>1. Book(r).id = r /\ Book(r).kind # "trade" /\ Book(r) \in Frames
      BY <2>2 DEF Book, Frames
    <3> QED BY <3>1, FramesOne
  <2>4. AtMost(IdsOf(fs), read) /\ \A p \in Prints(fs) : p > read /\ stream[p] = k
    BY <2>2, <2>3 DEF AtMost
  <2> HIDE DEF fs
  <2>5. read \in read..Len(stream)
    BY <1>2
  <2>6. /\ wire' \in Seq(Frames) /\ AtMost(IdsOf(wire'), read) /\ Rising(wire')
        /\ Behind(Range(machine.tape), Prints(wire')) /\ Behind(Prints(machine.buffer), Prints(wire'))
        /\ (~Up => wire' = <<>>) /\ Prints(wire) \subseteq Prints(wire')
        /\ AtMost(IdsOf(machine.buffer), read) /\ AtMost(Range(machine.tape), read)
        /\ \A p \in Prints(wire') : stream[p] = market
    BY <2>1, <2>3, <2>4, <2>5, WireGrows
  <2>7. pending' \in [Markets -> Ids \cup {NoBook}] /\ \A m \in Markets : pending'[m] <= read
    <3>1. NoBook <= read
      BY <1>2 DEF NoBook
    <3> QED BY <1>4, <2>1, <3>1
  <2> QED BY <1>3, <1>4, <1>5, <2>1, <2>6, <2>7, ServerStepKeeps
<1> QED BY <1>6, <1>7

LEMMA RestartKeeps ==
  ASSUME FeedInvariant, Restart
  PROVE  FeedInvariant'
<1>1. FeedTypeOK /\ PhasesAgree /\ FetchesFit /\ DepthsFit /\ InOrder /\ NoneLost /\ OneMarket
  BY DEF FeedInvariant
<1>2. Len(stream) \in Nat /\ read \in Nat /\ read <= Len(stream) /\ Ids \subseteq Nat
  BY <1>1, Numbers
<1>3. stream' = stream /\ wire' = wire /\ market' = market /\ machine' = machine
      /\ screen' = screen /\ due' = due /\ fetches' = fetches /\ retry' = retry /\ again' = again
      /\ hidden' = hidden /\ opened' = opened /\ read' = Len(stream)
      /\ pending' = [m \in Markets |-> NoBook] /\ window' = [m \in Markets |-> FALSE]
  BY DEF Restart, browser
<1>4. socket' = (IF socket = "open" THEN "cut" ELSE socket) /\ (Up' <=> Up)
  BY DEF Restart, Up
<1>5. ASSUME NEW A \in SUBSET Nat, AtMost(A, read) PROVE AtMost(A, read')
  BY <1>2, <1>3, <1>5 DEF AtMost
<1>6. IdsOf(wire) \subseteq Nat /\ IdsOf(machine.buffer) \subseteq Nat /\ Range(machine.tape) \subseteq Nat
  <2>1. wire \in Seq(Frames) /\ machine.buffer \in Seq(Frames) /\ machine.tape \in Seq(Ids)
    BY <1>1 DEF FeedTypeOK, Machines
  <2> QED BY <1>2, <2>1, PrintsAreIds, TapeIsIds
<1>7. /\ AtMost(IdsOf(wire), read') /\ AtMost(IdsOf(machine.buffer), read')
      /\ AtMost(Range(machine.tape), read')
  BY <1>1, <1>5, <1>6 DEF DepthsFit, InOrder
<1>8. FeedTypeOK'
  <2>1. read' \in 0..Len(stream') /\ 0..read \subseteq 0..read'
    BY <1>2, <1>3
  <2>2. opened' \in [stream : 0..Len(stream'), read : 0..read', full : BOOLEAN]
    <3>1. opened \in [stream : 0..Len(stream), read : 0..read, full : BOOLEAN]
      BY <1>1 DEF FeedTypeOK
    <3> QED BY <1>3, <2>1, <3>1
  <2>3. socket' \in {"none", "connecting", "open", "cut"}
        /\ (socket' \in {"open", "connecting"} => ~retry')
    BY <1>1, <1>3, <1>4 DEF FeedTypeOK
  <2>4. pending' \in [Markets -> Ids \cup {NoBook}] /\ window' \in [Markets -> BOOLEAN]
    BY <1>3
  <2> QED BY <1>1, <1>3, <2>1, <2>2, <2>3, <2>4 DEF FeedTypeOK
<1>9. PhasesAgree'
  BY <1>1, <1>3, <1>4 DEF PhasesAgree
<1>10. FetchesFit'
  BY <1>1, <1>3, <1>4 DEF FetchesFit
<1>11. DepthsFit'
  <2>1. \A m \in Markets : pending'[m] <= read'
    BY <1>2, <1>3 DEF NoBook
  <2> QED BY <1>1, <1>3, <1>7, <2>1 DEF DepthsFit
<1>12. InOrder'
  BY <1>1, <1>3, <1>7 DEF InOrder
<1>13. NoneLost' /\ OneMarket'
  BY <1>1, <1>3, <1>4 DEF NoneLost, OneMarket
<1> QED BY <1>8, <1>9, <1>10, <1>11, <1>12, <1>13 DEF FeedInvariant

LEMMA CutKeeps ==
  ASSUME FeedInvariant, Cut
  PROVE  FeedInvariant'
<1>1. FeedTypeOK /\ PhasesAgree /\ FetchesFit /\ DepthsFit /\ InOrder /\ NoneLost /\ OneMarket
  BY DEF FeedInvariant
<1>2. stream' = stream /\ read' = read /\ pending' = pending /\ window' = window
      /\ wire' = wire /\ market' = market /\ machine' = machine
      /\ screen' = screen /\ due' = due /\ fetches' = fetches /\ retry' = retry /\ again' = again
      /\ hidden' = hidden /\ opened' = opened /\ socket = "open" /\ socket' = "cut"
  BY DEF Cut, browser, server
<1>3. Up' <=> Up
  BY <1>2 DEF Up
<1>4. FeedTypeOK'
  BY <1>1, <1>2 DEF FeedTypeOK
<1>5. PhasesAgree'
  BY <1>1, <1>2, <1>3 DEF PhasesAgree
<1>6. FetchesFit'
  BY <1>1, <1>2, <1>3 DEF FetchesFit
<1>7. DepthsFit'
  BY <1>1, <1>2 DEF DepthsFit
<1>8. InOrder'
  BY <1>1, <1>2 DEF InOrder
<1>9. NoneLost' /\ OneMarket'
  BY <1>1, <1>2 DEF NoneLost, OneMarket
<1> QED BY <1>4, <1>5, <1>6, <1>7, <1>8, <1>9 DEF FeedInvariant

-----------------------------------------------------------------------------
(* The browser.                                                            *)

LEMMA OpenKeeps ==
  ASSUME FeedInvariant, Open
  PROVE  FeedInvariant'
<1>1. FeedTypeOK /\ PhasesAgree /\ FetchesFit /\ DepthsFit /\ InOrder /\ NoneLost /\ OneMarket
  BY DEF FeedInvariant
<1>2. /\ Len(stream) \in Nat /\ read \in Nat /\ read <= Len(stream) /\ machine.depth \in Nat
  BY <1>1, Numbers
<1>3. ~Up
  BY DEF Open, Up
<1> DEFINE n == OnOpen(machine)
           g == Fetch(FALSE)
<1>4. /\ machine \in Machines /\ machine.source # "live" /\ wire = <<>>
      /\ \A f \in fetches : f.at <= Len(stream) /\ (f.mine => f.cold /\ machine.depth = NoBook)
      /\ \A f, h \in fetches : f.mine /\ h.mine => f = h
  BY <1>1, <1>3, RequestsWithoutSocket DEF FeedTypeOK
<1>5. n \in Machines /\ n.depth = machine.depth /\ n.tape = machine.tape
      /\ n.source # "live" /\ n.buffer = <<>> /\ n.buffering = TRUE
  <2>1. n = [machine EXCEPT !.buffer = <<>>, !.buffering = TRUE]
    BY DEF OnOpen
  <2> HIDE DEF n
  <2>2. <<>> \in Seq(Frames)
    OBVIOUS
  <2> QED BY <1>4, <2>1, <2>2 DEF Machines
<1>6. g \in Fetches /\ g.mine /\ ~g.cold /\ ~g.answered /\ g.at = 0
  BY <1>1 DEF FeedTypeOK, Fetch, Fetches, NoBook
<1>7. stream' = stream /\ read' = read /\ pending' = pending /\ window' = window
      /\ wire' = <<>> /\ socket = "connecting" /\ socket' = "open" /\ market' = market
      /\ machine' = n /\ screen' = State(n)
      /\ due' = FALSE /\ again' = FALSE /\ retry' = retry /\ hidden' = hidden
      /\ fetches' = fetches \cup {g}
      /\ opened' = [stream |-> Len(stream), read |-> read, full |-> FALSE]
  BY <1>4 DEF Open, Commit, server
<1> HIDE DEF n, g
<1>8. State(n) \in Screens /\ State(n).depth = machine.depth
  BY <1>5 DEF State, Machines, Screens
<1>9. FeedTypeOK'
  <2>1. opened' \in [stream : 0..Len(stream'), read : 0..read', full : BOOLEAN]
    BY <1>2, <1>7
  <2>2. wire' \in Seq(Frames)
    BY <1>7
  <2>3. retry' = FALSE
    BY <1>1, <1>7 DEF FeedTypeOK
  <2> QED BY <1>1, <1>5, <1>6, <1>7, <1>8, <2>1, <2>2, <2>3 DEF FeedTypeOK
<1>10. PhasesAgree'
  <2>1. ~retry
    BY <1>1, <1>7 DEF FeedTypeOK
  <2> QED BY <1>5, <1>7, <2>1 DEF PhasesAgree, Up
<1>11. FetchesFit'
  <2>1. ASSUME NEW f \in fetches'
        PROVE  /\ f.at <= Len(stream)
               /\ (f \in fetches /\ (f.mine => f.cold)) \/ f = g
    BY <1>2, <1>4, <1>6, <1>7
  <2>2. ASSUME NEW f \in fetches', NEW h \in fetches', f.mine, h.mine, f.cold = h.cold PROVE f = h
    BY <1>4, <1>6, <2>1, <2>2
  <2>3. ASSUME NEW f \in fetches', f.mine, ~f.cold PROVE machine'.buffering /\ ~f.answered
    BY <1>5, <1>6, <1>7, <2>1, <2>3
  <2> QED BY <1>7, <2>1, <2>2, <2>3 DEF FetchesFit, Up
<1>12. DepthsFit'
  <2>1. IdsOf(wire') = {} /\ IdsOf(machine'.buffer) = {}
    BY <1>5, <1>7, FramesNone
  <2>2. machine'.depth <= Len(stream') /\ screen'.depth <= machine'.depth
    BY <1>1, <1>2, <1>5, <1>7, <1>8 DEF DepthsFit
  <2> QED BY <1>1, <1>5, <1>7, <2>1, <2>2 DEF DepthsFit, AtMost
<1>13. InOrder'
  <2>1. Rising(wire') /\ Rising(machine'.buffer) /\ Prints(wire') = {} /\ Prints(machine'.buffer) = {}
    BY <1>5, <1>7, FramesNone
  <2> QED BY <1>1, <1>5, <1>7, <2>1 DEF InOrder, Behind
<1>14. NoneLost'
  <2>1. \A i \in read + 1..read : FALSE
    BY <1>2
  <2> QED BY <1>7, <2>1 DEF NoneLost
<1>15. OneMarket'
  <2>1. Prints(wire') = {} /\ Prints(machine'.buffer) = {}
    BY <1>5, <1>7, FramesNone
  <2> QED BY <1>1, <1>5, <1>7, <2>1 DEF OneMarket
<1> QED BY <1>9, <1>10, <1>11, <1>12, <1>13, <1>14, <1>15 DEF FeedInvariant

LEMMA AnswerKeeps ==
  ASSUME FeedInvariant, NEW f \in fetches, Answer(f)
  PROVE  FeedInvariant'
<1>1. FeedTypeOK /\ PhasesAgree /\ FetchesFit /\ DepthsFit /\ InOrder /\ NoneLost /\ OneMarket
  BY DEF FeedInvariant
<1>2. /\ Len(stream) \in Nat /\ MaxUpdates \in Nat /\ machine.depth \in Nat /\ opened.stream \in Nat
      /\ opened.stream <= Len(stream) /\ machine.depth <= Len(stream)
  BY <1>1, Numbers DEF FeedTypeOK, DepthsFit
<1> DEFINE g == [f EXCEPT !.answered = TRUE, !.at = Len(stream)]
<1>3. f \in Fetches
  BY <1>1 DEF FeedTypeOK
<1>4. Len(stream) \in Ids \cup {NoBook}
  BY <1>1, <1>2 DEF FeedTypeOK, Ids, NoBook
<1>5. g \in Fetches /\ g.mine = f.mine /\ g.cold = f.cold /\ g.at = Len(stream)
  BY <1>3, <1>4 DEF Fetches
<1>6. fetches' = (fetches \ {f}) \cup {g}
  BY DEF Answer
<1> HIDE DEF g
<1>7. stream' = stream /\ read' = read /\ pending' = pending /\ window' = window
      /\ wire' = wire /\ socket' = socket /\ market' = market /\ machine' = machine
      /\ screen' = screen /\ due' = due /\ retry' = retry /\ again' = again
      /\ hidden' = hidden /\ opened' = opened
  BY DEF Answer, server
<1>8. FeedTypeOK'
  <2>1. fetches' \subseteq Fetches
    BY <1>1, <1>5, <1>6 DEF FeedTypeOK
  <2> QED BY <1>1, <1>7, <2>1 DEF FeedTypeOK
<1>9. PhasesAgree'
  BY <1>1, <1>7 DEF PhasesAgree, Up
<1>10. FetchesFit'
  <2>1. ASSUME NEW h \in fetches'
        PROVE  (h \in fetches /\ h # f) \/ h = g
    BY <1>6
  <2>2. ASSUME NEW h \in fetches', NEW i \in fetches', h.mine, i.mine, h.cold = i.cold PROVE h = i
    BY <1>1, <1>5, <2>1, <2>2 DEF FetchesFit
  <2>3. \A h \in fetches' : h.at <= Len(stream)
    BY <1>1, <1>2, <1>5, <2>1 DEF FetchesFit
  <2>4. ASSUME NEW h \in fetches', h.mine, ~h.cold
        PROVE  machine.buffering /\ (h.answered => h.at >= machine.depth /\ h.at >= opened.stream)
    <3>1. CASE h = g
      <4>1. machine.buffering
        BY <1>1, <1>5, <2>4, <3>1 DEF FetchesFit
      <4>2. Len(stream) >= machine.depth /\ Len(stream) >= opened.stream
        BY <1>2
      <4> QED BY <1>5, <3>1, <4>1, <4>2
    <3>2. CASE h \in fetches
      BY <1>1, <2>4, <3>2 DEF FetchesFit
    <3> QED BY <2>1, <3>1, <3>2
  <2>5. ASSUME NEW h \in fetches', h.mine, h.cold PROVE machine.depth = NoBook \/ Up
    BY <1>1, <1>5, <2>1, <2>5 DEF FetchesFit
  <2> QED BY <1>7, <2>2, <2>3, <2>4, <2>5 DEF FetchesFit, Up
<1>11. DepthsFit'
  BY <1>1, <1>7 DEF DepthsFit
<1>12. InOrder'
  BY <1>1, <1>7 DEF InOrder
<1>13. NoneLost' /\ OneMarket'
  BY <1>1, <1>7 DEF NoneLost, OneMarket
<1> QED BY <1>8, <1>9, <1>10, <1>11, <1>12, <1>13 DEF FeedInvariant

\* What the machine is once a snapshot has been taken and what was kept is drained.
LEMMA SnapshotTaken ==
  ASSUME NEW m \in Machines, NEW d \in Ids \cup {NoBook}, NEW n, n = OnSnapshot(m, d)
  PROVE  /\ n \in Machines /\ n.source = "live" /\ n.buffer = <<>> /\ n.buffering = FALSE
         /\ n.depth \in {d} \cup IdsOf(m.buffer) /\ n.depth >= d
         /\ Range(n.tape) \subseteq Range(m.tape) \cup Prints(m.buffer)
         /\ Falling(m.tape) /\ Rising(m.buffer) /\ Behind(Range(m.tape), Prints(m.buffer)) =>
              Falling(n.tape) /\ Seen(m.tape) \cup Prints(m.buffer) \subseteq Seen(n.tape)
<1> DEFINE a == [m EXCEPT !.depth = d, !.source = "live"]
           q == m.buffer
           b == FoldLeft(ApplyFrame, a, q)
<1>1. a \in Machines /\ a.tape = m.tape /\ a.depth = d /\ a.source = "live"
  BY DEF Machines, Sources
<1>2. q \in Seq(Frames)
  BY DEF Machines
<1>3. n = [b EXCEPT !.buffer = <<>>, !.buffering = FALSE]
  BY DEF OnSnapshot
<1> HIDE DEF a, q
<1>4. Drained(a, q, Len(q), b)
  BY <1>1, <1>2, DrainFacts
<1> HIDE DEF b
<1>5. b \in Machines /\ b.source = "live" /\ b.depth >= d
      /\ b.depth \in {d} \cup IdsOf(q) /\ Range(b.tape) \subseteq Range(m.tape) \cup Prints(q)
      /\ (Falling(m.tape) /\ Rising(q) /\ Behind(Range(m.tape), Prints(q)) =>
            Falling(b.tape) /\ Seen(m.tape) \cup Prints(q) \subseteq Seen(b.tape))
  BY <1>1, <1>4 DEF Drained, IdsOf, Prints
<1>6. n.source = b.source /\ n.depth = b.depth /\ n.tape = b.tape /\ n.buffer = <<>> /\ n.buffering = FALSE
  BY <1>3, <1>5 DEF Machines
<1>7. n \in Machines
  <2>1. <<>> \in Seq(Frames)
    OBVIOUS
  <2> QED BY <1>3, <1>5, <2>1 DEF Machines
<1> QED BY <1>5, <1>6, <1>7 DEF q

LEMMA ResolveKeeps ==
  ASSUME FeedInvariant, NEW f \in fetches, Resolve(f)
  PROVE  FeedInvariant'
<1>1. FeedTypeOK /\ PhasesAgree /\ FetchesFit /\ DepthsFit /\ InOrder /\ NoneLost /\ OneMarket
  BY DEF FeedInvariant
<1>2. /\ Len(stream) \in Nat /\ read \in Nat /\ read <= Len(stream) /\ Ids \subseteq Nat
      /\ machine.depth \in Nat /\ opened.stream \in Nat /\ f.at \in Nat
  BY <1>1, Numbers
<1>3. machine \in Machines /\ f \in Fetches /\ f.at <= Len(stream)
  BY <1>1 DEF FeedTypeOK, FetchesFit
<1>4. stream' = stream /\ read' = read /\ pending' = pending /\ window' = window
      /\ wire' = wire /\ socket' = socket /\ market' = market
      /\ fetches' = fetches \ {f} /\ retry' = retry /\ again' = again
      /\ hidden' = hidden /\ opened' = opened /\ f.answered
  BY DEF Resolve, server
<1>5. CASE ~f.mine
  <2>1. Quiet
    BY <1>1, <1>5 DEF Resolve, Quiet, FeedTypeOK
  <2> QED BY <2>1, QuietKeeps
<1>6. CASE f.mine /\ f.cold /\ (machine.buffering \/ machine.source = "live")
  <2>1. machine' = machine /\ screen' = State(machine) /\ due' = FALSE
    BY <1>6 DEF Resolve, Commit, OnColdSnapshot
  <2>2. Quiet
    BY <1>1, <1>4, <2>1 DEF Quiet, FeedTypeOK, server
  <2> QED BY <2>2, QuietKeeps
<1>7. CASE f.mine /\ f.cold /\ ~(machine.buffering \/ machine.source = "live")
  <2> DEFINE m == OnColdSnapshot(machine, f.at)
  <2>1. ~Up
    BY <1>1, <1>7 DEF PhasesAgree
  <2>2. machine' = m /\ screen' = State(m) /\ due' = FALSE
    BY <1>7 DEF Resolve, Commit
  <2>3. m = [machine EXCEPT !.depth = f.at]
    BY <1>7 DEF OnColdSnapshot
  <2> HIDE DEF m
  <2>4. m \in Machines /\ m.depth = f.at /\ m.tape = machine.tape /\ m.source = machine.source
        /\ m.buffer = machine.buffer /\ m.buffering = machine.buffering
    BY <1>3, <2>3 DEF Machines, Fetches
  <2>5. /\ m.source # "live" /\ ~m.buffering /\ m.buffer = <<>> /\ wire = <<>> /\ opened = NotOpened
        /\ \A g \in fetches' : g.at <= Len(stream) /\ ~g.mine
    BY <1>4, <1>7, <2>1, <2>4, RequestsWithoutSocket
  <2>6. fetches' \subseteq Fetches /\ socket \in {"none", "connecting"}
        /\ (retry => socket = "none") /\ Falling(m.tape) /\ AtMost(Range(m.tape), read)
        /\ \A i \in Range(m.tape) : stream[i] = market
    BY <1>1, <1>4, <2>1, <2>4 DEF FeedTypeOK, Up, PhasesAgree, InOrder, OneMarket
  <2>7. UNCHANGED <<stream, server>> /\ market' \in Markets /\ retry' \in BOOLEAN
        /\ again' \in BOOLEAN /\ hidden' \in {"no", "grace", "yes"}
    BY <1>1, <1>4 DEF server, FeedTypeOK
  <2>8. Parted(m)
    BY <1>3, <1>4, <2>2, <2>4, <2>5, <2>6, <2>7 DEF Parted
  <2> QED BY <2>8, PartedKeeps
<1>8. CASE f.mine /\ ~f.cold
  <2> DEFINE n == OnSnapshot(machine, f.at)
             q == machine.buffer
  <2>1. machine' = n /\ screen' = State(n) /\ due' = FALSE
    BY <1>8 DEF Resolve, Commit
  <2>2. machine.buffering /\ f.at >= machine.depth /\ f.at >= opened.stream /\ Up
    BY <1>1, <1>4, <1>8 DEF FetchesFit, PhasesAgree
  <2>3. f.at \in Ids \cup {NoBook} /\ q \in Seq(Frames) /\ machine.tape \in Seq(Ids)
    BY <1>3 DEF Fetches, Machines
  <2>4. /\ n \in Machines /\ n.source = "live" /\ n.buffer = <<>> /\ n.buffering = FALSE
        /\ n.depth \in {f.at} \cup IdsOf(q) /\ n.depth >= f.at
        /\ Range(n.tape) \subseteq Range(machine.tape) \cup Prints(q)
        /\ (Falling(machine.tape) /\ Rising(q) /\ Behind(Range(machine.tape), Prints(q))
              => Falling(n.tape) /\ Seen(machine.tape) \cup Prints(q) \subseteq Seen(n.tape))
    BY <1>3, <2>3, SnapshotTaken
  <2> HIDE DEF n
  <2>5. State(n) \in Screens /\ State(n).depth = n.depth
    BY <2>4 DEF State, Machines, Screens
  <2>6. Prints(q) \subseteq IdsOf(q) /\ IdsOf(q) \subseteq Ids /\ AtMost(IdsOf(q), read)
    BY <1>1, <2>3, PrintsAreIds DEF DepthsFit
  <2>7. n.depth \in Nat /\ n.depth <= Len(stream)
    <3>1. n.depth \in Nat
      BY <1>2, <2>4, <2>6
    <3>2. CASE n.depth = f.at
      BY <1>3, <3>1, <3>2
    <3>3. CASE n.depth \in IdsOf(q)
      <4>1. n.depth <= read
        BY <2>6, <3>3 DEF AtMost
      <4> QED BY <1>2, <3>1, <4>1
    <3>4. n.depth = f.at \/ n.depth \in IdsOf(q)
      BY <2>4
    <3> QED BY <3>1, <3>2, <3>3, <3>4
  <2>8. FeedTypeOK'
    BY <1>1, <1>4, <2>1, <2>4, <2>5 DEF FeedTypeOK
  <2>9. PhasesAgree'
    BY <1>1, <1>4, <2>1, <2>2, <2>4 DEF PhasesAgree, Up
  <2>10. FetchesFit'
    <3>1. ASSUME NEW g \in fetches', g.mine PROVE g.cold
      <4>1. g \in fetches /\ g # f /\ g \in Fetches /\ g.cold \in BOOLEAN
        BY <1>1, <1>4 DEF FeedTypeOK, Fetches
      <4>2. g.cold # f.cold
        BY <1>1, <1>8, <3>1, <4>1 DEF FetchesFit
      <4> QED BY <1>8, <4>1, <4>2, <1>3 DEF Fetches
    <3> QED BY <1>1, <1>4, <2>2, <3>1 DEF FetchesFit, Up
  <2>11. DepthsFit'
    <3>1. IdsOf(machine'.buffer) = {}
      BY <2>1, <2>4, FramesNone
    <3>2. screen'.depth <= machine'.depth /\ machine'.depth <= Len(stream')
          /\ machine'.depth >= opened'.stream
      BY <1>2, <1>4, <2>1, <2>2, <2>4, <2>5, <2>7
    <3> QED BY <1>1, <1>4, <3>1, <3>2 DEF DepthsFit, AtMost
  <2>12. InOrder'
    <3>1. Rising(machine'.buffer) /\ Prints(machine'.buffer) = {}
      BY <2>1, <2>4, FramesNone
    <3>2. Falling(machine'.tape)
      BY <1>1, <2>1, <2>4 DEF InOrder
    <3>3. AtMost(Range(machine'.tape), read) /\ Behind(Range(machine'.tape), Prints(wire))
      BY <1>1, <2>1, <2>4, <2>6 DEF InOrder, AtMost, Behind
    <3> QED BY <1>1, <1>4, <3>1, <3>2, <3>3 DEF InOrder, Behind
  <2>13. NoneLost'
    <3>1. Seen(machine.tape) \cup Prints(q) \subseteq Seen(n.tape)
      BY <1>1, <2>4 DEF InOrder
    <3> QED BY <1>1, <1>4, <2>1, <3>1 DEF NoneLost
  <2>14. OneMarket'
    <3>1. Prints(machine'.buffer) = {}
      BY <2>1, <2>4, FramesNone
    <3> QED BY <1>1, <1>4, <2>1, <2>4, <3>1 DEF OneMarket
  <2> QED BY <2>8, <2>9, <2>10, <2>11, <2>12, <2>13, <2>14 DEF FeedInvariant
<1> QED BY <1>5, <1>6, <1>7, <1>8

\* A frame arrives: it is kept, applied, or dropped by MAX_BUFFER.
LEMMA DeliverKeeps ==
  ASSUME FeedInvariant, Deliver
  PROVE  FeedInvariant'
<1>1. FeedTypeOK /\ PhasesAgree /\ FetchesFit /\ DepthsFit /\ InOrder /\ NoneLost /\ OneMarket
  BY DEF FeedInvariant
<1>2. /\ Len(stream) \in Nat /\ read \in Nat /\ read <= Len(stream) /\ Ids \subseteq Nat
      /\ machine.depth \in Nat /\ opened.stream \in Nat /\ screen.depth \in Nat
  BY <1>1, Numbers
<1> DEFINE h == Head(wire)
           t == Tail(wire)
           n == OnFrame(machine, h)
<1>3. machine \in Machines /\ wire \in Seq(Frames) /\ wire # <<>> /\ Up
  BY <1>1 DEF FeedTypeOK, Deliver, PhasesAgree
<1>4. /\ h \in Frames /\ t \in Seq(Frames) /\ IdsOf(wire) = {h.id} \cup IdsOf(t)
      /\ Prints(wire) = Prints(<<h>>) \cup Prints(t)
      /\ (Rising(wire) => Rising(t) /\ Behind(Prints(<<h>>), Prints(t)))
  BY <1>3, FramesTaken
<1>5. stream' = stream /\ read' = read /\ pending' = pending /\ window' = window
      /\ wire' = t /\ socket' = socket /\ market' = market
      /\ machine' = n /\ screen' = screen /\ due' = TRUE
      /\ fetches' = fetches /\ retry' = retry /\ again' = again /\ hidden' = hidden
      /\ opened' = [opened EXCEPT !.full = @ \/ Full(machine)]
  BY DEF Deliver, CommitFrame, server
<1>6. opened' \in [stream : 0..Len(stream), read : 0..read, full : BOOLEAN]
      /\ opened'.stream = opened.stream /\ opened'.read = opened.read
      /\ (opened'.full <=> opened.full \/ Full(machine))
  <2>1. opened \in [stream : 0..Len(stream), read : 0..read, full : BOOLEAN]
    BY <1>1 DEF FeedTypeOK
  <2>2. Full(machine) \in BOOLEAN
    BY <1>3 DEF Full, Machines
  <2> QED BY <1>5, <2>1, <2>2
<1> HIDE DEF h, t, n
<1>7. <<h>> \in Seq(Frames) /\ Rising(<<h>>) /\ IdsOf(<<h>>) = {h.id}
      /\ Prints(<<h>>) = (IF h.kind = "trade" THEN {h.id} ELSE {})
      /\ h.id \in Ids /\ h.id <= read
  <2>1. h.id \in IdsOf(wire) /\ h.id \in Ids
    BY <1>4 DEF Frames
  <2>2. h.id <= read
    BY <1>1, <2>1 DEF DepthsFit, AtMost
  <2> QED BY <1>4, <2>1, <2>2, FramesOne
\* What is asked of the machine that has taken the frame, and of the frames that are left.
<1>8. ASSUME n \in Machines, n.source = machine.source, n.buffering = machine.buffering,
             ~n.buffering => n.buffer = <<>>,
             n.depth \in {machine.depth, h.id}, n.depth >= machine.depth,
             n.buffering => n.depth = machine.depth,
             AtMost(IdsOf(n.buffer), read), AtMost(Range(n.tape), read),
             Falling(n.tape), Rising(n.buffer),
             Behind(Range(n.tape), Prints(n.buffer)), Behind(Range(n.tape), Prints(t)),
             Behind(Prints(n.buffer), Prints(t)),
             Full(machine) \/ Prints(<<h>>) \cup Seen(machine.tape) \cup Prints(machine.buffer)
                                \subseteq Seen(n.tape) \cup Prints(n.buffer),
             Range(n.tape) \cup Prints(n.buffer)
               \subseteq Prints(<<h>>) \cup Range(machine.tape) \cup Prints(machine.buffer)
      PROVE  FeedInvariant'
  <2>1. n.depth \in Nat /\ n.depth <= Len(stream)
    <3>1. machine.depth <= Len(stream) /\ h.id \in Nat
      BY <1>1, <1>2, <1>7 DEF DepthsFit
    <3> QED BY <1>2, <1>7, <1>8, <3>1
  <2>2. FeedTypeOK'
    BY <1>1, <1>4, <1>5, <1>6, <1>8 DEF FeedTypeOK
  <2>3. PhasesAgree'
    BY <1>1, <1>3, <1>5, <1>8 DEF PhasesAgree, Up
  <2>4. FetchesFit'
    BY <1>1, <1>3, <1>5, <1>6, <1>8 DEF FetchesFit, Up
  <2>5. DepthsFit'
    <3>1. screen.depth <= n.depth
      BY <1>1, <1>2, <1>8, <2>1 DEF DepthsFit
    <3>2. n.source = "live" => n.depth >= opened.stream
      BY <1>1, <1>2, <1>8, <2>1 DEF DepthsFit
    <3>3. AtMost(IdsOf(t), read)
      BY <1>1, <1>4 DEF DepthsFit, AtMost
    <3> QED BY <1>1, <1>5, <1>6, <1>8, <2>1, <3>1, <3>2, <3>3 DEF DepthsFit
  <2>6. InOrder'
    BY <1>1, <1>4, <1>5, <1>8 DEF InOrder
  <2>7. NoneLost'
    BY <1>1, <1>4, <1>5, <1>6, <1>8 DEF NoneLost
  <2>8. OneMarket'
    BY <1>1, <1>4, <1>5, <1>8 DEF OneMarket
  <2> QED BY <2>2, <2>3, <2>4, <2>5, <2>6, <2>7, <2>8 DEF FeedInvariant
<1>9. /\ Behind(Range(machine.tape), Prints(t)) /\ Behind(Prints(machine.buffer), Prints(t))
      /\ Behind(Range(machine.tape), Prints(<<h>>)) /\ Behind(Prints(machine.buffer), Prints(<<h>>))
      /\ Behind(Prints(<<h>>), Prints(t))
  BY <1>1, <1>4 DEF InOrder, Behind
<1>10. /\ AtMost(IdsOf(machine.buffer), read) /\ AtMost(Range(machine.tape), read)
       /\ Falling(machine.tape) /\ Rising(machine.buffer)
       /\ Behind(Range(machine.tape), Prints(machine.buffer))
       /\ (~machine.buffering => machine.buffer = <<>>)
       /\ machine.buffer \in Seq(Frames) /\ machine.tape \in Seq(Ids)
  BY <1>1, <1>3 DEF DepthsFit, InOrder, PhasesAgree, Machines
<1>11. CASE Full(machine)
  <2>1. n = machine
    BY <1>11 DEF n, OnFrame, Full
  <2>2. machine.depth >= machine.depth
    BY <1>2
  <2> QED BY <1>3, <1>8, <1>9, <1>10, <1>11, <2>1, <2>2
<1>12. CASE machine.buffering /\ ~Full(machine)
  <2> DEFINE q == machine.buffer \o <<h>>
  <2>1. Append(machine.buffer, h) = q
    BY <1>4, <1>10
  <2>2. n = [machine EXCEPT !.buffer = q]
    BY <1>12, <2>1 DEF n, OnFrame, Full
  <2>3. q \in Seq(Frames) /\ IdsOf(q) = IdsOf(machine.buffer) \cup {h.id}
        /\ Prints(q) = Prints(machine.buffer) \cup Prints(<<h>>) /\ Rising(q)
    BY <1>7, <1>9, <1>10, FramesJoined
  <2> HIDE DEF q
  <2>4. n \in Machines /\ n.buffer = q /\ n.tape = machine.tape /\ n.depth = machine.depth
        /\ n.source = machine.source /\ n.buffering = machine.buffering
    BY <1>3, <2>2, <2>3 DEF Machines
  <2>5. AtMost(IdsOf(q), read)
    BY <1>7, <1>10, <2>3 DEF AtMost
  <2>6. Behind(Range(machine.tape), Prints(q)) /\ Behind(Prints(q), Prints(t))
    BY <1>9, <1>10, <2>3 DEF Behind
  <2>7. machine.depth >= machine.depth
    BY <1>2
  <2>8. /\ Prints(<<h>>) \cup Seen(machine.tape) \cup Prints(machine.buffer)
             \subseteq Seen(n.tape) \cup Prints(n.buffer)
        /\ Range(n.tape) \cup Prints(n.buffer)
             \subseteq Prints(<<h>>) \cup Range(machine.tape) \cup Prints(machine.buffer)
    BY <2>3, <2>4
  <2> QED BY <1>8, <1>9, <1>10, <1>12, <2>3, <2>4, <2>5, <2>6, <2>7, <2>8
<1>13. CASE ~machine.buffering
  <2>1. n = ApplyFrame(machine, h)
    BY <1>13 DEF n, OnFrame
  <2>2. Moved(machine, h, n)
    BY <1>3, <1>4, <2>1, ApplyFrameFacts
  <2>3. n \in Machines /\ n.source = machine.source /\ n.buffer = machine.buffer
        /\ n.buffering = machine.buffering /\ n.depth \in {machine.depth, h.id}
        /\ n.depth >= machine.depth /\ Range(n.tape) \subseteq Range(machine.tape) \cup Prints(<<h>>)
    BY <1>7, <2>2 DEF Moved
  <2>4. Falling(n.tape) /\ Seen(machine.tape) \cup Prints(<<h>>) \subseteq Seen(n.tape)
    <3>1. h.kind = "trade" => Behind(Range(machine.tape), {h.id})
      BY <1>7, <1>9
    <3> QED BY <1>7, <1>10, <2>2, <3>1 DEF Moved
  <2>5. n.buffer = <<>> /\ Prints(n.buffer) = {} /\ IdsOf(n.buffer) = {} /\ Rising(n.buffer)
        /\ Prints(machine.buffer) = {}
    BY <1>10, <1>13, <2>3, FramesNone
  <2>6. AtMost(Range(n.tape), read)
    BY <1>7, <1>10, <2>3 DEF AtMost
  <2>7. Behind(Range(n.tape), Prints(t))
    BY <1>9, <2>3 DEF Behind
  <2>8. Behind(Range(n.tape), Prints(n.buffer)) /\ Behind(Prints(n.buffer), Prints(t))
        /\ AtMost(IdsOf(n.buffer), read)
    BY <2>5 DEF Behind, AtMost
  <2>9. /\ Prints(<<h>>) \cup Seen(machine.tape) \cup Prints(machine.buffer)
             \subseteq Seen(n.tape) \cup Prints(n.buffer)
        /\ Range(n.tape) \cup Prints(n.buffer)
             \subseteq Prints(<<h>>) \cup Range(machine.tape) \cup Prints(machine.buffer)
    BY <2>3, <2>4, <2>5
  <2> QED BY <1>8, <1>13, <2>3, <2>4, <2>5, <2>6, <2>7, <2>8, <2>9
<1> QED BY <1>11, <1>12, <1>13 DEF Full

LEMMA StepKeepsInvariant ==
  ASSUME FeedInvariant, [FeedNext]_feedVars
  PROVE  FeedInvariant'
<1>1. CASE FeedNext
  <2>1. ASSUME NEW k \in Markets, Update(k) \/ Switch(k) PROVE FeedInvariant'
    BY <2>1, UpdateKeeps, SwitchKeeps
  <2>2. CASE Serving
    BY <2>2, HandleKeeps, FlushKeeps DEF Serving
  <2>3. CASE Restart
    BY <2>3, RestartKeeps
  <2>4. CASE Closed \/ Refused
    BY <2>4, FailKeeps DEF Closed, Refused
  <2>5. CASE RetryFires \/ Open \/ Deliver \/ Paint \/ Show
    BY <2>5, RetryFiresKeeps, OpenKeeps, DeliverKeeps, QuietSteps, ShowKeeps
  <2>6. ASSUME NEW f \in fetches, Answer(f) \/ Resolve(f) \/ Reject(f) PROVE FeedInvariant'
    BY <2>6, AnswerKeeps, ResolveKeeps, RejectKeeps
  <2>7. CASE Cut \/ Hide \/ GraceEnds
    BY <2>7, CutKeeps, QuietSteps, GraceEndsKeeps
  <2> QED BY <1>1, <2>1, <2>2, <2>3, <2>4, <2>5, <2>6, <2>7 DEF FeedNext, Browsing
<1>2. CASE UNCHANGED feedVars
  BY <1>2, QuietSteps
<1> QED BY <1>1, <1>2

\* While the market stays, the book of the machine does not go back, and the screen is
\* left alone or given what the machine is.
BookForward ==
  market' = market => machine'.depth >= machine.depth /\ screen' \in {screen, State(machine')}

LEMMA StepMovesForward ==
  ASSUME FeedInvariant, [FeedNext]_feedVars
  PROVE  BookForward
<1>1. FeedTypeOK /\ PhasesAgree /\ FetchesFit
  BY DEF FeedInvariant
<1>2. machine.depth \in Nat /\ machine \in Machines
  BY <1>1, Numbers DEF FeedTypeOK
<1>3. machine.depth >= machine.depth
  BY <1>2
<1>4. ASSUME machine' = machine, screen' \in {screen, State(machine)} PROVE BookForward
  BY <1>3, <1>4 DEF BookForward
<1>5. ASSUME NEW n, machine' = n, screen' = State(n), n.depth = machine.depth PROVE BookForward
  BY <1>3, <1>5 DEF BookForward
<1>6. ASSUME NEW w \in BOOLEAN PROVE OnDisconnect(machine, w).depth = machine.depth
  BY <1>2 DEF OnDisconnect, Machines
<1>7. OnRetrying(machine).depth = machine.depth /\ OnOpen(machine).depth = machine.depth
  BY <1>2 DEF OnRetrying, OnOpen, Machines
<1>8. CASE UNCHANGED feedVars
  BY <1>4, <1>8 DEF feedVars, browser
<1>9. ASSUME NEW k \in Markets, Update(k) PROVE BookForward
  BY <1>4, <1>9 DEF Update, browser
<1>10. ASSUME NEW k \in Markets, Switch(k) PROVE BookForward
  BY <1>10 DEF Switch, BookForward
<1>11. CASE Serving \/ Restart \/ Cut
  BY <1>4, <1>11 DEF Serving, Handle, Flush, Restart, Cut, browser
<1>12. CASE Closed \/ Refused
  BY <1>5, <1>6, <1>12 DEF Closed, Refused, Fail, Commit
<1>13. CASE RetryFires
  BY <1>4, <1>5, <1>7, <1>13 DEF RetryFires, Connect, Commit
<1>14. CASE Open
  BY <1>5, <1>7, <1>14 DEF Open, Commit
<1>15. CASE Paint \/ Show \/ Hide
  BY <1>4, <1>15 DEF Paint, Show, Hide
<1>16. CASE GraceEnds
  BY <1>5, <1>6, <1>16 DEF GraceEnds, Commit
<1>17. CASE Deliver
  <2> DEFINE h == Head(wire)
             n == OnFrame(machine, h)
  <2>1. machine' = n /\ screen' = screen
    BY <1>17 DEF Deliver, CommitFrame
  <2>2. h \in Frames
    BY <1>1, <1>17, FramesTaken DEF Deliver, FeedTypeOK
  <2> HIDE DEF h
  <2>3. CASE machine.buffering
    <3>1. n = machine \/ n = [machine EXCEPT !.buffer = Append(machine.buffer, h)]
      BY <2>3 DEF OnFrame
    <3> HIDE DEF n
    <3>2. n.depth = machine.depth
      BY <1>2, <3>1 DEF Machines
    <3> QED BY <1>3, <2>1, <3>2 DEF BookForward
  <2>4. CASE ~machine.buffering
    <3>1. n = ApplyFrame(machine, h)
      BY <2>4 DEF OnFrame
    <3> HIDE DEF n
    <3>2. Moved(machine, h, n)
      BY <1>2, <2>2, <3>1, ApplyFrameFacts
    <3> QED BY <2>1, <3>2 DEF BookForward, Moved
  <2> QED BY <2>3, <2>4
<1>18. ASSUME NEW f \in fetches, Answer(f) \/ Reject(f) PROVE BookForward
  BY <1>4, <1>5, <1>6, <1>18 DEF Answer, Reject, Commit
<1>19. ASSUME NEW f \in fetches, Resolve(f) PROVE BookForward
  <2>1. f \in Fetches /\ f.answered /\ f.at \in Nat /\ f.at \in Ids \cup {NoBook}
    BY <1>1, <1>19, Numbers DEF FeedTypeOK, Resolve, Fetches
  <2>2. CASE ~f.mine
    BY <1>4, <1>19, <2>2 DEF Resolve
  <2>3. CASE f.mine /\ f.cold
    <3> DEFINE n == OnColdSnapshot(machine, f.at)
    <3>1. machine' = n /\ screen' = State(n)
      BY <1>19, <2>3 DEF Resolve, Commit
    <3>2. CASE machine.buffering \/ machine.source = "live"
      BY <1>5, <3>1, <3>2 DEF OnColdSnapshot
    <3>3. CASE ~(machine.buffering \/ machine.source = "live")
      <4>1. machine.depth = 0
        BY <1>1, <2>3, <3>3 DEF PhasesAgree, FetchesFit, NoBook
      <4>2. n = [machine EXCEPT !.depth = f.at]
        BY <3>3 DEF OnColdSnapshot
      <4> HIDE DEF n
      <4>3. n.depth = f.at
        BY <1>2, <4>2 DEF Machines
      <4> QED BY <2>1, <3>1, <4>1, <4>3 DEF BookForward
    <3> QED BY <3>2, <3>3
  <2>4. CASE f.mine /\ ~f.cold
    <3> DEFINE n == OnSnapshot(machine, f.at)
    <3>1. machine' = n /\ screen' = State(n)
      BY <1>19, <2>4 DEF Resolve, Commit
    <3>2. f.at >= machine.depth
      BY <1>1, <2>1, <2>4 DEF FetchesFit
    <3> HIDE DEF n
    <3>3. n \in Machines /\ n.depth >= f.at
      BY <1>2, <2>1, SnapshotTaken DEF n
    <3>4. n.depth \in Nat
      <4>1. Ids \subseteq Nat /\ 0 \in Nat
        BY <1>1, Numbers
      <4>2. n.depth \in Ids \cup {0}
        BY <3>3 DEF Machines, NoBook
      <4> QED BY <4>1, <4>2
    <3> QED BY <1>2, <2>1, <3>1, <3>2, <3>3, <3>4 DEF BookForward
  <2> QED BY <2>2, <2>3, <2>4
<1> QED BY <1>8, <1>9, <1>10, <1>11, <1>12, <1>13, <1>14, <1>15, <1>16, <1>17, <1>18, <1>19
        DEF FeedNext, Browsing

-----------------------------------------------------------------------------
(* What follows.                                                           *)

\* Whatever drops, is late, is retried, hidden or restarted, the invariant holds: a socket
\* that is up keeps frames or is live; an answer that counts is no older than the book it
\* replaces; and the tape, the frames kept and the frames on the wire follow each other
\* without a gap, but for what has fallen off the tape.
THEOREM FeedInvariantHolds == FeedSpec => []FeedInvariant
<1>1. FeedInit => FeedInvariant
  BY InitInvariant
<1>2. FeedInvariant /\ [FeedNext]_feedVars => FeedInvariant'
  BY StepKeepsInvariant
<1> QED BY <1>1, <1>2, PTL DEF FeedSpec

\* Every state of the feed has its type: what a socket, a snapshot, a buffer and a screen
\* can be at any number of updates and failures.
THEOREM FeedIsTyped == FeedSpec => []FeedTypeOK
<1>1. FeedInvariant => FeedTypeOK
  BY DEF FeedInvariant
<1> QED BY <1>1, FeedInvariantHolds, PTL

\* No print is lost between ws-server and a live tape (createHandler, OnFrame, OnSnapshot)
\* but for those MAX_TRADES newer ones have pushed off it, unless MAX_BUFFER has dropped one;
\* and the tape is newest first, of one market, without a duplicate.
THEOREM TapeLosesNoPrint == FeedSpec => []TapeIsFaithful
<1>1. FeedInvariant => TapeIsFaithful
  <2> SUFFICES ASSUME FeedInvariant PROVE TapeIsFaithful
    OBVIOUS
  <2>1. PhasesAgree /\ InOrder /\ NoneLost /\ OneMarket /\ machine.tape \in Seq(Ids)
    BY DEF FeedInvariant, FeedTypeOK, Machines
  <2>2. ASSUME machine.source = "live", socket = "open", wire = <<>>, ~opened.full,
               NEW i \in opened.read + 1..read, stream[i] = market
        PROVE  i \in Range(machine.tape) \/ FellOff(machine.tape, i)
    <3>1. machine.buffer = <<>>
      BY <2>1, <2>2 DEF PhasesAgree
    <3>2. Prints(machine.buffer) = {} /\ Prints(wire) = {}
      BY <2>2, <3>1, FramesNone
    <3> QED BY <2>1, <2>2, <3>2 DEF NoneLost, Seen
  <2>3. ASSUME NEW i \in 1..Len(machine.tape) - 1 PROVE machine.tape[i] > machine.tape[i + 1]
    <3>1. Len(machine.tape) \in Nat
      BY <2>1
    <3>2. i \in 1..Len(machine.tape) /\ i + 1 \in 1..Len(machine.tape) /\ i < i + 1
      BY <3>1
    <3> QED BY <2>1, <3>2 DEF InOrder, Falling
  <2>4. \A i \in Range(machine.tape) : stream[i] = market
    BY <2>1 DEF OneMarket
  <2> QED BY <2>2, <2>3, <2>4 DEF TapeIsFaithful
<1> QED BY <1>1, FeedInvariantHolds, PTL

\* A live book is the one this connection has asked for, and while the market on the screen
\* stays the same its book never goes back in time (applyFrame, onSnapshot, onColdSnapshot).
THEOREM ScreenOnlyAdvances == FeedSpec => BookOnlyAdvances
<1>1. ASSUME FeedInvariant, FeedInvariant', [FeedNext]_feedVars
      PROVE  LiveBookIsOfThisConnection' /\ (market' = market => screen'.depth >= screen.depth)
  <2>1. LiveBookIsOfThisConnection'
    <3>1. PhasesAgree' /\ DepthsFit'
      BY <1>1 DEF FeedInvariant
    <3> QED BY <3>1 DEF LiveBookIsOfThisConnection, PhasesAgree, DepthsFit, Up
  <2>2. ASSUME market' = market PROVE screen'.depth >= screen.depth
    <3>1. BookForward
      BY <1>1, StepMovesForward
    <3>2. machine.depth \in Nat /\ screen.depth \in Nat /\ screen.depth <= machine.depth
      BY <1>1, Numbers DEF FeedInvariant, DepthsFit
    <3>3. machine'.depth \in Nat
      <4>1. Ids \subseteq Nat /\ 0 \in Nat
        BY <1>1, Numbers DEF FeedInvariant
      <4>2. machine'.depth \in Ids \cup {0}
        BY <1>1 DEF FeedInvariant, FeedTypeOK, Machines, NoBook
      <4> QED BY <4>1, <4>2
    <3>4. State(machine').depth = machine'.depth
      BY DEF State
    <3>5. screen' \in {screen, State(machine')} /\ machine'.depth >= machine.depth
      BY <2>2, <3>1 DEF BookForward
    <3>6. CASE screen' = screen
      <4>1. screen.depth >= screen.depth
        BY <3>2
      <4> QED BY <3>6, <4>1
    <3>7. CASE screen' = State(machine')
      <4>1. machine'.depth >= screen.depth
        BY <3>2, <3>3, <3>5
      <4> QED BY <3>4, <3>7, <4>1
    <3> QED BY <3>5, <3>6, <3>7
  <2> QED BY <2>1, <2>2
<1>2. FeedSpec => [][FeedNext]_feedVars
  BY PTL DEF FeedSpec
<1> QED BY <1>1, <1>2, FeedInvariantHolds, PTL DEF BookOnlyAdvances
=============================================================================
