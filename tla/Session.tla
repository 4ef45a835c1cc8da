------------------------------ MODULE Session ------------------------------
(***************************************************************************)
(* The session of one browser tab: apps/web/lib/auth (session-provider.tsx *)
(* and require-session.tsx), the transport's 401 interceptor in            *)
(* lib/api/http.ts, the sign-in form and the notice, with the cookie the   *)
(* backend sets and clears (auth-controllers.ts) and the token it checks   *)
(* (authenticate.ts).                                                      *)
(*                                                                         *)
(* A request goes out with the cookie of that moment; the backend works on *)
(* it; its headers arrive, and the cookie they set with them; its body has *)
(* been read and its caller goes on.  Other requests come in between.  What*)
(* a caller sets in React's state is on the screen, and in statusRef, after*)
(* the next render only.                                                   *)
(***************************************************************************)
EXTENDS Naturals, Sequences, FiniteSets

CONSTANTS
  Users,       \* accounts the visitor has the credentials of
  NoOne,       \* identity null
  Slots,       \* bound: requests under way at once
  MaxSignIns   \* bound: tokens the backend issues

ASSUME SessionAssumption ==
  /\ NoOne \notin Users
  /\ IsFiniteSet(Slots)
  /\ MaxSignIns \in Nat

VARIABLES
  cookie,     \* the browser's session cookie: a token, or None
  owner,      \* token -> the account the backend signed it for
  dead,       \* tokens past their expiry
  request,    \* slot -> the request that takes it
  state,      \* the provider's state: status, identity, signingOut, expired
  shown,      \* the same as last rendered
  page,       \* the route that is mounted
  going,      \* where router.replace or a link is taking it
  atMount,    \* expiredAtMount of the mounted guard
  submitting, \* the mounted form waits for its answer
  announced,  \* expiredCount the notice last spoke of
  expiry,     \* the latest session that expired, until the notice speaks of it:
              \* the session that ended, and the call that was refused
  said,       \* sessions whose end the notice has spoken of
  ended,      \* sessions that expired
  sessions,   \* times a session has begun in this page; they are numbered
  parted      \* two requests that decide who is signed in were under way at once,
              \* or one was lost after it had set the cookie

jar    == <<cookie, owner, dead>>
react  == <<state, shown>>
route  == <<page, going, atMount, submitting>>
notice == <<announced, said>>
past   == <<expiry, ended>>
vars == <<jar, request, react, route, notice, past, sessions, parted>>

None == 0
Pages == {"home", "trade", "signin"}
NoExpiry == [session |-> 0, by |-> 0, spared |-> FALSE]

\* Of a call: the session it was sent in, and whether its headers were in when
\* a 401 aborted the others.
Idle == [kind |-> "none", token |-> None, user |-> NoOne, stage |-> "none", ok |-> FALSE,
         session |-> 0, spared |-> FALSE]
Booting == [status |-> "loading", identity |-> NoOne, signingOut |-> FALSE, expired |-> 0]

Anonymous(s) == [s EXCEPT !.status = "anon", !.identity = NoOne]
SignedIn(s, u) == [s EXCEPT !.status = "authed", !.identity = u]
Rendered == shown = state

\* The requests whose answers decide who is signed in.
Deciding == {s \in Slots : request[s].kind \in {"me", "signin", "signout"}}

\* A fetch: it carries the cookie of this moment.
Sent(s, kind, u) ==
  [request EXCEPT ![s] = [kind |-> kind, token |-> cookie, user |-> u, stage |-> "sent", ok |-> FALSE,
                          session |-> IF kind = "call" THEN sessions ELSE 0, spared |-> FALSE]]

-----------------------------------------------------------------------------
(* The page.                                                               *)

\* A document is loaded: React starts anew, and the provider's effect asks who the cookie is.
Init ==
  /\ \E u \in Users : \/ cookie = 1 /\ owner = <<u>>
                      \/ cookie = None /\ owner = <<>>
  /\ dead = {}
  /\ \E s \in Slots : request = [[t \in Slots |-> Idle] EXCEPT ![s] =
       [Idle EXCEPT !.kind = "me", !.token = cookie, !.stage = "sent"]]
  /\ state = Booting /\ shown = Booting
  /\ page \in Pages /\ going = "none" /\ atMount = 0 /\ submitting = FALSE
  /\ announced = 0 /\ said = {} /\ expiry = NoExpiry /\ ended = {}
  /\ sessions = 0 /\ parted = FALSE

Reload ==
  /\ \E s \in Slots : request' = [[t \in Slots |-> Idle] EXCEPT ![s] =
       [Idle EXCEPT !.kind = "me", !.token = cookie, !.stage = "sent"]]
  /\ state' = Booting /\ shown' = Booting
  /\ going' = "none" /\ atMount' = 0 /\ submitting' = FALSE
  /\ announced' = 0 /\ said' = {} /\ expiry' = NoExpiry /\ ended' = {}
  /\ sessions' = 0 /\ parted' = FALSE
  /\ UNCHANGED <<jar, page>>

\* A mutant of Redirects: the guard redirects the sessions that expired instead of the others.
RedirectsExpired(s, mount) == s.status = "anon" /\ ~s.signingOut /\ s.expired # mount

\* The effect of RequireSession.
Redirects(s, mount) == s.status = "anon" /\ ~s.signingOut /\ s.expired = mount

\* A render, and the effects behind it: the notice and the guard of a protected route.
Shows(s) ==
  /\ shown' = s
  /\ announced' = s.expired
  /\ said' = IF s.expired # announced THEN said \cup {expiry.session} ELSE said
  /\ expiry' = NoExpiry
  /\ UNCHANGED ended

Render ==
  /\ ~Rendered
  /\ Shows(state)
  /\ going' = IF page = "trade" /\ Redirects(state, atMount) THEN "signin" ELSE going
  /\ UNCHANGED <<jar, request, state, page, atMount, submitting, sessions, parted>>

\* The route changes; the guard of a protected one mounts and runs its effect.
Navigate ==
  /\ going # "none" /\ Rendered
  /\ page' = going
  /\ submitting' = FALSE
  /\ atMount' = IF going = "trade" THEN shown.expired ELSE 0
  /\ going' = IF going = "trade" /\ Redirects(shown, shown.expired) THEN "signin" ELSE "none"
  /\ UNCHANGED <<jar, request, react, notice, past, sessions, parted>>

\* A link: of the header, which the terminal shows to a signed-in visitor, or
\* the sign-in page's way home.
Click(p) ==
  /\ Rendered /\ going = "none" /\ p # page
  /\ page = "trade" => shown.status = "authed" /\ p = "home"
  /\ page = "signin" => p = "home"
  /\ p = "signin" => shown.status = "anon"
  /\ going' = p
  /\ UNCHANGED <<jar, request, react, page, atMount, submitting, notice, past, sessions, parted>>

-----------------------------------------------------------------------------
(* What is sent.                                                           *)

\* Any authenticated request of a provider, a table or the ticket: they are
\* made in effects and event handlers, which follow a render.
Call(s) ==
  /\ shown.status = "authed" /\ Rendered
  /\ request[s] = Idle
  /\ request' = Sent(s, "call", NoOne)
  /\ UNCHANGED <<jar, react, route, notice, past, sessions, parted>>

\* onSubmit of the sign-in form, and of the sign-up form.
Submit(s, u) ==
  /\ page = "signin" /\ ~submitting /\ Rendered
  /\ request[s] = Idle
  /\ Len(owner) + Cardinality({t \in Slots : request[t].kind = "signin" /\ request[t].stage = "sent"})
       < MaxSignIns
  /\ submitting' = TRUE
  /\ request' = Sent(s, "signin", u)
  /\ parted' = (parted \/ Deciding # {})
  /\ UNCHANGED <<jar, react, page, going, atMount, notice, past, sessions>>

\* signOut, from the account menu.  A click renders before anything else happens.
SignOut(s) ==
  /\ shown.status = "authed" /\ page # "signin"
  /\ request[s] = Idle
  /\ state' = [Anonymous(state) EXCEPT !.signingOut = TRUE]
  /\ Shows([Anonymous(state) EXCEPT !.signingOut = TRUE])
  /\ request' = Sent(s, "signout", NoOne)
  /\ parted' = (parted \/ Deciding # {})
  /\ UNCHANGED <<jar, route, sessions>>

-----------------------------------------------------------------------------
(* The backend.                                                            *)

\* Seven days after it was issued, a token is refused.
Expire ==
  /\ cookie # None /\ cookie \notin dead
  /\ dead' = dead \cup {cookie}
  /\ UNCHANGED <<cookie, owner, request, react, route, notice, past, sessions, parted>>

Answered(s, ok, token) ==
  request' = [request EXCEPT ![s].stage = "answered", ![s].ok = ok, ![s].token = token]

\* authenticate, in front of GET /me and of every authenticated route.
Authenticate(s) ==
  /\ request[s].stage = "sent" /\ request[s].kind \in {"me", "call"}
  /\ Answered(s, request[s].token # None /\ request[s].token \notin dead,
              IF request[s].kind = "me" THEN request[s].token ELSE None)
  /\ UNCHANGED <<jar, react, route, notice, past, sessions, parted>>

\* POST /signin and /signup: the credentials are good, or not.
IssueToken(s) ==
  /\ request[s].stage = "sent" /\ request[s].kind = "signin"
  /\ \/ /\ owner' = Append(owner, request[s].user)
        /\ Answered(s, TRUE, Len(owner) + 1)
     \/ /\ UNCHANGED owner
        /\ Answered(s, FALSE, None)
  /\ UNCHANGED <<cookie, dead, react, route, notice, past, sessions, parted>>

\* POST /signout.
ClearToken(s) ==
  /\ request[s].stage = "sent" /\ request[s].kind = "signout"
  /\ Answered(s, TRUE, None)
  /\ UNCHANGED <<jar, react, route, notice, past, sessions, parted>>

\* The headers are in, and with them the cookie they set.  The request has
\* left the session's scope: from here on it is not cancelled.
Headers(s) ==
  /\ request[s].stage = "answered"
  /\ request' = [request EXCEPT ![s].stage = "body"]
  /\ cookie' = IF request[s].kind \in {"signin", "signout"} /\ request[s].ok
                 THEN request[s].token ELSE cookie
  /\ UNCHANGED <<owner, dead, react, route, notice, past, sessions, parted>>

-----------------------------------------------------------------------------
(* The answers.                                                            *)

\* me's identity, or its catch.
WhoAmI(s, ok) ==
  /\ request[s].kind = "me"
  /\ state' = IF ok THEN SignedIn(state, owner[request[s].token]) ELSE Anonymous(state)
  /\ sessions' = IF ok THEN sessions + 1 ELSE sessions
  /\ request' = [request EXCEPT ![s] = Idle]
  /\ UNCHANGED route

\* A mutant of Entered: the name on the screen stays the previous one.
EnteredUnnamed(s, destination) ==
  /\ state' = [state EXCEPT !.signingOut = FALSE, !.status = "authed"]
  /\ sessions' = sessions + 1
  /\ going' = destination
  /\ UNCHANGED <<page, atMount, submitting>>

\* signIn and signUp, and the form behind them goes to `next`.
Entered(s, destination) ==
  /\ state' = SignedIn([state EXCEPT !.signingOut = FALSE], request[s].user)
  /\ sessions' = sessions + 1
  /\ going' = destination
  /\ UNCHANGED <<page, atMount, submitting>>

SignInEnds(s, ok) ==
  /\ request[s].kind = "signin"
  /\ request' = [request EXCEPT ![s] = Idle]
  /\ \/ ok /\ \E destination \in {"home", "trade"} : Entered(s, destination)
     \/ /\ ~ok
        /\ submitting' = FALSE
        /\ UNCHANGED <<state, sessions, page, going, atMount>>

\* signOut goes on when its request has ended, one way or the other.
SignOutEnds(s) ==
  /\ request[s].kind = "signout"
  /\ request' = [request EXCEPT ![s] = Idle]
  /\ going' = "home"
  /\ UNCHANGED <<state, sessions, page, atMount, submitting>>

\* abortSessionRequests: what is in the scope and has no headers yet rejects.
InScope == {s \in Slots : request[s].kind \in {"me", "call"} /\ request[s].stage \in {"sent", "answered"}}

\* The session ends because call s was refused.
Expires(s) ==
  /\ state' = [Anonymous(state) EXCEPT !.expired = @ + 1]
  /\ going' = "signin"
  /\ ended' = ended \cup {sessions}
  /\ expiry' = [session |-> sessions, by |-> request[s].session, spared |-> request[s].spared]

\* A mutant of Ends: the interceptor does not look at what is on the screen.
EndsAgain(s) == Expires(s)

\* The interceptor of SessionProvider; a probe that is cancelled ends in me's catch.
Ends(s) ==
  IF shown.status = "anon"
    THEN /\ state' = IF \E t \in InScope : request[t].kind = "me" THEN Anonymous(state) ELSE state
         /\ UNCHANGED <<going, past>>
    ELSE Expires(s)

\* What an abort leaves of a request.
Spared(t) ==
  IF t \in InScope THEN Idle
  ELSE IF request[t].kind = "call" THEN [request[t] EXCEPT !.spared = TRUE]
  ELSE request[t]

\* A 401 that is neither the probe's nor a public route's: notifyAuthFailureHandler.
CallEnds(s, refused) ==
  /\ request[s].kind = "call"
  /\ IF refused
       THEN /\ Ends(s)
            /\ request' = [t \in Slots |-> IF t = s THEN Idle ELSE Spared(t)]
       ELSE /\ request' = [request EXCEPT ![s] = Idle]
            /\ UNCHANGED <<state, going, past>>
  /\ UNCHANGED <<sessions, page, atMount, submitting>>

Ended(s, ok, refused) ==
  /\ \/ (WhoAmI(s, ok) \/ SignInEnds(s, ok) \/ SignOutEnds(s)) /\ UNCHANGED past
     \/ CallEnds(s, refused)
  /\ UNCHANGED <<jar, shown, notice>>

\* The body has been read.
BodyRead(s) ==
  /\ request[s].stage = "body"
  /\ Ended(s, request[s].ok, ~request[s].ok)
  /\ UNCHANGED parted

\* The network fails, or the deadline is over before the headers are in.
Lost(s) ==
  /\ request[s].stage # "none"
  /\ Ended(s, FALSE, FALSE)
  /\ parted' = (parted \/ (request[s].kind = "signin" /\ request[s].stage = "body"))

-----------------------------------------------------------------------------
Next ==
  \/ Reload \/ Render \/ Navigate \/ Expire
  \/ \E p \in Pages : Click(p)
  \/ \E s \in Slots :
       \/ Call(s) \/ SignOut(s)
       \/ \E u \in Users : Submit(s, u)
       \/ Authenticate(s) \/ IssueToken(s) \/ ClearToken(s)
       \/ Headers(s) \/ BodyRead(s) \/ Lost(s)

Spec == Init /\ [][Next]_vars

-----------------------------------------------------------------------------
(* Properties.                                                             *)

Tokens == 1..Len(owner)
States == [status : {"loading", "anon", "authed"}, identity : Users \cup {NoOne},
           signingOut : BOOLEAN, expired : Nat]

TypeOK ==
  /\ owner \in Seq(Users) /\ cookie \in Tokens \cup {None} /\ dead \subseteq Tokens
  /\ request \in [Slots -> [kind : {"none", "me", "call", "signin", "signout"}, token : Tokens \cup {None},
                            user : Users \cup {NoOne}, stage : {"none", "sent", "answered", "body"},
                            ok : BOOLEAN, session : Nat, spared : BOOLEAN]]
  /\ state \in States /\ shown \in States
  /\ \A s \in {state, shown} : s.identity # NoOne <=> s.status = "authed"
  /\ page \in Pages /\ going \in Pages \cup {"none"} /\ atMount \in Nat /\ submitting \in BOOLEAN
  /\ announced \in Nat /\ sessions \in Nat /\ parted \in BOOLEAN
  /\ said \subseteq Nat /\ ended \subseteq Nat
  /\ expiry \in [session : Nat, by : Nat, spared : BOOLEAN]

\* Every "Session expired" is about a session whose end has not been spoken of,
\* however many of its calls are refused: the burst of one expiry is one notice.
\* The call that ended the session was its own, or one of an earlier session
\* which abortSessionRequests did not reach: its headers were in when a 401
\* aborted the others, or its session did not end by a 401 at all.  And it is
\* not said to a visitor who has signed out and is looking at a signed-out
\* screen (session-provider.tsx onAuthFailure, session-notice.tsx, http.ts).
ExpiryIsSaidOnce ==
  [][announced' > announced =>
       /\ expiry.session \notin said
       /\ \/ expiry.by = expiry.session
          \/ expiry.by < expiry.session /\ (expiry.spared \/ expiry.by \notin ended)
       /\ ~(shown.status = "anon" /\ shown.signingOut)]_vars

\* Who the screen says is signed in is whose cookie the next request carries,
\* once the answers that decide it are in and rendered, unless two such
\* requests were under way at once (the last answer names the visitor, the last
\* header sets the cookie) or one broke off behind its headers.
ShownIsWhoActs ==
  shown.status = "authed" /\ Rendered /\ Deciding = {} /\ ~parted =>
    cookie # None /\ owner[cookie] = shown.identity

\* A visitor who is not signed in is not left on a protected page: something
\* is under way that takes them elsewhere, unless they have signed out before.
StuckOnlyAfterSignOut ==
  page = "trade" /\ shown.status = "anon" /\ Rendered /\ going = "none" => shown.signingOut
=============================================================================
