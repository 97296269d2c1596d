------------------------------ MODULE Sessions ------------------------------
(***************************************************************************)
(* The session between a browser and nasd: auth/auth.go SessionStore,      *)
(* middleware/middleware.go Auth and CSRF, the login, logout and me        *)
(* handlers, and in the browser js/api.js request and js/app.js App and    *)
(* Login.                                                                  *)
(*                                                                         *)
(* The tabs of a browser share the cookie; each tab keeps the user it      *)
(* shows and the CSRF token it sends.  Requests and responses cross in the *)
(* network: the responses of two requests of a tab come back in any order. *)
(* A response sets the cookie and the state of its tab when it arrives.    *)
(***************************************************************************)
EXTENDS Naturals, FiniteSets, People

CONSTANTS
  Tabs,
  OpenTabs,    \* the tabs whose script runs; the browser may suspend the others
  MaxLogins,   \* a bound on the sessions that are ever created
  MaxInFlight, \* a bound on the requests in flight at a time
  Lossy        \* TRUE: a request or its response may be lost

ASSUME SessionsAssumption ==
  /\ OpenTabs \subseteq Tabs
  /\ MaxLogins \in Nat /\ MaxInFlight \in Nat
  /\ None \notin Users \cup (1..MaxLogins)

VARIABLES
  sessions,  \* SessionStore: per token, the user of its session, or None
  created,   \* the number of sessions created
  cookie,    \* the browser's nasd_session cookie, or None
  view,      \* per tab: the user App shows (None: the login form)
  csrf,      \* per tab: csrfToken of api.js
  wire       \* per tab and kind of request: the request or response in flight

serverVars == <<sessions, created>>
sessionsVars == <<serverVars, cookie, view, csrf, wire>>

\* A session's token and its CSRF token are both fresh: one number stands for both.
Tokens == 1..MaxLogins
\* "poll" is the status request App repeats, "change" any mutating request.
Kinds == {"me", "login", "logout", "poll", "change"}
Idle == [stage |-> "idle"]
Request == [stage: {"sent"}, cookie: Tokens \cup {None}, csrf: Tokens \cup {None},
            user: Users \cup {None}]
Response == [stage: {"answered"}, status: {200, 401, 403}, token: Tokens \cup {None},
             user: Users \cup {None}]

Sent(t, k) == wire[t][k].stage = "sent"
Answered(t, k) == wire[t][k].stage = "answered"

-----------------------------------------------------------------------------
(* The browser sends                                                       *)

CanSend == Cardinality({m \in Tabs \X Kinds : wire[m[1]][m[2]] # Idle}) < MaxInFlight

\* What a request carries that its handler does not look at is left out: the
\* cookie of a login, the CSRF token of a GET (which request does not even send).
Blank == [stage |-> "sent", cookie |-> None, csrf |-> None, user |-> None]
\* A page that is loaded asks who it is.
WhoAmI == [Blank EXCEPT !.cookie = cookie]

Send(t, k, m) ==
  /\ CanSend
  /\ wire[t][k] = Idle
  /\ wire' = [wire EXCEPT ![t][k] = m]
  /\ UNCHANGED <<serverVars, cookie>>

\* The page is loaded again.
Open(t) ==
  /\ CanSend
  /\ \A k \in Kinds : wire[t][k] = Idle
  /\ view' = [view EXCEPT ![t] = None]
  /\ csrf' = [csrf EXCEPT ![t] = None]
  /\ wire' = [wire EXCEPT ![t]["me"] = WhoAmI]
  /\ UNCHANGED <<serverVars, cookie>>

\* The login form is shown while there is no user, also before "me" is answered.
Submit(t, u) ==
  /\ view[t] = None
  /\ Send(t, "login", [Blank EXCEPT !.user = u])
  /\ UNCHANGED <<view, csrf>>

Poll(t) ==
  /\ view[t] # None
  /\ Send(t, "poll", [Blank EXCEPT !.cookie = cookie])
  /\ UNCHANGED <<view, csrf>>

\* A logout or a change; the user on whose screen it was asked for goes with it.
Ask(t, k) ==
  /\ view[t] # None
  /\ Send(t, k, [stage |-> "sent", cookie |-> cookie, csrf |-> csrf[t], user |-> view[t]])
  /\ UNCHANGED <<view, csrf>>

-----------------------------------------------------------------------------
(* nasd answers                                                            *)

Live(token) == token # None /\ sessions[token] # None

\* Mutant: any CSRF token will do.
StatusAnyToken(t, k) ==
  IF ~Live(wire[t][k].cookie) THEN 401
  ELSE IF k \in {"logout", "change"} /\ wire[t][k].csrf = None THEN 403
  ELSE 200

\* What a protected handler answers behind Auth and CSRF.
Status(t, k) ==
  IF ~Live(wire[t][k].cookie) THEN 401
  ELSE IF k \in {"logout", "change"} /\ wire[t][k].csrf # wire[t][k].cookie THEN 403
  ELSE 200

Answer(t, k, status, token, user) ==
  wire' = [wire EXCEPT ![t][k] =
    [stage |-> "answered", status |-> status, token |-> token, user |-> user]]

\* login with the right password: SessionStore.Create.
ServeLogin(t) ==
  /\ Sent(t, "login")
  /\ \/ /\ created < MaxLogins
        /\ created' = created + 1
        /\ sessions' = [sessions EXCEPT ![created + 1] = wire[t]["login"].user]
        /\ Answer(t, "login", 200, created + 1, wire[t]["login"].user)
     \/ Answer(t, "login", 401, None, None) /\ UNCHANGED serverVars
  /\ UNCHANGED <<cookie, view, csrf>>

\* logout: SessionStore.Delete.
ServeLogout(t) ==
  LET s == Status(t, "logout") IN
  /\ Sent(t, "logout")
  /\ Answer(t, "logout", s, None, None)
  /\ sessions' = IF s = 200 THEN [sessions EXCEPT ![wire[t]["logout"].cookie] = None]
                 ELSE sessions
  /\ UNCHANGED <<created, cookie, view, csrf>>

\* me answers the session's user and its CSRF token.
ServeMe(t) ==
  LET c == wire[t]["me"].cookie IN
  /\ Sent(t, "me")
  /\ IF Live(c) THEN Answer(t, "me", 200, c, sessions[c]) ELSE Answer(t, "me", 401, None, None)
  /\ UNCHANGED <<serverVars, cookie, view, csrf>>

Serve(t, k) ==
  /\ Sent(t, k)
  /\ Answer(t, k, Status(t, k), None, None)
  /\ UNCHANGED <<serverVars, cookie, view, csrf>>

\* The session's time is over (Get refuses it, gc removes it) or nasd restarts.
Expire(token) ==
  /\ Live(token)
  /\ sessions' = [sessions EXCEPT ![token] = None]
  /\ UNCHANGED <<created, cookie, view, csrf, wire>>

Restart ==
  /\ \E token \in Tokens : Live(token)
  /\ sessions' = [token \in Tokens |-> None]
  /\ UNCHANGED <<created, cookie, view, csrf, wire>>

-----------------------------------------------------------------------------
(* The response arrives                                                    *)

Done(t, k) == wire' = [wire EXCEPT ![t][k] = Idle]
Show(t, u) == view' = [view EXCEPT ![t] = u]

\* Any 401 is the event session-expired: App forgets its user.
ReceiveLogin(t) ==
  LET m == wire[t]["login"] IN
  /\ Answered(t, "login")
  /\ Done(t, "login")
  /\ \/ /\ m.status = 200
        /\ cookie' = m.token
        /\ csrf' = [csrf EXCEPT ![t] = m.token]
        /\ Show(t, m.user)
     \/ m.status = 401 /\ Show(t, None) /\ UNCHANGED <<cookie, csrf>>
  /\ UNCHANGED serverVars

\* Mutant: App shows what me answered, an error without a user too.
ReceiveMeUnchecked(t) ==
  LET m == wire[t]["me"] IN
  /\ Answered(t, "me")
  /\ Done(t, "me")
  /\ Show(t, m.status)
  /\ UNCHANGED <<serverVars, cookie, csrf>>

\* me: the answer sets token and user; any failure shows the login form.
ReceiveMe(t) ==
  LET m == wire[t]["me"] IN
  /\ Answered(t, "me")
  /\ Done(t, "me")
  /\ Show(t, m.user)
  /\ csrf' = IF m.status = 200 THEN [csrf EXCEPT ![t] = m.token] ELSE csrf
  /\ UNCHANGED <<serverVars, cookie>>

\* logout: a 200 clears the cookie; finally, whatever the answer, the login form.
ReceiveLogout(t) ==
  /\ Answered(t, "logout")
  /\ Done(t, "logout")
  /\ Show(t, None)
  /\ cookie' = IF wire[t]["logout"].status = 200 THEN None ELSE cookie
  /\ UNCHANGED <<serverVars, csrf>>

\* Mutant: a 401 is an error like any other.
ReceiveQuietly(t, k) ==
  /\ Answered(t, k)
  /\ Done(t, k)
  /\ UNCHANGED <<serverVars, cookie, view, csrf>>

Receive(t, k) ==
  /\ Answered(t, k)
  /\ Done(t, k)
  /\ Show(t, IF wire[t][k].status = 401 THEN None ELSE view[t])
  /\ UNCHANGED <<serverVars, cookie, csrf>>

\* fetch throws: me and logout still end in the login form.
Lose(t, k) ==
  /\ Lossy
  /\ wire[t][k] # Idle
  /\ Done(t, k)
  /\ Show(t, IF k \in {"me", "logout"} THEN None ELSE view[t])
  /\ UNCHANGED <<serverVars, cookie, csrf>>

-----------------------------------------------------------------------------
SessionsInit ==
  /\ sessions = [token \in Tokens |-> None]
  /\ created = 0
  /\ cookie = None
  /\ view = [t \in Tabs |-> None]
  /\ csrf = [t \in Tabs |-> None]
  /\ wire = [t \in Tabs |-> [k \in Kinds |-> IF k = "me" THEN Blank ELSE Idle]]

Browser(t) ==
  \/ Open(t)
  \/ \E u \in Users : Submit(t, u)
  \/ Poll(t)
  \/ \E k \in {"logout", "change"} : Ask(t, k)

Nasd(t) ==
  \/ ServeLogin(t) \/ ServeLogout(t) \/ ServeMe(t)
  \/ \E k \in {"poll", "change"} : Serve(t, k)

Arrive(t) ==
  \/ ReceiveLogin(t) \/ ReceiveMe(t) \/ ReceiveLogout(t)
  \/ \E k \in {"poll", "change"} : Receive(t, k)

SessionsNext ==
  \/ \E t \in Tabs : Browser(t) \/ Nasd(t) \/ Arrive(t) \/ \E k \in Kinds : Lose(t, k)
  \/ (\E token \in Tokens : Expire(token)) \/ Restart

SessionsSpec == SessionsInit /\ [][SessionsNext]_sessionsVars

\* A tab whose script runs polls every 8 s; nasd answers, and the network loses
\* some requests, not all.
Polling(t) == SF_sessionsVars(Poll(t)) /\ SF_sessionsVars(Serve(t, "poll")) /\ SF_sessionsVars(Receive(t, "poll"))
FairSpec ==
  /\ SessionsSpec
  /\ \A t \in OpenTabs : Polling(t)
  /\ WF_sessionsVars(\E t \in Tabs : Nasd(t)) /\ WF_sessionsVars(\E t \in Tabs : Arrive(t))

-----------------------------------------------------------------------------
(* Properties                                                              *)

SessionsTypeOK ==
  /\ sessions \in [Tokens -> Users \cup {None}]
  /\ created \in 0..MaxLogins
  /\ cookie \in Tokens \cup {None}
  /\ view \in [Tabs -> Users \cup {None}]
  /\ csrf \in [Tabs -> Tokens \cup {None}]
  /\ wire \in [Tabs -> [Kinds -> {Idle} \cup Request \cup Response]]

\* middleware.go CSRF with app.js App: a change that nasd makes is made for the
\* user whom the tab showed when it was asked for, although the tabs share the
\* cookie and another tab may have logged in as someone else.
ChangesAreByTheShownUser ==
  \A t \in Tabs : Sent(t, "change") /\ Status(t, "change") = 200
    => sessions[wire[t]["change"].cookie] = wire[t]["change"].user

\* app.js App: a tab whose script runs and that shows a user, with no live session
\* left in the browser, shows the login form in the end, unless someone logs in.
DeadSessionIsNoticed ==
  \A t \in OpenTabs : (view[t] # None /\ ~Live(cookie)) ~> (view[t] = None \/ Live(cookie))
=============================================================================
