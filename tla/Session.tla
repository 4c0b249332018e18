------------------------------ MODULE Session ------------------------------
(***************************************************************************)
(* Signing in, as one browser tab sees it: the cookie the backend sets     *)
(* (auth.controller.ts, session.guard.ts), what the tab believes of it     *)
(* (auth.ts), the guard in front of every navigation and the handler of    *)
(* every 401 (router.ts, api/client.ts).                                   *)
(*                                                                         *)
(* A refused request is on its way until its 401 arrives; until then the   *)
(* tab goes on as before. A wrong password changes nothing and is left     *)
(* out. GET /auth/status and the navigation it holds up are one step.      *)
(***************************************************************************)
EXTENDS Naturals

CONSTANTS
  Views,       \* the views behind the sign-in; "dashboard" and "devices" are among them
  Null,
  MaxRefusals  \* bound: 401s on their way at the same time

ASSUME SessionAssumption ==
  {"dashboard", "devices"} \subseteq Views /\ Views \cap {"login", "setup"} = {}

VARIABLES
  users,     \* the backend has a user
  cookie,    \* the tab's cookie is there and verifies
  auth,      \* auth.ts: [setupRequired, authenticated]
  view,      \* the route; "none" before the tab is opened
  weiter,    \* the query of the login page
  refusals,  \* 401s on their way
  left       \* the view an expired session took away, until the tab is somewhere else

session == <<users, cookie, auth, view, weiter, refusals, left>>

SessionInit ==
  /\ users \in BOOLEAN /\ cookie = FALSE
  /\ auth = [setupRequired |-> FALSE, authenticated |-> FALSE]
  /\ view = "none" /\ weiter = Null /\ refusals = 0 /\ left = Null

\* router.beforeEach: the route a navigation ends at, and what the login page is to remember.
Guard(a, to) ==
  CASE a.setupRequired                           -> "setup"
    [] ~a.setupRequired /\ a.authenticated       -> IF to \in {"setup", "login"} THEN "dashboard" ELSE to
    [] ~a.setupRequired /\ ~a.authenticated      -> "login"
Remembered(a, to) ==
  IF ~a.setupRequired /\ ~a.authenticated /\ to \in Views THEN to ELSE Null

\* What a view sends when it is entered; without a session all of it is refused.
More(n) == IF n = MaxRefusals THEN {n} ELSE n + 1 .. MaxRefusals
Arrive(entered, pending) ==
  IF entered /\ view' \in Views /\ ~cookie' THEN refusals' \in More(pending)
  ELSE refusals' = pending

Go(a, to) == auth' = a /\ view' = Guard(a, to) /\ weiter' = Remembered(a, to)

\* refresh()
Status == [setupRequired |-> ~users, authenticated |-> cookie]

\* An address is typed in: refresh() asks for the status, then the guard decides.
Open(to) ==
  /\ Go(Status, to)
  /\ left' = Null /\ UNCHANGED <<users, cookie>>
  /\ Arrive(TRUE, 0)

\* The tab is loaded anew: where it is the login page and stays it, its query stays too.
Reload ==
  /\ view # "none"
  /\ auth' = Status /\ view' = Guard(Status, view)
  /\ IF view = "login" /\ view' = "login" THEN UNCHANGED <<weiter, left>>
     ELSE weiter' = Remembered(Status, view) /\ left' = Null
  /\ UNCHANGED <<users, cookie>>
  /\ Arrive(TRUE, 0)

\* A link: the status is not asked for again.
Navigate(to) ==
  /\ view \in Views
  /\ Go(auth, to) /\ left' = Null
  /\ UNCHANGED <<users, cookie>>
  /\ Arrive(view' # view, refusals)

Expire == cookie /\ cookie' = FALSE /\ UNCHANGED <<users, auth, view, weiter, refusals, left>>

SomeoneSetsUp == ~users /\ users' = TRUE /\ UNCHANGED <<cookie, auth, view, weiter, refusals, left>>

SignedIn == [setupRequired |-> FALSE, authenticated |-> TRUE]
SignedOut == [auth EXCEPT !.authenticated = FALSE]

SignIn ==
  /\ view = "login" /\ users
  /\ cookie' = TRUE
  /\ Go(SignedIn, IF weiter = Null THEN "devices" ELSE weiter)
  /\ left' = Null
  /\ UNCHANGED <<users, refusals>>

\* A second one is refused and stays where it is.
SetUp ==
  /\ view = "setup" /\ ~users
  /\ users' = TRUE /\ cookie' = TRUE
  /\ Go(SignedIn, "devices")
  /\ left' = Null
  /\ UNCHANGED refusals

SignOut ==
  /\ view \in Views
  /\ cookie' = FALSE
  /\ Go(SignedOut, "login") /\ left' = Null
  /\ UNCHANGED <<users, refusals>>

\* A bug to compare with: the handler does not ask where the tab is.
UnauthorizedAnywhere ==
  /\ refusals > 0 /\ refusals' = refusals - 1
  /\ auth' = SignedOut /\ view' = Guard(SignedOut, "login") /\ weiter' = view
  /\ left' = IF view \in Views THEN view ELSE left
  /\ UNCHANGED <<users, cookie>>

\* A 401 arrives. Several requests of one view are refused together: the ones that arrive at
\* the login page leave it as it is.
Unauthorized ==
  /\ refusals > 0 /\ refusals' = refusals - 1
  /\ auth' = SignedOut
  /\ IF view \in Views
     THEN view' = Guard(SignedOut, "login") /\ weiter' = view /\ left' = view
     ELSE UNCHANGED <<view, weiter, left>>
  /\ UNCHANGED <<users, cookie>>

\* A request is sent: without a session it is going to be refused.
Sent ==
  /\ refusals' = IF cookie \/ refusals = MaxRefusals THEN refusals ELSE refusals + 1
  /\ UNCHANGED <<users, cookie, auth, view, weiter, left>>

Steps ==
  \/ \E to \in Views \cup {"login", "setup"} : Open(to)
  \/ \E to \in Views : Navigate(to)
  \/ Reload \/ Expire \/ SomeoneSetsUp \/ SignIn \/ SetUp \/ SignOut \/ Unauthorized

\* However many requests are refused, and though the login page is loaded anew, whoever signs
\* in again comes back to the view the expired session took away (router.ts:91-94).
ComesBack == [][SignIn /\ left # Null => view' = left]_session

\* Refuted: a session is never ended by the answer to a request of an earlier one. A 401 that
\* arrives after signing in again sends the tab back to the login page.
KeepsSession == [][Unauthorized => ~cookie]_session

=============================================================================
