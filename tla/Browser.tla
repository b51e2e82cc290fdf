------------------------------- MODULE Browser -------------------------------
(***************************************************************************)
(* The session of a user in a browser: the tabs of the application, each   *)
(* with its AuthProvider and its httpClient, the cookies that they share,  *)
(* and what the session endpoints of auth.controller.js do with them.      *)
(*                                                                         *)
(* A tab keeps the access token and the CSRF token in memory; the refresh  *)
(* token and the signature of the CSRF token are cookies.  A call takes    *)
(* the cookies of the moment it is sent, the server handles it in one step *)
(* (UserSessions has the statements), and the Set-Cookie of the answer     *)
(* counts when the answer arrives.  Refresh tokens are numbers; one that   *)
(* nobody refers to any more may be issued again, so nothing has to be     *)
(* counted.  The signature in the jar fits the CSRF token of one tab, the  *)
(* last that fetched one.                                                  *)
(***************************************************************************)
EXTENDS Naturals, FiniteSets

CONSTANTS
  Tab,           \* bound: the tabs
  MaxCalls,      \* bound: calls under way at one time
  MaxIncidents,  \* bound: what is lost, closed, expired or revoked in one behaviour
  MaxId,         \* bound: refresh tokens that are referred to at one time
  NoTab

ASSUME TabsFinite == IsFiniteSet(Tab)
ASSUME IdsEnough == MaxId \in Nat /\ MaxId >= 1 + 5 * Cardinality(Tab)

VARIABLES
  jar,      \* the cookies: refresh token, or 0; tab that the CSRF signature fits, or NoTab
  live,     \* refresh tokens that are not revoked
  excused,  \* history: tokens whose end the browser was not told of
  tab,      \* what each tab holds in memory
  call,     \* the calls of each tab
  incidents \* bound: incidents so far

browserVars == <<jar, live, excused, tab, call, incidents>>

Id   == 1..MaxId
Endpoint   == {"refresh", "logout", "login"}
NoCall == [stage |-> "idle", cookie |-> 0, csrf |-> FALSE, retried |-> FALSE,
           answer |-> "none", set |-> "keep", issued |-> 0]
\* csrf is whether csrfToken is set, fetch whether csrfTokenPromise is; boot and timed
\* are what awaits bootSessionRefreshPromise, "outrun" when sessionVersionRef has
\* changed since.  History: `been` signed in since the page was loaded, `touched` by
\* setAuthUser during a refresh.
Closed == [open |-> FALSE, csrf |-> FALSE, fetch |-> FALSE, user |-> FALSE,
           token |-> FALSE, loading |-> FALSE, timer |-> FALSE, boot |-> "none",
           timed |-> "none", touched |-> FALSE, been |-> FALSE]

BrowserInit ==
  /\ \/ jar = [refresh |-> 0, csrf |-> NoTab] /\ live = {}
     \/ jar = [refresh |-> 1, csrf |-> NoTab] /\ live = {1}
  /\ excused = {}
  /\ tab = [t \in Tab |-> Closed]
  /\ call = [t \in Tab |-> [o \in Endpoint |-> NoCall]]
  /\ incidents = 0

Authenticated(t) == tab[t].user /\ tab[t].token

\* Refresh tokens that a message or the cookie holds.
HeldTokens == {jar.refresh} \cup UNION {{call[t][o].cookie, call[t][o].issued} : t \in Tab, o \in Endpoint}
FreshToken == CHOOSE n \in Id \ HeldTokens : \A m \in Id \ HeldTokens : n <= m
\* Tokens that nothing holds any more are forgotten.
Forget(dropped) ==
  /\ live' = live \cap HeldTokens'
  /\ excused' = (excused \cup dropped) \cap HeldTokens'

-----------------------------------------------------------------------------
(* httpClient: the CSRF token is fetched once for all calls that wait for it *)

NeedsCsrf(o) == o \in {"refresh", "logout"}

\* executeApiRequest up to the answer.  credentials: "include": the cookies of the moment
\* it is sent go with the call.
Sent(c, t, cookies) ==
  [c EXCEPT !.stage = "sent", !.cookie = cookies.refresh, !.csrf = cookies.csrf = t]
Started(t, o, hasCsrf, retried) ==
  LET c == [NoCall EXCEPT !.retried = retried]
  IN  CASE ~NeedsCsrf(o) -> [c EXCEPT !.stage = "sent"]
        [] NeedsCsrf(o) /\ hasCsrf -> Sent(c, t, jar)
        [] NeedsCsrf(o) /\ ~hasCsrf -> [c EXCEPT !.stage = "csrf"]

\* fetchCsrfToken: one fetch at a time.
Fetching(m, c) ==
  [m EXCEPT !.fetch = @ \/ c.stage = "csrf"]

UnderWay == {p \in Tab \X Endpoint : call[p[1]][p[2]].stage # "idle"}

\* The tab's memory becomes m and its call o starts.
StartCall(t, m, o) ==
  LET c == Started(t, o, m.csrf, FALSE)
  IN  /\ Cardinality(UnderWay) < MaxCalls
      /\ tab' = [tab EXCEPT ![t] = Fetching(m, c)]
      /\ call' = [call EXCEPT ![t][o] = c]

\* A new token and its signature; every call that waited goes on with it.
FetchCsrf(t) ==
  /\ tab[t].fetch
  /\ jar' = [jar EXCEPT !.csrf = t]
  /\ tab' = [tab EXCEPT ![t].csrf = TRUE, ![t].fetch = FALSE]
  /\ call' = [call EXCEPT ![t] = [o \in Endpoint |->
       IF @[o].stage = "csrf" THEN Sent(@[o], t, jar') ELSE @[o]]]
  /\ UNCHANGED <<live, excused, incidents>>

-----------------------------------------------------------------------------
(* auth.controller: the session endpoints *)

Answer(t, o, answer, set, issued) ==
  call' = [call EXCEPT ![t][o].stage = "answered", ![t][o].answer = answer,
                       ![t][o].set = set, ![t][o].issued = issued]

\* An untrusted request is refused; the catch of refresh and of logout clears the cookie.
RefuseCsrf(t, o) ==
  /\ NeedsCsrf(o) /\ ~call[t][o].csrf
  /\ Answer(t, o, "csrf", "clear", 0)
  /\ UNCHANGED <<live, excused>>

\* refreshUserSession: rotation; the answer carries the new cookie.
Rotate(t) ==
  LET c == call[t]["refresh"]
      n == FreshToken
  IN  /\ c.csrf /\ c.cookie \in live
      /\ live' = (live \ {c.cookie}) \cup {n}
      /\ UNCHANGED excused
      /\ Answer(t, "refresh", "ok", "new", n)

\* No cookie, or a revoked one: reuse after the grace period ends every session of the user.
RefuseRefresh(t) ==
  LET c == call[t]["refresh"]
  IN  /\ c.csrf /\ c.cookie \notin live
      /\ \/ UNCHANGED <<live, excused>>
         \/ c.cookie # 0 /\ live' = {} /\ excused' = excused \cup live
      /\ Answer(t, "refresh", "refused", "clear", 0)

\* MUTANT: the cookie outlives its token.
AnswerLogoutKeepsCookie(t) ==
  LET c == call[t]["logout"]
  IN  /\ c.csrf
      /\ live' = live \ {c.cookie}
      /\ UNCHANGED excused
      /\ Answer(t, "logout", "ok", "keep", 0)

\* The cookie is cleared in any case, and its token revoked when there is one.
AnswerLogout(t) ==
  LET c == call[t]["logout"]
  IN  /\ c.csrf
      /\ live' = live \ {c.cookie}
      /\ UNCHANGED excused
      /\ Answer(t, "logout", "ok", "clear", 0)

\* Any of the sign-ins and registrations (SignIn); a refused one sets no cookie.
AnswerLogin(t) ==
  \/ LET n == FreshToken
     IN  /\ live' = live \cup {n}
         /\ UNCHANGED excused
         /\ Answer(t, "login", "ok", "new", n)
  \/ /\ Answer(t, "login", "refused", "keep", 0)
     /\ UNCHANGED <<live, excused>>

Serve(t, o) ==
  /\ call[t][o].stage = "sent"
  /\ \/ RefuseCsrf(t, o)
     \/ o = "refresh" /\ (Rotate(t) \/ RefuseRefresh(t))
     \/ o = "logout" /\ AnswerLogout(t)
     \/ o = "login" /\ AnswerLogin(t)
  /\ UNCHANGED <<jar, tab, incidents>>

-----------------------------------------------------------------------------
(* AuthProvider: what becomes of an answer *)

\* sessionVersionRef.current += 1
Bumped(m) == [m EXCEPT !.boot  = IF @ = "none" THEN @ ELSE "outrun",
                       !.timed = IF @ = "none" THEN @ ELSE "outrun"]

\* MUTANT: the timer is armed by the first token only.
SignedInOnce(m) == [m EXCEPT !.user = TRUE, !.token = TRUE, !.loading = FALSE,
                             !.timer = @ \/ ~m.been, !.been = TRUE, !.touched = FALSE]

\* A new access token arms the timer of the next refresh; no token disarms it.
SignedIn(m) == [m EXCEPT !.user = TRUE, !.token = TRUE, !.loading = FALSE, !.timer = TRUE,
                         !.been = TRUE, !.touched = FALSE]
SignedOut(m) == [m EXCEPT !.user = FALSE, !.token = FALSE, !.loading = FALSE, !.timer = FALSE,
                          !.touched = FALSE]

\* MUTANT: a sign-in leaves the restore of the session its screen.
SetAuthSessionOnly(m) == [SignedIn(Bumped(m)) EXCEPT !.loading = m.loading]

ClearAuthUser(m) == SignedOut(Bumped(m))
SetAuthSession(m) == SignedIn(Bumped(m))
\* A profile shows a user and ends the loading; it is no token and arms no timer.
WithUser(m) == [Bumped(m) EXCEPT !.user = TRUE, !.loading = FALSE,
                                 !.touched = @ \/ "current" \in {m.boot, m.timed}]

\* What awaited bootSessionRefreshPromise goes on, unless another session has come since.
Awaited(m) == [m EXCEPT !.boot = "none", !.timed = "none"]

\* MUTANT: the version of the session is not compared.
RefreshedAnyway(m) == SignedIn(Awaited(m))

Refreshed(m) ==
  IF "current" \in {m.boot, m.timed} THEN SignedIn(Awaited(m)) ELSE Awaited(m)
RefreshFailed(m) ==
  IF m.timed = "current" THEN Awaited(ClearAuthUser(m))
  ELSE IF m.boot = "current" THEN SignedOut(Awaited(m))
  ELSE Awaited(m)

\* How the call's caller goes on when its promise settles.
Settled(m, o, ok) ==
  CASE o = "refresh" -> IF ok THEN Refreshed(m) ELSE RefreshFailed(m)
    [] o = "logout"  -> ClearAuthUser(m)
    [] o = "login"   -> IF ok THEN SetAuthSession(m) ELSE m

StoredCookie(c) == CASE c.set = "new" -> c.issued [] c.set = "clear" -> 0 [] c.set = "keep" -> jar.refresh

\* The answer arrives; a first refusal of the CSRF token is followed by another try.
Deliver(t, o) ==
  LET c == call[t][o]
      retry == c.answer = "csrf" /\ ~c.retried
      again == Started(t, o, FALSE, TRUE)
  IN  /\ c.stage = "answered"
      /\ jar' = [jar EXCEPT !.refresh = StoredCookie(c)]
      /\ call' = [call EXCEPT ![t][o] = IF retry THEN again ELSE NoCall]
      /\ tab' = [tab EXCEPT ![t] =
           IF retry THEN Fetching([@ EXCEPT !.csrf = FALSE], again) ELSE Settled(@, o, c.answer = "ok")]
      /\ Forget({})
      /\ UNCHANGED incidents

-----------------------------------------------------------------------------
(* What the user and the clock do *)

\* A page load: nothing is known until the refresh cookie has been tried.
Open(t) ==
  /\ ~tab[t].open
  /\ StartCall(t, [Closed EXCEPT !.open = TRUE, !.loading = TRUE, !.boot = "current"], "refresh")
  /\ UNCHANGED <<jar, live, excused, incidents>>

\* refreshBootSession joins a refresh that is under way.
TimedRefresh(t) ==
  LET m == [tab[t] EXCEPT !.timer = FALSE, !.timed = "current"]
  IN  /\ tab[t].timer
      /\ IF call[t]["refresh"].stage = "idle" THEN StartCall(t, m, "refresh")
         ELSE tab' = [tab EXCEPT ![t] = m] /\ UNCHANGED call
      /\ UNCHANGED <<jar, live, excused, incidents>>

HandleLogout(t) ==
  /\ Authenticated(t) /\ call[t]["logout"].stage = "idle"
  /\ StartCall(t, tab[t], "logout")
  /\ UNCHANGED <<jar, live, excused, incidents>>

SubmitLogin(t) ==
  /\ tab[t].open /\ ~Authenticated(t) /\ call[t]["login"].stage = "idle"
  /\ StartCall(t, tab[t], "login")
  /\ UNCHANGED <<jar, live, excused, incidents>>

\* A page that asked for the profile while it was signed in hands the answer to
\* setAuthUser, whenever it comes.
SetAuthUser(t) ==
  /\ tab[t].been
  /\ tab' = [tab EXCEPT ![t] = WithUser(@)]
  /\ UNCHANGED <<jar, live, excused, call, incidents>>

Incident == incidents < MaxIncidents /\ incidents' = incidents + 1

\* The socket closes on a suspension (DashboardLayout).
SessionEnded(t) ==
  /\ Incident
  /\ Authenticated(t)
  /\ tab' = [tab EXCEPT ![t] = ClearAuthUser(@)]
  /\ UNCHANGED <<jar, live, excused, call>>

\* Tokens that a call the browser hears nothing of has revoked.
Unheard(c) == IF c.stage = "answered" /\ c.set # "keep" /\ c.cookie \notin live THEN {c.cookie} \ {0} ELSE {}

\* The tab is closed, or left for a reload: its calls are dropped.
Close(t) ==
  /\ Incident
  /\ tab[t].open
  /\ tab' = [tab EXCEPT ![t] = Closed]
  /\ call' = [call EXCEPT ![t] = [o \in Endpoint |-> NoCall]]
  /\ UNCHANGED jar
  /\ Forget(UNION {Unheard(call[t][o]) : o \in Endpoint})

\* A call or its answer is lost, or refused before the controller (sessionLimiter).
Lose(t, o) ==
  LET c == call[t][o]
  IN  /\ Incident
      /\ c.stage \in {"sent", "answered"}
      /\ tab' = [tab EXCEPT ![t] = Settled(@, o, FALSE)]
      /\ call' = [call EXCEPT ![t][o] = NoCall]
      /\ UNCHANGED jar
      /\ Forget(Unheard(c))

LoseFetch(t) ==
  LET waiting == {o \in Endpoint : call[t][o].stage = "csrf"}
      m == [tab[t] EXCEPT !.fetch = FALSE]
      r == IF "refresh" \in waiting THEN Settled(m, "refresh", FALSE) ELSE m
  IN  /\ Incident
      /\ tab[t].fetch
      /\ tab' = [tab EXCEPT ![t] = IF "logout" \in waiting THEN Settled(r, "logout", FALSE) ELSE r]
      /\ call' = [call EXCEPT ![t] = [o \in Endpoint |-> IF o \in waiting THEN NoCall ELSE @[o]]]
      /\ UNCHANGED <<jar, live, excused>>

\* csrfMaxAgeMs, and the age of the refresh cookie.
CookieExpires ==
  /\ Incident
  /\ \/ jar.csrf # NoTab /\ jar' = [jar EXCEPT !.csrf = NoTab]
     \/ jar.refresh # 0 /\ jar' = [jar EXCEPT !.refresh = 0]
  /\ UNCHANGED <<tab, call>>
  /\ Forget({})

\* A suspension, a new password or a sign-out of all devices, from anywhere.
RevokeEverywhere ==
  /\ Incident
  /\ live # {}
  /\ live' = {} /\ excused' = excused \cup live
  /\ UNCHANGED <<jar, tab, call>>

Answers(t) == FetchCsrf(t) \/ \E o \in Endpoint : Serve(t, o) \/ Deliver(t, o)
Faults(t)  == Close(t) \/ LoseFetch(t) \/ \E o \in Endpoint : Lose(t, o)
Acts(t)    == \/ Open(t) \/ TimedRefresh(t) \/ HandleLogout(t) \/ SubmitLogin(t)
              \/ SetAuthUser(t) \/ SessionEnded(t)

BrowserNext == \/ \E t \in Tab : Answers(t) \/ Acts(t) \/ Faults(t)
        \/ CookieExpires \/ RevokeEverywhere

BrowserSpec == BrowserInit /\ [][BrowserNext]_browserVars

-----------------------------------------------------------------------------

BrowserTypeOK ==
  /\ jar \in [refresh : 0..MaxId, csrf : Tab \cup {NoTab}]
  /\ live \cup excused \subseteq HeldTokens \ {0}
  /\ live \cap excused = {}
  /\ \A t \in Tab :
       /\ tab[t].boot \in {"none", "current", "outrun"} /\ tab[t].timed \in {"none", "current", "outrun"}
       /\ tab[t].timer => tab[t].token
       /\ ~tab[t].open => tab[t] = Closed
       /\ (tab[t].boot # "none" \/ tab[t].timed # "none") <=> call[t]["refresh"].stage # "idle"
       /\ (\E o \in Endpoint : call[t][o].stage = "csrf") => tab[t].fetch

\* The cookie is never a revoked token, whose use the server would take for theft and
\* answer by ending every session, except while the answer that replaces it is under
\* way, or when the browser was not told of the end of the token.
CookieLive ==
  jar.refresh \in live \cup excused \cup {0}
    \/ \E t \in Tab, o \in Endpoint : /\ call[t][o].stage = "answered" /\ call[t][o].set # "keep"
                                /\ call[t][o].cookie = jar.refresh

\* A tab that is signed in has its next refresh armed or under way, so that the access
\* token never runs out under it, unless setAuthUser came in between: the refresh is
\* then thrown away, and nothing arms the timer again (hazard of AuthProvider:154).
RefreshScheduled ==
  \A t \in Tab : Authenticated(t) =>
    tab[t].timer \/ "current" \in {tab[t].timed, tab[t].boot} \/ tab[t].touched

\* Once a tab has been signed out, only a sign-in submitted in it signs it in: an answer
\* to a refresh, or a page's setAuthUser, that was under way does not.
StaysOut ==
  [][\A t \in Tab : (tab[t].open /\ ~tab[t].loading /\ ~Authenticated(t) /\ Authenticated(t)')
       => call[t]["login"].answer = "ok" /\ call'[t]["login"] = NoCall]_browserVars

\* While the screen that holds every route back during the restore of the session is
\* shown, the refresh that will take it away is under way and still counts: whatever
\* makes its answer stale has taken the screen away itself.
LoadingAwaits == \A t \in Tab : tab[t].loading => tab[t].boot = "current"

\* A test has a call whose CSRF token is refused tried once more with a new one
\* (httpClient.test.js:91): the cookie it is about, if its token is live, is still there
\* for the second try.
RetryKeepsCookie ==
  [][\A t \in Tab, o \in Endpoint :
       (call[t][o].answer = "csrf" /\ call'[t][o].retried /\ jar.refresh \in live)
         => jar'.refresh = jar.refresh]_browserVars
=============================================================================
