------------------------------ MODULE Session ------------------------------
(***************************************************************************)
(* The signed-in browser: the session in localStorage, which all tabs      *)
(* share, the token renewal of every tab (timer, page load, login page,    *)
(* the 401 interceptor of customAxios) and the tokens of the backend.      *)
(*                                                                         *)
(* auth-session.ts and customAxios.ts keep a timer, a flag and a queue in  *)
(* module variables: they belong to one tab and vanish when it reloads.    *)
(* An access token is its number of issue, a refresh token the number of   *)
(* the login it was issued for.  Browser and backend clocks agree.         *)
(***************************************************************************)
EXTENDS Naturals, Sequences, FiniteSets

CONSTANTS
    Tabs,        \* tabs of one browser
    Users,       \* accounts people sign in with
    Calls,       \* API calls through customAxios (identities, reused)
    NoSession,   \* localStorage holds no session
    MaxTokens,   \* bound: access tokens issued
    MaxLogins,   \* bound: logins
    MaxFaults,   \* bound: answers lost or replaced by a server error
    MaxFlights,  \* bound: requests about the session on their way when another is sent
    MaxActive    \* bound: open tabs and API calls on their way at a time

ASSUME SessionAssumption ==
    /\ MaxTokens \in Nat /\ MaxLogins \in Nat /\ MaxFaults \in Nat
    /\ MaxFlights \in Nat /\ MaxActive \in Nat
    /\ NoSession \notin [user : Users, access : Nat, refresh : Nat]

VARIABLES
    store,        \* localStorage: [user, access, refresh] or NoSession
    tab,          \* tab[t]: page shown, token the timer was armed for (0: no timer), isRefreshing
    flight,       \* /auth/refresh, /auth/login and /user/me requests on their way
    call,         \* call[c]: an API call and the interceptor's state for it
    token,        \* token[i]: the login access token i was issued for
    login,        \* login[l]: the user of login l
    redis,        \* redis[u]: the login whose refresh token Redis holds for u, 0 for none
    expired,      \* access tokens past their exp
    blacklisted,  \* access tokens signed out (Redis, value "logout")
    lapsed,       \* refresh tokens past their exp
    faults        \* answers lost so far

browserVars == <<store, tab, flight, call>>
serverVars == <<token, login, redis, blacklisted>>
clockVars == <<expired, lapsed>>
vars == <<browserVars, serverVars, clockVars, faults>>

Session == [user : Users, access : 1..MaxTokens, refresh : 1..MaxLogins]
Page == {"closed", "checking", "login", "signing", "app", "leaving"}
\* Why a flight was sent: the renewal timer, a mounted page, the login page's
\* check, the login form, the question who I am; or the call that met a 401.
Purpose == {"timer", "load", "check", "login", "me"}
Kind == {"read", "denied", "logout"}
ASSUME CallAssumption == Calls \cap Purpose = {}   \* "by" tells who sent a flight
Free == [tab |-> "none", kind |-> "read", access |-> 0, retry |-> FALSE, state |-> "free"]

Live(a) == a \in DOMAIN token /\ a \notin expired
Accepted(a) == Live(a) /\ a \notin blacklisted   \* JwtAuthenticationFilter

-----------------------------------------------------------------------------
(* auth-session.ts.                                                        *)

\* scheduleTokenRefresh: a token that has expired gets no timer.
TimerFor(session) == IF session.access \in expired THEN 0 ELSE session.access

\* A router.push does not bring back a tab that has been told to reload.
Shown(t, page) == IF tab[t].page = "leaving" THEN "leaving" ELSE page

\* saveAuthSession, clearAuthSession: the store and the timer of this tab.
Saved(t, session, page) ==
    /\ store' = session
    /\ tab' = [tab EXCEPT ![t].timer = TimerFor(session), ![t].page = Shown(t, page)]

Cleared(t, page) ==
    /\ store' = NoSession
    /\ tab' = [tab EXCEPT ![t].timer = 0, ![t].page = Shown(t, page)]

Flight(t, purpose, session) ==
    [tab |-> t, by |-> purpose, session |-> session, answer |-> "none", access |-> 0]

Room == Cardinality(flight) < MaxFlights
Quiet == Cardinality({t \in Tabs : tab[t].page # "closed"})
           + Cardinality({c \in Calls : call[c] # Free}) < MaxActive

TimerFires(t) ==
    /\ tab[t].timer # 0
    /\ \/ /\ store = NoSession
          /\ tab' = [tab EXCEPT ![t].timer = 0]
          /\ UNCHANGED <<store, flight>>
       \/ /\ store # NoSession /\ store.access # tab[t].timer
          /\ tab' = [tab EXCEPT ![t].timer = TimerFor(store)]
          /\ UNCHANGED <<store, flight>>
       \/ /\ store # NoSession /\ store.access = tab[t].timer
          /\ store.refresh \in lapsed
          /\ Cleared(t, "leaving")
          /\ UNCHANGED flight
       \/ /\ store # NoSession /\ store.access = tab[t].timer
          /\ store.refresh \notin lapsed /\ Room
          /\ tab' = [tab EXCEPT ![t].timer = 0]
          /\ flight' = flight \cup {Flight(t, "timer", store)}
          /\ UNCHANGED store
    /\ UNCHANGED <<call, serverVars, clockVars, faults>>

\* initTokenRefreshScheduler, for a page that stays or becomes "app".
StartScheduler(t) ==
    \/ /\ store # NoSession /\ store.access \notin expired
       /\ tab' = [tab EXCEPT ![t].timer = store.access, ![t].page = "app"]
       /\ UNCHANGED <<store, flight>>
    \/ /\ store # NoSession /\ store.access \in expired /\ store.refresh \notin lapsed
       /\ Room
       /\ tab' = [tab EXCEPT ![t].page = "app"]
       /\ flight' = flight \cup {Flight(t, "load", store)}
       /\ UNCHANGED store
    \/ /\ store # NoSession /\ store.access \in expired /\ store.refresh \in lapsed
       /\ Cleared(t, "leaving")
       /\ UNCHANGED flight

-----------------------------------------------------------------------------
(* Pages: the sidebar of every protected page, the login page, reloads.    *)

\* The sidebar mounts (first page of a tab, or another path): without a session
\* router.replace("/") shows the login page, which does not reload the tab.
MountPage(t) ==
    /\ tab[t].page \in {"closed", "app"} /\ (tab[t].page = "closed" => Quiet)
    /\ \/ StartScheduler(t)
       \/ /\ store = NoSession
          /\ tab' = [tab EXCEPT ![t].page = "login"]
          /\ UNCHANGED <<store, flight>>
    /\ UNCHANGED <<call, serverVars, clockVars, faults>>

\* validateExistingSession: with a session, first ask the server whether the
\* access token is good (unless it has expired), then try to renew it.
MountLogin(t) ==
    /\ tab[t].page = "closed" /\ Quiet
    /\ \/ /\ store = NoSession
          /\ tab' = [tab EXCEPT ![t].page = "login"]
          /\ UNCHANGED <<store, flight>>
       \/ /\ store # NoSession /\ Room
          /\ tab' = [tab EXCEPT ![t].page = "checking"]
          /\ flight' = flight \cup {Flight(t, "check", store)}
          /\ UNCHANGED store
    /\ UNCHANGED <<call, serverVars, clockVars, faults>>

\* /user/me accepted the token of the captured session: the dashboard opens and
\* the scheduler starts from what the store holds now.
CheckPasses(f) ==
    /\ f \in flight /\ f.by = "check" /\ f.answer = "none"
    /\ Accepted(f.session.access)
    /\ \/ /\ store # NoSession /\ store.access \notin expired
          /\ tab' = [tab EXCEPT ![f.tab].timer = store.access,
                              ![f.tab].page = Shown(f.tab, "app")]
          /\ flight' = flight \ {f}
          /\ UNCHANGED store
       \/ /\ store # NoSession /\ store.access \in expired /\ store.refresh \notin lapsed
          /\ tab' = [tab EXCEPT ![f.tab].page = Shown(f.tab, "app")]
          /\ flight' = (flight \ {f}) \cup {Flight(f.tab, "load", store)}
          /\ UNCHANGED store
       \/ /\ store # NoSession /\ store.access \in expired /\ store.refresh \in lapsed
          /\ Cleared(f.tab, "app")
          /\ flight' = flight \ {f}
       \/ /\ store = NoSession
          /\ tab' = [tab EXCEPT ![f.tab].page = Shown(f.tab, "app")]
          /\ flight' = flight \ {f}
          /\ UNCHANGED store
    /\ UNCHANGED <<call, serverVars, clockVars, faults>>

\* The refresh token of the captured session has lapsed: nothing left to try.
CheckGivesUp(f) ==
    /\ f \in flight /\ f.by = "check" /\ f.answer = "none"
    /\ ~Accepted(f.session.access) /\ f.session.refresh \in lapsed
    /\ Cleared(f.tab, "login")
    /\ flight' = flight \ {f}
    /\ UNCHANGED <<call, serverVars, clockVars, faults>>

\* The other tabs hear of a change of localStorage (or of their own event).
StorageEvent(t) ==
    /\ tab[t].page = "app" /\ store = NoSession
    /\ tab' = [tab EXCEPT ![t].page = "login"]
    /\ UNCHANGED <<store, flight, call, serverVars, clockVars, faults>>

\* window.location.href = "/" has been assigned and the browser gets to it.
Reload(t) ==
    /\ tab[t].page = "leaving"
    /\ tab' = [tab EXCEPT ![t] = [page |-> "closed", timer |-> 0, refreshing |-> FALSE]]
    /\ flight' = {f \in flight : f.tab # t}
    /\ call' = [c \in Calls |-> IF call[c].tab = t THEN Free ELSE call[c]]
    /\ UNCHANGED <<store, serverVars, clockVars, faults>>

-----------------------------------------------------------------------------
(* The login form.                                                         *)

\* AuthService.login: two tokens, and Redis keeps one refresh token per user.
LoginAtServer(t, u) ==
    LET l == Len(login) + 1
        a == Len(token) + 1
        session == [user |-> u, access |-> a, refresh |-> l]
    IN
    /\ tab[t].page = "login"
    /\ l <= MaxLogins /\ a <= MaxTokens
    /\ login' = Append(login, u)
    /\ token' = Append(token, l)
    /\ redis' = [redis EXCEPT ![u] = l]
    /\ tab' = [tab EXCEPT ![t].page = "signing"]
    /\ flight' = flight \cup {Flight(t, "login", session)}
    /\ UNCHANGED <<store, call, blacklisted, clockVars, faults>>

\* The form stores the session at once, asks /user/me for name and roles ...
LoginAnswered(f) ==
    /\ f \in flight /\ f.by = "login"
    /\ Saved(f.tab, f.session, "signing")
    /\ flight' = (flight \ {f}) \cup {Flight(f.tab, "me", f.session)}
    /\ UNCHANGED <<call, serverVars, clockVars, faults>>

\* The answer got lost: the form again, with a session nobody holds.
LoginLost(f) ==
    /\ f \in flight /\ f.by = "login"
    /\ faults < MaxFaults
    /\ faults' = faults + 1
    /\ tab' = [tab EXCEPT ![f.tab].page = Shown(f.tab, "login")]
    /\ flight' = flight \ {f}
    /\ UNCHANGED <<store, call, serverVars, clockVars>>

\* ... and stores the same tokens once more when they come; either way the
\* dashboard opens.
MeAnswered(f) ==
    /\ f \in flight /\ f.by = "me"
    /\ \/ Saved(f.tab, f.session, "app")
       \/ /\ tab' = [tab EXCEPT ![f.tab].page = Shown(f.tab, "app")]
          /\ UNCHANGED store
    /\ flight' = flight \ {f}
    /\ UNCHANGED <<call, serverVars, clockVars, faults>>

-----------------------------------------------------------------------------
(* /auth/refresh.                                                          *)

Renewing(f) ==
    /\ f.answer = "none" /\ f.by \notin {"login", "me"}
    /\ f.by = "check" => ~Accepted(f.session.access) /\ f.session.refresh \notin lapsed

Honoured(l) == l \notin lapsed /\ redis[login[l]] = l

\* AuthService.refresh: a new access token, or 401.
RefreshAtServer(f) ==
    /\ f \in flight /\ Renewing(f)
    /\ \/ /\ Honoured(f.session.refresh) /\ Len(token) < MaxTokens
          /\ token' = Append(token, f.session.refresh)
          /\ flight' = (flight \ {f}) \cup {[f EXCEPT !.answer = "renewed", !.access = Len(token) + 1]}
       \/ /\ ~Honoured(f.session.refresh)
          /\ flight' = (flight \ {f}) \cup {[f EXCEPT !.answer = "denied"]}
          /\ UNCHANGED token
    /\ UNCHANGED <<store, tab, call, login, redis, blacklisted, clockVars, faults>>

\* No answer, or one that says nothing about the token (500).
RefreshLost(f) ==
    /\ f \in flight /\ Renewing(f)
    /\ faults < MaxFaults
    /\ faults' = faults + 1
    /\ flight' = (flight \ {f}) \cup {[f EXCEPT !.answer = "failed"]}
    /\ UNCHANGED <<store, tab, call, serverVars, clockVars>>

\* Mutant: the new token goes into whatever session is stored by then.
Renewed_IntoStored(f) ==
    IF store = NoSession THEN [f.session EXCEPT !.access = f.access]
    ELSE [store EXCEPT !.access = f.access]

Renewed(f) == [f.session EXCEPT !.access = f.access]

\* The answer reaches the timer's callback or the page load: a refusal signs
\* out, a failure is left to the next 401.
ProactiveAnswered(f) ==
    /\ f \in flight /\ f.by \in {"timer", "load"} /\ f.answer # "none"
    /\ flight' = flight \ {f}
    /\ \/ f.answer = "renewed" /\ Saved(f.tab, Renewed(f), tab[f.tab].page)
       \/ f.answer = "denied" /\ Cleared(f.tab, "leaving")
       \/ f.answer = "failed" /\ UNCHANGED <<store, tab>>
    /\ UNCHANGED <<call, serverVars, clockVars, faults>>

\* The login page: whatever went wrong, the session is dropped.
CheckAnswered(f) ==
    /\ f \in flight /\ f.by = "check" /\ f.answer # "none"
    /\ flight' = flight \ {f}
    /\ \/ f.answer = "renewed" /\ Saved(f.tab, Renewed(f), "app")
       \/ f.answer # "renewed" /\ Cleared(f.tab, "login")
    /\ UNCHANGED <<call, serverVars, clockVars, faults>>

-----------------------------------------------------------------------------
(* customAxios.ts: the interceptors.                                       *)

StoredAccess == IF store = NoSession THEN 0 ELSE store.access

\* The request interceptor takes the token the store holds now.
Send(c, t, kind) ==
    /\ call[c] = Free /\ Quiet
    /\ tab[t].page = "app"
    /\ call' = [call EXCEPT ![c] = [tab |-> t, kind |-> kind, access |-> StoredAccess,
                                    retry |-> FALSE, state |-> "sent"]]
    /\ UNCHANGED <<store, tab, flight, serverVars, clockVars, faults>>

\* What the caller does with a settled call: handleLogout signs out in its
\* finally block, whatever the answer; the others leave the session alone.
SignsOut(c) == call[c].kind = "logout"

Settled(c) == call' = [call EXCEPT ![c] = Free]

\* Mutant: logout blacklists the token stored now, not the one it was sent with.
Succeeds_StoredToken(c) ==
    /\ call[c].state = "sent"
    /\ Accepted(call[c].access) /\ call[c].kind # "denied"
    /\ Settled(c)
    /\ \/ /\ SignsOut(c)
          /\ blacklisted' = blacklisted \cup {StoredAccess}
          /\ Cleared(call[c].tab, "leaving")
       \/ ~SignsOut(c) /\ UNCHANGED <<store, tab, blacklisted>>
    /\ UNCHANGED <<flight, token, login, redis, clockVars, faults>>

Succeeds(c) ==
    /\ call[c].state = "sent"
    /\ Accepted(call[c].access) /\ call[c].kind # "denied"
    /\ Settled(c)
    /\ \/ /\ SignsOut(c)
          /\ blacklisted' = blacklisted \cup {call[c].access}
          /\ Cleared(call[c].tab, "leaving")
       \/ ~SignsOut(c) /\ UNCHANGED <<store, tab, blacklisted>>
    /\ UNCHANGED <<flight, token, login, redis, clockVars, faults>>

\* SecurityConfig names no entry point, so a request without a usable token is
\* answered 403; 401 comes from the services (ACCESS_DENIED and the like), and
\* from /auth/logout, which anybody may call, for a token that has expired.
Unauthorized(c) ==
    \/ call[c].kind = "denied" /\ Accepted(call[c].access)
    \/ call[c].kind = "logout" /\ call[c].access # 0 /\ ~Live(call[c].access)
Forbidden(c) == call[c].kind # "logout" /\ ~Accepted(call[c].access)
Malformed(c) == call[c].kind = "logout" /\ call[c].access = 0

\* Live but blacklisted: /auth/logout succeeds again.
LogoutAgain(c) ==
    /\ call[c].state = "sent" /\ call[c].kind = "logout"
    /\ Live(call[c].access) /\ call[c].access \in blacklisted
    /\ Settled(c)
    /\ Cleared(call[c].tab, "leaving")
    /\ UNCHANGED <<flight, serverVars, clockVars, faults>>

\* An error the interceptor hands on to the caller.
Fails(c) ==
    /\ call[c].state = "sent"
    /\ Forbidden(c) \/ Malformed(c) \/ (Unauthorized(c) /\ call[c].retry)
    /\ Settled(c)
    /\ \/ SignsOut(c) /\ Cleared(call[c].tab, "leaving")
       \/ ~SignsOut(c) /\ UNCHANGED <<store, tab>>
    /\ UNCHANGED <<flight, serverVars, clockVars, faults>>

\* Mutant: waits without asking whether anybody renews.
Waits_Always(c) ==
    /\ call[c].state = "sent" /\ Unauthorized(c) /\ ~call[c].retry
    /\ call' = [call EXCEPT ![c].state = "waiting"]
    /\ UNCHANGED <<store, tab, flight, serverVars, clockVars, faults>>

\* 401 while another call of the tab renews the token: wait for it.
Waits(c) ==
    /\ call[c].state = "sent" /\ Unauthorized(c) /\ ~call[c].retry
    /\ tab[call[c].tab].refreshing
    /\ call' = [call EXCEPT ![c].state = "waiting"]
    /\ UNCHANGED <<store, tab, flight, serverVars, clockVars, faults>>

\* 401 and nobody renews: this call does.  Without a session it signs out and
\* leaves isRefreshing set.
Leads(c) ==
    LET t == call[c].tab IN
    /\ call[c].state = "sent" /\ Unauthorized(c) /\ ~call[c].retry
    /\ ~tab[t].refreshing
    /\ \/ /\ store # NoSession
          /\ call' = [call EXCEPT ![c].state = "leading", ![c].retry = TRUE]
          /\ tab' = [tab EXCEPT ![t].refreshing = TRUE]
          /\ flight' = flight \cup {Flight(t, c, store)}
          /\ UNCHANGED store
       \/ /\ store = NoSession
          /\ Settled(c)
          /\ tab' = [tab EXCEPT ![t] = [page |-> "leaving", timer |-> 0, refreshing |-> TRUE]]
          /\ UNCHANGED <<store, flight>>
    /\ UNCHANGED <<serverVars, clockVars, faults>>

\* Mutant: only the call that renewed the token is sent again.
Resent_LeaderOnly(t, leader, access) ==
    [call EXCEPT ![leader].state = "sent", ![leader].access = access]

\* onRefreshed: the waiting calls of the tab and the leader are sent again.
Resent(t, leader, access) ==
    [c \in Calls |->
        IF c = leader \/ (call[c].tab = t /\ call[c].state = "waiting")
        THEN [call[c] EXCEPT !.state = "sent", !.access = access]
        ELSE call[c]]

\* Mutant: isRefreshing stays set after a renewal.
ReactiveRenews_FlagLeft(f) ==
    /\ f \in flight /\ f.by \in Calls /\ f.answer = "renewed"
    /\ flight' = flight \ {f}
    /\ store' = Renewed(f)
    /\ tab' = [tab EXCEPT ![f.tab].timer = TimerFor(Renewed(f))]
    /\ call' = Resent(f.tab, f.by, f.access)
    /\ UNCHANGED <<serverVars, clockVars, faults>>

ReactiveRenews(f) ==
    /\ f \in flight /\ f.by \in Calls /\ f.answer = "renewed"
    /\ flight' = flight \ {f}
    /\ store' = Renewed(f)
    /\ tab' = [tab EXCEPT ![f.tab].timer = TimerFor(Renewed(f)), ![f.tab].refreshing = FALSE]
    /\ call' = Resent(f.tab, f.by, f.access)
    /\ UNCHANGED <<serverVars, clockVars, faults>>

\* Any failure signs out; the calls that wait are not told.
ReactiveFails(f) ==
    /\ f \in flight /\ f.by \in Calls /\ f.answer \in {"denied", "failed"}
    /\ flight' = flight \ {f}
    /\ store' = NoSession
    /\ tab' = [tab EXCEPT ![f.tab] = [page |-> "leaving", timer |-> 0, refreshing |-> FALSE]]
    /\ Settled(f.by)
    /\ UNCHANGED <<serverVars, clockVars, faults>>

-----------------------------------------------------------------------------
(* Time passes: tokens of one kind expire in the order they were issued.   *)

AccessExpires(a) ==
    /\ Live(a) /\ \A b \in 1..(a - 1) : b \in expired
    /\ expired' = expired \cup {a}
    /\ UNCHANGED <<browserVars, serverVars, lapsed, faults>>

\* A refresh token outlives the access token issued with it.
RefreshLapses(l) ==
    /\ l \in DOMAIN login \ lapsed /\ \A k \in 1..(l - 1) : k \in lapsed
    /\ (CHOOSE a \in DOMAIN token : token[a] = l /\ \A b \in 1..(a - 1) : token[b] # l)
          \in expired
    /\ lapsed' = lapsed \cup {l}
    /\ UNCHANGED <<browserVars, serverVars, expired, faults>>

-----------------------------------------------------------------------------

Init ==
    /\ store = NoSession
    /\ tab = [t \in Tabs |-> [page |-> "closed", timer |-> 0, refreshing |-> FALSE]]
    /\ flight = {}
    /\ call = [c \in Calls |-> Free]
    /\ token = << >> /\ login = << >>
    /\ redis = [u \in Users |-> 0]
    /\ expired = {} /\ blacklisted = {} /\ lapsed = {}
    /\ faults = 0

FlightStep(f) ==
    \/ CheckPasses(f) \/ CheckGivesUp(f) \/ LoginAnswered(f) \/ LoginLost(f) \/ MeAnswered(f)
    \/ RefreshAtServer(f) \/ RefreshLost(f)
    \/ ProactiveAnswered(f) \/ CheckAnswered(f)
    \/ ReactiveRenews(f) \/ ReactiveFails(f)

Answered(c) == Succeeds(c) \/ LogoutAgain(c) \/ Fails(c) \/ Waits(c) \/ Leads(c)

Next ==
    \/ \E t \in Tabs :
         \/ TimerFires(t) \/ MountPage(t) \/ MountLogin(t) \/ StorageEvent(t) \/ Reload(t)
         \/ \E u \in Users : LoginAtServer(t, u)
         \/ \E c \in Calls, kind \in Kind : Send(c, t, kind)
    \/ \E f \in flight : FlightStep(f)
    \/ \E c \in Calls : Answered(c)
    \/ \E a \in DOMAIN token : AccessExpires(a)
    \/ \E l \in DOMAIN login : RefreshLapses(l)

Spec == Init /\ [][Next]_vars

\* Requests are answered, the tab gets to its reload; nobody has to sign in, to
\* call or to wait until a token expires.
FairSpec ==
    /\ Spec
    /\ \A t \in Tabs : WF_vars(Reload(t))
    /\ \A c \in Calls : WF_vars(Answered(c))
    /\ \A c \in Calls :
         WF_vars(\E f \in flight : f.by = c /\
                   (RefreshAtServer(f) \/ ReactiveRenews(f) \/ ReactiveFails(f)))

-----------------------------------------------------------------------------
(* Properties.                                                             *)

FlightRow == [tab : Tabs, by : Purpose \cup Calls, session : Session,
              answer : {"none", "renewed", "denied", "failed"}, access : 0..MaxTokens]

\* Every variable keeps its type; what the browser holds was issued.
SessionTypeOK ==
    /\ store \in Session \cup {NoSession}
    /\ tab \in [Tabs -> [page : Page, timer : 0..MaxTokens, refreshing : BOOLEAN]]
    /\ flight \subseteq FlightRow
    /\ call \in [Calls -> [tab : Tabs, kind : Kind, access : 0..MaxTokens, retry : BOOLEAN,
                          state : {"sent", "waiting", "leading"}] \cup {Free}]
    /\ token \in Seq(DOMAIN login) /\ Len(token) <= MaxTokens
    /\ login \in Seq(Users) /\ Len(login) <= MaxLogins
    /\ redis \in [Users -> 0..Len(login)]
    /\ expired \cup blacklisted \subseteq DOMAIN token
    /\ lapsed \subseteq DOMAIN login
    /\ faults \in 0..MaxFaults

\* However the answers of several tabs overtake each other, logouts and logins,
\* the stored session is of one login: the user, the access token and the refresh
\* token belong together, so that a call never runs as one user while the page
\* shows, or the next renewal asks for, another.
OneLogin(session) ==
    /\ session.refresh \in DOMAIN login /\ session.user = login[session.refresh]
    /\ session.access \in DOMAIN token /\ token[session.access] = session.refresh

SessionOfOneLogin ==
    /\ store # NoSession => OneLogin(store)
    /\ \A f \in flight : OneLogin(f.session)

\* isRefreshing tells the truth until the tab goes away: it is set exactly while
\* one call of the tab renews the token, so that renewals neither pile up nor stop.
FlagMeansRenewing ==
    \A t \in Tabs : tab[t].page # "leaving" =>
        Cardinality({f \in flight : f.tab = t /\ f.by \in Calls})
            = IF tab[t].refreshing THEN 1 ELSE 0

\* A call that waits for a renewed token waits for somebody: a renewal of its tab
\* is under way, or the tab is about to reload.
WaitersAreServed ==
    \A c \in Calls : call[c].state = "waiting" =>
        tab[call[c].tab].refreshing \/ tab[call[c].tab].page = "leaving"

\* What every state of the tabs and the backend satisfies.
SessionSound == SessionTypeOK /\ SessionOfOneLogin /\ FlagMeansRenewing /\ WaitersAreServed

\* Every call through customAxios comes to an end (or its tab reloads), the ones
\* that wait for somebody else's renewal included, unless the renewal itself is
\* one the bound on tokens keeps the server from answering.
OutOfTokens == Len(token) = MaxTokens /\ \E f \in flight : f.by \in Calls /\ f.answer = "none"

EveryCallSettles == \A c \in Calls : call[c] # Free ~> (call[c] = Free \/ OutOfTokens)

=============================================================================
