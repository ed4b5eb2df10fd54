--------------------------- MODULE SessionProofs ---------------------------
(***************************************************************************)
(* The session of a browser is sound for any number of tabs, users, calls, *)
(* logins, tokens and lost answers.                                        *)
(*                                                                         *)
(* SessionSound is not inductive: that a renewed token belongs to the      *)
(* login it was asked for, and that a call which renews stays "leading"    *)
(* until its answer, hold because of what every other step leaves alone.   *)
(***************************************************************************)
EXTENDS Session, TLAPS, FiniteSetTheorems, SequenceTheorems

TabRow == [page : Page, timer : 0..MaxTokens, refreshing : BOOLEAN]
CallRow == [tab : Tabs, kind : Kind, access : 0..MaxTokens, retry : BOOLEAN,
            state : {"sent", "waiting", "leading"}]

\* An answer that renews brings a token of the login whose session was captured.
RenewedOfOneLogin ==
    \A f \in flight : f.answer = "renewed" =>
        f.access \in DOMAIN token /\ token[f.access] = f.session.refresh

\* A renewal a call asked for is on its way: that call waits for its answer.
Reactive == {f \in flight : f.by \in Calls}

LeaderWaits ==
    \A f \in Reactive : call[f.by].state = "leading" /\ call[f.by].tab = f.tab

\* Each tab has at most one such renewal, none unless its flag is set, and one
\* whenever it is, but for a tab that is about to reload.
OneRenewal ==
    /\ \A f, g \in Reactive : f.tab = g.tab => f = g
    /\ \A f \in Reactive : tab[f.tab].refreshing
    /\ \A t \in Tabs : tab[t].refreshing /\ tab[t].page # "leaving" =>
         \E f \in Reactive : f.tab = t

Renewals == LeaderWaits /\ OneRenewal /\ WaitersAreServed
Sessions == SessionOfOneLogin /\ RenewedOfOneLogin

SessionInv == SessionTypeOK /\ Sessions /\ Renewals

-----------------------------------------------------------------------------
(* Types.                                                                  *)

BrowserType ==
    /\ store \in Session \cup {NoSession}
    /\ tab \in [Tabs -> TabRow]
    /\ flight \subseteq FlightRow
    /\ call \in [Calls -> CallRow \cup {Free}]

ServerType ==
    /\ token \in Seq(DOMAIN login) /\ Len(token) <= MaxTokens
    /\ login \in Seq(Users) /\ Len(login) <= MaxLogins
    /\ redis \in [Users -> 0..Len(login)]
    /\ expired \cup blacklisted \subseteq DOMAIN token
    /\ lapsed \subseteq DOMAIN login
    /\ faults \in 0..MaxFaults

LEMMA TypeParts == SessionTypeOK <=> BrowserType /\ ServerType
BY DEF SessionTypeOK, BrowserType, ServerType, TabRow, CallRow

LEMMA TimerType ==
    ASSUME NEW session \in Session
    PROVE  TimerFor(session) \in 0..MaxTokens
<1>1. session.access \in 1..MaxTokens
  BY DEF Session
<1> QED
  BY <1>1, SessionAssumption DEF TimerFor

LEMMA ShownType ==
    ASSUME NEW t, NEW page \in Page
    PROVE  Shown(t, page) \in Page
BY DEF Shown, Page

LEMMA TabUpdate ==
    ASSUME tab \in [Tabs -> TabRow], NEW t \in Tabs, NEW x \in 0..MaxTokens, NEW page \in Page
    PROVE  /\ [tab EXCEPT ![t].timer = x] \in [Tabs -> TabRow]
           /\ [tab EXCEPT ![t].page = page] \in [Tabs -> TabRow]
           /\ [tab EXCEPT ![t].timer = x, ![t].page = page] \in [Tabs -> TabRow]
BY DEF TabRow

LEMMA SavedType ==
    ASSUME tab \in [Tabs -> TabRow], NEW t \in Tabs, NEW session \in Session, NEW page \in Page,
           Saved(t, session, page)
    PROVE  store' \in Session \cup {NoSession} /\ tab' \in [Tabs -> TabRow]
BY TimerType, ShownType, TabUpdate DEF Saved

LEMMA ClearedType ==
    ASSUME tab \in [Tabs -> TabRow], NEW t \in Tabs, NEW page \in Page, Cleared(t, page)
    PROVE  store' \in Session \cup {NoSession} /\ tab' \in [Tabs -> TabRow]
<1>1. 0 \in 0..MaxTokens
  BY SessionAssumption
<1> QED
  BY <1>1, ShownType, TabUpdate DEF Cleared

LEMMA FlightType ==
    ASSUME NEW t \in Tabs, NEW p \in Purpose \cup Calls, NEW session \in Session
    PROVE  Flight(t, p, session) \in FlightRow
BY SessionAssumption DEF Flight, FlightRow

LEMMA SchedulerType ==
    ASSUME BrowserType, NEW t \in Tabs, StartScheduler(t)
    PROVE  store' \in Session \cup {NoSession} /\ tab' \in [Tabs -> TabRow] /\ flight' \subseteq FlightRow
<1>1. CASE store # NoSession /\ store.access \notin expired
           /\ tab' = [tab EXCEPT ![t].timer = store.access, ![t].page = "app"]
           /\ UNCHANGED <<store, flight>>
  <2>1. store.access \in 0..MaxTokens /\ "app" \in Page
    BY <1>1 DEF BrowserType, Session, Page
  <2> QED
    BY <1>1, <2>1, TabUpdate DEF BrowserType
<1>2. CASE store # NoSession /\ tab' = [tab EXCEPT ![t].page = "app"]
           /\ flight' = flight \cup {Flight(t, "load", store)} /\ UNCHANGED store
  <2>1. 0 \in 0..MaxTokens /\ "app" \in Page /\ "load" \in Purpose
    BY SessionAssumption DEF Page, Purpose
  <2>2. tab' \in [Tabs -> TabRow]
    BY <1>2, <2>1, TabUpdate DEF BrowserType
  <2>3. Flight(t, "load", store) \in FlightRow
    BY <1>2, <2>1, FlightType DEF BrowserType
  <2> QED
    BY <1>2, <2>2, <2>3 DEF BrowserType
<1>3. CASE Cleared(t, "leaving") /\ UNCHANGED flight
  <2>1. "leaving" \in Page
    BY DEF Page
  <2> QED
    BY <1>3, <2>1, ClearedType DEF BrowserType
<1> QED
  BY <1>1, <1>2, <1>3 DEF StartScheduler

LEMMA FlightFields ==
    ASSUME BrowserType, NEW f \in flight
    PROVE  /\ f.tab \in Tabs /\ f.by \in Purpose \cup Calls /\ f.session \in Session
           /\ f.answer \in {"none", "renewed", "denied", "failed"} /\ f.access \in 0..MaxTokens
           /\ f \in FlightRow
BY DEF BrowserType, FlightRow

LEMMA RenewedType ==
    ASSUME BrowserType, ServerType, RenewedOfOneLogin, NEW f \in flight, f.answer = "renewed"
    PROVE  Renewed(f) \in Session
<1>1. f.access \in 1..MaxTokens
  BY SessionAssumption DEF RenewedOfOneLogin, ServerType
<1>2. f.session \in Session
  BY FlightFields
<1> QED
  BY <1>1, <1>2 DEF Renewed, Session

LEMMA AnsweredType ==
    ASSUME BrowserType, NEW f \in flight, NEW a \in {"none", "renewed", "denied", "failed"},
           NEW x \in 0..MaxTokens
    PROVE  [f EXCEPT !.answer = a] \in FlightRow /\ [f EXCEPT !.answer = a, !.access = x] \in FlightRow
BY FlightFields DEF FlightRow

\* What the tabs do.
LEMMA TabActionsType ==
    ASSUME BrowserType, ServerType, NEW t \in Tabs,
           \/ TimerFires(t) \/ MountPage(t) \/ MountLogin(t) \/ StorageEvent(t) \/ Reload(t)
           \/ \E u \in Users : LoginAtServer(t, u)
    PROVE  BrowserType'
<1>0. /\ {"closed", "checking", "login", "signing", "app", "leaving"} \subseteq Page
      /\ {"timer", "load", "check", "login", "me"} \subseteq Purpose /\ 0 \in 0..MaxTokens
  BY SessionAssumption DEF Page, Purpose
<1>1. CASE TimerFires(t)
  <2>1. CASE tab' = [tab EXCEPT ![t].timer = 0] /\ UNCHANGED <<store, flight>>
    BY <1>0, <1>1, <2>1, TabUpdate DEF BrowserType, TimerFires
  <2>2. CASE store # NoSession /\ tab' = [tab EXCEPT ![t].timer = TimerFor(store)]
             /\ UNCHANGED <<store, flight>>
    <3>1. TimerFor(store) \in 0..MaxTokens
      BY <2>2, TimerType DEF BrowserType
    <3> QED
      BY <1>1, <2>2, <3>1, TabUpdate, <1>0 DEF BrowserType, TimerFires
  <2>3. CASE Cleared(t, "leaving") /\ UNCHANGED flight
    <3>1. store' \in Session \cup {NoSession} /\ tab' \in [Tabs -> TabRow]
      BY <1>0, <2>3, ClearedType DEF BrowserType
    <3> QED
      BY <1>1, <2>3, <3>1 DEF BrowserType, TimerFires
  <2>4. CASE store # NoSession /\ tab' = [tab EXCEPT ![t].timer = 0]
             /\ flight' = flight \cup {Flight(t, "timer", store)} /\ UNCHANGED store
    <3>1. Flight(t, "timer", store) \in FlightRow
      BY <1>0, <2>4, FlightType DEF BrowserType
    <3>2. tab' \in [Tabs -> TabRow]
      BY <1>0, <2>4, TabUpdate DEF BrowserType
    <3> QED
      BY <1>1, <2>4, <3>1, <3>2 DEF BrowserType, TimerFires
  <2> QED
    BY <1>1, <2>1, <2>2, <2>3, <2>4 DEF TimerFires
<1>2. CASE MountPage(t)
  <2>1. CASE StartScheduler(t)
    BY <1>2, <2>1, SchedulerType DEF MountPage, BrowserType
  <2>2. CASE tab' = [tab EXCEPT ![t].page = "login"] /\ UNCHANGED <<store, flight>>
    BY <1>0, <1>2, <2>2, TabUpdate DEF MountPage, BrowserType
  <2> QED
    BY <1>2, <2>1, <2>2 DEF MountPage
<1>3. CASE MountLogin(t)
  <2>1. CASE tab' = [tab EXCEPT ![t].page = "login"] /\ UNCHANGED <<store, flight>>
    BY <1>0, <1>3, <2>1, TabUpdate DEF MountLogin, BrowserType
  <2>2. CASE store # NoSession /\ tab' = [tab EXCEPT ![t].page = "checking"]
             /\ flight' = flight \cup {Flight(t, "check", store)} /\ UNCHANGED store
    <3>1. Flight(t, "check", store) \in FlightRow
      BY <1>0, <2>2, FlightType DEF BrowserType
    <3>2. tab' \in [Tabs -> TabRow]
      BY <1>0, <2>2, TabUpdate DEF BrowserType
    <3> QED
      BY <1>3, <2>2, <3>1, <3>2 DEF BrowserType, MountLogin
  <2> QED
    BY <1>3, <2>1, <2>2 DEF MountLogin
<1>4. CASE StorageEvent(t)
  BY <1>0, <1>4, TabUpdate DEF StorageEvent, BrowserType
<1>5. CASE Reload(t)
  <2>1. [page |-> "closed", timer |-> 0, refreshing |-> FALSE] \in TabRow
    BY <1>0 DEF TabRow
  <2>2. tab' \in [Tabs -> TabRow]
    BY <1>5, <2>1 DEF Reload, BrowserType
  <2>3. call' \in [Calls -> CallRow \cup {Free}]
    BY <1>5 DEF Reload, BrowserType
  <2> QED
    BY <1>5, <2>2, <2>3 DEF Reload, BrowserType
<1>6. ASSUME NEW u \in Users, LoginAtServer(t, u) PROVE BrowserType'
  <2> DEFINE session == [user |-> u, access |-> Len(token) + 1, refresh |-> Len(login) + 1]
  <2>1. session \in Session
    BY <1>6, SessionAssumption DEF LoginAtServer, Session, ServerType
  <2>2. flight' = flight \cup {Flight(t, "login", session)}
    BY <1>6 DEF LoginAtServer
  <2> HIDE DEF session
  <2>3. Flight(t, "login", session) \in FlightRow
    BY <1>0, <2>1, FlightType
  <2>4. tab' \in [Tabs -> TabRow]
    BY <1>0, <1>6, TabUpdate DEF LoginAtServer, BrowserType
  <2> QED
    BY <1>6, <2>2, <2>3, <2>4 DEF LoginAtServer, BrowserType
<1> QED
  BY <1>1, <1>2, <1>3, <1>4, <1>5, <1>6

\* What the requests about the session bring back.
LEMMA FlightStepsType ==
    ASSUME BrowserType, ServerType, RenewedOfOneLogin, LeaderWaits, NEW f \in flight, FlightStep(f)
    PROVE  BrowserType'
<1>0. /\ {"closed", "checking", "login", "signing", "app", "leaving"} \subseteq Page
      /\ {"timer", "load", "check", "login", "me"} \subseteq Purpose /\ 0 \in 0..MaxTokens
  BY SessionAssumption DEF Page, Purpose
<1>1. f.tab \in Tabs /\ f.session \in Session /\ f \in FlightRow
  BY FlightFields
<1>2. CASE CheckPasses(f)
  <2>1. CASE store # NoSession
             /\ tab' = [tab EXCEPT ![f.tab].timer = store.access, ![f.tab].page = Shown(f.tab, "app")]
             /\ flight' = flight \ {f} /\ UNCHANGED store
    <3>1. store.access \in 0..MaxTokens
      BY <2>1 DEF BrowserType, Session
    <3>2. tab' \in [Tabs -> TabRow]
      BY <1>0, <1>1, <2>1, <3>1, ShownType, TabUpdate DEF BrowserType
    <3> QED
      BY <1>2, <2>1, <3>2 DEF CheckPasses, BrowserType
  <2>2. CASE store # NoSession
             /\ tab' = [tab EXCEPT ![f.tab].page = Shown(f.tab, "app")]
             /\ flight' = (flight \ {f}) \cup {Flight(f.tab, "load", store)} /\ UNCHANGED store
    <3>1. Flight(f.tab, "load", store) \in FlightRow
      BY <1>0, <1>1, <2>2, FlightType DEF BrowserType
    <3>2. tab' \in [Tabs -> TabRow]
      BY <1>0, <1>1, <2>2, ShownType, TabUpdate DEF BrowserType
    <3> QED
      BY <1>2, <2>2, <3>1, <3>2 DEF CheckPasses, BrowserType
  <2>3. CASE Cleared(f.tab, "app") /\ flight' = flight \ {f}
    <3>1. store' \in Session \cup {NoSession} /\ tab' \in [Tabs -> TabRow]
      BY <1>0, <1>1, <2>3, ClearedType DEF BrowserType
    <3> QED
      BY <1>2, <2>3, <3>1 DEF CheckPasses, BrowserType
  <2>4. CASE tab' = [tab EXCEPT ![f.tab].page = Shown(f.tab, "app")]
             /\ flight' = flight \ {f} /\ UNCHANGED store
    <3>1. tab' \in [Tabs -> TabRow]
      BY <1>0, <1>1, <2>4, ShownType, TabUpdate DEF BrowserType
    <3> QED
      BY <1>2, <2>4, <3>1 DEF CheckPasses, BrowserType
  <2> QED
    BY <1>2, <2>1, <2>2, <2>3, <2>4 DEF CheckPasses
<1>3. CASE CheckGivesUp(f)
  <2>1. store' \in Session \cup {NoSession} /\ tab' \in [Tabs -> TabRow]
    BY <1>0, <1>1, <1>3, ClearedType DEF CheckGivesUp, BrowserType
  <2> QED
    BY <1>3, <2>1 DEF CheckGivesUp, BrowserType
<1>4. CASE LoginAnswered(f)
  <2>1. store' \in Session \cup {NoSession} /\ tab' \in [Tabs -> TabRow]
    BY <1>0, <1>1, <1>4, SavedType DEF LoginAnswered, BrowserType
  <2>2. Flight(f.tab, "me", f.session) \in FlightRow
    BY <1>0, <1>1, FlightType
  <2> QED
    BY <1>4, <2>1, <2>2 DEF LoginAnswered, BrowserType
<1>5. CASE LoginLost(f)
  <2>1. tab' \in [Tabs -> TabRow]
    BY <1>0, <1>1, <1>5, ShownType, TabUpdate DEF LoginLost, BrowserType
  <2> QED
    BY <1>5, <2>1 DEF LoginLost, BrowserType
<1>6. CASE MeAnswered(f)
  <2>1. CASE Saved(f.tab, f.session, "app")
    <3>1. store' \in Session \cup {NoSession} /\ tab' \in [Tabs -> TabRow]
      BY <1>0, <1>1, <2>1, SavedType DEF BrowserType
    <3> QED
      BY <1>6, <3>1 DEF MeAnswered, BrowserType
  <2>2. CASE tab' = [tab EXCEPT ![f.tab].page = Shown(f.tab, "app")] /\ UNCHANGED store
    <3>1. tab' \in [Tabs -> TabRow]
      BY <1>0, <1>1, <2>2, ShownType, TabUpdate DEF BrowserType
    <3> QED
      BY <1>6, <2>2, <3>1 DEF MeAnswered, BrowserType
  <2> QED
    BY <1>6, <2>1, <2>2 DEF MeAnswered
<1>7. CASE RefreshAtServer(f)
  <2>1. [f EXCEPT !.answer = "denied"] \in FlightRow
    BY <1>0, AnsweredType
  <2>2. Len(token) < MaxTokens => [f EXCEPT !.answer = "renewed", !.access = Len(token) + 1] \in FlightRow
    <3>1. Len(token) < MaxTokens => Len(token) + 1 \in 0..MaxTokens
      BY SessionAssumption DEF ServerType
    <3> QED
      BY <3>1, AnsweredType
  <2>3. \/ /\ Len(token) < MaxTokens
           /\ flight' = (flight \ {f}) \cup {[f EXCEPT !.answer = "renewed", !.access = Len(token) + 1]}
        \/ flight' = (flight \ {f}) \cup {[f EXCEPT !.answer = "denied"]}
    BY <1>7 DEF RefreshAtServer
  <2>4. flight' \subseteq FlightRow
    BY <2>1, <2>2, <2>3 DEF BrowserType
  <2> QED
    BY <1>7, <2>4 DEF RefreshAtServer, BrowserType
<1>8. CASE RefreshLost(f)
  <2>1. [f EXCEPT !.answer = "failed"] \in FlightRow
    BY <1>0, AnsweredType
  <2> QED
    BY <1>8, <2>1 DEF RefreshLost, BrowserType
<1>9. CASE ProactiveAnswered(f)
  <2>1. CASE f.answer = "renewed" /\ Saved(f.tab, Renewed(f), tab[f.tab].page)
    <3>1. tab[f.tab].page \in Page
      BY <1>1 DEF BrowserType, TabRow
    <3>2. store' \in Session \cup {NoSession} /\ tab' \in [Tabs -> TabRow]
      BY <1>1, <2>1, <3>1, RenewedType, SavedType DEF BrowserType
    <3> QED
      BY <1>9, <3>2 DEF ProactiveAnswered, BrowserType
  <2>2. CASE Cleared(f.tab, "leaving")
    <3>1. store' \in Session \cup {NoSession} /\ tab' \in [Tabs -> TabRow]
      BY <1>0, <1>1, <2>2, ClearedType DEF BrowserType
    <3> QED
      BY <1>9, <3>1 DEF ProactiveAnswered, BrowserType
  <2> QED
    BY <1>9, <2>1, <2>2 DEF ProactiveAnswered, BrowserType
<1>10. CASE CheckAnswered(f)
  <2>1. CASE f.answer = "renewed" /\ Saved(f.tab, Renewed(f), "app")
    <3>1. store' \in Session \cup {NoSession} /\ tab' \in [Tabs -> TabRow]
      BY <1>0, <1>1, <2>1, RenewedType, SavedType DEF BrowserType
    <3> QED
      BY <1>10, <3>1 DEF CheckAnswered, BrowserType
  <2>2. CASE Cleared(f.tab, "login")
    <3>1. store' \in Session \cup {NoSession} /\ tab' \in [Tabs -> TabRow]
      BY <1>0, <1>1, <2>2, ClearedType DEF BrowserType
    <3> QED
      BY <1>10, <3>1 DEF CheckAnswered, BrowserType
  <2> QED
    BY <1>10, <2>1, <2>2 DEF CheckAnswered
<1>11. CASE ReactiveRenews(f)
  <2>1. Renewed(f) \in Session /\ TimerFor(Renewed(f)) \in 0..MaxTokens
    BY <1>11, RenewedType, TimerType DEF ReactiveRenews
  <2>2. tab' = [tab EXCEPT ![f.tab].timer = TimerFor(Renewed(f)), ![f.tab].refreshing = FALSE]
    BY <1>11 DEF ReactiveRenews
  <2>3. tab' \in [Tabs -> TabRow]
    BY <2>1, <2>2 DEF BrowserType, TabRow
  <2>4. call[f.by].state = "leading" /\ f.access \in 0..MaxTokens
    BY <1>11, FlightFields DEF LeaderWaits, Reactive, ReactiveRenews
  <2>5. ASSUME NEW c \in Calls PROVE call'[c] \in CallRow \cup {Free}
    <3>1. CASE c = f.by \/ (call[c].tab = f.tab /\ call[c].state = "waiting")
      <4>1. call[c] \in CallRow
        BY <2>4, <3>1 DEF BrowserType, Free
      <4>2. call'[c] = [call[c] EXCEPT !.state = "sent", !.access = f.access]
        BY <1>11, <3>1 DEF ReactiveRenews, Resent
      <4> QED
        BY <2>4, <4>1, <4>2 DEF CallRow
    <3>2. CASE ~(c = f.by \/ (call[c].tab = f.tab /\ call[c].state = "waiting"))
      BY <1>11, <3>2 DEF ReactiveRenews, Resent, BrowserType
    <3> QED
      BY <3>1, <3>2
  <2>6. call' \in [Calls -> CallRow \cup {Free}]
    BY <1>11, <2>5 DEF ReactiveRenews, Resent
  <2> QED
    BY <1>11, <2>1, <2>3, <2>6 DEF ReactiveRenews, BrowserType
<1>12. CASE ReactiveFails(f)
  <2>1. [page |-> "leaving", timer |-> 0, refreshing |-> FALSE] \in TabRow
    BY <1>0 DEF TabRow
  <2>2. tab' \in [Tabs -> TabRow]
    BY <1>12, <2>1 DEF ReactiveFails, BrowserType
  <2>3. call' \in [Calls -> CallRow \cup {Free}]
    BY <1>12 DEF ReactiveFails, Settled, BrowserType
  <2> QED
    BY <1>12, <2>2, <2>3 DEF ReactiveFails, BrowserType
<1> QED
  BY <1>2, <1>3, <1>4, <1>5, <1>6, <1>7, <1>8, <1>9, <1>10, <1>11, <1>12 DEF FlightStep

\* What the calls do.
LEMMA CallStepsType ==
    ASSUME BrowserType, NEW c \in Calls,
           Answered(c) \/ \E t \in Tabs, kind \in Kind : Send(c, t, kind)
    PROVE  BrowserType'
<1>0. "leaving" \in Page /\ 0 \in 0..MaxTokens
  BY SessionAssumption DEF Page
<1>1. ASSUME call[c].state = "sent" PROVE call[c] \in CallRow /\ call[c].tab \in Tabs
  BY <1>1 DEF BrowserType, Free, CallRow
<1>2. ASSUME call[c].state = "sent", Settled(c), UNCHANGED flight,
             Cleared(call[c].tab, "leaving") \/ UNCHANGED <<store, tab>>
      PROVE  BrowserType'
  <2>1. store' \in Session \cup {NoSession} /\ tab' \in [Tabs -> TabRow]
    BY <1>0, <1>1, <1>2, ClearedType DEF BrowserType
  <2>2. call' \in [Calls -> CallRow \cup {Free}]
    BY <1>2 DEF Settled, BrowserType
  <2> QED
    BY <1>2, <2>1, <2>2 DEF BrowserType
<1>3. CASE Succeeds(c) \/ LogoutAgain(c) \/ Fails(c)
  BY <1>2, <1>3 DEF Succeeds, LogoutAgain, Fails
<1>4. CASE Waits(c)
  <2>1. call' = [call EXCEPT ![c].state = "waiting"]
    BY <1>4 DEF Waits
  <2>2. call' \in [Calls -> CallRow \cup {Free}]
    BY <1>1, <1>4, <2>1 DEF Waits, BrowserType, CallRow
  <2> QED
    BY <1>4, <2>2 DEF Waits, BrowserType
<1>5. CASE Leads(c)
  <2>1. call[c] \in CallRow /\ call[c].tab \in Tabs
    BY <1>1, <1>5 DEF Leads
  <2>2. CASE /\ store # NoSession
             /\ call' = [call EXCEPT ![c].state = "leading", ![c].retry = TRUE]
             /\ tab' = [tab EXCEPT ![call[c].tab].refreshing = TRUE]
             /\ flight' = flight \cup {Flight(call[c].tab, c, store)}
             /\ UNCHANGED store
    <3>1. call' \in [Calls -> CallRow \cup {Free}]
      BY <2>1, <2>2 DEF BrowserType, CallRow
    <3>2. tab' \in [Tabs -> TabRow]
      BY <2>1, <2>2 DEF BrowserType, TabRow
    <3>3. Flight(call[c].tab, c, store) \in FlightRow
      BY <2>1, <2>2, FlightType DEF BrowserType
    <3> QED
      BY <2>2, <3>1, <3>2, <3>3 DEF BrowserType
  <2>3. CASE /\ Settled(c)
             /\ tab' = [tab EXCEPT ![call[c].tab] = [page |-> "leaving", timer |-> 0, refreshing |-> TRUE]]
             /\ UNCHANGED <<store, flight>>
    <3>1. [page |-> "leaving", timer |-> 0, refreshing |-> TRUE] \in TabRow
      BY <1>0 DEF TabRow
    <3>2. tab' \in [Tabs -> TabRow]
      BY <2>3, <3>1 DEF BrowserType
    <3>3. call' \in [Calls -> CallRow \cup {Free}]
      BY <2>3 DEF Settled, BrowserType
    <3> QED
      BY <2>3, <3>2, <3>3 DEF BrowserType
  <2> QED
    BY <1>5, <2>2, <2>3 DEF Leads
<1>6. ASSUME NEW t \in Tabs, NEW kind \in Kind, Send(c, t, kind) PROVE BrowserType'
  <2>1. StoredAccess \in 0..MaxTokens
    BY <1>0 DEF StoredAccess, BrowserType, Session
  <2>2. call' \in [Calls -> CallRow \cup {Free}]
    BY <1>6, <2>1 DEF Send, BrowserType, CallRow
  <2> QED
    BY <1>6, <2>2 DEF Send, BrowserType
<1> QED
  BY <1>3, <1>4, <1>5, <1>6 DEF Answered

LEMMA AppendType ==
    ASSUME NEW S, NEW e \in S, NEW q \in Seq(S)
    PROVE  /\ Append(q, e) \in Seq(S) /\ Len(Append(q, e)) = Len(q) + 1
           /\ DOMAIN q \subseteq DOMAIN Append(q, e)
OBVIOUS

\* What the backend and the clock do.
LEMMA ServerStepType ==
    ASSUME BrowserType, ServerType, Sessions, [Next]_vars
    PROVE  ServerType'
<1>1. CASE UNCHANGED <<token, login, redis, blacklisted, expired, lapsed, faults>>
  BY <1>1 DEF ServerType
<1>2. ASSUME NEW t \in Tabs, NEW u \in Users, LoginAtServer(t, u) PROVE ServerType'
  <2>1. /\ login' = Append(login, u) /\ token' = Append(token, Len(login) + 1)
        /\ redis' = [redis EXCEPT ![u] = Len(login) + 1]
        /\ Len(login) + 1 <= MaxLogins /\ Len(token) + 1 <= MaxTokens
        /\ UNCHANGED <<blacklisted, expired, lapsed, faults>>
    BY <1>2 DEF LoginAtServer, clockVars
  <2>2. /\ login' \in Seq(Users) /\ Len(login') = Len(login) + 1
        /\ DOMAIN login \subseteq DOMAIN login' /\ Len(login) + 1 \in DOMAIN login'
    BY <2>1 DEF ServerType
  <2>3. token \in Seq(DOMAIN login')
    BY <2>2 DEF ServerType
  <2>4. token' \in Seq(DOMAIN login') /\ Len(token') = Len(token) + 1 /\ DOMAIN token \subseteq DOMAIN token'
    <3>1. PICK S : S = DOMAIN login'
      OBVIOUS
    <3>2. Len(login) + 1 \in S /\ token \in Seq(S)
      BY <2>2, <2>3, <3>1
    <3>3. /\ Append(token, Len(login) + 1) \in Seq(S)
          /\ Len(Append(token, Len(login) + 1)) = Len(token) + 1
          /\ DOMAIN token \subseteq DOMAIN Append(token, Len(login) + 1)
      BY <3>2, AppendType
    <3> QED
      BY <2>1, <3>1, <3>3
  <2>5. redis' \in [Users -> 0..Len(login')]
    BY <2>1, <2>2 DEF ServerType
  <2> QED
    BY <2>1, <2>2, <2>4, <2>5 DEF ServerType
<1>3. ASSUME NEW f \in flight, RefreshAtServer(f) PROVE ServerType'
  <2>1. f.session.refresh \in DOMAIN login
    BY DEF Sessions, SessionOfOneLogin, OneLogin
  <2>2. UNCHANGED <<login, redis, blacklisted, expired, lapsed, faults>>
    BY <1>3 DEF RefreshAtServer, clockVars
  <2>3. token' \in Seq(DOMAIN login) /\ Len(token') <= MaxTokens /\ DOMAIN token \subseteq DOMAIN token'
    <3>1. \/ token' = token
          \/ Len(token) < MaxTokens /\ token' = Append(token, f.session.refresh)
      BY <1>3 DEF RefreshAtServer
    <3>2. token \in Seq(DOMAIN login) /\ Len(token) \in Nat /\ Len(token) <= MaxTokens
      BY DEF ServerType
    <3>3. /\ Append(token, f.session.refresh) \in Seq(DOMAIN login)
          /\ Len(Append(token, f.session.refresh)) = Len(token) + 1
          /\ DOMAIN token \subseteq DOMAIN Append(token, f.session.refresh)
      BY <2>1, <3>2, AppendType
    <3> QED
      BY <3>1, <3>2, <3>3, SessionAssumption
  <2> QED
    BY <2>2, <2>3 DEF ServerType
<1>4. ASSUME NEW f \in flight, LoginLost(f) \/ RefreshLost(f) PROVE ServerType'
  BY <1>4, SessionAssumption DEF LoginLost, RefreshLost, serverVars, clockVars, ServerType
<1>5. ASSUME NEW c \in Calls, Succeeds(c) PROVE ServerType'
  BY <1>5 DEF Succeeds, Accepted, Live, clockVars, ServerType
<1>6. ASSUME NEW a \in DOMAIN token, AccessExpires(a) PROVE ServerType'
  BY <1>6 DEF AccessExpires, serverVars, ServerType
<1>7. ASSUME NEW l \in DOMAIN login, RefreshLapses(l) PROVE ServerType'
  BY <1>7 DEF RefreshLapses, serverVars, ServerType
<1>8. ASSUME NEW t \in Tabs,
             \/ TimerFires(t) \/ MountPage(t) \/ MountLogin(t) \/ StorageEvent(t) \/ Reload(t)
             \/ \E c \in Calls, kind \in Kind : Send(c, t, kind)
      PROVE  ServerType'
  BY <1>1, <1>8 DEF TimerFires, MountPage, MountLogin, StorageEvent, Reload, Send, serverVars, clockVars
<1>9. ASSUME NEW f \in flight,
             \/ CheckPasses(f) \/ CheckGivesUp(f) \/ LoginAnswered(f) \/ MeAnswered(f)
             \/ ProactiveAnswered(f) \/ CheckAnswered(f) \/ ReactiveRenews(f) \/ ReactiveFails(f)
      PROVE  ServerType'
  BY <1>1, <1>9 DEF CheckPasses, CheckGivesUp, LoginAnswered, MeAnswered, ProactiveAnswered,
                    CheckAnswered, ReactiveRenews, ReactiveFails, serverVars, clockVars
<1>10. ASSUME NEW c \in Calls, LogoutAgain(c) \/ Fails(c) \/ Waits(c) \/ Leads(c) PROVE ServerType'
  BY <1>1, <1>10 DEF LogoutAgain, Fails, Waits, Leads, serverVars, clockVars
<1>11. CASE UNCHANGED vars
  BY <1>1, <1>11 DEF vars, serverVars, clockVars
<1> QED
  BY <1>2, <1>3, <1>4, <1>5, <1>6, <1>7, <1>8, <1>9, <1>10, <1>11 DEF Next, FlightStep, Answered

-----------------------------------------------------------------------------
(* The tokens of a session belong together.                                *)

\* Whatever the browser does with what it holds, while the backend issues nothing.
LEMMA SessionsKept ==
    ASSUME Sessions, UNCHANGED <<token, login>>,
           store' # NoSession => \E s : store' = s /\ OneLogin(s),
           \A f \in flight' :
              /\ OneLogin(f.session)
              /\ f.answer = "renewed" => f.access \in DOMAIN token /\ token[f.access] = f.session.refresh
    PROVE  Sessions'
BY DEF Sessions, SessionOfOneLogin, RenewedOfOneLogin, OneLogin

\* A flight takes the session along that was stored.
LEMMA NewFlight ==
    ASSUME NEW t, NEW p, NEW session
    PROVE  /\ Flight(t, p, session).session = session /\ Flight(t, p, session).answer = "none"
           /\ Flight(t, p, session).by = p /\ Flight(t, p, session).tab = t
BY DEF Flight

\* The steps that only forget sessions or take the stored one along.
LEMMA SessionsForgotten ==
    ASSUME Sessions, UNCHANGED <<token, login>>,
           store' = NoSession \/ store' = store,
           \/ flight' \subseteq flight
           \/ /\ store # NoSession
              /\ \E t, p, g : flight' \subseteq flight \cup {g} /\ g = Flight(t, p, store)
    PROVE  Sessions'
<1>1. store' # NoSession => \E s : store' = s /\ OneLogin(s)
  BY DEF Sessions, SessionOfOneLogin
<1>2. ASSUME NEW f \in flight'
      PROVE  /\ OneLogin(f.session)
             /\ f.answer = "renewed" => f.access \in DOMAIN token /\ token[f.access] = f.session.refresh
  <2>1. CASE f \in flight
    BY <2>1 DEF Sessions, SessionOfOneLogin, RenewedOfOneLogin
  <2>2. CASE f \notin flight
    <3>1. store # NoSession /\ \E t, p : f = Flight(t, p, store)
      BY <1>2, <2>2
    <3> QED
      BY <3>1, NewFlight DEF Sessions, SessionOfOneLogin
  <2> QED
    BY <2>1, <2>2
<1> QED
  BY <1>1, <1>2, SessionsKept

\* The steps that store the session of an answer.
LEMMA SessionsSaved ==
    ASSUME Sessions, UNCHANGED <<token, login>>, NEW s, store' = s, OneLogin(s), flight' \subseteq flight
    PROVE  Sessions'
<1>1. \A f \in flight' :
         /\ OneLogin(f.session)
         /\ f.answer = "renewed" => f.access \in DOMAIN token /\ token[f.access] = f.session.refresh
  BY DEF Sessions, SessionOfOneLogin, RenewedOfOneLogin
<1> QED
  BY <1>1, SessionsKept

\* A renewed session is of the login it was captured from.
LEMMA RenewedIsOne ==
    ASSUME Sessions, NEW f \in flight, f.answer = "renewed", f.session \in Session
    PROVE  OneLogin(Renewed(f))
<1>1. OneLogin(f.session) /\ f.access \in DOMAIN token /\ token[f.access] = f.session.refresh
  BY DEF Sessions, SessionOfOneLogin, RenewedOfOneLogin
<1>2. /\ Renewed(f).user = f.session.user /\ Renewed(f).refresh = f.session.refresh
      /\ Renewed(f).access = f.access
  BY DEF Renewed, Session
<1> QED
  BY <1>1, <1>2 DEF OneLogin

\* What was issued together stays together when the backend issues more.
LEMMA SessionsStay ==
    ASSUME Sessions, NEW issuedTokens, NEW issuedLogins,
           DOMAIN token \subseteq DOMAIN issuedTokens, DOMAIN login \subseteq DOMAIN issuedLogins,
           \A a \in DOMAIN token : issuedTokens[a] = token[a],
           \A l \in DOMAIN login : issuedLogins[l] = login[l],
           token' = issuedTokens, login' = issuedLogins, store' = store,
           \A f \in flight' : f \in flight \/
              /\ f.session.refresh \in DOMAIN issuedLogins /\ f.session.user = issuedLogins[f.session.refresh]
              /\ f.session.access \in DOMAIN issuedTokens
              /\ issuedTokens[f.session.access] = f.session.refresh
              /\ f.answer = "renewed" =>
                   f.access \in DOMAIN issuedTokens /\ issuedTokens[f.access] = f.session.refresh
    PROVE  Sessions'
<1>1. ASSUME NEW s, OneLogin(s)
      PROVE  /\ s.refresh \in DOMAIN issuedLogins /\ s.user = issuedLogins[s.refresh]
             /\ s.access \in DOMAIN issuedTokens /\ issuedTokens[s.access] = s.refresh
  BY <1>1 DEF OneLogin
<1>2. store # NoSession => OneLogin(store)
  BY DEF Sessions, SessionOfOneLogin
<1>3. \A f \in flight :
        /\ OneLogin(f.session)
        /\ f.answer = "renewed" => f.access \in DOMAIN token /\ token[f.access] = f.session.refresh
  BY DEF Sessions, SessionOfOneLogin, RenewedOfOneLogin
<1>4. SessionOfOneLogin'
  <2>1. store' # NoSession => OneLogin(store)'
    BY <1>1, <1>2 DEF OneLogin
  <2>2. ASSUME NEW f \in flight' PROVE OneLogin(f.session)'
    BY <1>1, <1>3, <2>2 DEF OneLogin
  <2> QED
    BY <2>1, <2>2 DEF SessionOfOneLogin
<1>5. RenewedOfOneLogin'
  <2>1. ASSUME NEW f \in flight', f.answer = "renewed"
        PROVE  f.access \in DOMAIN issuedTokens /\ issuedTokens[f.access] = f.session.refresh
    BY <1>3, <2>1
  <2> QED
    BY <2>1 DEF RenewedOfOneLogin
<1> QED
  BY <1>4, <1>5 DEF Sessions

LEMMA AppendKeeps ==
    ASSUME NEW S, NEW e, NEW q \in Seq(S)
    PROVE  /\ DOMAIN q \subseteq DOMAIN Append(q, e)
           /\ \A i \in DOMAIN q : Append(q, e)[i] = q[i]
           /\ Len(q) + 1 \in DOMAIN Append(q, e) /\ Append(q, e)[Len(q) + 1] = e
OBVIOUS

LEMMA SessionsStep ==
    ASSUME BrowserType, ServerType, Sessions, [Next]_vars
    PROVE  Sessions'
<1>0. token \in Seq(DOMAIN login) /\ login \in Seq(Users)
  BY DEF ServerType
<1>1. ASSUME NEW t \in Tabs, NEW u \in Users, LoginAtServer(t, u) PROVE Sessions'
  <2> DEFINE session == [user |-> u, access |-> Len(token) + 1, refresh |-> Len(login) + 1]
             tt == Append(token, Len(login) + 1)
             ll == Append(login, u)
  <2>1. /\ token' = tt /\ login' = ll /\ store' = store
        /\ flight' = flight \cup {Flight(t, "login", session)}
    BY <1>1 DEF LoginAtServer
  <2>2. /\ DOMAIN token \subseteq DOMAIN tt /\ \A a \in DOMAIN token : tt[a] = token[a]
        /\ session.access \in DOMAIN tt /\ tt[session.access] = session.refresh
    BY <1>0, AppendKeeps
  <2>3. /\ DOMAIN login \subseteq DOMAIN ll /\ \A l \in DOMAIN login : ll[l] = login[l]
        /\ session.refresh \in DOMAIN ll /\ ll[session.refresh] = session.user
    BY <1>0, AppendKeeps
  <2>4. PICK s, g, tokens, logins :
           s = session /\ g = Flight(t, "login", s) /\ tokens = tt /\ logins = ll
    OBVIOUS
  <2> HIDE DEF session, tt, ll
  <2>5. g.session = s /\ g.answer = "none"
    BY <2>4, NewFlight
  <2>6. \A f \in flight' : f \in flight \/ f = g
    BY <2>1, <2>4
  <2> QED
    BY <2>1, <2>2, <2>3, <2>4, <2>5, <2>6, SessionsStay
<1>2. ASSUME NEW f \in flight, RefreshAtServer(f) PROVE Sessions'
  <2>1. f \in FlightRow /\ OneLogin(f.session)
    BY FlightFields DEF Sessions, SessionOfOneLogin
  <2>2. store' = store /\ login' = login
    BY <1>2 DEF RefreshAtServer
  <2>3. CASE /\ token' = Append(token, f.session.refresh)
             /\ flight' = (flight \ {f}) \cup {[f EXCEPT !.answer = "renewed", !.access = Len(token) + 1]}
    <3> DEFINE tt == Append(token, f.session.refresh)
               h == [f EXCEPT !.answer = "renewed", !.access = Len(token) + 1]
    <3>1. /\ DOMAIN token \subseteq DOMAIN tt /\ \A a \in DOMAIN token : tt[a] = token[a]
          /\ Len(token) + 1 \in DOMAIN tt /\ tt[Len(token) + 1] = f.session.refresh
      BY <1>0, AppendKeeps
    <3>2. h.session = f.session /\ h.access = Len(token) + 1
      BY <2>1 DEF FlightRow
    <3>3. /\ f.session.refresh \in DOMAIN login /\ f.session.user = login[f.session.refresh]
          /\ f.session.access \in DOMAIN token /\ token[f.session.access] = f.session.refresh
      BY <2>1 DEF OneLogin
    <3>4. PICK g, tokens, logins : g = h /\ tokens = tt /\ logins = login
      OBVIOUS
    <3>5. \A e \in flight' : e \in flight \/ e = g
      BY <2>3, <3>4
    <3> HIDE DEF tt, h
    <3>6. /\ g.session.refresh \in DOMAIN logins /\ g.session.user = logins[g.session.refresh]
          /\ g.session.access \in DOMAIN tokens /\ tokens[g.session.access] = g.session.refresh
          /\ g.access \in DOMAIN tokens /\ tokens[g.access] = g.session.refresh
      BY <3>1, <3>2, <3>3, <3>4
    <3>7. token' = tokens /\ login' = logins
      BY <2>2, <2>3, <3>4 DEF tt
    <3> QED
      BY <2>2, <3>1, <3>4, <3>5, <3>6, <3>7, SessionsStay
  <2>4. CASE token' = token /\ flight' = (flight \ {f}) \cup {[f EXCEPT !.answer = "denied"]}
    <3> DEFINE h == [f EXCEPT !.answer = "denied"]
    <3>1. h.session = f.session /\ h.answer = "denied"
      BY <2>1 DEF FlightRow
    <3> HIDE DEF h
    <3>2. \A e \in flight' : e \in flight \/ e = h
      BY <2>4 DEF h
    <3>3. store' # NoSession => \E s : store' = s /\ OneLogin(s)
      BY <2>2 DEF Sessions, SessionOfOneLogin
    <3>4. \A e \in flight' :
            /\ OneLogin(e.session)
            /\ e.answer = "renewed" => e.access \in DOMAIN token /\ token[e.access] = e.session.refresh
      BY <2>1, <3>1, <3>2 DEF Sessions, SessionOfOneLogin, RenewedOfOneLogin
    <3> QED
      BY <2>2, <2>4, <3>3, <3>4, SessionsKept
  <2> QED
    BY <1>2, <2>3, <2>4 DEF RefreshAtServer
<1>3. ASSUME NEW f \in flight, RefreshLost(f) PROVE Sessions'
  <2> DEFINE h == [f EXCEPT !.answer = "failed"]
  <2>1. f \in FlightRow /\ OneLogin(f.session)
    BY FlightFields DEF Sessions, SessionOfOneLogin
  <2>2. h.session = f.session /\ h.answer = "failed"
    BY <2>1 DEF FlightRow
  <2>3. UNCHANGED <<store, token, login>> /\ flight' = (flight \ {f}) \cup {h}
    BY <1>3 DEF RefreshLost, serverVars
  <2> HIDE DEF h
  <2>4. store' # NoSession => \E s : store' = s /\ OneLogin(s)
    BY <2>3 DEF Sessions, SessionOfOneLogin
  <2>5. \A e \in flight' :
          /\ OneLogin(e.session)
          /\ e.answer = "renewed" => e.access \in DOMAIN token /\ token[e.access] = e.session.refresh
    BY <2>1, <2>2, <2>3 DEF Sessions, SessionOfOneLogin, RenewedOfOneLogin
  <2> QED
    BY <2>3, <2>4, <2>5, SessionsKept
<1>4. ASSUME NEW f \in flight, LoginAnswered(f) PROVE Sessions'
  <2>1. UNCHANGED <<token, login>> /\ store' = f.session
        /\ flight' = (flight \ {f}) \cup {Flight(f.tab, "me", f.session)}
    BY <1>4 DEF LoginAnswered, Saved, serverVars
  <2>2. OneLogin(f.session)
    BY DEF Sessions, SessionOfOneLogin
  <2>3. \A e \in flight' :
          /\ OneLogin(e.session)
          /\ e.answer = "renewed" => e.access \in DOMAIN token /\ token[e.access] = e.session.refresh
    BY <2>1, <2>2, NewFlight DEF Sessions, SessionOfOneLogin, RenewedOfOneLogin
  <2>4. \E s : store' = s /\ OneLogin(s)
    BY <2>1, <2>2
  <2> QED
    BY <2>1, <2>3, <2>4, SessionsKept
<1>5. ASSUME NEW f \in flight, MeAnswered(f) PROVE Sessions'
  <2>1. UNCHANGED <<token, login>> /\ flight' \subseteq flight
    BY <1>5 DEF MeAnswered, serverVars
  <2>2. CASE store' = f.session
    <3>1. OneLogin(f.session)
      BY DEF Sessions, SessionOfOneLogin
    <3> QED
      BY <2>1, <2>2, <3>1, SessionsSaved
  <2>3. CASE store' = store
    BY <2>1, <2>3, SessionsForgotten
  <2> QED
    BY <1>5, <2>2, <2>3 DEF MeAnswered, Saved
<1>6. ASSUME NEW f \in flight, ProactiveAnswered(f) \/ CheckAnswered(f) \/ ReactiveRenews(f)
      PROVE  Sessions'
  <2>1. UNCHANGED <<token, login>> /\ flight' \subseteq flight
    BY <1>6 DEF ProactiveAnswered, CheckAnswered, ReactiveRenews, serverVars
  <2>2. CASE f.answer = "renewed" /\ store' = Renewed(f)
    <3>1. OneLogin(Renewed(f))
      BY <2>2, FlightFields, RenewedIsOne
    <3>2. PICK s : s = Renewed(f)
      OBVIOUS
    <3> QED
      BY <2>1, <2>2, <3>1, <3>2, SessionsSaved
  <2>3. CASE store' = store \/ store' = NoSession
    BY <2>1, <2>3, SessionsForgotten
  <2> QED
    BY <1>6, <2>2, <2>3 DEF ProactiveAnswered, CheckAnswered, ReactiveRenews, Saved, Cleared
<1>7. ASSUME UNCHANGED <<token, login>>, store' = NoSession \/ store' = store, flight' \subseteq flight
      PROVE  Sessions'
  BY <1>7, SessionsForgotten
<1>8. ASSUME UNCHANGED <<token, login, store>>, store # NoSession,
             NEW t, NEW p, flight' \subseteq flight \cup {Flight(t, p, store)}
      PROVE  Sessions'
  <2>1. \E q, r, g : flight' \subseteq flight \cup {g} /\ g = Flight(q, r, store)
    BY <1>8
  <2> QED
    BY <1>8, <2>1, SessionsForgotten
<1>9. ASSUME NEW t \in Tabs, TimerFires(t) PROVE Sessions'
  BY <1>7, <1>8, <1>9 DEF TimerFires, Cleared, serverVars
<1>10. ASSUME NEW t \in Tabs, MountPage(t) PROVE Sessions'
  BY <1>7, <1>8, <1>10 DEF MountPage, StartScheduler, Cleared, serverVars
<1>11. ASSUME NEW t \in Tabs, MountLogin(t) PROVE Sessions'
  BY <1>7, <1>8, <1>11 DEF MountLogin, serverVars
<1>12. ASSUME NEW t \in Tabs,
              StorageEvent(t) \/ Reload(t) \/ \E c \in Calls, kind \in Kind : Send(c, t, kind)
       PROVE  Sessions'
  BY <1>7, <1>12 DEF StorageEvent, Reload, Send, serverVars
<1>13. ASSUME NEW f \in flight, CheckPasses(f) PROVE Sessions'
  <2>1. UNCHANGED <<token, login>>
    BY <1>13 DEF CheckPasses, serverVars
  <2>2. CASE (store' = NoSession \/ store' = store) /\ flight' = flight \ {f}
    BY <1>7, <2>1, <2>2
  <2>3. CASE /\ store # NoSession /\ store' = store
             /\ flight' = (flight \ {f}) \cup {Flight(f.tab, "load", store)}
    BY <1>8, <2>1, <2>3
  <2> QED
    BY <1>13, <2>2, <2>3 DEF CheckPasses, Cleared
<1>14. ASSUME NEW f \in flight, CheckGivesUp(f) \/ LoginLost(f) \/ ReactiveFails(f) PROVE Sessions'
  BY <1>7, <1>14 DEF CheckGivesUp, LoginLost, ReactiveFails, Cleared, serverVars
<1>15. ASSUME NEW c \in Calls, Succeeds(c) \/ LogoutAgain(c) \/ Fails(c) \/ Waits(c) PROVE Sessions'
  BY <1>7, <1>15 DEF Succeeds, LogoutAgain, Fails, Waits, Cleared, serverVars
<1>16. ASSUME NEW c \in Calls, Leads(c) PROVE Sessions'
  BY <1>7, <1>8, <1>16 DEF Leads, serverVars
<1>17. CASE \/ \E a \in DOMAIN token : AccessExpires(a)
            \/ \E l \in DOMAIN login : RefreshLapses(l)
            \/ UNCHANGED vars
  BY <1>7, <1>17 DEF AccessExpires, RefreshLapses, browserVars, serverVars, vars
<1> QED
  BY <1>1, <1>2, <1>3, <1>4, <1>5, <1>6, <1>9, <1>10, <1>11, <1>12, <1>13, <1>14, <1>15, <1>16,
     <1>17 DEF Next, FlightStep, Answered

-----------------------------------------------------------------------------
(* The renewals of the calls.                                              *)

LEMMA PurposeIsNoCall == \A p \in Purpose : p \notin Calls
BY CallAssumption

\* No flag is touched and no tab comes back from its reload.
QuietTabs ==
    \A t \in Tabs : /\ tab'[t].refreshing = tab[t].refreshing
                    /\ tab[t].page = "leaving" => tab'[t].page = "leaving"

LEMMA TabsQuiet ==
    ASSUME tab \in [Tabs -> TabRow], NEW t \in Tabs, NEW x, NEW page,
           tab[t].page = "leaving" => page = "leaving",
           \/ tab' = tab
           \/ tab' = [tab EXCEPT ![t].timer = x]
           \/ tab' = [tab EXCEPT ![t].page = page]
           \/ tab' = [tab EXCEPT ![t].timer = x, ![t].page = page]
    PROVE  QuietTabs
BY DEF QuietTabs, TabRow

LEMMA ClearedQuiet ==
    ASSUME tab \in [Tabs -> TabRow], NEW t \in Tabs, NEW page, Cleared(t, page)
    PROVE  QuietTabs
<1>1. tab[t].page = "leaving" => Shown(t, page) = "leaving"
  BY DEF Shown
<1>2. tab' = [tab EXCEPT ![t].timer = 0, ![t].page = Shown(t, page)]
  BY DEF Cleared
<1> QED
  BY <1>1, <1>2, TabsQuiet

LEMMA SavedQuiet ==
    ASSUME tab \in [Tabs -> TabRow], NEW t \in Tabs, NEW session, NEW page, Saved(t, session, page)
    PROVE  QuietTabs
<1>1. tab[t].page = "leaving" => Shown(t, page) = "leaving"
  BY DEF Shown
<1>2. tab' = [tab EXCEPT ![t].timer = TimerFor(session), ![t].page = Shown(t, page)]
  BY DEF Saved
<1> QED
  BY <1>1, <1>2, TabsQuiet

LEMMA PageQuiet ==
    ASSUME tab \in [Tabs -> TabRow], NEW t \in Tabs, NEW page,
           tab' = [tab EXCEPT ![t].page = Shown(t, page)]
    PROVE  QuietTabs
<1>1. tab[t].page = "leaving" => Shown(t, page) = "leaving"
  BY DEF Shown
<1> QED
  BY <1>1, TabsQuiet

\* A call that waits, or leads, has a tab.
LEMMA CallTab ==
    ASSUME BrowserType, NEW c \in Calls, call[c].state # "free"
    PROVE  call[c] \in CallRow /\ call[c].tab \in Tabs
BY DEF BrowserType, CallRow, Free

\* A step that concerns no renewal of a call.
LEMMA RenewalsKept ==
    ASSUME BrowserType, Renewals, QuietTabs, Reactive' = Reactive,
           \A c \in Calls : \/ call'[c] = call[c]
                            \/ call[c].state # "leading" /\ call'[c].state # "waiting"
    PROVE  Renewals'
<1>1. LeaderWaits'
  BY DEF Renewals, LeaderWaits, Reactive
<1>2. OneRenewal'
  <2>1. \A f, g \in Reactive' : f.tab = g.tab => f = g
    BY DEF Renewals, OneRenewal
  <2>2. \A f \in Reactive' : tab'[f.tab].refreshing
    BY DEF Renewals, OneRenewal, QuietTabs, Reactive, BrowserType, FlightRow
  <2>3. \A t \in Tabs : tab'[t].refreshing /\ tab'[t].page # "leaving" => \E f \in Reactive' : f.tab = t
    BY DEF Renewals, OneRenewal, QuietTabs
  <2> QED
    BY <2>1, <2>2, <2>3 DEF OneRenewal
<1>3. WaitersAreServed'
  <2>1. ASSUME NEW c \in Calls, call'[c].state = "waiting"
        PROVE  tab'[call'[c].tab].refreshing \/ tab'[call'[c].tab].page = "leaving"
    <3>1. call'[c] = call[c]
      BY <2>1
    <3>2. call[c].tab \in Tabs
      BY <2>1, <3>1, CallTab
    <3> QED
      BY <2>1, <3>1, <3>2 DEF Renewals, WaitersAreServed, QuietTabs
  <2> QED
    BY <2>1 DEF WaitersAreServed
<1> QED
  BY <1>1, <1>2, <1>3 DEF Renewals

\* An answer on its way stands for the request it answers.
LEMMA RenewalsAnswered ==
    ASSUME Renewals, NEW f \in flight, NEW h, h.by = f.by, h.tab = f.tab,
           flight' = (flight \ {f}) \cup {h}, UNCHANGED <<tab, call>>
    PROVE  Renewals'
<1>1. \A g \in Reactive' : \E e \in Reactive : g.by = e.by /\ g.tab = e.tab /\ (g = e \/ (e = f /\ g = h))
  BY DEF Reactive
<1>2. \A e \in Reactive : \E g \in Reactive' : g.by = e.by /\ g.tab = e.tab
  BY DEF Reactive
<1>3. LeaderWaits'
  <2>1. ASSUME NEW g \in Reactive' PROVE call'[g.by].state = "leading" /\ call'[g.by].tab = g.tab
    BY <1>1 DEF Renewals, LeaderWaits
  <2> QED
    BY <2>1 DEF LeaderWaits
<1>4. OneRenewal'
  <2>1. ASSUME NEW g \in Reactive', NEW k \in Reactive', g.tab = k.tab PROVE g = k
    <3>1. PICK e \in Reactive : g.tab = e.tab /\ (g = e \/ (e = f /\ g = h))
      BY <1>1
    <3>2. PICK d \in Reactive : k.tab = d.tab /\ (k = d \/ (d = f /\ k = h))
      BY <1>1
    <3>3. e = d
      <4>1. \A a, b \in Reactive : a.tab = b.tab => a = b
        BY DEF Renewals, OneRenewal
      <4>2. e.tab = d.tab
        BY <2>1, <3>1, <3>2
      <4> QED
        BY <4>1, <4>2
    <3>4. f \in flight' => f = h
      OBVIOUS
    <3>5. g \in flight' /\ k \in flight'
      BY DEF Reactive
    <3> QED
      BY <3>1, <3>2, <3>3, <3>4, <3>5
  <2>2. ASSUME NEW g \in Reactive' PROVE tab'[g.tab].refreshing
    BY <1>1 DEF Renewals, OneRenewal
  <2>3. \A t \in Tabs : tab'[t].refreshing /\ tab'[t].page # "leaving" => \E g \in Reactive' : g.tab = t
    BY <1>2 DEF Renewals, OneRenewal
  <2> QED
    BY <2>1, <2>2, <2>3 DEF OneRenewal
<1>5. WaitersAreServed'
  BY DEF Renewals, WaitersAreServed
<1> QED
  BY <1>3, <1>4, <1>5 DEF Renewals

\* Somebody renews already.
LEMMA WaitsKeeps ==
    ASSUME BrowserType, Renewals, NEW c \in Calls, Waits(c)
    PROVE  Renewals'
<1>1. /\ call' = [call EXCEPT ![c].state = "waiting"] /\ call[c].state = "sent"
      /\ tab[call[c].tab].refreshing /\ UNCHANGED <<tab, flight>>
  BY DEF Waits
<1>2. call[c] \in CallRow /\ DOMAIN call = Calls
  BY <1>1, CallTab DEF BrowserType
<1>3. /\ \A d \in Calls \ {c} : call'[d] = call[d]
      /\ call'[c].state = "waiting" /\ call'[c].tab = call[c].tab
  BY <1>1, <1>2 DEF CallRow
<1>4. Reactive' = Reactive
  BY <1>1 DEF Reactive
<1>5. LeaderWaits'
  <2>1. \A f \in Reactive : f.by # c /\ f.by \in Calls
    BY <1>1 DEF Renewals, LeaderWaits, Reactive
  <2> QED
    BY <1>3, <1>4, <2>1 DEF Renewals, LeaderWaits
<1>6. OneRenewal'
  BY <1>1, <1>4 DEF Renewals, OneRenewal
<1>7. WaitersAreServed'
  BY <1>1, <1>3 DEF Renewals, WaitersAreServed
<1> QED
  BY <1>5, <1>6, <1>7 DEF Renewals

\* The first 401 of a tab.
LEMMA LeadsKeeps ==
    ASSUME BrowserType, Renewals, NEW c \in Calls, Leads(c)
    PROVE  Renewals'
<1> DEFINE t == call[c].tab
<1>1. call[c].state = "sent" /\ ~tab[t].refreshing
  BY DEF Leads
<1>2. call[c] \in CallRow /\ t \in Tabs /\ DOMAIN call = Calls
  BY <1>1, CallTab DEF BrowserType
<1>3. \A f \in Reactive : f.tab # t /\ f.tab \in Tabs /\ f.by \in Calls /\ f.by # c
  BY <1>1 DEF Renewals, OneRenewal, LeaderWaits, Reactive, BrowserType, FlightRow
<1>4. CASE /\ call' = [call EXCEPT ![c].state = "leading", ![c].retry = TRUE]
           /\ tab' = [tab EXCEPT ![t].refreshing = TRUE]
           /\ flight' = flight \cup {Flight(t, c, store)}
  <2>1. PICK g : g = Flight(t, c, store)
    OBVIOUS
  <2>2. g.by = c /\ g.tab = t
    BY <2>1, NewFlight
  <2>3. Reactive' = Reactive \cup {g}
    BY <1>4, <2>1, <2>2 DEF Reactive
  <2>4. /\ \A d \in Calls \ {c} : call'[d] = call[d]
        /\ call'[c].state = "leading" /\ call'[c].tab = t
    BY <1>2, <1>4 DEF CallRow
  <2>5. /\ \A r \in Tabs \ {t} : tab'[r] = tab[r]
        /\ tab'[t].refreshing /\ tab'[t].page = tab[t].page
    BY <1>2, <1>4 DEF BrowserType, TabRow
  <2>6. LeaderWaits'
    BY <1>3, <2>2, <2>3, <2>4 DEF Renewals, LeaderWaits
  <2>7. OneRenewal'
    <3>1. \A f, h \in Reactive \cup {g} : f.tab = h.tab => f = h
      BY <1>3, <2>2 DEF Renewals, OneRenewal
    <3>2. \A f \in Reactive \cup {g} : tab'[f.tab].refreshing
      BY <1>3, <2>2, <2>5 DEF Renewals, OneRenewal
    <3>3. ASSUME NEW r \in Tabs, tab'[r].refreshing, tab'[r].page # "leaving"
          PROVE  \E f \in Reactive \cup {g} : f.tab = r
      BY <2>2, <2>5, <3>3 DEF Renewals, OneRenewal
    <3> QED
      BY <2>3, <3>1, <3>2, <3>3 DEF OneRenewal
  <2>8. WaitersAreServed'
    <3>1. ASSUME NEW d \in Calls, call'[d].state = "waiting"
          PROVE  tab'[call'[d].tab].refreshing \/ tab'[call'[d].tab].page = "leaving"
      <4>1. d # c /\ call'[d] = call[d]
        BY <2>4, <3>1
      <4>2. call[d].tab \in Tabs
        BY <3>1, <4>1, CallTab
      <4> QED
        BY <2>5, <3>1, <4>1, <4>2 DEF Renewals, WaitersAreServed
    <3> QED
      BY <3>1 DEF WaitersAreServed
  <2> QED
    BY <2>6, <2>7, <2>8 DEF Renewals
<1>5. CASE /\ call' = [call EXCEPT ![c] = Free]
           /\ tab' = [tab EXCEPT ![t] = [page |-> "leaving", timer |-> 0, refreshing |-> TRUE]]
           /\ flight' = flight
  <2>1. Reactive' = Reactive
    BY <1>5 DEF Reactive
  <2>2. /\ \A d \in Calls \ {c} : call'[d] = call[d]
        /\ call'[c].state = "free"
    BY <1>2, <1>5 DEF Free
  <2>3. /\ \A r \in Tabs \ {t} : tab'[r] = tab[r]
        /\ tab'[t].page = "leaving"
    BY <1>2, <1>5 DEF BrowserType
  <2>4. LeaderWaits'
    BY <1>3, <2>1, <2>2 DEF Renewals, LeaderWaits
  <2>5. OneRenewal'
    <3>1. \A f \in Reactive : tab'[f.tab].refreshing
      BY <1>3, <2>3 DEF Renewals, OneRenewal
    <3>2. ASSUME NEW r \in Tabs, tab'[r].refreshing, tab'[r].page # "leaving"
          PROVE  \E f \in Reactive : f.tab = r
      BY <2>3, <3>2 DEF Renewals, OneRenewal
    <3> QED
      BY <2>1, <3>1, <3>2 DEF Renewals, OneRenewal
  <2>6. WaitersAreServed'
    <3>1. ASSUME NEW d \in Calls, call'[d].state = "waiting"
          PROVE  tab'[call'[d].tab].refreshing \/ tab'[call'[d].tab].page = "leaving"
      <4>1. d # c /\ call'[d] = call[d]
        BY <2>2, <3>1
      <4>2. call[d].tab \in Tabs
        BY <3>1, <4>1, CallTab
      <4> QED
        BY <2>3, <3>1, <4>1, <4>2 DEF Renewals, WaitersAreServed
    <3> QED
      BY <3>1 DEF WaitersAreServed
  <2> QED
    BY <2>4, <2>5, <2>6 DEF Renewals
<1> QED
  BY <1>4, <1>5 DEF Leads, Settled

\* The renewal a call asked for is over: its tab has no other.
LEMMA LastRenewal ==
    ASSUME Renewals, NEW f \in Reactive, flight' = flight \ {f}
    PROVE  /\ Reactive' = Reactive \ {f}
           /\ \A g \in Reactive' : g \in Reactive /\ g.tab # f.tab /\ g.by # f.by
<1>1. Reactive' = Reactive \ {f}
  BY DEF Reactive
<1>2. \A a, b \in Reactive : a.tab = b.tab => a = b
  BY DEF Renewals, OneRenewal
<1>3. \A a \in Reactive : call[a.by].tab = a.tab
  BY DEF Renewals, LeaderWaits
<1> QED
  BY <1>1, <1>2, <1>3

LEMMA ReactiveRenewsKeeps ==
    ASSUME BrowserType, Renewals, NEW f \in flight, ReactiveRenews(f)
    PROVE  Renewals'
<1> DEFINE t == f.tab
<1>0. f \in Reactive /\ flight' = flight \ {f} /\ t \in Tabs /\ f.by \in Calls
  BY FlightFields DEF ReactiveRenews, Reactive
<1>1. /\ Reactive' = Reactive \ {f}
      /\ \A g \in Reactive' : g \in Reactive /\ g.tab # t /\ g.by # f.by
  BY <1>0, LastRenewal
<1>2. /\ \A r \in Tabs \ {t} : tab'[r] = tab[r]
      /\ ~tab'[t].refreshing
  <2>1. tab' = [tab EXCEPT ![t].timer = TimerFor(Renewed(f)), ![t].refreshing = FALSE]
    BY DEF ReactiveRenews
  <2> QED
    BY <1>0, <2>1 DEF BrowserType, TabRow
<1>3. ASSUME NEW c \in Calls
      PROVE  IF c = f.by \/ (call[c].tab = t /\ call[c].state = "waiting")
             THEN call'[c].state = "sent" ELSE call'[c] = call[c]
  <2>1. CASE c = f.by \/ (call[c].tab = t /\ call[c].state = "waiting")
    <3>1. call[c].state # "free"
      BY <1>0, <2>1 DEF Renewals, LeaderWaits
    <3>2. call[c] \in CallRow
      BY <3>1, CallTab
    <3>3. call'[c] = [call[c] EXCEPT !.state = "sent", !.access = f.access]
      BY <2>1 DEF ReactiveRenews, Resent
    <3> QED
      BY <2>1, <3>2, <3>3 DEF CallRow
  <2>2. CASE ~(c = f.by \/ (call[c].tab = t /\ call[c].state = "waiting"))
    BY <2>2 DEF ReactiveRenews, Resent
  <2> QED
    BY <2>1, <2>2
<1>4. LeaderWaits'
  <2>1. ASSUME NEW g \in Reactive' PROVE call'[g.by].state = "leading" /\ call'[g.by].tab = g.tab
    <3>1. g \in Reactive /\ g.by \in Calls /\ g.by # f.by
      BY <1>1 DEF Reactive
    <3>2. call[g.by].state = "leading" /\ call[g.by].tab = g.tab
      BY <3>1 DEF Renewals, LeaderWaits
    <3> QED
      BY <1>3, <3>1, <3>2
  <2> QED
    BY <2>1 DEF LeaderWaits
<1>5. OneRenewal'
  <2>1. \A g \in Reactive' : g.tab \in Tabs
    BY <1>1 DEF Reactive, BrowserType, FlightRow
  <2>2. \A g \in Reactive' : tab'[g.tab].refreshing
    BY <1>1, <1>2, <2>1 DEF Renewals, OneRenewal
  <2>3. ASSUME NEW r \in Tabs, tab'[r].refreshing, tab'[r].page # "leaving"
        PROVE  \E g \in Reactive' : g.tab = r
    <3>1. r # t /\ tab'[r] = tab[r]
      BY <1>2, <2>3
    <3>2. PICK g \in Reactive : g.tab = r
      BY <2>3, <3>1 DEF Renewals, OneRenewal
    <3> QED
      BY <1>1, <3>1, <3>2
  <2>4. \A g, h \in Reactive' : g.tab = h.tab => g = h
    BY <1>1 DEF Renewals, OneRenewal
  <2> QED
    BY <2>2, <2>3, <2>4 DEF OneRenewal
<1>6. WaitersAreServed'
  <2>1. ASSUME NEW c \in Calls, call'[c].state = "waiting"
        PROVE  tab'[call'[c].tab].refreshing \/ tab'[call'[c].tab].page = "leaving"
    <3>1. call'[c] = call[c] /\ call[c].tab # t
      BY <1>3, <2>1
    <3>2. call[c].tab \in Tabs
      BY <2>1, <3>1, CallTab
    <3> QED
      BY <1>2, <2>1, <3>1, <3>2 DEF Renewals, WaitersAreServed
  <2> QED
    BY <2>1 DEF WaitersAreServed
<1> QED
  BY <1>4, <1>5, <1>6 DEF Renewals

LEMMA ReactiveFailsKeeps ==
    ASSUME BrowserType, Renewals, NEW f \in flight, ReactiveFails(f)
    PROVE  Renewals'
<1> DEFINE t == f.tab
<1>0. f \in Reactive /\ flight' = flight \ {f} /\ t \in Tabs /\ f.by \in Calls
  BY FlightFields DEF ReactiveFails, Reactive
<1>1. /\ Reactive' = Reactive \ {f}
      /\ \A g \in Reactive' : g \in Reactive /\ g.tab # t /\ g.by # f.by
  BY <1>0, LastRenewal
<1>2. /\ \A r \in Tabs \ {t} : tab'[r] = tab[r]
      /\ tab'[t].page = "leaving"
  BY <1>0 DEF ReactiveFails, BrowserType
<1>3. /\ \A c \in Calls \ {f.by} : call'[c] = call[c]
      /\ call'[f.by].state = "free"
  BY <1>0 DEF ReactiveFails, Settled, BrowserType, Free
<1>4. LeaderWaits'
  <2>1. ASSUME NEW g \in Reactive' PROVE call'[g.by].state = "leading" /\ call'[g.by].tab = g.tab
    BY <1>1, <1>3 DEF Renewals, LeaderWaits, Reactive
  <2> QED
    BY <2>1 DEF LeaderWaits
<1>5. OneRenewal'
  <2>1. \A g \in Reactive' : g.tab \in Tabs
    BY <1>1 DEF Reactive, BrowserType, FlightRow
  <2>2. \A g \in Reactive' : tab'[g.tab].refreshing
    BY <1>1, <1>2, <2>1 DEF Renewals, OneRenewal
  <2>3. ASSUME NEW r \in Tabs, tab'[r].refreshing, tab'[r].page # "leaving"
        PROVE  \E g \in Reactive' : g.tab = r
    <3>1. r # t /\ tab'[r] = tab[r]
      BY <1>2, <2>3
    <3>2. PICK g \in Reactive : g.tab = r
      BY <2>3, <3>1 DEF Renewals, OneRenewal
    <3> QED
      BY <1>1, <3>1, <3>2
  <2>4. \A g, h \in Reactive' : g.tab = h.tab => g = h
    BY <1>1 DEF Renewals, OneRenewal
  <2> QED
    BY <2>2, <2>3, <2>4 DEF OneRenewal
<1>6. WaitersAreServed'
  <2>1. ASSUME NEW c \in Calls, call'[c].state = "waiting"
        PROVE  tab'[call'[c].tab].refreshing \/ tab'[call'[c].tab].page = "leaving"
    <3>1. call'[c] = call[c]
      BY <1>3, <2>1
    <3>2. call[c].tab \in Tabs
      BY <2>1, <3>1, CallTab
    <3> QED
      BY <1>2, <2>1, <3>1, <3>2 DEF Renewals, WaitersAreServed
  <2> QED
    BY <2>1 DEF WaitersAreServed
<1> QED
  BY <1>4, <1>5, <1>6 DEF Renewals

\* A reload takes the flag, the renewal and the waiting calls of its tab with it.
LEMMA ReloadKeeps ==
    ASSUME BrowserType, Renewals, NEW t \in Tabs, Reload(t)
    PROVE  Renewals'
<1>1. Reactive' = {f \in Reactive : f.tab # t}
  BY DEF Reload, Reactive
<1>2. /\ \A r \in Tabs \ {t} : tab'[r] = tab[r]
      /\ ~tab'[t].refreshing
  BY DEF Reload, BrowserType
<1>3. \A c \in Calls : IF call[c].tab = t THEN call'[c].state = "free" ELSE call'[c] = call[c]
  BY DEF Reload, Free
<1>4. LeaderWaits'
  <2>1. ASSUME NEW g \in Reactive' PROVE call'[g.by].state = "leading" /\ call'[g.by].tab = g.tab
    BY <1>1, <1>3 DEF Renewals, LeaderWaits, Reactive
  <2> QED
    BY <2>1 DEF LeaderWaits
<1>5. OneRenewal'
  <2>1. \A g \in Reactive' : g \in Reactive /\ g.tab \in Tabs /\ g.tab # t
    BY <1>1 DEF Reactive, BrowserType, FlightRow
  <2>2. \A g \in Reactive' : tab'[g.tab].refreshing
    BY <1>2, <2>1 DEF Renewals, OneRenewal
  <2>3. ASSUME NEW r \in Tabs, tab'[r].refreshing, tab'[r].page # "leaving"
        PROVE  \E g \in Reactive' : g.tab = r
    <3>1. r # t /\ tab'[r] = tab[r]
      BY <1>2, <2>3
    <3>2. PICK g \in Reactive : g.tab = r
      BY <2>3, <3>1 DEF Renewals, OneRenewal
    <3> QED
      BY <1>1, <3>1, <3>2
  <2>4. \A g, h \in Reactive' : g.tab = h.tab => g = h
    BY <2>1 DEF Renewals, OneRenewal
  <2> QED
    BY <2>2, <2>3, <2>4 DEF OneRenewal
<1>6. WaitersAreServed'
  <2>1. ASSUME NEW c \in Calls, call'[c].state = "waiting"
        PROVE  tab'[call'[c].tab].refreshing \/ tab'[call'[c].tab].page = "leaving"
    <3>1. call'[c] = call[c] /\ call[c].tab # t
      BY <1>3, <2>1
    <3>2. call[c].tab \in Tabs
      BY <2>1, <3>1, CallTab
    <3> QED
      BY <1>2, <2>1, <3>1, <3>2 DEF Renewals, WaitersAreServed
  <2> QED
    BY <2>1 DEF WaitersAreServed
<1> QED
  BY <1>4, <1>5, <1>6 DEF Renewals

\* The scheduler of a page asks for no renewal of a call's.
LEMMA SchedulerRenewals ==
    ASSUME BrowserType, Renewals, NEW t \in Tabs, StartScheduler(t), UNCHANGED call,
           tab[t].page # "leaving"
    PROVE  Renewals'
<1>1. QuietTabs
  <2>1. CASE tab' = [tab EXCEPT ![t].timer = store.access, ![t].page = "app"]
    BY <2>1, TabsQuiet DEF BrowserType
  <2>2. CASE tab' = [tab EXCEPT ![t].page = "app"]
    BY <2>2, TabsQuiet DEF BrowserType
  <2>3. CASE Cleared(t, "leaving")
    BY <2>3, ClearedQuiet DEF BrowserType
  <2> QED
    BY <2>1, <2>2, <2>3 DEF StartScheduler
<1>2. Reactive' = Reactive
  <2>1. CASE flight' = flight
    BY <2>1 DEF Reactive
  <2>2. CASE flight' = flight \cup {Flight(t, "load", store)}
    BY <2>2, NewFlight, PurposeIsNoCall DEF Reactive, Purpose
  <2> QED
    BY <2>1, <2>2 DEF StartScheduler
<1> QED
  BY <1>1, <1>2, RenewalsKept

LEMMA TabActionsRenewals ==
    ASSUME BrowserType, Renewals, NEW t \in Tabs,
           \/ TimerFires(t) \/ MountPage(t) \/ MountLogin(t) \/ StorageEvent(t)
           \/ \E u \in Users : LoginAtServer(t, u)
    PROVE  Renewals'
<1>0. tab \in [Tabs -> TabRow]
  BY DEF BrowserType
<1>1. ASSUME QuietTabs, UNCHANGED call,
             NEW p \in Purpose, NEW s,
             flight' = flight \/ flight' = flight \cup {Flight(t, p, s)}
      PROVE  Renewals'
  <2>1. Reactive' = Reactive
    BY <1>1, NewFlight, PurposeIsNoCall DEF Reactive
  <2> QED
    BY <1>1, <2>1, RenewalsKept
<1>2. {"timer", "load", "check", "login", "me"} \subseteq Purpose
  BY DEF Purpose
<1>3. CASE TimerFires(t)
  <2>1. QuietTabs
    <3>1. CASE tab' = [tab EXCEPT ![t].timer = 0]
      BY <1>0, <3>1, TabsQuiet
    <3>2. CASE tab' = [tab EXCEPT ![t].timer = TimerFor(store)]
      BY <1>0, <3>2, TabsQuiet
    <3>3. CASE Cleared(t, "leaving")
      BY <1>0, <3>3, ClearedQuiet
    <3> QED
      BY <1>3, <3>1, <3>2, <3>3 DEF TimerFires
  <2>2. UNCHANGED call /\ (flight' = flight \/ flight' = flight \cup {Flight(t, "timer", store)})
    BY <1>3 DEF TimerFires
  <2> QED
    BY <1>1, <1>2, <2>1, <2>2
<1>4. CASE MountPage(t)
  <2>1. tab[t].page # "leaving" /\ UNCHANGED call
    BY <1>4 DEF MountPage
  <2>2. CASE StartScheduler(t)
    BY <2>1, <2>2, SchedulerRenewals
  <2>3. CASE tab' = [tab EXCEPT ![t].page = "login"] /\ UNCHANGED <<store, flight>>
    <3>1. QuietTabs
      BY <1>0, <2>1, <2>3, TabsQuiet
    <3> QED
      BY <1>1, <1>2, <2>1, <2>3, <3>1
  <2> QED
    BY <1>4, <2>2, <2>3 DEF MountPage
<1>5. CASE MountLogin(t)
  <2>1. QuietTabs
    <3>1. tab[t].page # "leaving"
      BY <1>5 DEF MountLogin
    <3>2. \/ tab' = [tab EXCEPT ![t].page = "login"]
          \/ tab' = [tab EXCEPT ![t].page = "checking"]
      BY <1>5 DEF MountLogin
    <3> QED
      BY <1>0, <3>1, <3>2, TabsQuiet
  <2>2. UNCHANGED call /\ (flight' = flight \/ flight' = flight \cup {Flight(t, "check", store)})
    BY <1>5 DEF MountLogin
  <2> QED
    BY <1>1, <1>2, <2>1, <2>2
<1>6. CASE StorageEvent(t)
  <2>1. QuietTabs
    BY <1>0, <1>6, TabsQuiet DEF StorageEvent
  <2> QED
    BY <1>1, <1>2, <1>6, <2>1 DEF StorageEvent
<1>7. ASSUME NEW u \in Users, LoginAtServer(t, u) PROVE Renewals'
  <2>1. QuietTabs
    BY <1>0, <1>7, TabsQuiet DEF LoginAtServer
  <2>2. UNCHANGED call /\ \E s : flight' = flight \cup {Flight(t, "login", s)}
    BY <1>7 DEF LoginAtServer
  <2> QED
    BY <1>1, <1>2, <2>1, <2>2
<1> QED
  BY <1>3, <1>4, <1>5, <1>6, <1>7

LEMMA FlightStepsRenewals ==
    ASSUME BrowserType, Renewals, NEW f \in flight, FlightStep(f)
    PROVE  Renewals'
<1>0. tab \in [Tabs -> TabRow] /\ f.tab \in Tabs
  BY FlightFields DEF BrowserType
<1>1. ASSUME QuietTabs, UNCHANGED call, f.by \in Purpose,
             NEW p \in Purpose, NEW s,
             flight' = flight \ {f} \/ flight' = (flight \ {f}) \cup {Flight(f.tab, p, s)}
      PROVE  Renewals'
  <2>1. Reactive' = Reactive
    BY <1>1, NewFlight, PurposeIsNoCall DEF Reactive
  <2> QED
    BY <1>1, <2>1, RenewalsKept
<1>2. {"timer", "load", "check", "login", "me"} \subseteq Purpose
  BY DEF Purpose
<1>3. CASE CheckPasses(f)
  <2>1. CASE tab' = [tab EXCEPT ![f.tab].timer = store.access, ![f.tab].page = Shown(f.tab, "app")]
             /\ flight' = flight \ {f}
    <3>1. tab[f.tab].page = "leaving" => Shown(f.tab, "app") = "leaving"
      BY DEF Shown
    <3>2. QuietTabs
      BY <1>0, <2>1, <3>1, TabsQuiet
    <3> QED
      BY <1>1, <1>2, <1>3, <2>1, <3>2 DEF CheckPasses
  <2>2. CASE tab' = [tab EXCEPT ![f.tab].page = Shown(f.tab, "app")]
             /\ (flight' = flight \ {f} \/ flight' = (flight \ {f}) \cup {Flight(f.tab, "load", store)})
    <3>1. QuietTabs
      BY <1>0, <2>2, PageQuiet
    <3> QED
      BY <1>1, <1>2, <1>3, <2>2, <3>1 DEF CheckPasses
  <2>3. CASE Cleared(f.tab, "app") /\ flight' = flight \ {f}
    <3>1. QuietTabs
      BY <1>0, <2>3, ClearedQuiet
    <3> QED
      BY <1>1, <1>2, <1>3, <2>3, <3>1 DEF CheckPasses
  <2> QED
    BY <1>3, <2>1, <2>2, <2>3 DEF CheckPasses
<1>4. CASE CheckGivesUp(f)
  <2>1. QuietTabs
    BY <1>0, <1>4, ClearedQuiet DEF CheckGivesUp
  <2> QED
    BY <1>1, <1>2, <1>4, <2>1 DEF CheckGivesUp
<1>5. CASE LoginAnswered(f)
  <2>1. QuietTabs
    BY <1>0, <1>5, SavedQuiet DEF LoginAnswered
  <2> QED
    BY <1>1, <1>2, <1>5, <2>1 DEF LoginAnswered
<1>6. CASE LoginLost(f)
  <2>1. QuietTabs
    BY <1>0, <1>6, PageQuiet DEF LoginLost
  <2> QED
    BY <1>1, <1>2, <1>6, <2>1 DEF LoginLost
<1>7. CASE MeAnswered(f)
  <2>1. QuietTabs
    BY <1>0, <1>7, PageQuiet, SavedQuiet DEF MeAnswered
  <2> QED
    BY <1>1, <1>2, <1>7, <2>1 DEF MeAnswered
<1>8. CASE RefreshAtServer(f) \/ RefreshLost(f)
  <2>1. f \in FlightRow
    BY FlightFields
  <2>2. UNCHANGED <<tab, call>>
    BY <1>8 DEF RefreshAtServer, RefreshLost
  <2>3. PICK h : /\ flight' = (flight \ {f}) \cup {h}
                 /\ \/ h = [f EXCEPT !.answer = "renewed", !.access = Len(token) + 1]
                    \/ h = [f EXCEPT !.answer = "denied"]
                    \/ h = [f EXCEPT !.answer = "failed"]
    BY <1>8 DEF RefreshAtServer, RefreshLost
  <2>4. h.by = f.by /\ h.tab = f.tab
    BY <2>1, <2>3 DEF FlightRow
  <2>5. flight' = (flight \ {f}) \cup {h}
    BY <2>3
  <2> QED
    BY <2>2, <2>4, <2>5, RenewalsAnswered
<1>9. CASE ProactiveAnswered(f)
  <2>1. QuietTabs
    <3>1. CASE Saved(f.tab, Renewed(f), tab[f.tab].page)
      BY <1>0, <3>1, SavedQuiet
    <3>2. CASE Cleared(f.tab, "leaving")
      BY <1>0, <3>2, ClearedQuiet
    <3>3. CASE tab' = tab
      BY <3>3 DEF QuietTabs
    <3> QED
      BY <1>9, <3>1, <3>2, <3>3 DEF ProactiveAnswered
  <2> QED
    BY <1>1, <1>2, <1>9, <2>1 DEF ProactiveAnswered
<1>10. CASE CheckAnswered(f)
  <2>1. QuietTabs
    BY <1>0, <1>10, SavedQuiet, ClearedQuiet DEF CheckAnswered
  <2> QED
    BY <1>1, <1>2, <1>10, <2>1 DEF CheckAnswered
<1>11. CASE ReactiveRenews(f)
  BY <1>11, ReactiveRenewsKeeps
<1>12. CASE ReactiveFails(f)
  BY <1>12, ReactiveFailsKeeps
<1> QED
  BY <1>3, <1>4, <1>5, <1>6, <1>7, <1>8, <1>9, <1>10, <1>11, <1>12 DEF FlightStep

LEMMA CallStepsRenewals ==
    ASSUME BrowserType, Renewals, NEW c \in Calls,
           Answered(c) \/ \E t \in Tabs, kind \in Kind : Send(c, t, kind)
    PROVE  Renewals'
<1>1. ASSUME NEW r, call[c].state # "leading", r.state # "waiting",
             call' = [call EXCEPT ![c] = r], UNCHANGED flight, QuietTabs
      PROVE  Renewals'
  <2>1. Reactive' = Reactive
    BY <1>1 DEF Reactive
  <2>2. \A d \in Calls : \/ call'[d] = call[d]
                         \/ call[d].state # "leading" /\ call'[d].state # "waiting"
    BY <1>1 DEF BrowserType
  <2> QED
    BY <1>1, <2>1, <2>2, RenewalsKept
<1>2. CASE Succeeds(c) \/ LogoutAgain(c) \/ Fails(c)
  <2>1. call[c].state = "sent" /\ UNCHANGED flight /\ call' = [call EXCEPT ![c] = Free]
    BY <1>2 DEF Succeeds, LogoutAgain, Fails, Settled
  <2>2. QuietTabs
    <3>1. call[c].tab \in Tabs
      BY <2>1, CallTab
    <3>2. CASE Cleared(call[c].tab, "leaving")
      BY <3>1, <3>2, ClearedQuiet DEF BrowserType
    <3>3. CASE tab' = tab
      BY <3>3 DEF QuietTabs
    <3> QED
      BY <1>2, <3>2, <3>3 DEF Succeeds, LogoutAgain, Fails
  <2>3. PICK r : r = Free
    OBVIOUS
  <2>4. call[c].state # "leading" /\ r.state # "waiting"
    BY <2>1, <2>3 DEF Free
  <2>5. call' = [call EXCEPT ![c] = r] /\ UNCHANGED flight
    BY <2>1, <2>3
  <2> QED
    BY <1>1, <2>2, <2>4, <2>5
<1>3. ASSUME NEW t \in Tabs, NEW kind \in Kind, Send(c, t, kind) PROVE Renewals'
  <2>1. PICK r : r = [tab |-> t, kind |-> kind, access |-> StoredAccess, retry |-> FALSE, state |-> "sent"]
    OBVIOUS
  <2>2. call[c].state # "leading" /\ r.state # "waiting"
    BY <1>3, <2>1 DEF Send, Free
  <2>3. call' = [call EXCEPT ![c] = r] /\ UNCHANGED flight /\ QuietTabs
    BY <1>3, <2>1 DEF Send, QuietTabs
  <2> QED
    BY <1>1, <2>2, <2>3
<1> QED
  BY <1>2, <1>3, WaitsKeeps, LeadsKeeps DEF Answered

-----------------------------------------------------------------------------
(* The theorem.                                                            *)

LEMMA SessionInvInit == Init => SessionInv
<1> SUFFICES ASSUME Init PROVE SessionInv
  OBVIOUS
<1>1. BrowserType
  <2>1. [page |-> "closed", timer |-> 0, refreshing |-> FALSE] \in TabRow
    BY SessionAssumption DEF TabRow, Page
  <2> QED
    BY <2>1 DEF Init, BrowserType
<1>2. ServerType
  BY SessionAssumption DEF Init, ServerType
<1>3. Sessions
  BY DEF Init, Sessions, SessionOfOneLogin, RenewedOfOneLogin
<1>4. Renewals
  BY DEF Init, Renewals, LeaderWaits, OneRenewal, Reactive, WaitersAreServed, Free
<1> QED
  BY <1>1, <1>2, <1>3, <1>4, TypeParts DEF SessionInv

LEMMA SessionInvStep == SessionInv /\ [Next]_vars => SessionInv'
<1> SUFFICES ASSUME SessionInv, [Next]_vars PROVE SessionInv'
  OBVIOUS
<1>0. BrowserType /\ ServerType /\ Sessions /\ Renewals
  BY TypeParts DEF SessionInv
<1>1. ServerType'
  BY <1>0, ServerStepType
<1>2. Sessions'
  BY <1>0, SessionsStep
<1>3. ASSUME UNCHANGED browserVars PROVE BrowserType' /\ Renewals'
  <2>1. UNCHANGED <<store, tab, flight, call>>
    BY <1>3 DEF browserVars
  <2>2. Reactive' = Reactive /\ QuietTabs
    BY <2>1 DEF Reactive, QuietTabs
  <2> QED
    BY <1>0, <2>1, <2>2, RenewalsKept DEF BrowserType
<1>4. BrowserType' /\ Renewals'
  <2>1. ASSUME NEW t \in Tabs,
               \/ TimerFires(t) \/ MountPage(t) \/ MountLogin(t) \/ StorageEvent(t)
               \/ \E u \in Users : LoginAtServer(t, u)
        PROVE  BrowserType' /\ Renewals'
    BY <1>0, <2>1, TabActionsType, TabActionsRenewals
  <2>2. ASSUME NEW t \in Tabs, Reload(t) PROVE BrowserType' /\ Renewals'
    BY <1>0, <2>2, TabActionsType, ReloadKeeps
  <2>3. ASSUME NEW f \in flight, FlightStep(f) PROVE BrowserType' /\ Renewals'
    BY <1>0, <2>3, FlightStepsType, FlightStepsRenewals DEF Sessions, Renewals
  <2>4. ASSUME NEW c \in Calls, Answered(c) \/ \E t \in Tabs, kind \in Kind : Send(c, t, kind)
        PROVE  BrowserType' /\ Renewals'
    BY <1>0, <2>4, CallStepsType, CallStepsRenewals
  <2>5. CASE \/ \E a \in DOMAIN token : AccessExpires(a)
             \/ \E l \in DOMAIN login : RefreshLapses(l)
             \/ UNCHANGED vars
    BY <1>3, <2>5 DEF AccessExpires, RefreshLapses, vars
  <2> QED
    BY <2>1, <2>2, <2>3, <2>4, <2>5 DEF Next
<1>5. SessionTypeOK'
  BY <1>1, <1>4 DEF SessionTypeOK, BrowserType, ServerType, TabRow, CallRow
<1> QED
  BY <1>2, <1>4, <1>5 DEF SessionInv

\* One renewal per tab is what FlagMeansRenewing counts.
LEMMA FlagFromRenewals ==
    ASSUME BrowserType, OneRenewal
    PROVE  FlagMeansRenewing
<1> SUFFICES ASSUME NEW t \in Tabs, tab[t].page # "leaving"
             PROVE  Cardinality({f \in flight : f.tab = t /\ f.by \in Calls})
                        = IF tab[t].refreshing THEN 1 ELSE 0
  BY DEF FlagMeansRenewing
<1> DEFINE S == {f \in flight : f.tab = t /\ f.by \in Calls}
<1>1. CASE tab[t].refreshing
  <2>1. PICK f \in Reactive : f.tab = t
    BY <1>1 DEF OneRenewal
  <2>2. S = {f}
    BY <2>1 DEF OneRenewal, Reactive
  <2>3. Cardinality(S) = 1
    BY <2>2, FS_Singleton
  <2> QED
    BY <1>1, <2>3
<1>2. CASE ~tab[t].refreshing
  <2>1. S = {}
    BY <1>2 DEF OneRenewal, Reactive
  <2>2. Cardinality(S) = 0
    BY <2>1, FS_EmptySet
  <2> QED
    BY <1>2, <2>2
<1> QED
  BY <1>1, <1>2

\* For any number of tabs, users, calls, logins, tokens and lost answers: the types,
\* the stored session and every captured one are of one login, a tab's flag says
\* whether a call of it renews the token, and a call that waits is served.
THEOREM SessionIsSound == Spec => []SessionSound
<1>1. SessionInv => SessionSound
  BY TypeParts, FlagFromRenewals DEF SessionInv, SessionSound, Sessions, Renewals
<1> QED
  BY <1>1, SessionInvInit, SessionInvStep, PTL DEF Spec

=============================================================================
