------------------------------- MODULE Alarms -------------------------------
(***************************************************************************)
(* The alarms of a browser: the bell of every tab and the list of tasks of *)
(* the dashboard (use-alarms.ts, header.tsx, dashboard/page.tsx).          *)
(*                                                                         *)
(* The bell shows the unread alarms the server answered last. Each answer  *)
(* is merged into a copy kept in the storage all the tabs share, under the *)
(* account that is logged in when it comes; the tasks are read from there. *)
(* An entry goes a month after it was stored, or after it was dismissed.   *)
(***************************************************************************)
EXTENDS Integers, FiniteSets

CONSTANTS
    Accounts,       \* accounts of the server
    BrowserTabs,    \* tabs of the browser
    MaxAlarms,      \* bound: alarms ever sent
    MaxUpsets       \* bound: logins of another account, months that pass, calls that fail

AlarmIds == 1..MaxAlarms

ASSUME AlarmsAssumption ==
    Accounts # {} /\ MaxAlarms \in Nat /\ MaxUpsets \in Nat

VARIABLES
    alarm,     \* alarm[i]: the alarms sent so far, on the server
    account,   \* who is logged in, in every tab
    cache,     \* cache[a][i]: the copies kept for account a
    bell,      \* bell[t]: what tab t shows and waits for
    alarmRuns  \* logins, months and failures so far

alarmVars == <<alarm, account, cache, bell, alarmRuns>>

-----------------------------------------------------------------------------
(* The server.                                                             *)

Sent == {i \in AlarmIds : alarm[i].to # {}}
UnreadOf(a) == {i \in Sent : alarm[i].to = {a} /\ ~alarm[i].read}

NewAlarm(a) ==
    /\ Sent # AlarmIds
    /\ alarm' = [alarm EXCEPT ![Cardinality(Sent) + 1] = [to |-> {a}, read |-> FALSE]]
    /\ UNCHANGED <<account, cache, bell, alarmRuns>>

-----------------------------------------------------------------------------
(* The copies.                                                             *)

Missing == [kept |-> FALSE, read |-> FALSE, dismissed |-> FALSE, old |-> FALSE]
Entry(read) == [kept |-> TRUE, read |-> read, dismissed |-> FALSE, old |-> FALSE]

\* Mutant: all the accounts share one copy.
CacheKey_Shared(a) == CHOOSE b \in Accounts : TRUE

\* getCacheKey.
CacheKey(a) == a

\* saveCache: entries a month old are left out.
SavedCopy(copy) == [i \in AlarmIds |-> IF copy[i].old THEN Missing ELSE copy[i]]

\* Mutant: an alarm that is still unread is a task again.
Merged_Anew(copy, fresh) ==
    [i \in AlarmIds |-> IF i \in fresh THEN Entry(FALSE) ELSE copy[i]]

\* mergeIntoCache: an entry already there keeps all but whether it is read.
Merged(copy, fresh) ==
    [i \in AlarmIds |->
       CASE i \notin fresh -> copy[i]
         [] i \in fresh /\ copy[i].kept -> [copy[i] EXCEPT !.read = FALSE]
         [] OTHER -> Entry(FALSE)]

ReadCopy(copy, ids) ==
    [i \in AlarmIds |-> IF i \in ids /\ copy[i].kept THEN [copy[i] EXCEPT !.read = TRUE] ELSE copy[i]]

DismissedCopy(copy, ids) ==
    [i \in AlarmIds |-> IF i \in ids /\ copy[i].kept THEN [copy[i] EXCEPT !.dismissed = TRUE, !.old = FALSE] ELSE copy[i]]

Store(copy) == cache' = [cache EXCEPT ![CacheKey(account)] = SavedCopy(copy)]

Copy == cache[CacheKey(account)]

\* The tasks the dashboard lists as pending, entries a month old left out.
Pending(copy) == {i \in AlarmIds : copy[i].kept /\ ~copy[i].old /\ ~copy[i].dismissed}

-----------------------------------------------------------------------------
(* The bell.                                                               *)

NoAnswer == [by |-> "nothing", ids |-> {}, who |-> {}]

\* A tab as it opens.
OpenTab ==
    [unread |-> {}, fetch |-> NoAnswer, mark |-> NoAnswer, pending |-> {}]

\* fetchAlarms is called every half minute, and when an alarm is expected. What the server
\* answers is decided here; it arrives later.
Fetch(t) ==
    /\ bell[t].fetch = NoAnswer
    /\ bell' = [bell EXCEPT ![t].fetch =
         [by |-> "fetch", ids |-> UnreadOf(account), who |-> {account}]]
    /\ UNCHANGED <<alarm, account, cache, alarmRuns>>

FetchArrives(t) ==
    LET f == bell[t].fetch IN
    /\ f.by = "fetch"
    /\ Store(Merged(Copy, f.ids))
    /\ bell' = [bell EXCEPT ![t].unread = f.ids, ![t].fetch = NoAnswer]
    /\ alarmRuns' = [alarmRuns EXCEPT !.crossed = @ \/ f.who # {account}]
    /\ UNCHANGED <<alarm, account>>

\* markAsRead, from an alarm in the bell: executed now, answered later.
MarkAsRead(t, i) ==
    /\ i \in bell[t].unread /\ bell[t].mark = NoAnswer
    /\ alarm[i].to = {account} /\ alarm' = [alarm EXCEPT ![i].read = TRUE]
    /\ bell' = [bell EXCEPT ![t].mark = [by |-> "one", ids |-> {i}, who |-> {account}]]
    /\ UNCHANGED <<account, cache, alarmRuns>>

\* markAllAsRead: every alarm of the account there is then.
MarkAllAsRead(t) ==
    /\ bell[t].unread # {} /\ bell[t].mark = NoAnswer
    /\ alarm' = [i \in AlarmIds |-> IF alarm[i].to = {account} THEN [alarm[i] EXCEPT !.read = TRUE] ELSE alarm[i]]
    /\ bell' = [bell EXCEPT ![t].mark =
         [by |-> "all", ids |-> UnreadOf(account), who |-> {account}]]
    /\ UNCHANGED <<account, cache, alarmRuns>>

\* What is shown as unread once one, or all, of them are known to be read.
StillUnread(t) == IF bell[t].mark.by = "all" THEN {} ELSE bell[t].unread \ bell[t].mark.ids

\* Which copies are then read: all of them after markAllAsRead.
CopiesRead(t) == IF bell[t].mark.by = "all" THEN {i \in AlarmIds : Copy[i].kept} ELSE bell[t].mark.ids

\* The answer to a mark: the copies and the bell follow.
MarkArrives(t) ==
    /\ bell[t].mark.by \in {"one", "all"}
    /\ Store(ReadCopy(Copy, CopiesRead(t)))
    /\ alarmRuns' = [alarmRuns EXCEPT !.crossed = @ \/ bell[t].mark.who # {account},
                       !.newer = @ \/ \E i \in CopiesRead(t) : ~alarm[i].read]
    /\ bell' = [bell EXCEPT ![t].mark = NoAnswer, ![t].unread = StillUnread(t)]
    /\ UNCHANGED <<alarm, account>>

\* Mutant: the bell is emptied although the call failed.
MarkLost_Anyway(t, done) ==
    /\ bell[t].unread # {} /\ bell[t].mark = NoAnswer /\ alarmRuns.upsets < MaxUpsets
    /\ alarmRuns' = [alarmRuns EXCEPT !.upsets = @ + 1]
    /\ Store(ReadCopy(Copy, {i \in AlarmIds : Copy[i].kept}))
    /\ UNCHANGED <<account, bell, alarm>>

\* A mark that fails, whether done on the server or not, changes nothing here.
MarkLost(t, done) ==
    /\ bell[t].unread # {} /\ bell[t].mark = NoAnswer /\ alarmRuns.upsets < MaxUpsets
    /\ alarmRuns' = [alarmRuns EXCEPT !.upsets = @ + 1]
    /\ IF done
       THEN /\ alarm' = [i \in AlarmIds |-> IF alarm[i].to = {account} THEN [alarm[i] EXCEPT !.read = TRUE] ELSE alarm[i]]
       ELSE UNCHANGED alarm
    /\ UNCHANGED <<account, cache, bell>>

-----------------------------------------------------------------------------
(* The tasks of the dashboard.                                             *)

\* The dashboard is opened, or told that an alarm is expected: it reads the copies as they
\* are, before the alarm has been fetched.
ShowTasks(t) ==
    /\ Pending(Copy) # bell[t].pending
    /\ bell' = [bell EXCEPT ![t].pending = Pending(Copy)]
    /\ UNCHANGED <<alarm, account, cache, alarmRuns>>

\* dismiss of one task, dismissAll of those pending in the copies. It stays unread.
Dismiss(t, ids) ==
    /\ ids # {} /\ ids \subseteq bell[t].pending
    /\ IF Cardinality(ids) = 1 THEN Store(DismissedCopy(Copy, ids))
       ELSE Store(DismissedCopy(Copy, {i \in AlarmIds : ~Copy[i].dismissed}))
    /\ bell' = [bell EXCEPT ![t].pending = Pending(cache'[CacheKey(account)])]
    /\ UNCHANGED <<alarm, account, alarmRuns>>

-----------------------------------------------------------------------------

\* Another account logs in in tab t; the other tabs keep what they show, and calls that
\* are on their way go on.
Switch(t, a) ==
    /\ a # account /\ alarmRuns.upsets < MaxUpsets
    /\ account' = a
    /\ bell' = [bell EXCEPT ![t].unread = {}, ![t].pending = {}]
    /\ alarmRuns' = [alarmRuns EXCEPT !.upsets = @ + 1]
    /\ UNCHANGED <<alarm, cache>>

MonthPasses ==
    /\ alarmRuns.upsets < MaxUpsets
    /\ cache' = [a \in Accounts |-> [i \in AlarmIds |-> IF cache[a][i].kept THEN [cache[a][i] EXCEPT !.old = TRUE] ELSE Missing]]
    /\ alarmRuns' = [alarmRuns EXCEPT !.upsets = @ + 1]
    /\ UNCHANGED <<alarm, account, bell>>

AlarmsInit ==
    /\ alarm = [i \in AlarmIds |-> [to |-> {}, read |-> FALSE]]
    /\ account \in Accounts
    /\ cache = [a \in Accounts |-> [i \in AlarmIds |-> Missing]]
    /\ bell = [t \in BrowserTabs |-> OpenTab]
    /\ alarmRuns = [upsets |-> 0, crossed |-> FALSE, newer |-> FALSE]

AlarmsNext ==
    \/ MonthPasses
    \/ \E a \in Accounts : NewAlarm(a)
    \/ \E t \in BrowserTabs :
         \/ Fetch(t) \/ FetchArrives(t) \/ MarkAllAsRead(t) \/ MarkArrives(t) \/ ShowTasks(t)
         \/ \E done \in BOOLEAN : MarkLost(t, done)
         \/ \E i \in AlarmIds : MarkAsRead(t, i)
         \/ \E ids \in SUBSET AlarmIds : (Cardinality(ids) = 1 \/ ids = bell[t].pending) /\ Dismiss(t, ids)
         \/ \E a \in Accounts : Switch(t, a)

-----------------------------------------------------------------------------
(* Properties.                                                             *)

\* Every variable keeps its type; an alarm kept has been sent.
AlarmsTypeOK ==
    /\ account \in Accounts
    /\ \A a \in Accounts, i \in AlarmIds : cache[a][i].kept => i \in Sent
    /\ \A a \in Accounts, i \in AlarmIds : ~cache[a][i].kept => cache[a][i] = Missing
    /\ \A t \in BrowserTabs : bell[t].unread \subseteq Sent /\ bell[t].pending \subseteq Sent

\* The copies of an account are alarms of that account, whoever used the browser before,
\* unless an answer came after another account had logged in.
CopiesAreOwn ==
    ~alarmRuns.crossed => \A a \in Accounts, i \in AlarmIds : cache[a][i].kept => alarm[i].to = {a}

\* A copy marked read is read on the server, whatever calls fail, unless an alarm was
\* stored between reading all of them and the answer.
ReadCopiesAreRead ==
    ~alarmRuns.crossed /\ ~alarmRuns.newer =>
      \A a \in Accounts, i \in AlarmIds : cache[a][i].read => alarm[i].read

\* A task dismissed does not become pending again while its entry is kept.
DismissedStaysSo ==
    [][\A a \in Accounts, i \in AlarmIds :
         (cache[a][i].dismissed /\ ~cache[a][i].old) => cache'[a][i].dismissed]_alarmVars

=============================================================================
