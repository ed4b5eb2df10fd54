----------------------------- MODULE IndexProofs -----------------------------
(***************************************************************************)
(* Theorems about IndexPipeline, for every number of changes and bursts,   *)
(* every fault and whatever the time zone of the reindexing script.        *)
(*                                                                         *)
(* A job may sleep for any time between reading the row and writing the    *)
(* index.  What the proofs remember of it is JobInv: under the time of the *)
(* row's last change a job carries the row as it is.  Order of the writes  *)
(* comes from LockInv, which holds where the index has a row to lock.      *)
(***************************************************************************)
EXTENDS IndexPipeline, TLAPS

-----------------------------------------------------------------------------
(* Type correctness.                                                       *)

\* A transaction of the backend leaves a row of its type, and jobs of theirs.
LEMMA CommitType ==
    ASSUME IndexTypeOK, NEW state \in {"live", "deleted", "erased"},
           NEW text \in Texts \cup {NoText}, NEW op \in {"UPSERT", "DELETE"},
           NEW n \in Nat, Commit(state, text, op, n)
    PROVE  IndexTypeOK'
<1>0. now \in 0..MaxChanges /\ now + n <= MaxChanges
  BY DEF IndexTypeOK, Commit
<1>1. now \in Nat /\ now + n \in 0..MaxChanges
  BY <1>0, IndexAssumption
<1>2. row' \in RowState
  <2>1. now + n \in Nat
    BY <1>1, IndexAssumption
  <2>2. row' = [state |-> state, text |-> text, at |-> now + n]
    BY DEF Commit
  <2> QED
    BY <2>1, <2>2 DEF RowState
<1>3. job' \in [Jobs -> JobState]
  <2>1. ASSUME NEW k \in Jobs
        PROVE  [Idle EXCEPT !.step = "notified", !.op = op, !.at = k] \in JobState
    <3>1. k \in Nat
      BY IndexAssumption DEF Jobs
    <3> QED
      BY <3>1 DEF Idle, JobState, NoRow, RowState
  <2> QED
    BY <2>1 DEF Commit, IndexTypeOK
<1> QED
  BY <1>1, <1>2, <1>3 DEF Commit, IndexTypeOK

\* What a job that moves on may look like.
LEMMA JobMoves ==
    ASSUME NEW j \in JobState, NEW t \in Nat, NEW d \in RowState
    PROVE  /\ [j EXCEPT !.step = "fetched", !.doc = d] \in JobState
           /\ [j EXCEPT !.step = "fetched"] \in JobState
           /\ [j EXCEPT !.step = "writing"] \in JobState
           /\ [j EXCEPT !.step = "writing", !.holds = TRUE] \in JobState
           /\ [Idle EXCEPT !.step = "fetched", !.doc = d, !.at = t] \in JobState
           /\ Idle \in JobState
BY DEF JobState, Idle, NoRow, RowState

\* What a job writes is an index entry.
LEMMA WriteType ==
    ASSUME IndexTypeOK, NEW k \in Jobs
    PROVE  Tombstone(k) \in SourceState /\ Entry(k) \in SourceState
<1>1. job[k] \in JobState /\ source \in SourceState
  BY DEF IndexTypeOK
<1>2. Tombstone(k) \in SourceState
  BY <1>1 DEF Tombstone, SourceState, JobState
<1>3. Entry(k) \in SourceState
  BY <1>1 DEF Entry, SourceState, JobState, RowState
<1> QED
  BY <1>2, <1>3

\* Every variable keeps its type.
LEMMA TypeStep == IndexTypeOK /\ [Next]_vars => IndexTypeOK'
<1> SUFFICES ASSUME IndexTypeOK, [Next]_vars PROVE IndexTypeOK'
  OBVIOUS
<1> DEFINE Same == UNCHANGED <<now, row, connected, source, faults>>
<1>0. /\ row \in RowState /\ job \in [Jobs -> JobState] /\ row.at \in Nat
      /\ Script \in Jobs
  BY IndexAssumption DEF IndexTypeOK, RowState, Script, Jobs
<1>1. ASSUME Same, NEW k \in Jobs, NEW j \in JobState, Step(k, j) PROVE IndexTypeOK'
  BY <1>1 DEF IndexTypeOK, Step
<1>2. CASE \E t \in Texts, n \in 1..MaxBurst : Save(t, n)
  BY <1>2, CommitType, IndexAssumption DEF Save
<1>3. CASE SoftDelete
  BY <1>0, <1>3, CommitType DEF SoftDelete, RowState
<1>4. CASE Erase
  BY <1>4, CommitType DEF Erase
<1>5. CASE Reindex
  BY <1>0, <1>1, <1>5, JobMoves DEF Reindex
<1>6. ASSUME NEW k \in Jobs, Fetch(k) PROVE IndexTypeOK'
  BY <1>0, <1>1, <1>6, JobMoves DEF Fetch
<1>7. ASSUME NEW k \in Jobs, Lookup(k) PROVE IndexTypeOK'
  BY <1>0, <1>1, <1>7, JobMoves DEF Lookup
<1>8. ASSUME NEW k \in Jobs, Check(k) PROVE IndexTypeOK'
  BY <1>0, <1>1, <1>8, JobMoves DEF Check
<1>9. ASSUME NEW k \in Jobs, Write(k) PROVE IndexTypeOK'
  <2>1. source' \in SourceState
    BY <1>9, WriteType DEF Write
  <2>2. job' \in [Jobs -> JobState]
    BY <1>0, <1>9, JobMoves DEF Write, Step
  <2> QED
    BY <1>9, <2>1, <2>2 DEF Write, IndexTypeOK
<1>10. ASSUME NEW k \in Jobs, Fail(k) PROVE IndexTypeOK'
  <2>1. job' \in [Jobs -> JobState]
    BY <1>0, <1>10, JobMoves DEF Fail, Step
  <2> QED
    BY <1>10, <2>1, IndexAssumption DEF Fail, Fault, IndexTypeOK
<1>11. CASE Disconnect \/ Crash \/ Reconnect
  <2>1. job' \in [Jobs -> JobState]
    BY <1>0, <1>11, JobMoves DEF Disconnect, Crash, Reconnect
  <2>2. faults' \in 0..MaxFaults
    BY <1>11, IndexAssumption DEF Disconnect, Crash, Reconnect, Fault, IndexTypeOK
  <2>3. connected' \in BOOLEAN /\ UNCHANGED <<now, row, source>>
    BY <1>11 DEF Disconnect, Crash, Reconnect, IndexTypeOK
  <2> QED
    BY <2>1, <2>2, <2>3 DEF IndexTypeOK
<1>12. CASE UNCHANGED vars
  BY <1>12 DEF vars, IndexTypeOK
<1> QED
  BY <1>2, <1>3, <1>4, <1>5, <1>6, <1>7, <1>8, <1>9, <1>10, <1>11, <1>12 DEF Next, Work

\* What the database and the index hold before the first change.
LEMMA InitType == Init => IndexTypeOK
<1> SUFFICES ASSUME Init PROVE IndexTypeOK
  OBVIOUS
<1>1. row \in RowState /\ source \in SourceState
  <2>1. CASE Indexed
    <3>1. PICK t \in Texts, key \in BOOLEAN :
            /\ row = [state |-> "live", text |-> t, at |-> 0]
            /\ source = [state |-> "live", text |-> t, chunks |-> t, at |-> 0, key |-> key]
      BY <2>1, IndexAssumption DEF Init
    <3>2. row \in RowState
      BY <3>1 DEF RowState
    <3> QED
      BY <3>1, <3>2 DEF SourceState
  <2>2. CASE ~Indexed
    <3>1. row = NoRow /\ source = NoSource
      BY <2>2 DEF Init
    <3> QED
      BY <3>1 DEF RowState, SourceState, NoRow, NoSource
  <2> QED
    BY <2>1, <2>2
<1>2. job \in [Jobs -> JobState]
  BY DEF Init, JobState, Idle, NoRow, RowState
<1> QED
  BY <1>1, <1>2, IndexAssumption DEF Init, IndexTypeOK


-----------------------------------------------------------------------------
(* What a job remembers of the row.                                        *)

\* The row's time is the number of changes; nothing is stamped later.
TimeInv == row.at = now /\ source.at <= now

Upserting(k) == job[k].op = "UPSERT" /\ job[k].step \in {"fetched", "writing"}

\* A job that handles the deletion of the row's last life finds it erased for
\* good; one that has read the row under the time of its last change holds it as
\* it is.
JobInv ==
    \A k \in Jobs : job[k].step # "idle" =>
        /\ job[k].at <= now
        /\ job[k].op = "DELETE" => row.state = "erased"
        /\ Upserting(k) => job[k].doc.state \in {"live", "deleted"}
        /\ Upserting(k) /\ job[k].at = now => job[k].doc = row

CurrentInv == TimeInv /\ JobInv /\ NewestEventMeansCurrent /\ ChunksFollowSource

IndexInv == IndexTypeOK /\ CurrentInv

\* Job k alone takes a step, of the form the invariant asks for.
OnlyJobMoves(k) ==
    /\ UNCHANGED <<now, row, source>>
    /\ \E j \in JobState :
         /\ Step(k, j)
         /\ j.step # "idle" =>
              /\ j.at <= now
              /\ j.op = "DELETE" => row.state = "erased"
              /\ j.op = "UPSERT" /\ j.step \in {"fetched", "writing"} =>
                   j.doc.state \in {"live", "deleted"} /\ (j.at = now => j.doc = row)

\* Such a step disturbs nothing.
LEMMA OnlyJobMovesKeeps ==
    ASSUME IndexInv, NEW k \in Jobs, OnlyJobMoves(k)
    PROVE  CurrentInv'
<1>1. job \in [Jobs -> JobState]
  BY DEF IndexInv, IndexTypeOK
<1>2. JobInv'
  BY <1>1 DEF IndexInv, CurrentInv, JobInv, OnlyJobMoves, Step, Upserting
<1> QED
  BY <1>2 DEF IndexInv, CurrentInv, OnlyJobMoves, TimeInv, NewestEventMeansCurrent,
              ChunksFollowSource

\* Fetch, Lookup, Check, Fail and Reindex move one job.
LEMMA JobsMove ==
    ASSUME IndexInv, NEW k \in Jobs,
           Fetch(k) \/ Lookup(k) \/ Check(k) \/ Fail(k) \/ (k = Script /\ Reindex)
    PROVE  OnlyJobMoves(k)
<1>1. /\ job[k] \in JobState /\ row \in RowState /\ now \in Nat /\ row.at = now
      /\ job[k].step # "idle" =>
           /\ job[k].at <= now
           /\ job[k].op = "DELETE" => row.state = "erased"
           /\ Upserting(k) => job[k].doc.state \in {"live", "deleted"}
           /\ Upserting(k) /\ job[k].at = now => job[k].doc = row
  BY IndexAssumption DEF IndexInv, IndexTypeOK, CurrentInv, TimeInv, JobInv
<1>2. Idle \in JobState /\ Idle.step = "idle"
  BY <1>1, JobMoves DEF Idle
<1>3. CASE Fail(k)
  BY <1>2, <1>3 DEF Fail, OnlyJobMoves
<1>4. CASE Fetch(k)
  <2>1. CASE row.state \in {"live", "deleted"}
    <3> DEFINE j == [job[k] EXCEPT !.step = "fetched", !.doc = row]
    <3>1. j \in JobState /\ j.at = job[k].at /\ j.doc = row /\ j.op = "UPSERT"
      BY <1>1, <1>4, JobMoves DEF Fetch, JobState
    <3>2. Step(k, j) /\ UNCHANGED <<now, row, source>> /\ job[k].step # "idle"
      BY <1>4, <2>1 DEF Fetch
    <3> HIDE DEF j
    <3> QED
      BY <1>1, <2>1, <3>1, <3>2 DEF OnlyJobMoves
  <2>2. CASE row.state \notin {"live", "deleted"}
    BY <1>2, <1>4, <2>2 DEF Fetch, OnlyJobMoves
  <2> QED
    BY <2>1, <2>2
<1>5. CASE Lookup(k)
  <2>1. CASE source.state = "live" /\ source.key
    <3> DEFINE j == [job[k] EXCEPT !.step = "fetched"]
    <3>1. j \in JobState /\ j.at = job[k].at /\ j.op = "DELETE"
      BY <1>1, <1>5, JobMoves DEF Lookup, JobState
    <3>2. /\ Step(k, j) /\ UNCHANGED <<now, row, source>>
          /\ job[k].step # "idle" /\ job[k].op = "DELETE"
      BY <1>5, <2>1 DEF Lookup
    <3> HIDE DEF j
    <3> QED
      BY <1>1, <3>1, <3>2 DEF OnlyJobMoves
  <2>2. CASE ~(source.state = "live" /\ source.key)
    BY <1>2, <1>5, <2>2 DEF Lookup, OnlyJobMoves
  <2> QED
    BY <2>1, <2>2
<1>6. CASE Check(k)
  <2>1. PICK j \in {Idle, [job[k] EXCEPT !.step = "writing"],
                    [job[k] EXCEPT !.step = "writing", !.holds = TRUE]} : Step(k, j)
    BY <1>6 DEF Check
  <2>2. UNCHANGED <<now, row, source>> /\ job[k].step = "fetched"
    BY <1>6 DEF Check
  <2>3. CASE j = Idle
    BY <1>2, <2>1, <2>2, <2>3 DEF OnlyJobMoves
  <2>4. CASE j # Idle
    <3>1. /\ j \in JobState /\ j.at = job[k].at /\ j.op = job[k].op /\ j.doc = job[k].doc
      <4>1. CASE j = [job[k] EXCEPT !.step = "writing"]
        BY <1>1, <4>1, JobMoves DEF JobState
      <4>2. CASE j = [job[k] EXCEPT !.step = "writing", !.holds = TRUE]
        BY <1>1, <4>2, JobMoves DEF JobState
      <4> QED
        BY <2>4, <4>1, <4>2
    <3> QED
      BY <1>1, <2>1, <2>2, <3>1 DEF OnlyJobMoves, Upserting
  <2> QED
    BY <2>3, <2>4
<1>7. CASE k = Script /\ Reindex
  <2> DEFINE j == [Idle EXCEPT !.step = "fetched", !.doc = row, !.at = row.at]
  <2>1. j \in JobState
    BY <1>1, JobMoves
  <2>2. j.at = now /\ j.doc = row /\ j.op = "UPSERT"
    BY <1>1 DEF Idle
  <2>3. Step(k, j) /\ UNCHANGED <<now, row, source>> /\ row.state = "live"
    BY <1>7 DEF Reindex
  <2> HIDE DEF j
  <2> QED
    BY <1>1, <2>1, <2>2, <2>3 DEF OnlyJobMoves
<1> QED
  BY <1>3, <1>4, <1>5, <1>6, <1>7

\* After a change of the row no job and no entry is up to date any more.
LEMMA CommitKeeps ==
    ASSUME IndexInv, NEW state, NEW text, NEW op \in {"UPSERT", "DELETE"}, NEW n \in Nat,
           n >= 1, Commit(state, text, op, n), row.state \in {"none", "live"},
           op = "DELETE" => state = "erased"
    PROVE  CurrentInv'
<1>0. /\ now \in Nat /\ job \in [Jobs -> JobState] /\ source \in SourceState
      /\ TimeInv /\ JobInv /\ ChunksFollowSource /\ now' = now + n
      /\ row' = [state |-> state, text |-> text, at |-> now + n] /\ source' = source
  <2>1. /\ now \in Nat /\ job \in [Jobs -> JobState] /\ source \in SourceState
        /\ TimeInv /\ JobInv /\ ChunksFollowSource
    BY IndexAssumption DEF IndexInv, IndexTypeOK, CurrentInv
  <2>2. /\ now' = now + n /\ source' = source
        /\ row' = [state |-> state, text |-> text, at |-> now + n]
    BY DEF Commit
  <2> QED
    BY <2>1, <2>2
<1>1. TimeInv' /\ row'.at # source'.at
  BY <1>0 DEF TimeInv, SourceState
<1>2. ASSUME NEW k \in Jobs, job'[k].step # "idle"
      PROVE  /\ job'[k].at <= now'
             /\ job'[k].op = "DELETE" => row'.state = "erased"
             /\ Upserting(k)' => job'[k].doc.state \in {"live", "deleted"}
             /\ Upserting(k)' /\ job'[k].at = now' => job'[k].doc = row'
  <2>0. k \in Nat
    BY IndexAssumption DEF Jobs
  <2>1. CASE connected /\ k \in now + 1 .. now + n
    <3>1. job'[k] = [Idle EXCEPT !.step = "notified", !.op = op, !.at = k]
      BY <2>1 DEF Commit
    <3>2. job'[k].step = "notified" /\ job'[k].op = op /\ job'[k].at = k
      BY <3>1 DEF Idle
    <3> QED
      BY <1>0, <2>0, <2>1, <3>2 DEF Upserting
  <2>2. CASE ~(connected /\ k \in now + 1 .. now + n)
    <3>1. job'[k] = job[k]
      BY <2>2 DEF Commit
    <3>2. job[k].at \in Nat
      BY <1>0 DEF JobState
    <3> QED
      BY <1>0, <1>2, <3>1, <3>2 DEF JobInv, Upserting
  <2> QED
    BY <2>1, <2>2
<1> QED
  BY <1>0, <1>1, <1>2 DEF CurrentInv, JobInv, NewestEventMeansCurrent, ChunksFollowSource

\* A write under the time of the last change writes what the row says.
LEMMA WriteKeeps ==
    ASSUME IndexInv, NEW k \in Jobs, Write(k)
    PROVE  CurrentInv'
<1>1. /\ job \in [Jobs -> JobState] /\ source \in SourceState /\ now \in Nat
      /\ row.at = now /\ JobInv /\ ChunksFollowSource
      /\ job[k].step = "writing" /\ UNCHANGED <<now, row>>
  BY IndexAssumption DEF IndexInv, IndexTypeOK, CurrentInv, TimeInv, Write
<1>2. /\ job[k] \in JobState /\ job[k].at <= now
      /\ job[k].op = "DELETE" => row.state = "erased"
      /\ job[k].op = "UPSERT" => /\ job[k].doc.state \in {"live", "deleted"}
                                 /\ job[k].at = now => job[k].doc = row
  BY <1>1 DEF JobInv, Upserting
<1>3. JobInv'
  <2>1. job' = [job EXCEPT ![k] = Idle]
    BY DEF Write, Step
  <2> QED
    BY <1>1, <2>1 DEF JobInv, Upserting, Idle
<1>4. CASE job[k].op = "DELETE" \/ job[k].doc.state = "deleted"
  <2>1. source' = Tombstone(k)
    BY <1>4 DEF Write
  <2>2. source'.state = "deleted" /\ source'.chunks = NoText /\ source'.at = job[k].at
    BY <1>1, <2>1 DEF Tombstone, SourceState
  <2>3. job[k].op \in {"UPSERT", "DELETE"}
    BY <1>2 DEF JobState
  <2>4. source'.at = now => row.state # "live"
    BY <1>2, <1>4, <2>2, <2>3
  <2> QED
    BY <1>1, <1>2, <1>3, <2>2, <2>4
       DEF CurrentInv, TimeInv, NewestEventMeansCurrent, ChunksFollowSource
<1>5. CASE ~(job[k].op = "DELETE" \/ job[k].doc.state = "deleted")
  <2>1. source' = Entry(k)
    BY <1>5 DEF Write
  <2>2. /\ source'.state = "live" /\ source'.text = job[k].doc.text /\ source'.at = job[k].at
        /\ source'.chunks = source'.text
    BY <1>1, <2>1 DEF Entry, Unchanged, ChunksFollowSource
  <2>3. job[k].op = "UPSERT" /\ job[k].doc.state = "live"
    BY <1>2, <1>5 DEF JobState
  <2> QED
    BY <1>1, <1>2, <1>3, <2>2, <2>3
       DEF CurrentInv, TimeInv, NewestEventMeansCurrent, ChunksFollowSource
<1> QED
  BY <1>4, <1>5

\* Every step keeps the jobs and the index true to the row.
LEMMA CurrentStep ==
    ASSUME IndexInv, [Next]_vars
    PROVE  CurrentInv'
<1>1. CASE \E t \in Texts, n \in 1..MaxBurst : Save(t, n)
  <2>1. PICK t \in Texts, n \in 1..MaxBurst : Save(t, n)
    BY <1>1
  <2>2. n \in Nat /\ n >= 1
    BY IndexAssumption
  <2> QED
    BY <2>1, <2>2, CommitKeeps DEF Save
<1>2. CASE SoftDelete
  BY <1>2, CommitKeeps DEF SoftDelete
<1>3. CASE Erase
  BY <1>3, CommitKeeps DEF Erase
<1>4. CASE Reindex
  <2>1. Script \in Jobs
    BY IndexAssumption DEF Script, Jobs
  <2> QED
    BY <1>4, <2>1, JobsMove, OnlyJobMovesKeeps
<1>5. CASE \E k \in Jobs : Fetch(k) \/ Lookup(k) \/ Check(k) \/ Fail(k)
  BY <1>5, JobsMove, OnlyJobMovesKeeps
<1>6. CASE \E k \in Jobs : Write(k)
  BY <1>6, WriteKeeps
<1>7. CASE Crash
  <2>1. job' = [k \in Jobs |-> Idle] /\ UNCHANGED <<now, row, source>>
    BY <1>7 DEF Crash
  <2> QED
    BY <2>1 DEF IndexInv, CurrentInv, TimeInv, JobInv, Upserting, NewestEventMeansCurrent,
                ChunksFollowSource, Idle
<1>8. CASE Disconnect \/ Reconnect \/ UNCHANGED vars
  <2>1. UNCHANGED <<now, row, source, job>>
    BY <1>8 DEF Disconnect, Reconnect, vars
  <2> QED
    BY <2>1 DEF IndexInv, CurrentInv, TimeInv, JobInv, Upserting, NewestEventMeansCurrent,
                ChunksFollowSource
<1> QED
  BY <1>1, <1>2, <1>3, <1>4, <1>5, <1>6, <1>7, <1>8 DEF Next, Work

\* An entity of before is in the index as it is in the table.
LEMMA CurrentInit == Init => IndexInv
<1> SUFFICES ASSUME Init PROVE CurrentInv
  BY InitType DEF IndexInv
<1>1. JobInv
  BY DEF Init, JobInv, Idle
<1>2. now = 0 /\ row.at = 0 /\ source.at = 0
  BY DEF Init, NoRow, NoSource
<1>3. NewestEventMeansCurrent /\ ChunksFollowSource
  BY DEF Init, NoRow, NoSource, NewestEventMeansCurrent, ChunksFollowSource
<1> QED
  BY <1>1, <1>2, <1>3 DEF CurrentInv, TimeInv

\* IndexInv is inductive.
LEMMA IndexInvHolds == Spec => []IndexInv
<1>1. IndexInv /\ [Next]_vars => IndexInv'
  BY TypeStep, CurrentStep DEF IndexInv
<1> QED
  BY <1>1, CurrentInit, PTL DEF Spec

\* Row, jobs and index keep their types, whatever fails and however often.
THEOREM IndexTypeCorrect == Spec => []IndexTypeOK
<1>1. IndexInv => IndexTypeOK
  BY DEF IndexInv
<1> QED
  BY <1>1, IndexInvHolds, PTL

\* Search finds the chunks of the indexed text and of nothing else, in spite of
\* skipped rechunking, deletions and jobs that die halfway.
THEOREM SearchFollowsSource == Spec => []ChunksFollowSource
<1>1. IndexInv => ChunksFollowSource
  BY DEF IndexInv, CurrentInv
<1> QED
  BY <1>1, IndexInvHolds, PTL

\* An index entry that claims the time of the row's last change is that change,
\* with any number of jobs between their read and their write, with the script at
\* any offset, and after any lost notification or crash.
THEOREM NewestIsCurrent == Spec => []NewestEventMeansCurrent
<1>1. IndexInv => NewestEventMeansCurrent
  BY DEF IndexInv, CurrentInv
<1> QED
  BY <1>1, IndexInvHolds, PTL

-----------------------------------------------------------------------------
(* The order of the writes, where the row lock has a row to lock and the   *)
(* script's time is the backend's.                                         *)

\* The entity has been indexed before, and the reindexing script, if it runs,
\* takes updated_at for what it is.
LockedInTime == Indexed /\ (Reindexing => HoursAhead = 0)

\* A job that writes holds the lock, nobody else does, and the entry it found is
\* still there and not newer.
LockInv ==
    /\ source.state # "none"
    /\ \A k \in Jobs :
         /\ job[k].step = "writing" <=> job[k].holds
         /\ job[k].holds => source.at <= job[k].at
         /\ k = Script /\ job[k].step # "idle" => Reindexing
    /\ \A j, k \in Jobs : job[j].holds /\ job[k].holds => j = k

\* Job k leaves its lock as it is, or gives it back.
LEMMA LockUntouched ==
    ASSUME IndexTypeOK, LockInv, NEW k \in Jobs, NEW j, Step(k, j), UNCHANGED source,
           ~j.holds, j.step # "writing", k = Script /\ j.step # "idle" => Reindexing
    PROVE  LockInv'
<1>1. job \in [Jobs -> JobState]
  BY DEF IndexTypeOK
<1>2. job'[k] = j /\ \A i \in Jobs : i # k => job'[i] = job[i]
  BY <1>1 DEF Step
<1>3. job[k].holds \in BOOLEAN
  BY <1>1 DEF JobState
<1> QED
  BY <1>2 DEF LockInv

\* A transaction of the backend only adds jobs that have not begun.
LEMMA CommitKeepsLock ==
    ASSUME IndexTypeOK, LockInv, NEW state, NEW text, NEW op, NEW n \in Nat,
           Commit(state, text, op, n)
    PROVE  LockInv'
<1>1. source' = source
  BY DEF Commit
<1>2. \A k \in Jobs : \/ job'[k] = job[k]
                      \/ job'[k].step = "notified" /\ ~job'[k].holds /\ k # Script
  <2> SUFFICES ASSUME NEW k \in Jobs, job'[k] # job[k]
               PROVE  job'[k].step = "notified" /\ ~job'[k].holds /\ k # Script
    OBVIOUS
  <2>1. k \in now + 1 .. now + n /\ job'[k] = [Idle EXCEPT !.step = "notified", !.op = op, !.at = k]
    BY DEF Commit
  <2>2. now \in Nat
    BY IndexAssumption DEF IndexTypeOK
  <2> QED
    BY <2>1, <2>2 DEF Idle, Script
<1> QED
  BY <1>1, <1>2 DEF LockInv

\* The check takes the lock of an entry that is not newer, or does not write.
LEMMA CheckKeepsLock ==
    ASSUME LockedInTime, IndexTypeOK, LockInv, NEW k \in Jobs, Check(k)
    PROVE  LockInv'
<1>1. /\ job \in [Jobs -> JobState] /\ source \in SourceState
  BY DEF IndexTypeOK
<1>2. /\ job[k].step = "fetched" /\ source.state # "none" /\ UNCHANGED source
      /\ \A i \in Jobs : ~job[i].holds
  BY DEF Check, Locked, LockInv
<1>3. job[k] \in JobState
  BY <1>1
<1>4. CASE Stale(k)
  <2>1. Step(k, Idle)
    BY <1>2, <1>4 DEF Check
  <2> QED
    BY <1>2, <2>1, LockUntouched DEF Idle
<1>5. CASE ~Stale(k)
  <2> DEFINE j == [job[k] EXCEPT !.step = "writing", !.holds = TRUE]
  <2>1. Step(k, j)
    BY <1>2, <1>5 DEF Check
  <2>2. j.step = "writing" /\ j.holds /\ j.at = job[k].at
    BY <1>3 DEF JobState
  <2>3. source.at \in Nat /\ job[k].at \in Nat
    BY <1>1, <1>3 DEF SourceState, JobState
  <2>4. source.at <= job[k].at
    <3>1. CASE k = Script
      <4>1. HoursAhead = 0
        BY <1>2, <3>1 DEF LockInv, LockedInTime
      <4> QED
        BY <1>5, <2>3, <3>1, <4>1 DEF Stale
    <3>2. CASE k # Script
      BY <1>5, <2>3, <3>2 DEF Stale
    <3> QED
      BY <3>1, <3>2
  <2> HIDE DEF j
  <2>5. job'[k] = j /\ \A i \in Jobs : i # k => job'[i] = job[i]
    BY <1>1, <2>1 DEF Step
  <2> QED
    BY <1>2, <2>2, <2>4, <2>5 DEF LockInv
<1> QED
  BY <1>4, <1>5

\* A write replaces the entry the writer has locked, and gives the lock back.
LEMMA WriteKeepsLock ==
    ASSUME IndexTypeOK, LockInv, NEW k \in Jobs, Write(k)
    PROVE  LockInv' /\ source'.at >= source.at /\ source'.at = job[k].at
<1>1. job \in [Jobs -> JobState] /\ source \in SourceState
  BY DEF IndexTypeOK
<1>2. /\ job[k].step = "writing" /\ Step(k, Idle)
      /\ \A i \in Jobs \ {k} : ~job[i].holds
      /\ source' \in {Tombstone(k), Entry(k)}
  BY DEF Write
<1>3. source'.state # "none" /\ source'.at = job[k].at
  <2>1. CASE source' = Tombstone(k)
    BY <1>1, <2>1 DEF Tombstone, SourceState
  <2>2. CASE source' = Entry(k)
    BY <2>2 DEF Entry
  <2> QED
    BY <1>2, <2>1, <2>2
<1>4. source.at \in Nat /\ job[k].at \in Nat /\ source.at <= job[k].at
  BY <1>1, <1>2 DEF LockInv, SourceState, JobState
<1>5. job'[k] = Idle /\ \A i \in Jobs : i # k => job'[i] = job[i]
  BY <1>1, <1>2 DEF Step
<1>6. LockInv'
  BY <1>2, <1>3, <1>5 DEF LockInv, Idle
<1> QED
  BY <1>3, <1>4, <1>6

\* Every step leaves the lock to the one job that writes.
LEMMA LockStep ==
    ASSUME LockedInTime, IndexTypeOK, LockInv, [Next]_vars
    PROVE  LockInv'
<1>0. job \in [Jobs -> JobState]
  BY DEF IndexTypeOK
<1>1. CASE \E t \in Texts, n \in 1..MaxBurst : Save(t, n)
  <2>1. PICK t \in Texts, n \in 1..MaxBurst : Save(t, n)
    BY <1>1
  <2>2. n \in Nat
    BY IndexAssumption
  <2> QED
    BY <2>1, <2>2, CommitKeepsLock DEF Save
<1>2. CASE SoftDelete \/ Erase
  BY <1>2, CommitKeepsLock DEF SoftDelete, Erase
<1>3. CASE Reindex
  <2>1. Script \in Jobs
    BY IndexAssumption DEF Script, Jobs
  <2> DEFINE j == [Idle EXCEPT !.step = "fetched", !.doc = row, !.at = row.at]
  <2>2. ~j.holds /\ j.step = "fetched"
    BY DEF Idle
  <2>3. Step(Script, j) /\ UNCHANGED source /\ Reindexing
    BY <1>3 DEF Reindex
  <2> HIDE DEF j
  <2> QED
    BY <2>1, <2>2, <2>3, LockUntouched
<1>4. ASSUME NEW k \in Jobs, Fetch(k) \/ Lookup(k) PROVE LockInv'
  <2>1. PICK j \in {Idle, [job[k] EXCEPT !.step = "fetched", !.doc = row],
                    [job[k] EXCEPT !.step = "fetched"]} : Step(k, j)
    BY <1>4 DEF Fetch, Lookup
  <2>2. UNCHANGED source /\ job[k].step = "notified" /\ job[k] \in JobState
    BY <1>0, <1>4 DEF Fetch, Lookup
  <2>3. ~job[k].holds
    BY <2>2 DEF LockInv
  <2>4. ~j.holds /\ j.step # "writing"
    <3>1. CASE j = Idle
      BY <3>1 DEF Idle
    <3>2. CASE j = [job[k] EXCEPT !.step = "fetched", !.doc = row]
      BY <2>2, <2>3, <3>2 DEF JobState
    <3>3. CASE j = [job[k] EXCEPT !.step = "fetched"]
      BY <2>2, <2>3, <3>3 DEF JobState
    <3> QED
      BY <2>1, <3>1, <3>2, <3>3
  <2>5. k = Script => Reindexing
    BY <2>2 DEF LockInv
  <2> QED
    BY <2>1, <2>2, <2>4, <2>5, LockUntouched
<1>5. ASSUME NEW k \in Jobs, Fail(k) PROVE LockInv'
  BY <1>5, LockUntouched DEF Fail, Idle
<1>6. ASSUME NEW k \in Jobs, Check(k) PROVE LockInv'
  BY <1>6, CheckKeepsLock
<1>7. ASSUME NEW k \in Jobs, Write(k) PROVE LockInv'
  BY <1>7, WriteKeepsLock
<1>8. CASE Crash
  <2>1. job' = [k \in Jobs |-> Idle] /\ UNCHANGED source
    BY <1>8 DEF Crash
  <2> QED
    BY <2>1 DEF LockInv, Idle
<1>9. CASE Disconnect \/ Reconnect \/ UNCHANGED vars
  <2>1. UNCHANGED <<source, job>>
    BY <1>9 DEF Disconnect, Reconnect, vars
  <2> QED
    BY <2>1 DEF LockInv
<1> QED
  BY <1>1, <1>2, <1>3, <1>4, <1>5, <1>6, <1>7, <1>8, <1>9 DEF Next, Work

\* What is there from the start is there to lock, and nobody does yet.
LEMMA LockInit == LockedInTime /\ Init => LockInv
<1> SUFFICES ASSUME LockedInTime, Init PROVE LockInv
  OBVIOUS
<1>1. source.state = "live"
  BY DEF LockedInTime, Init
<1>2. \A k \in Jobs : job[k] = Idle
  BY DEF Init
<1> QED
  BY <1>1, <1>2 DEF LockInv, Idle

\* Only writes change the entry.
LEMMA OnlyWritesIndex ==
    ASSUME [Next]_vars
    PROVE  source' = source \/ \E k \in Jobs : Write(k)
BY DEF Next, Work, Save, SoftDelete, Erase, Commit, Reindex, Fetch, Lookup, Check, Fail,
       Disconnect, Crash, Reconnect, vars

\* What EventsInOrder and DeletedStaysOut say of one step.
NotOlder == source.state # "none" => source'.at >= source.at
StaysOut == source.state = "deleted" /\ source.at = row.at => source'.state = "deleted"

\* The writer is not older than what it replaces; if that is the deletion, the
\* writer is the deletion too.
LEMMA OrderStep ==
    ASSUME LockedInTime, IndexInv, LockInv, [Next]_vars
    PROVE  NotOlder /\ StaysOut
<1>1. /\ job \in [Jobs -> JobState] /\ source \in SourceState /\ row \in RowState
      /\ now \in Nat /\ row.at = now /\ IndexTypeOK /\ JobInv /\ NewestEventMeansCurrent
  BY IndexAssumption DEF IndexInv, IndexTypeOK, CurrentInv, TimeInv
<1>2. CASE source' = source
  BY <1>1, <1>2 DEF NotOlder, StaysOut, SourceState
<1>3. ASSUME NEW k \in Jobs, Write(k) PROVE NotOlder /\ StaysOut
  <2>1. source'.at >= source.at /\ source'.at = job[k].at
    BY <1>1, <1>3, WriteKeepsLock
  <2>2. job[k].step = "writing" /\ job[k] \in JobState /\ source.at \in Nat
    BY <1>1, <1>3 DEF Write, SourceState
  <2>3. ASSUME source.state = "deleted", source.at = row.at PROVE source'.state = "deleted"
    <3>1. row.state # "live"
      BY <1>1, <2>3 DEF NewestEventMeansCurrent
    <3>2. job[k].at = now
      BY <1>1, <2>1, <2>2, <2>3 DEF JobInv, JobState
    <3>3. job[k].op = "DELETE" \/ job[k].doc.state = "deleted"
      BY <1>1, <2>2, <3>1, <3>2 DEF JobInv, Upserting, JobState
    <3>4. source' = Tombstone(k)
      BY <1>3, <3>3 DEF Write
    <3> QED
      BY <1>1, <3>4 DEF Tombstone, SourceState
  <2> QED
    BY <2>1, <2>3 DEF NotOlder, StaysOut
<1> QED
  BY <1>2, <1>3, OnlyWritesIndex

\* Both, along the whole behaviour.
LEMMA OrderHolds == LockedInTime => (Spec => [][NotOlder /\ StaysOut]_vars)
<1> SUFFICES ASSUME LockedInTime PROVE Spec => [][NotOlder /\ StaysOut]_vars
  OBVIOUS
<1>1. Init => IndexInv /\ LockInv
  BY CurrentInit, LockInit
<1>2. IndexInv /\ LockInv /\ [Next]_vars => (IndexInv /\ LockInv)'
  BY TypeStep, CurrentStep, LockStep DEF IndexInv
<1>3. IndexInv /\ LockInv /\ [Next]_vars => [NotOlder /\ StaysOut]_vars
  BY OrderStep
<1> QED
  BY <1>1, <1>2, <1>3, PTL DEF Spec

\* index_document promises that an older event never overwrites a newer one: it
\* keeps the promise through every crash and disconnection as long as the entity
\* is in the index already and no script calls its local time UTC.
THEOREM OldEventsLose == LockedInTime => (Spec => EventsInOrder)
<1> SUFFICES ASSUME LockedInTime PROVE Spec => EventsInOrder
  OBVIOUS
<1>1. [NotOlder /\ StaysOut]_vars => [NotOlder]_vars
  OBVIOUS
<1>2. Spec => [][NotOlder]_vars
  BY <1>1, OrderHolds, PTL
<1> QED
  BY <1>2 DEF EventsInOrder, NotOlder

\* A deleted entity does not come back to the search results under the same
\* conditions; the finding shows that with the script's time zone it does.
THEOREM DeletedIsGone == LockedInTime => (Spec => DeletedStaysOut)
<1> SUFFICES ASSUME LockedInTime PROVE Spec => DeletedStaysOut
  OBVIOUS
<1>1. [NotOlder /\ StaysOut]_vars => [StaysOut]_vars
  OBVIOUS
<1>2. Spec => [][StaysOut]_vars
  BY <1>1, OrderHolds, PTL
<1> QED
  BY <1>2 DEF DeletedStaysOut, StaysOut

=============================================================================
