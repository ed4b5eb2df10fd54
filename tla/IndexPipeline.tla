--------------------------- MODULE IndexPipeline ---------------------------
(***************************************************************************)
(* How one entity of the backend's tables reaches the search index of the  *)
(* AI service: a trigger notifies each change of the row, a listener       *)
(* handles every notification in a task of its own, the task reads the row *)
(* as it is by then and writes source and chunks in one transaction, and a *)
(* script that an operator runs reindexes whatever rows there are.         *)
(*                                                                         *)
(* Time is counted in changes: change k of the row happens at time k, is   *)
(* stamped k by the trigger and, if a listener is connected when it        *)
(* commits, is handled by job k.  Job 0 is the reindexing script.          *)
(*                                                                         *)
(* A definition named X_Fault is X with a plausible bug seeded in it.      *)
(***************************************************************************)
EXTENDS Naturals

CONSTANTS
    Texts,       \* what the document built from the row can say
    NoText,
    Indexed,     \* is the entity in table and index from the start?
    Reindexing,  \* does the operator run reindex_orbis_data.py?
    HoursAhead,  \* how much later than it was the script's time is taken to be
    MaxBurst,    \* bound: changes of the row in one transaction
    MaxChanges,  \* bound: changes of the row
    Faults,      \* what may go wrong
    MaxFaults    \* bound: how often it does

ASSUME IndexAssumption ==
    /\ NoText \notin Texts
    /\ Indexed \in BOOLEAN
    /\ Reindexing \in BOOLEAN
    /\ HoursAhead \in Nat
    /\ MaxBurst \in Nat
    /\ MaxChanges \in Nat
    /\ Faults \subseteq {"disconnect", "crash", "fail"}
    /\ MaxFaults \in Nat

VARIABLES
    now,        \* changes so far
    row,        \* the row of public.<table>
    connected,  \* is the listener in LISTEN?
    job,        \* the tasks, by the change they handle
    source,     \* the entity's ai_knowledge_sources row and its chunks
    faults

vars == <<now, row, connected, job, source, faults>>

Jobs == 0..MaxChanges
Script == 0

RowState == [state : {"none", "live", "deleted", "erased"},
             text : Texts \cup {NoText}, at : Nat]

SourceState == [state : {"none", "live", "deleted"}, text : Texts \cup {NoText},
                chunks : Texts \cup {NoText}, at : Nat, key : BOOLEAN]

JobState == [step : {"idle", "notified", "fetched", "writing"},
             op : {"UPSERT", "DELETE"}, at : Nat, doc : RowState, holds : BOOLEAN]

NoRow == [state |-> "none", text |-> NoText, at |-> 0]

NoSource == [state |-> "none", text |-> NoText, chunks |-> NoText, at |-> 0, key |-> FALSE]

Idle == [step |-> "idle", op |-> "UPSERT", at |-> 0, doc |-> NoRow, holds |-> FALSE]

\* An entity of before is indexed by the listener, or by the script, whose
\* metadata lack the row's key.
Init ==
    /\ now = 0
    /\ connected = TRUE
    /\ job = [k \in Jobs |-> Idle]
    /\ faults = 0
    /\ IF Indexed
       THEN \E t \in Texts, key \in {TRUE, ~Reindexing} :
              /\ row = [state |-> "live", text |-> t, at |-> 0]
              /\ source = [state |-> "live", text |-> t, chunks |-> t, at |-> 0, key |-> key]
       ELSE row = NoRow /\ source = NoSource

-----------------------------------------------------------------------------
(* The backend's transactions, with the trigger.                           *)

\* n statements of one transaction change the row; their notifications arrive
\* at the commit, and only at a listener that is connected then.
Commit(state, text, op, n) ==
    /\ now + n <= MaxChanges
    /\ now' = now + n
    /\ row' = [state |-> state, text |-> text, at |-> now + n]
    /\ job' = [k \in Jobs |->
                 IF connected /\ k \in now + 1 .. now + n
                 THEN [Idle EXCEPT !.step = "notified", !.op = op, !.at = k]
                 ELSE job[k]]
    /\ UNCHANGED <<connected, source, faults>>

Save(t, n) ==
    /\ row.state \in {"none", "live"}
    /\ Commit("live", t, "UPSERT", n)

\* BaseEntity.delete: an update of the row.
SoftDelete ==
    /\ row.state = "live"
    /\ Commit("deleted", row.text, "UPSERT", 1)

\* orphanRemoval (OrderReport.licenses, RfpAnalyzeResult.requirements): DELETE.
Erase ==
    /\ row.state = "live"
    /\ Commit("erased", NoText, "DELETE", 1)

-----------------------------------------------------------------------------
(* The jobs.                                                               *)

Step(k, j) == job' = [job EXCEPT ![k] = j]

Fetch_TimeOfFetch(k) ==
    /\ job[k].step = "notified" /\ job[k].op = "UPSERT"
    /\ Step(k, [job[k] EXCEPT !.step = "fetched", !.doc = row, !.at = now + 1])
    /\ UNCHANGED <<now, row, connected, source, faults>>

\* _handle_upsert: the row as it is now, under the time of the change.
Fetch(k) ==
    /\ job[k].step = "notified" /\ job[k].op = "UPSERT"
    /\ IF row.state \in {"live", "deleted"}
       THEN Step(k, [job[k] EXCEPT !.step = "fetched", !.doc = row])
       ELSE Step(k, Idle)
    /\ UNCHANGED <<now, row, connected, source, faults>>

Lookup_KeyForgotten(k) ==
    /\ job[k].step = "notified" /\ job[k].op = "DELETE"
    /\ Step(k, Idle)
    /\ UNCHANGED <<now, row, connected, source, faults>>

\* _handle_delete: the source is found by the row's key, if it carries it.
Lookup(k) ==
    /\ job[k].step = "notified" /\ job[k].op = "DELETE"
    /\ IF source.state = "live" /\ source.key
       THEN Step(k, [job[k] EXCEPT !.step = "fetched"])
       ELSE Step(k, Idle)
    /\ UNCHANGED <<now, row, connected, source, faults>>

\* The script posts the rows that are not deleted, under their updated_at.
Reindex ==
    /\ Reindexing
    /\ job[Script].step = "idle"
    /\ row.state = "live"
    /\ Step(Script, [Idle EXCEPT !.step = "fetched", !.doc = row, !.at = row.at])
    /\ UNCHANGED <<now, row, connected, source, faults>>

Stale_Behind(k) ==
    IF k = Script THEN job[k].at < source.at + HoursAhead ELSE job[k].at < source.at

Stale_Never(k) == FALSE

\* detect_duplicate_or_stale_event.  updated_at has no zone and is taken for UTC.
Stale(k) ==
    IF k = Script THEN job[k].at + HoursAhead < source.at ELSE job[k].at < source.at

Locked == \E k \in Jobs : job[k].holds

Check_NoLock(k) ==
    /\ job[k].step = "fetched"
    /\ IF source.state # "none" /\ Stale(k)
       THEN Step(k, Idle)
       ELSE Step(k, [job[k] EXCEPT !.step = "writing"])
    /\ UNCHANGED <<now, row, connected, source, faults>>

\* SELECT ... FOR UPDATE waits for and locks a row that exists; where there is
\* none it locks nothing.
Check(k) ==
    /\ job[k].step = "fetched"
    /\ ~Locked
    /\ IF source.state = "none"
       THEN Step(k, [job[k] EXCEPT !.step = "writing"])
       ELSE IF Stale(k)
            THEN Step(k, Idle)
            ELSE Step(k, [job[k] EXCEPT !.step = "writing", !.holds = TRUE])
    /\ UNCHANGED <<now, row, connected, source, faults>>

Tombstone_NoTime(k) == [source EXCEPT !.state = "deleted", !.chunks = NoText, !.at = NoText]

\* mark_source_deleted merges the metadata and leaves the text's hash.
Tombstone(k) ==
    [source EXCEPT !.state = "deleted", !.chunks = NoText, !.at = job[k].at,
                   !.key = @ \/ job[k].op = "UPSERT"]

Unchanged_DeletedToo(k) == job[k].holds /\ source.text = job[k].doc.text

\* The text is the indexed one: its chunks are kept.
Unchanged(k) ==
    job[k].holds /\ source.state = "live" /\ source.text = job[k].doc.text

\* upsert_source, with replace_chunks unless the text is unchanged.
Entry(k) ==
    [state |-> "live", text |-> job[k].doc.text,
     chunks |-> IF Unchanged(k) THEN source.chunks ELSE job[k].doc.text,
     at |-> job[k].at, key |-> k # Script]

\* INSERT ... ON CONFLICT DO UPDATE: a row that appeared since the check is
\* overwritten, after waiting for whoever has it locked.
Write(k) ==
    /\ job[k].step = "writing"
    /\ \A j \in Jobs \ {k} : ~job[j].holds
    /\ source' = IF job[k].op = "DELETE" \/ job[k].doc.state = "deleted"
                 THEN Tombstone(k)
                 ELSE Entry(k)
    /\ Step(k, Idle)
    /\ UNCHANGED <<now, row, connected, faults>>

-----------------------------------------------------------------------------
(* What goes wrong: a lost connection, a crash of the service, a job whose  *)
(* exception is logged.                                                     *)

Fault(kind) == kind \in Faults /\ faults < MaxFaults /\ faults' = faults + 1

Disconnect ==
    /\ Fault("disconnect")
    /\ connected /\ connected' = FALSE
    /\ UNCHANGED <<now, row, job, source>>

Crash ==
    /\ Fault("crash")
    /\ connected' = FALSE
    /\ job' = [k \in Jobs |-> Idle]
    /\ UNCHANGED <<now, row, source>>

Fail(k) ==
    /\ Fault("fail")
    /\ job[k].step # "idle"
    /\ Step(k, Idle)
    /\ UNCHANGED <<now, row, connected, source>>

Reconnect ==
    /\ ~connected /\ connected' = TRUE
    /\ UNCHANGED <<now, row, job, source, faults>>

-----------------------------------------------------------------------------

Work(k) == Fetch(k) \/ Lookup(k) \/ Check(k) \/ Write(k)

Next ==
    \/ \E t \in Texts, n \in 1..MaxBurst : Save(t, n)
    \/ SoftDelete \/ Erase
    \/ Reindex
    \/ \E k \in Jobs : Work(k) \/ Fail(k)
    \/ Disconnect \/ Crash \/ Reconnect

Spec == Init /\ [][Next]_vars

\* Tasks run and locks are released, the listener reconnects after five
\* seconds, and an operator who reindexes does so again and again.
FairSpec ==
    /\ Spec
    /\ \A k \in Jobs : WF_vars(Work(k))
    /\ WF_vars(Reconnect)
    /\ WF_vars(Reindex)

-----------------------------------------------------------------------------
(* Properties.                                                             *)

IndexTypeOK ==
    /\ now \in 0..MaxChanges
    /\ row \in RowState
    /\ connected \in BOOLEAN
    /\ job \in [Jobs -> JobState]
    /\ source \in SourceState
    /\ faults \in 0..MaxFaults

\* replace_chunks, mark_source_deleted: search finds exactly the chunks of the
\* text that the source was indexed with, and nothing of a deleted source.
ChunksFollowSource ==
    source.chunks = IF source.state = "live" THEN source.text ELSE NoText

\* An index that claims the time of the row's last change (last_event_at) shows
\* the row as that change left it, although the row is read long after the
\* notification and each job takes its own time.
NewestEventMeansCurrent ==
    source.state # "none" /\ source.at = row.at =>
        IF row.state = "live"
        THEN source.state = "live" /\ source.text = row.text
        ELSE source.state = "deleted"

\* "동일 이벤트 재수신이나 과거 이벤트 역전은 기존 색인을 덮어쓰지 않는다." (index_document):
\* an older event never overwrites the index of a newer one.
EventsInOrder == [][source.state # "none" => source'.at >= source.at]_vars

\* "검색 결과에서 제외한다" (index_document on a deletion): once the notification of
\* the deletion has been handled, the deleted entity does not come back.
DeletedStaysOut ==
    [][source.state = "deleted" /\ source.at = row.at => source'.state = "deleted"]_vars

InSync ==
    IF row.state = "live"
    THEN source.state = "live" /\ source.text = row.text
    ELSE source.state # "live"

\* The index and the row agree in the end.
Converges == <>[]InSync

\* Reindexing mends every entity that is still there.
LivingConverges == <>[](row.state = "live" => InSync)

=============================================================================
