----------------------------- MODULE WorkflowTx -----------------------------
(***************************************************************************)
(* The approval engine under concurrent requests.                          *)
(*                                                                         *)
(* PostgreSQL runs at READ COMMITTED and no entity has a version column, so *)
(* a request reads and validates rows, then Hibernate flushes every entity *)
(* it changed, all columns, at commit.  Between the two other requests may *)
(* commit.  A request is therefore two or three steps: it validates (Begin *)
(* actions), the domain handler loads the document (LoadDocument), and     *)
(* Commit applies the write set.  The rows are those of Workflow; with one *)
(* request at a time this specification implements Workflow!Spec.          *)
(***************************************************************************)
EXTENDS Workflow

CONSTANTS
    Sessions,     \* request threads of the backend
    MaxInFlight   \* bound: requests between their first read and their commit

ASSUME TxAssumption ==
    /\ IsFiniteSet(Sessions)           \* the thread pool of the backend
    /\ MaxInFlight \in Nat \ {0}
    /\ \A d \in Docs : DomainOf[d] # "BILLING"   \* Register is not split here

VARIABLE tx       \* tx[s]: the write set of the transaction of session s

txVars == <<vars, tx>>

\* The write set of a transaction: full rows for existing ids, rows to insert,
\* what the handler still has to do to a document, the document's row to write.
\*   updWorkflow, updLine : sets of <<id, row>>   newLine, newWorkflow : sequences
\*   outcome : the approval status the handler will set, or "none"
\*   docs : set of <<document, row, approval>>    newProject : set of documents
Empty == [doc |-> "none", updWorkflow |-> {}, updLine |-> {}, newWorkflow |-> << >>,
          newLine |-> << >>, outcome |-> "none", docs |-> {}, newProject |-> {}]

Idle == [Empty EXCEPT !.doc = "idle"]

InFlight == {s \in Sessions : tx[s] # Idle}

Admitted(s) == tx[s] = Idle /\ Cardinality(InFlight) < MaxInFlight

Begin(s, writes) ==
    /\ Admitted(s)
    /\ tx' = [tx EXCEPT ![s] = writes]
    /\ UNCHANGED vars

\* Hibernate writes an entity only when a field differs from what was loaded.
DocWrite(d, newRow, newApproval) ==
    IF row[d] = newRow /\ approval[d] = newApproval THEN {} ELSE {<<d, newRow, newApproval>>}

-----------------------------------------------------------------------------
(* The first transaction step: read, validate, compute.                    *)

\* startWorkflow up to its inserts, which nobody sees before the commit.
BeginStart(s, d, u, docs) ==
    /\ Len(workflow) + Cardinality({r \in InFlight : tx[r].newWorkflow # << >>}) < MaxWorkflows
    /\ LiveWorkflows(d) = {}
    /\ AlarmTypeExists(DomainOf[d], "APPROVAL_REQUEST")
    /\ \E t \in DOMAIN template :
         /\ ActiveTemplates(DomainOf[d]) = {t}
         /\ \E i \in DOMAIN template[t].steps :
              /\ StepsAt(t, 1) = {i}
              /\ IsAtLeast(u, template[t].steps[i].position)
              /\ Begin(s, [Empty EXCEPT
                     !.doc = d,
                     !.newWorkflow = <<[doc |-> d, template |-> t,
                                        status |-> "IN_PROGRESS", current |-> 1]>>,
                     !.newLine = <<NewLine(0, template[t].steps[i], u)>>,
                     !.docs = docs])

TxStart(s, d, u) == BeginStart(s, d, u, {})

TxSubmit(s, d, u) ==
    /\ HasHandler(DomainOf[d])
    /\ row[d] = "live" /\ approval[d] = "DRAFT"
    /\ BeginStart(s, d, u, DocWrite(d, "live", "PENDING"))

TxApprove(s, w, u, v) ==
    \E l \in DOMAIN line :
      LET t == workflow[w].template
          n == workflow[w].current + 1
          decided == {<<l, [line[l] EXCEPT !.status = "APPROVED"]>>}
      IN
      /\ Decidable(w, l, u)
      /\ \/ \E i \in StepsAt(t, n) :
              /\ StepsAt(t, n) = {i}
              /\ IsAtLeast(v, template[t].steps[i].position)
              /\ Begin(s, [Empty EXCEPT
                     !.doc = workflow[w].doc,
                     !.updWorkflow = {<<w, [workflow[w] EXCEPT !.current = n]>>},
                     !.updLine = decided,
                     !.newLine = <<NewLine(w, template[t].steps[i], v)>>])
         \/ /\ StepsAt(t, n) = {}
            /\ AlarmTypeExists(DomainOf[workflow[w].doc], "APPROVED")
            /\ Begin(s, [Empty EXCEPT
                     !.doc = workflow[w].doc,
                     !.updWorkflow = {<<w, [workflow[w] EXCEPT !.status = "APPROVED",
                                                               !.current = 0]>>},
                     !.updLine = decided,
                     !.outcome = "APPROVED"])

TxReject(s, w, u) ==
    \E l \in DOMAIN line :
      /\ Decidable(w, l, u)
      /\ AlarmTypeExists(DomainOf[workflow[w].doc], "REJECTED")
      /\ Begin(s, [Empty EXCEPT
             !.doc = workflow[w].doc,
             !.updWorkflow = {<<w, [workflow[w] EXCEPT !.status = "REJECTED"]>>},
             !.updLine = {<<l, [line[l] EXCEPT !.status = "REJECTED"]>>},
             !.outcome = "REJECTED"])

TxCancel_NoHandler(s, w) ==
    /\ InProgress(w)
    /\ Begin(s, [Empty EXCEPT
           !.doc = workflow[w].doc,
           !.updWorkflow = {<<w, [workflow[w] EXCEPT !.status = "CANCELED"]>>}])

TxCancel_Cancelled(s, w) ==
    /\ InProgress(w)
    /\ Begin(s, [Empty EXCEPT
           !.doc = workflow[w].doc,
           !.updWorkflow = {<<w, [workflow[w] EXCEPT !.status = "CANCELED"]>>},
           !.outcome = "CANCELLED"])

TxCancel(s, w) ==
    /\ InProgress(w)
    /\ Begin(s, [Empty EXCEPT
           !.doc = workflow[w].doc,
           !.updWorkflow = {<<w, [workflow[w] EXCEPT !.status = "CANCELED"]>>},
           !.outcome = "CANCELED"])

TxDelete(s, d) ==
    /\ row[d] = "live"
    /\ Begin(s, [Empty EXCEPT !.doc = d, !.docs = {<<d, "deleted", approval[d]>>}])

-----------------------------------------------------------------------------
(* The second step: onApproved, onRejected, onCancelled load the document. *)

CreatesProject_Never(s) == FALSE

CreatesProject(s) ==
    tx[s].outcome = "APPROVED" /\ DomainOf[tx[s].doc] = "ORDER_REPORT"

HandlerAccepts(s) ==
    /\ HasHandler(DomainOf[tx[s].doc]) => row[tx[s].doc] = "live"
    /\ CreatesProject(s) => tx[s].doc \notin project

LoadDocument(s) ==
    LET d == tx[s].doc IN
    /\ tx[s].outcome # "none"
    /\ HandlerAccepts(s)
    /\ tx' = [tx EXCEPT
           ![s].outcome = "none",
           ![s].docs = IF HasHandler(DomainOf[d]) THEN DocWrite(d, "live", tx[s].outcome) ELSE {},
           ![s].newProject = IF CreatesProject(s) THEN {d} ELSE {}]
    /\ UNCHANGED vars

\* The handler throws, or the insert breaks the unique order_report_id.
Rollback(s) ==
    /\ tx[s] # Idle
    /\ \/ tx[s].outcome # "none" /\ ~HandlerAccepts(s)
       \/ tx[s].newProject \cap project # {}
    /\ tx' = [tx EXCEPT ![s] = Idle]
    /\ UNCHANGED vars

-----------------------------------------------------------------------------
(* The last step: the flush, whatever has been committed in between.       *)

Overwrite(f, updates) ==
    [i \in DOMAIN f |-> IF \E u \in updates : u[1] = i
                        THEN (CHOOSE u \in updates : u[1] = i)[2] ELSE f[i]]

Commit(s) ==
    LET c == tx[s]
        inserted == [i \in DOMAIN c.newLine |->
                       IF c.newWorkflow = << >> THEN c.newLine[i]
                       ELSE [c.newLine[i] EXCEPT !.workflow = Len(workflow) + 1]]
    IN
    /\ c # Idle
    /\ c.outcome = "none"
    /\ c.newProject \cap project = {}
    /\ workflow' = Overwrite(workflow, c.updWorkflow) \o c.newWorkflow
    /\ line' = Overwrite(line, c.updLine) \o inserted
    /\ row' = Overwrite(row, {<<w[1], w[2]>> : w \in c.docs})
    /\ approval' = Overwrite(approval, {<<w[1], w[3]>> : w \in c.docs})
    /\ project' = project \cup c.newProject
    /\ tx' = [tx EXCEPT ![s] = Idle]
    /\ UNCHANGED <<template, position>>

-----------------------------------------------------------------------------

TxInit == Init /\ tx = [s \in Sessions |-> Idle]

\* Requests whose reads and writes no rule here tells apart: one step each.
ShortRequest ==
    /\ Cardinality(InFlight) < MaxInFlight
    /\ \/ \E d \in Docs : Create(d) \/ RegisterProject(d)
       \/ \E plan \in Plans, t \in DOMAIN template, active \in BOOLEAN :
            UpdateTemplate(t, active, plan)
    /\ UNCHANGED tx

TxNext ==
    \/ \E s \in Sessions :
         \/ \E d \in Docs, u \in Users : TxStart(s, d, u) \/ TxSubmit(s, d, u)
         \/ \E d \in Docs : TxDelete(s, d)
         \/ \E w \in DOMAIN workflow, u, v \in Users : TxApprove(s, w, u, v)
         \/ \E w \in DOMAIN workflow, u \in Users : TxReject(s, w, u)
         \/ \E w \in DOMAIN workflow : TxCancel(s, w)
         \/ LoadDocument(s) \/ Rollback(s) \/ Commit(s)
    \/ ShortRequest

TxSpec == TxInit /\ [][TxNext]_txVars

-----------------------------------------------------------------------------
(* Properties.                                                             *)

\* The rows keep their types and a transaction in flight holds a write set for
\* rows that exist.
TxTypeOK ==
    /\ TypeOK
    /\ \A s \in InFlight :
         /\ tx[s].doc \in Docs
         /\ \A u \in tx[s].updWorkflow : u[1] \in DOMAIN workflow /\ u[2] \in WorkflowRow
         /\ \A u \in tx[s].updLine : u[1] \in DOMAIN line /\ u[2] \in LineRow
         /\ tx[s].outcome \in ApprovalStatus \cup {"none"}

\* However requests overlap, a document that is there and says PENDING has a
\* workflow in progress that somebody can still decide or cancel.
PendingIsAlive ==
    \A d \in Docs : row[d] = "live" /\ approval[d] = "PENDING" => LiveWorkflows(d) # {}

\* However requests overlap, an order report reads APPROVED only with its project.
ApprovedReportHasProject ==
    \A d \in Docs :
        DomainOf[d] = "ORDER_REPORT" /\ approval[d] = "APPROVED" => d \in project

=============================================================================
