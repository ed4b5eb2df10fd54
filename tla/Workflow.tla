------------------------------ MODULE Workflow ------------------------------
(***************************************************************************)
(* The approval engine of the Orbis backend (domain/admin/workflow).       *)
(*                                                                         *)
(* A document (a quotation, an order report, a billing ...) is approved by *)
(* a workflow: one line per step of the domain's template, each line       *)
(* decided by one approver.  Every action below is one service method, run *)
(* as one transaction that no other transaction overlaps; WorkflowTx opens *)
(* that assumption.  A method that throws rolls its transaction back, so a *)
(* refused call is an action that is not enabled.                          *)
(*                                                                         *)
(* A definition named X_Fault is X with a plausible bug seeded in it; no   *)
(* specification uses it.  PROJECT.json names the property that tells the  *)
(* two apart.                                                              *)
(***************************************************************************)
EXTENDS Naturals, Sequences, FiniteSets

CONSTANTS
    Users,            \* accounts that request, approve, administer
    Docs,             \* (domain, targetId) pairs
    DomainOf,         \* the WorkflowDomain of each of them
    InitialPosition,  \* the position each user starts with
    Seeded,           \* the domains whose templates the initializer creates
    Plans,            \* the step lists an administrator posts
    MaxWorkflows,     \* bound: workflows ever started
    MaxTemplates      \* bound: templates ever created

WorkflowDomain ==
    {"QUOTATION", "MAINTENANCE_QUOTATION", "ORDER_REPORT", "CONTRACT",
     "PURCHASE_CONTRACT", "FREE_MAINTENANCE_CONTRACT",
     "PAID_MAINTENANCE_CONTRACT", "LICENSE", "BILLING", "CUSTOMER_SUPPORT",
     "PRB", "PRB_RESULT", "BID_RESULT"}

Position == 1..3      \* TEAM_MEMBER, TEAM_LEADER, HEAD_DIRECTOR

ApprovalStatus == {"DRAFT", "PENDING", "APPROVED", "REJECTED", "CANCELED"}
WorkflowStatus == {"IN_PROGRESS", "APPROVED", "REJECTED", "CANCELED"}
WorkflowLineStatus == {"PENDING", "APPROVED", "REJECTED"}

StepRow == [order : Nat, position : Position]

ASSUME WorkflowAssumption ==
    /\ DomainOf \in [Docs -> WorkflowDomain]
    /\ InitialPosition \in [Users -> Position]
    /\ Seeded \in Seq(WorkflowDomain)
    /\ Plans \subseteq Seq(StepRow)
    /\ MaxWorkflows \in Nat
    /\ MaxTemplates \in Nat

VARIABLES
    template,  \* template rows; steps are the rows of WorkflowStep still active
    position,  \* each user's position
    workflow,  \* workflow rows, in id order
    line,      \* workflow_line rows, in id order
    row,       \* whether the document's row is not there yet, there, or soft deleted
    approval,  \* the document's approvalStatus
    project    \* order reports some project row refers to

vars == <<template, position, workflow, line, row, approval, project>>

TemplateRow == [domain : WorkflowDomain, active : BOOLEAN, steps : Seq(StepRow)]
WorkflowRow == [doc : Docs, template : Nat, status : WorkflowStatus, current : Nat]
LineRow == [workflow : Nat, order : Nat, position : Position, approver : Users,
            status : WorkflowLineStatus]

-----------------------------------------------------------------------------
(* What the repositories and the enums answer.                             *)

ActiveTemplates(dom) ==
    {t \in DOMAIN template : template[t].domain = dom /\ template[t].active}

StepsAt(t, n) == {s \in DOMAIN template[t].steps : template[t].steps[s].order = n}

LiveWorkflows(d) ==
    {w \in DOMAIN workflow : workflow[w].doc = d /\ workflow[w].status = "IN_PROGRESS"}

CurrentLines(w) ==
    {l \in DOMAIN line : /\ line[l].workflow = w
                         /\ line[l].order = workflow[w].current
                         /\ line[l].status = "PENDING"}

IsAtLeast(u, p) == position[u] >= p

\* AlarmType.valueOf(domain + "_" + kind) finds a constant.
AlarmTypeExists(dom, kind) ==
    /\ dom \notin {"PRB", "PRB_RESULT", "BID_RESULT"}
    /\ dom = "PURCHASE_CONTRACT" => kind = "APPROVAL_REQUEST"

HasHandler(dom) == dom # "PURCHASE_CONTRACT"

-----------------------------------------------------------------------------

SeedPlan(dom) ==
    IF dom \in {"LICENSE", "BILLING", "CUSTOMER_SUPPORT"}
    THEN <<[order |-> 1, position |-> 1], [order |-> 2, position |-> 2],
           [order |-> 3, position |-> 3]>>
    ELSE <<[order |-> 1, position |-> 2], [order |-> 2, position |-> 3]>>

SeedTemplate(dom) == [domain |-> dom, active |-> TRUE, steps |-> SeedPlan(dom)]

\* The state after the first start on an empty database.
Init ==
    /\ template = [i \in DOMAIN Seeded |-> SeedTemplate(Seeded[i])]
    /\ position = InitialPosition
    /\ workflow = << >>
    /\ line = << >>
    /\ row = [d \in Docs |-> "none"]
    /\ approval = [d \in Docs |-> "DRAFT"]
    /\ project = {}

-----------------------------------------------------------------------------
(* startWorkflow and the two ways into it.                                 *)

NewLine(w, step, u) ==
    [workflow |-> w, order |-> step.order, position |-> step.position,
     approver |-> u, status |-> "PENDING"]

startWorkflow_NoDuplicateCheck(d, u) ==
    /\ Len(workflow) < MaxWorkflows
    /\ \E t \in ActiveTemplates(DomainOf[d]) : \E s \in StepsAt(t, 1) :
         /\ workflow' = Append(workflow, [doc |-> d, template |-> t,
                                          status |-> "IN_PROGRESS", current |-> 1])
         /\ line' = Append(line, NewLine(Len(workflow) + 1, template[t].steps[s], u))

\* Optional-returning queries throw on two rows, so "the" template and "the"
\* first step are singletons.
startWorkflow(d, u) ==
    /\ Len(workflow) < MaxWorkflows
    /\ LiveWorkflows(d) = {}
    /\ AlarmTypeExists(DomainOf[d], "APPROVAL_REQUEST")
    /\ \E t \in DOMAIN template :
         /\ ActiveTemplates(DomainOf[d]) = {t}
         /\ \E s \in DOMAIN template[t].steps :
              /\ StepsAt(t, 1) = {s}
              /\ IsAtLeast(u, template[t].steps[s].position)
              /\ workflow' = Append(workflow, [doc |-> d, template |-> t,
                                               status |-> "IN_PROGRESS", current |-> 1])
              /\ line' = Append(line, NewLine(Len(workflow) + 1, template[t].steps[s], u))

\* POST /admin/workflows/start: the document is neither read nor written.
Start(d, u) ==
    /\ startWorkflow(d, u)
    /\ UNCHANGED <<template, position, row, approval, project>>

\* submitQuotation, submitOrderReport, ...: only a draft, which becomes PENDING.
Submit(d, u) ==
    /\ HasHandler(DomainOf[d]) /\ DomainOf[d] # "BILLING"
    /\ row[d] = "live"
    /\ approval[d] = "DRAFT"
    /\ startWorkflow(d, u)
    /\ approval' = [approval EXCEPT ![d] = "PENDING"]
    /\ UNCHANGED <<template, position, row, project>>

\* registerBilling creates the billing and submits it in one transaction.
Register(d, u) ==
    /\ DomainOf[d] = "BILLING"
    /\ row[d] = "none"
    /\ startWorkflow(d, u)
    /\ row' = [row EXCEPT ![d] = "live"]
    /\ approval' = [approval EXCEPT ![d] = "PENDING"]
    /\ UNCHANGED <<template, position, project>>

-----------------------------------------------------------------------------
(* approve, reject, cancel.                                                *)

InProgress(w) == w \in DOMAIN workflow /\ workflow[w].status = "IN_PROGRESS"

Decidable_AfterTheEnd(w, l, u) == CurrentLines(w) = {l} /\ line[l].approver = u

\* getCurrentLine and validateApprover: the line u may decide.
Decidable(w, l, u) ==
    /\ InProgress(w)
    /\ CurrentLines(w) = {l}
    /\ line[l].approver = u

Handle_PendingOnly(d, outcome) ==
    IF HasHandler(DomainOf[d]) /\ approval[d] = "PENDING"
    THEN row[d] = "live" /\ approval' = [approval EXCEPT ![d] = outcome]
    ELSE UNCHANGED approval

\* A WorkflowDomainHandler call: the document must still be found.
Handle(d, outcome) ==
    IF HasHandler(DomainOf[d])
    THEN row[d] = "live" /\ approval' = [approval EXCEPT ![d] = outcome]
    ELSE UNCHANGED approval

onApproved_EveryTime(w) ==
    LET d == workflow[w].doc IN
    /\ Handle(d, "APPROVED")
    /\ project' = IF DomainOf[d] = "ORDER_REPORT" THEN project \cup {d} ELSE project

\* onApproved: an order report also gets its project, unless it has one already;
\* a billing looks its workflow up by target, which must be the only one.
onApproved(w) ==
    LET d == workflow[w].doc IN
    /\ Handle(d, "APPROVED")
    /\ IF DomainOf[d] = "ORDER_REPORT"
       THEN d \notin project /\ project' = project \cup {d}
       ELSE UNCHANGED project
    /\ DomainOf[d] = "BILLING" =>
         \A v \in DOMAIN workflow : workflow[v].doc = d => v = w

Forward_LineLeftPending(w, l, v) ==
    LET n == workflow[w].current + 1 IN
    \E s \in StepsAt(workflow[w].template, n) :
      /\ workflow' = [workflow EXCEPT ![w].current = n]
      /\ line' = Append(line, NewLine(w, template[workflow[w].template].steps[s], v))
      /\ UNCHANGED <<approval, project>>

Forward_NoApproveNext(w, l, v) ==
    \E s \in StepsAt(workflow[w].template, workflow[w].current + 1) :
      /\ line' = Append([line EXCEPT ![l].status = "APPROVED"],
                        NewLine(w, template[workflow[w].template].steps[s], v))
      /\ UNCHANGED <<workflow, approval, project>>

Forward_NoLine(w, l, v) ==
    /\ StepsAt(workflow[w].template, workflow[w].current + 1) # {}
    /\ workflow' = [workflow EXCEPT ![w].current = @ + 1]
    /\ line' = [line EXCEPT ![l].status = "APPROVED"]
    /\ UNCHANGED <<approval, project>>

\* The template still has a step after the current one: its line is created.
Forward(w, l, v) ==
    LET t == workflow[w].template
        n == workflow[w].current + 1
    IN  \E s \in StepsAt(t, n) :
          /\ StepsAt(t, n) = {s}
          /\ IsAtLeast(v, template[t].steps[s].position)
          /\ workflow' = [workflow EXCEPT ![w].current = n]
          /\ line' = Append([line EXCEPT ![l].status = "APPROVED"],
                            NewLine(w, template[t].steps[s], v))
          /\ UNCHANGED <<approval, project>>

Complete_AtAnyStep(w, l) ==
    /\ AlarmTypeExists(DomainOf[workflow[w].doc], "APPROVED")
    /\ onApproved(w)
    /\ workflow' = [workflow EXCEPT ![w].status = "APPROVED", ![w].current = 0]
    /\ line' = [line EXCEPT ![l].status = "APPROVED"]

\* It has none: the approval is final.
Complete(w, l) ==
    /\ StepsAt(workflow[w].template, workflow[w].current + 1) = {}
    /\ AlarmTypeExists(DomainOf[workflow[w].doc], "APPROVED")
    /\ onApproved(w)
    /\ workflow' = [workflow EXCEPT ![w].status = "APPROVED", ![w].current = 0]
    /\ line' = [line EXCEPT ![l].status = "APPROVED"]

Approve(w, u, v) ==
    \E l \in DOMAIN line :
      /\ Decidable(w, l, u)
      /\ Forward(w, l, v) \/ Complete(w, l)
      /\ UNCHANGED <<template, position, row>>

Reject(w, u) ==
    \E l \in DOMAIN line :
      /\ Decidable(w, l, u)
      /\ AlarmTypeExists(DomainOf[workflow[w].doc], "REJECTED")
      /\ Handle(workflow[w].doc, "REJECTED")
      /\ workflow' = [workflow EXCEPT ![w].status = "REJECTED"]
      /\ line' = [line EXCEPT ![l].status = "REJECTED"]
      /\ UNCHANGED <<template, position, row, project>>

Cancel_NoHandler(w) ==
    /\ InProgress(w)
    /\ workflow' = [workflow EXCEPT ![w].status = "CANCELED"]
    /\ UNCHANGED <<template, position, line, row, approval, project>>

Cancel_Cancelled(w) ==
    /\ InProgress(w)
    /\ Handle(workflow[w].doc, "CANCELLED")
    /\ workflow' = [workflow EXCEPT ![w].status = "CANCELED"]
    /\ UNCHANGED <<template, position, line, row, project>>

\* Any caller may cancel; the pending line is left as it is.
Cancel(w) ==
    /\ InProgress(w)
    /\ Handle(workflow[w].doc, "CANCELED")
    /\ workflow' = [workflow EXCEPT ![w].status = "CANCELED"]
    /\ UNCHANGED <<template, position, line, row, project>>

-----------------------------------------------------------------------------
(* The other transactions on the tables the engine reads.                  *)

\* create of a document service; billings are created by Register.
Create(d) ==
    /\ DomainOf[d] # "BILLING"
    /\ row[d] = "none"
    /\ row' = [row EXCEPT ![d] = "live"]
    /\ UNCHANGED <<template, position, workflow, line, approval, project>>

\* delete of a document service.  Only deleteBilling looks at a status: the
\* billing status leaves REQUESTED with the final approval and never returns.
Delete(d) ==
    /\ row[d] = "live"
    /\ DomainOf[d] = "BILLING" =>
         \A w \in DOMAIN workflow : workflow[w].doc = d => workflow[w].status # "APPROVED"
    /\ row' = [row EXCEPT ![d] = "deleted"]
    /\ UNCHANGED <<template, position, workflow, line, approval, project>>

\* registerProject: an order report of any approval status gets a project.
RegisterProject(d) ==
    /\ DomainOf[d] = "ORDER_REPORT"
    /\ row[d] = "live"
    /\ d \notin project
    /\ project' = project \cup {d}
    /\ UNCHANGED <<template, position, workflow, line, row, approval>>

CreateTemplate(dom, plan) ==
    /\ Len(template) < MaxTemplates
    /\ ActiveTemplates(dom) = {}
    /\ template' = Append(template, [domain |-> dom, active |-> TRUE, steps |-> plan])
    /\ UNCHANGED <<position, workflow, line, row, approval, project>>

\* update replaces every active step, of workflows in progress too, and may
\* activate a second template of the domain.
UpdateTemplate(t, active, plan) ==
    /\ t \in DOMAIN template
    /\ template' = [template EXCEPT ![t].active = active, ![t].steps = plan]
    /\ UNCHANGED <<position, workflow, line, row, approval, project>>

\* The initializer runs at every start and seeds, in one transaction and in its
\* order, the domains without an active template.  Where a domain has two the
\* query throws and the backend does not come up: no action.
Restart ==
    LET missing == {i \in DOMAIN Seeded : ActiveTemplates(Seeded[i]) = {}} IN
    /\ \A i \in DOMAIN Seeded :
         \A s, t \in ActiveTemplates(Seeded[i]) : s = t
    /\ missing # {}
    /\ Len(template) + Cardinality(missing) <= MaxTemplates
    /\ \E added \in [1..Cardinality(missing) -> missing] :
         /\ \A i, j \in DOMAIN added : i < j => added[i] < added[j]
         /\ template' = template \o [i \in DOMAIN added |-> SeedTemplate(Seeded[added[i]])]
    /\ UNCHANGED <<position, workflow, line, row, approval, project>>

UpdateUser(u, p) ==
    /\ position' = [position EXCEPT ![u] = p]
    /\ UNCHANGED <<template, workflow, line, row, approval, project>>

-----------------------------------------------------------------------------

Decide(w) == \E u, v \in Users : Approve(w, u, v) \/ Reject(w, u)

Next ==
    \/ \E d \in Docs :
         \/ \E u \in Users : Start(d, u) \/ Submit(d, u) \/ Register(d, u)
         \/ Create(d) \/ Delete(d) \/ RegisterProject(d)
    \/ \E w \in DOMAIN workflow : Decide(w) \/ Cancel(w)
    \/ \E plan \in Plans :
         \/ \E d \in Docs : CreateTemplate(DomainOf[d], plan)
         \/ \E t \in DOMAIN template, active \in BOOLEAN : UpdateTemplate(t, active, plan)
    \/ Restart
    \/ \E u \in Users, p \in Position : UpdateUser(u, p)

Spec == Init /\ [][Next]_vars

\* The current approver of every workflow decides in the end; nobody is
\* expected to submit, cancel, delete or administer anything.
FairSpec == Spec /\ \A w \in 1..MaxWorkflows : WF_vars(Decide(w))

-----------------------------------------------------------------------------
(* Properties.                                                             *)

TypeOK ==
    /\ template \in Seq(TemplateRow)
    /\ position \in [Users -> Position]
    /\ workflow \in Seq(WorkflowRow)
    /\ line \in Seq(LineRow)
    /\ row \in [Docs -> {"none", "live", "deleted"}]
    /\ approval \in [Docs -> ApprovalStatus]
    /\ project \in SUBSET Docs

\* validateDuplicateWorkflow: a document has at most one workflow in progress,
\* and it is the newest of the document's workflows.
LiveIsNewest ==
    \A v, w \in DOMAIN workflow :
        workflow[v].doc = workflow[w].doc /\ workflow[v].status = "IN_PROGRESS" => w <= v

\* getCurrentLine always finds exactly one line: a workflow in progress waits
\* for one approver, at its current step, however templates are edited.
OneCurrentLine ==
    \A w \in DOMAIN workflow : InProgress(w) =>
        \E l \in DOMAIN line :
            /\ CurrentLines(w) = {l}
            /\ \A k \in DOMAIN line :
                 line[k].workflow = w /\ line[k].status = "PENDING" => k = l

\* The lines before the current one (all lines, once approved) are approvals of
\* the steps 1, 2, ... without a gap, one line for each.
ChainOf(w) == {l \in DOMAIN line : line[l].workflow = w}

ApprovalChain ==
    \A w \in DOMAIN workflow :
        LET n == Cardinality(ChainOf(w)) IN
        /\ {line[l].order : l \in ChainOf(w)} = 1..n
        /\ workflow[w].status # "APPROVED" => workflow[w].current = n
        /\ \A l \in ChainOf(w) :
             line[l].order < n \/ workflow[w].status = "APPROVED"
                => line[l].status = "APPROVED"

\* The approval status a reader of the document sees is the outcome of its
\* last finished workflow, and no finished workflow means draft or pending.
StatusIsLastOutcome ==
    \A d \in Docs : HasHandler(DomainOf[d]) =>
        LET finished == {w \in DOMAIN workflow : workflow[w].doc = d
                                               /\ workflow[w].status # "IN_PROGRESS"}
        IN  IF finished = {}
            THEN approval[d] \in {"DRAFT", "PENDING"}
            ELSE \E w \in finished :
                   (\A v \in finished : v <= w) /\ approval[d] = workflow[w].status

\* Nothing waits for a workflow that is not there: a document that still says
\* PENDING has a workflow in progress.
PendingHasWorkflow ==
    \A d \in Docs : approval[d] = "PENDING" => LiveWorkflows(d) # {}

\* OrderReportHandler.onApproved: every order report approved in the end has
\* its project, and no report and no billing is approved twice.
ApprovedOnceWithProject ==
    \A d \in Docs :
        LET done == {w \in DOMAIN workflow : workflow[w].doc = d
                                           /\ workflow[w].status = "APPROVED"}
        IN  DomainOf[d] \in {"ORDER_REPORT", "BILLING"} =>
              /\ Cardinality(done) <= 1
              /\ DomainOf[d] = "ORDER_REPORT" /\ done # {} => d \in project

needNextApprover_OffByOne(w) ==
    InProgress(w) /\ workflow[w].current <= Len(template[workflow[w].template].steps)

needNextApprover(w) ==
    InProgress(w) /\ workflow[w].current < Len(template[workflow[w].template].steps)

\* toWorkflowResponse: the answer to "is a next approver to be chosen?", which
\* counts the active steps, agrees with what approve does with the choice.
NextApproverHint ==
    \A w \in DOMAIN workflow : InProgress(w) =>
        (needNextApprover(w) <=>
            StepsAt(workflow[w].template, workflow[w].current + 1) # {})

\* A decision is final: a finished workflow, a decided line and the line's
\* approver never change, and no line or workflow disappears.
DecisionsAreFinal ==
    [][/\ \A w \in DOMAIN workflow :
            w \in DOMAIN workflow' /\ (~InProgress(w) => workflow'[w] = workflow[w])
       /\ \A l \in DOMAIN line :
            /\ l \in DOMAIN line'
            /\ line'[l].approver = line[l].approver
            /\ line[l].status # "PENDING" => line'[l] = line[l]]_vars

\* A workflow is approved only when every step its template has at that moment
\* is covered by an approved line of the workflow.
NoStepSkipped ==
    [][\A w \in DOMAIN workflow :
         InProgress(w) /\ workflow'[w].status = "APPROVED" =>
           \A s \in DOMAIN template[workflow[w].template].steps :
             \E l \in DOMAIN line' :
               /\ line'[l].workflow = w
               /\ line'[l].order = template[workflow[w].template].steps[s].order
               /\ line'[l].status = "APPROVED"]_vars

\* If current approvers keep deciding, a workflow is in progress forever only
\* when its document is missing.
EveryWorkflowEnds ==
    \A w \in 1..MaxWorkflows :
        InProgress(w) ~> \/ ~InProgress(w)
                        \/ row[workflow[w].doc] # "live"

\* The engine does what Approval promises: a document waits while one of its
\* workflows is in progress, and its status is the one its reader sees.
Promise ==
    INSTANCE Approval WITH
        Documents <- Docs,
        Followed <- {d \in Docs : HasHandler(DomainOf[d])},
        status <- approval,
        waiting <- {d \in Docs : LiveWorkflows(d) # {}}

KeepsPromise == Promise!Spec

=============================================================================
