---------------------------- MODULE PromiseProofs ----------------------------
(***************************************************************************)
(* The approval engine implements Approval, for every set of users and     *)
(* documents, every template and every bound; and what its documents show  *)
(* follows from it.                                                        *)
(*                                                                         *)
(* A workflow that begins maps to Ask, one that ends to Decide, and every  *)
(* other step to a stutter.  Three facts about the states make it so: a    *)
(* document has one workflow in progress at a time (LiveIsNewest), so that *)
(* the end of one is the end of the wait; a document that is not there yet *)
(* is a draft, so that registering a billing never takes a decision back;  *)
(* and the types.                                                          *)
(***************************************************************************)
EXTENDS WorkflowProofs

\* A document that has not been created has not been decided either.
NewIsDraft == \A d \in Docs : row[d] = "none" => approval[d] = "DRAFT"

PromiseInv == TypeInv /\ LiveIsNewest /\ NewIsDraft

-----------------------------------------------------------------------------

\* A handler must find the document, so what it writes is never the status of
\* a document that is not there.
LEMMA HandleKeepsNew ==
    ASSUME TypeOK, NewIsDraft, NEW d \in Docs, NEW outcome \in ApprovalStatus,
           Handle(d, outcome), UNCHANGED row
    PROVE  NewIsDraft'
  BY DEF Handle, NewIsDraft, TypeOK

\* No step brings a document back to the time before it was created.
LEMMA NewIsDraftStep ==
    ASSUME TypeInv, NewIsDraft, [Next]_vars
    PROVE  NewIsDraft'
<1>0. TypeOK /\ approval \in [Docs -> ApprovalStatus] /\ row \in [Docs -> {"none", "live", "deleted"}]
  BY DEF TypeInv, TypeOK
<1>1. ASSUME NEW w \in DOMAIN workflow PROVE workflow[w].doc \in Docs
  <2>1. workflow[w] \in WorkflowRow
    BY <1>0 DEF TypeOK
  <2> QED
    BY <2>1 DEF WorkflowRow
<1>2. CASE \E d \in Docs, u \in Users : Start(d, u)
  BY <1>2 DEF Start, NewIsDraft
<1>3. CASE \E d \in Docs, u \in Users : Submit(d, u) \/ Register(d, u)
  BY <1>0, <1>3 DEF Submit, Register, NewIsDraft
<1>4. CASE \E d \in Docs : Create(d) \/ Delete(d) \/ RegisterProject(d)
  BY <1>0, <1>4 DEF Create, Delete, RegisterProject, NewIsDraft
<1>5. CASE \E w \in DOMAIN workflow, u, v \in Users : Approve(w, u, v)
  <2>1. PICK w \in DOMAIN workflow, u \in Users, v \in Users, l \in DOMAIN line :
          (Forward(w, l, v) \/ Complete(w, l)) /\ UNCHANGED row
    BY <1>5 DEF Approve
  <2>2. CASE Forward(w, l, v)
    BY <2>1, <2>2 DEF Forward, NewIsDraft
  <2>3. CASE Complete(w, l)
    <3>1. Handle(workflow[w].doc, "APPROVED")
      BY <2>3 DEF Complete, onApproved
    <3> QED
      BY <1>0, <1>1, <2>1, <3>1, HandleKeepsNew DEF ApprovalStatus
  <2> QED
    BY <2>1, <2>2, <2>3
<1>6. CASE \E w \in DOMAIN workflow, u \in Users : Reject(w, u)
  <2>1. PICK w \in DOMAIN workflow : Handle(workflow[w].doc, "REJECTED") /\ UNCHANGED row
    BY <1>6 DEF Reject
  <2> QED
    BY <1>0, <1>1, <2>1, HandleKeepsNew DEF ApprovalStatus
<1>7. CASE \E w \in DOMAIN workflow : Cancel(w)
  <2>1. PICK w \in DOMAIN workflow : Handle(workflow[w].doc, "CANCELED") /\ UNCHANGED row
    BY <1>7 DEF Cancel
  <2> QED
    BY <1>0, <1>1, <2>1, HandleKeepsNew DEF ApprovalStatus
<1>8. CASE \E plan \in Plans :
             \/ \E d \in Docs : CreateTemplate(DomainOf[d], plan)
             \/ \E t \in DOMAIN template, active \in BOOLEAN : UpdateTemplate(t, active, plan)
  BY <1>8 DEF CreateTemplate, UpdateTemplate, NewIsDraft
<1>9. CASE Restart
  BY <1>9 DEF Restart, NewIsDraft
<1>10. CASE \E u \in Users, p \in Position : UpdateUser(u, p)
  BY <1>10 DEF UpdateUser, NewIsDraft
<1>11. CASE UNCHANGED vars
  BY <1>11 DEF vars, NewIsDraft
<1> QED
  BY <1>2, <1>3, <1>4, <1>5, <1>6, <1>7, <1>8, <1>9, <1>10, <1>11 DEF Next, Decide

-----------------------------------------------------------------------------
(* The refinement mapping, step by step.                                   *)

\* The documents the mapping takes to be waiting.
Awaited == {d \in Docs : LiveWorkflows(d) # {}}

\* A workflow that begins asks for a decision.
LEMMA BeginningAsks ==
    ASSUME PromiseInv, NEW d \in Docs, Begins(d)
    PROVE  Promise!Ask(d)
<1> DEFINE n == Len(workflow) + 1
<1>1. /\ LiveWorkflows(d) = {} /\ DOMAIN workflow' = DOMAIN workflow \cup {n}
      /\ workflow'[n].doc = d /\ workflow'[n].status = "IN_PROGRESS"
      /\ \A v \in DOMAIN workflow : v < n /\ workflow'[v] = workflow[v]
  BY BeginsRows DEF PromiseInv
<1>2. n \notin DOMAIN workflow
  BY <1>1 DEF PromiseInv, TypeInv, TypeOK
<1> HIDE DEF n
<1>3. n \in LiveWorkflows(d)'
  BY <1>1 DEF LiveWorkflows
<1>4. \A c \in Docs : c # d => LiveWorkflows(c)' = LiveWorkflows(c)
  BY <1>1, <1>2 DEF LiveWorkflows
<1>5. d \notin Awaited /\ Awaited' = Awaited \cup {d}
  BY <1>1, <1>3, <1>4 DEF Awaited
<1>6. \/ approval' = approval
      \/ /\ HasHandler(DomainOf[d]) /\ approval[d] = "DRAFT"
         /\ approval' = [approval EXCEPT ![d] = "PENDING"]
  BY DEF Begins, PromiseInv, NewIsDraft
<1> QED
  BY <1>5, <1>6 DEF Promise!Ask, Awaited

\* A workflow that ends decides: being the only one in progress, it leaves
\* none behind.
LEMMA EndingDecides ==
    ASSUME PromiseInv, NEW w \in DOMAIN workflow, Ends(w)
    PROVE  \E d \in Docs : \E decision \in Promise!Decision : Promise!Decide(d, decision)
<1>1. workflow \in Seq(WorkflowRow)
  BY DEF PromiseInv, TypeInv, TypeOK
<1>2. workflow[w] \in WorkflowRow
  BY <1>1
<1>3. workflow[w].doc \in Docs
  BY <1>2 DEF WorkflowRow
<1>4. workflow'[w].status \in Finals
  BY EndsRows DEF PromiseInv
<1>5. PICK d \in Docs, decision \in Finals : d = workflow[w].doc /\ decision = workflow'[w].status
  BY <1>3, <1>4
<1>6. /\ InProgress(w) /\ DOMAIN workflow' = DOMAIN workflow
      /\ \A v \in DOMAIN workflow :
           workflow'[v].doc = workflow[v].doc /\ (v # w => workflow'[v] = workflow[v])
      /\ approval' = IF HasHandler(DomainOf[d]) THEN [approval EXCEPT ![d] = decision] ELSE approval
  BY <1>5, EndsRows DEF PromiseInv
<1>7. LiveWorkflows(d) = {w}
  <2>1. w \in LiveWorkflows(d)
    BY <1>6, <1>5 DEF LiveWorkflows, InProgress
  <2>2. ASSUME NEW v \in LiveWorkflows(d) PROVE v = w
    <3>1. v <= w /\ w <= v
      BY <2>1 DEF LiveWorkflows, PromiseInv, LiveIsNewest
    <3> QED
      BY <3>1, <1>1 DEF LiveWorkflows
  <2> QED
    BY <2>1, <2>2
<1>8. LiveWorkflows(d)' = {}
  BY <1>6, <1>5, <1>7 DEF LiveWorkflows, Finals
<1>9. \A c \in Docs : c # d => LiveWorkflows(c)' = LiveWorkflows(c)
  BY <1>6, <1>5 DEF LiveWorkflows
<1>10. d \in Awaited /\ Awaited' = Awaited \ {d}
  BY <1>5, <1>7, <1>8, <1>9 DEF Awaited
<1>11. decision \in Promise!Decision
  BY <1>5 DEF Finals, Promise!Decision
<1>12. Promise!Decide(d, decision)
  BY <1>6, <1>10 DEF Promise!Decide, Awaited
<1> QED
  BY <1>5, <1>11, <1>12

\* Every step of the engine is a step of the promise, or none of its concern.
LEMMA PromiseStep ==
    ASSUME PromiseInv, [Next]_vars
    PROVE  [Promise!Next]_(Promise!promised)
<1>0. TypeInv
  BY DEF PromiseInv
<1>1. CASE \E d \in Docs : Begins(d)
  BY <1>1, BeginningAsks DEF Promise!Next
<1>2. CASE \E w \in DOMAIN workflow : Advances(w)
  <2>1. PICK w \in DOMAIN workflow, l \in DOMAIN line : AdvancedRows(w, l)
    BY <1>0, <1>2, AdvancesRows
  <2>2. \A d \in Docs : LiveWorkflows(d)' = LiveWorkflows(d)
    BY <2>1 DEF AdvancedRows, LiveWorkflows
  <2> QED
    BY <2>1, <2>2 DEF AdvancedRows, Promise!promised
<1>3. CASE \E w \in DOMAIN workflow : Ends(w)
  BY <1>3, EndingDecides DEF Promise!Next
<1>4. CASE Rests
  BY <1>4 DEF Rests, LiveWorkflows, Promise!promised
<1> QED
  BY <1>0, <1>1, <1>2, <1>3, <1>4, StepEffect

\* Nobody waits and everything is a draft at first.
LEMMA PromiseInit == Init => PromiseInv /\ Promise!Init
<1> SUFFICES ASSUME Init PROVE PromiseInv /\ Promise!Init
  OBVIOUS
<1>1. TypeInv /\ LiveIsNewest /\ NewIsDraft
  BY InitType DEF Init, LiveIsNewest, NewIsDraft
<1>2. {d \in Docs : LiveWorkflows(d) # {}} = {}
  BY DEF Init, LiveWorkflows
<1> QED
  BY <1>1, <1>2 DEF PromiseInv, Promise!Init, Init

\* Whatever the requests and in whatever order, a reader of a document sees
\* what Approval allows: its own decisions, one at a time, each as it is taken.
THEOREM EngineKeepsPromise == Spec => KeepsPromise
<1>1. PromiseInv /\ [Next]_vars => PromiseInv'
  BY TypeStep, LiveIsNewestStep, NewIsDraftStep DEF PromiseInv
<1>2. PromiseInv /\ [Next]_vars => [Promise!Next]_(Promise!promised)
  BY PromiseStep
<1> QED
  BY <1>1, <1>2, PromiseInit, PTL DEF Spec, KeepsPromise, Promise!Spec

-----------------------------------------------------------------------------
(* The status a document shows is the outcome of its last finished         *)
(* workflow.                                                               *)

Finished(d) == {w \in DOMAIN workflow : workflow[w].doc = d /\ workflow[w].status # "IN_PROGRESS"}

\* What StatusIsLastOutcome says of one document.
LastOutcome(d) ==
    IF Finished(d) = {} THEN approval[d] \in {"DRAFT", "PENDING"}
    ELSE \E w \in Finished(d) : (\A v \in Finished(d) : v <= w) /\ approval[d] = workflow[w].status

\* A finished workflow ended in one of three ways, none of which is a draft.
LEMMA FinishedEnded ==
    ASSUME TypeInv, NEW d \in Docs, NEW w \in Finished(d)
    PROVE  workflow[w].status \in Finals
<1>1. workflow[w] \in WorkflowRow
  BY DEF Finished, TypeInv, TypeOK
<1> QED
  BY <1>1 DEF Finished, WorkflowRow, WorkflowStatus, Finals

\* A submission finds a draft, which no finished workflow leaves behind; the
\* workflow that ends is the newest, so its outcome is the last.
LEMMA LastOutcomeStep ==
    ASSUME PromiseInv, StatusIsLastOutcome, [Next]_vars
    PROVE  StatusIsLastOutcome'
<1>0. /\ TypeInv /\ DOMAIN workflow \subseteq Nat
      /\ approval \in [Docs -> ApprovalStatus]
  BY DEF PromiseInv, TypeInv, TypeOK
<1>1. CASE \E d \in Docs : Begins(d)
  <2>1. PICK d \in Docs : Begins(d)
    BY <1>1
  <2> DEFINE n == Len(workflow) + 1
  <2>2. /\ DOMAIN workflow' = DOMAIN workflow \cup {n} /\ workflow'[n].status = "IN_PROGRESS"
        /\ \A v \in DOMAIN workflow : workflow'[v] = workflow[v]
    BY <1>0, <2>1, BeginsRows
  <2> HIDE DEF n
  <2>3. \A c \in Docs : Finished(c)' = Finished(c)
    BY <2>2 DEF Finished
  <2>4. \/ approval' = approval
        \/ approval[d] = "DRAFT" /\ approval' = [approval EXCEPT ![d] = "PENDING"]
    BY <2>1 DEF Begins, PromiseInv, NewIsDraft
  <2>5. ASSUME approval[d] = "DRAFT", HasHandler(DomainOf[d]) PROVE Finished(d) = {}
    <3>1. ASSUME NEW w \in Finished(d), approval[d] = workflow[w].status PROVE FALSE
      BY <1>0, <2>5, <3>1, FinishedEnded DEF Finals
    <3> QED
      BY <2>5, <3>1 DEF StatusIsLastOutcome, Finished
  <2>6. \A c \in Docs : \A w \in Finished(c) : workflow'[w] = workflow[w]
    BY <2>2 DEF Finished
  <2> SUFFICES ASSUME NEW c \in Docs, HasHandler(DomainOf[c])
               PROVE  LastOutcome(c)'
    BY DEF StatusIsLastOutcome, LastOutcome, Finished
  <2>7. LastOutcome(c)
    BY DEF StatusIsLastOutcome, LastOutcome, Finished
  <2>8. CASE approval' = approval
    BY <2>3, <2>6, <2>7, <2>8 DEF LastOutcome
  <2>9. CASE approval[d] = "DRAFT" /\ approval' = [approval EXCEPT ![d] = "PENDING"]
    <3>1. CASE c = d
      BY <1>0, <2>3, <2>5, <2>9, <3>1 DEF LastOutcome
    <3>2. CASE c # d
      <4>1. approval'[c] = approval[c]
        BY <1>0, <2>9, <3>2
      <4> QED
        BY <2>3, <2>6, <2>7, <4>1 DEF LastOutcome
    <3> QED
      BY <3>1, <3>2
  <2> QED
    BY <2>4, <2>8, <2>9
<1>2. CASE \E w \in DOMAIN workflow : Advances(w)
  <2>1. PICK w \in DOMAIN workflow, l \in DOMAIN line : AdvancedRows(w, l)
    BY <1>0, <1>2, AdvancesRows
  <2>2. /\ DOMAIN workflow' = DOMAIN workflow /\ approval' = approval
        /\ \A v \in DOMAIN workflow :
             workflow'[v].doc = workflow[v].doc /\ workflow'[v].status = workflow[v].status
    BY <2>1 DEF AdvancedRows
  <2> QED
    BY <2>2 DEF StatusIsLastOutcome
<1>3. CASE \E w \in DOMAIN workflow : Ends(w)
  <2>1. PICK w \in DOMAIN workflow : Ends(w)
    BY <1>3
  <2>2. workflow[w] \in WorkflowRow
    BY <1>0 DEF TypeInv, TypeOK
  <2>3. PICK d \in Docs : d = workflow[w].doc
    BY <2>2 DEF WorkflowRow
  <2>4. /\ InProgress(w) /\ DOMAIN workflow' = DOMAIN workflow /\ workflow'[w].status \in Finals
        /\ workflow'[w].doc = d
        /\ \A v \in DOMAIN workflow :
             workflow'[v].doc = workflow[v].doc /\ (v # w => workflow'[v] = workflow[v])
        /\ approval' = IF HasHandler(DomainOf[d])
                       THEN [approval EXCEPT ![d] = workflow'[w].status] ELSE approval
    BY <1>0, <2>1, <2>3, EndsRows
  <2>5. Finished(d)' = Finished(d) \cup {w}
    BY <2>4 DEF Finished, Finals
  <2>6. \A v \in Finished(d) \cup {w} : v <= w
    BY <1>0, <2>3, <2>4 DEF Finished, PromiseInv, LiveIsNewest, InProgress
  <2>7. \A c \in Docs : c # d => Finished(c)' = Finished(c) /\ approval'[c] = approval[c]
                                  /\ \A v \in Finished(c) : workflow'[v] = workflow[v]
    BY <1>0, <2>3, <2>4 DEF Finished
  <2> SUFFICES ASSUME NEW c \in Docs, HasHandler(DomainOf[c])
               PROVE  LastOutcome(c)'
    BY DEF StatusIsLastOutcome, LastOutcome, Finished
  <2>8. CASE c = d
    BY <1>0, <2>4, <2>5, <2>6, <2>8 DEF LastOutcome
  <2>9. CASE c # d
    <3>1. LastOutcome(c)
      BY DEF StatusIsLastOutcome, LastOutcome, Finished
    <3> QED
      BY <2>7, <2>9, <3>1 DEF LastOutcome
  <2> QED
    BY <2>8, <2>9
<1>4. CASE Rests
  BY <1>4 DEF Rests, StatusIsLastOutcome
<1> QED
  BY <1>0, <1>1, <1>2, <1>3, <1>4, StepEffect

\* A reader of a document sees the outcome of its last finished workflow, and
\* draft or pending as long as none has finished.
THEOREM LastOutcomeShown == Spec => []StatusIsLastOutcome
<1>1. Init => PromiseInv /\ StatusIsLastOutcome
  BY PromiseInit DEF Init, StatusIsLastOutcome
<1>2. PromiseInv /\ StatusIsLastOutcome /\ [Next]_vars => (PromiseInv /\ StatusIsLastOutcome)'
  BY TypeStep, LiveIsNewestStep, NewIsDraftStep, LastOutcomeStep DEF PromiseInv
<1> QED
  BY <1>1, <1>2, PTL DEF Spec

-----------------------------------------------------------------------------
(* An order report and a billing are approved once, the report with its    *)
(* project.                                                                *)

Done(d) == {w \in DOMAIN workflow : workflow[w].doc = d /\ workflow[w].status = "APPROVED"}

\* Only a completed workflow adds to the approved ones, and no project is lost.
LEMMA OnlyCompleting ==
    ASSUME TypeInv, [Next]_vars
    PROVE  \/ project \subseteq project' /\ \A d \in Docs : Done(d)' = Done(d)
           \/ \E w \in DOMAIN workflow, l \in DOMAIN line : InProgress(w) /\ Complete(w, l)
<1>0. workflow \in Seq(WorkflowRow)
  BY DEF TypeInv, TypeOK
<1>1. CASE \E d \in Docs, u \in Users : Start(d, u) \/ Submit(d, u) \/ Register(d, u)
  <2>1. PICK d \in Docs, u \in Users : Start(d, u) \/ Submit(d, u) \/ Register(d, u)
    BY <1>1
  <2>2. Begins(d) /\ project' = project
    BY <2>1, BeginsLemma DEF Start, Submit, Register
  <2> QED
    BY <2>2, BeginsRows DEF Done
<1>2. CASE \E d \in Docs : Create(d) \/ Delete(d) \/ RegisterProject(d)
  BY <1>2 DEF Create, Delete, RegisterProject, Done
<1>3. CASE \E w \in DOMAIN workflow, u, v \in Users : Approve(w, u, v)
  <2>1. PICK w \in DOMAIN workflow, u \in Users, v \in Users, l \in DOMAIN line :
          Decidable(w, l, u) /\ (Forward(w, l, v) \/ Complete(w, l))
    BY <1>3 DEF Approve
  <2>2. CASE Forward(w, l, v)
    <3>1. Advances(w) /\ project' = project
      BY <2>1, <2>2, ForwardWrites DEF Advances, Decidable, Forward
    <3>2. \E k \in DOMAIN line : AdvancedRows(w, k)
      BY <3>1, AdvancesRows
    <3> QED
      BY <3>1, <3>2 DEF AdvancedRows, Done
  <2>3. CASE Complete(w, l)
    BY <2>1, <2>3 DEF Decidable
  <2> QED
    BY <2>1, <2>2, <2>3
<1>4. CASE \E w \in DOMAIN workflow, u \in Users : Reject(w, u)
  <2>1. PICK w \in DOMAIN workflow, u \in Users : Reject(w, u)
    BY <1>4
  <2>2. /\ InProgress(w) /\ project' = project
        /\ workflow' = [workflow EXCEPT ![w].status = "REJECTED"]
    BY <2>1 DEF Reject, Decidable
  <2>3. workflow[w] \in WorkflowRow
    BY <1>0
  <2> QED
    BY <1>0, <2>2, <2>3 DEF Done, InProgress, WorkflowRow
<1>5. CASE \E w \in DOMAIN workflow : Cancel(w)
  <2>1. PICK w \in DOMAIN workflow :
          /\ InProgress(w) /\ project' = project
          /\ workflow' = [workflow EXCEPT ![w].status = "CANCELED"]
    BY <1>5 DEF Cancel
  <2>2. workflow[w] \in WorkflowRow
    BY <1>0
  <2> QED
    BY <1>0, <2>1, <2>2 DEF Done, InProgress, WorkflowRow
<1>6. CASE \E plan \in Plans :
             \/ \E d \in Docs : CreateTemplate(DomainOf[d], plan)
             \/ \E t \in DOMAIN template, active \in BOOLEAN : UpdateTemplate(t, active, plan)
  BY <1>6 DEF CreateTemplate, UpdateTemplate, Done
<1>7. CASE Restart
  BY <1>7 DEF Restart, Done
<1>8. CASE \E u \in Users, p \in Position : UpdateUser(u, p)
  BY <1>8 DEF UpdateUser, Done
<1>9. CASE UNCHANGED vars
  BY <1>9 DEF vars, Done
<1> QED
  BY <1>1, <1>2, <1>3, <1>4, <1>5, <1>6, <1>7, <1>8, <1>9 DEF Next, Decide

\* What ApprovedOnceWithProject says of one document.
OnceWithProject(d) ==
    DomainOf[d] \in {"ORDER_REPORT", "BILLING"} =>
        /\ Cardinality(Done(d)) <= 1
        /\ DomainOf[d] = "ORDER_REPORT" /\ Done(d) # {} => d \in project

\* onApproved refuses a report that has its project, which every approved one
\* has, and a billing with another workflow.
LEMMA ApprovedOnceStep ==
    ASSUME TypeInv, ApprovedOnceWithProject, [Next]_vars
    PROVE  ApprovedOnceWithProject'
<1>0. workflow \in Seq(WorkflowRow)
  BY DEF TypeInv, TypeOK
<1>1. \A d \in Docs : OnceWithProject(d)
  BY DEF ApprovedOnceWithProject, OnceWithProject, Done
<1>2. CASE project \subseteq project' /\ \A d \in Docs : Done(d)' = Done(d)
  <2>1. \A d \in Docs : OnceWithProject(d)'
    BY <1>1, <1>2 DEF OnceWithProject
  <2> QED
    BY <2>1 DEF ApprovedOnceWithProject, OnceWithProject, Done
<1>3. CASE \E w \in DOMAIN workflow, l \in DOMAIN line : InProgress(w) /\ Complete(w, l)
  <2>1. PICK w \in DOMAIN workflow, l \in DOMAIN line : InProgress(w) /\ Complete(w, l)
    BY <1>3
  <2>2. workflow[w] \in WorkflowRow
    BY <1>0
  <2>3. PICK d \in Docs : d = workflow[w].doc
    BY <2>2 DEF WorkflowRow
  <2>4. /\ workflow' = [workflow EXCEPT ![w].status = "APPROVED", ![w].current = 0]
        /\ project \subseteq project'
        /\ DomainOf[d] = "ORDER_REPORT" => d \notin project /\ d \in project'
        /\ DomainOf[d] = "BILLING" => \A v \in DOMAIN workflow : workflow[v].doc = d => v = w
    BY <2>1, <2>3 DEF Complete, onApproved
  <2>5. /\ DOMAIN workflow' = DOMAIN workflow
        /\ \A v \in DOMAIN workflow : v # w => workflow'[v] = workflow[v]
        /\ workflow'[w].doc = d /\ workflow'[w].status = "APPROVED"
    BY <1>0, <2>2, <2>3, <2>4 DEF WorkflowRow
  <2>6. Done(d)' = Done(d) \cup {w} /\ \A c \in Docs : c # d => Done(c)' = Done(c)
    BY <2>3, <2>5 DEF Done
  <2>7. ASSUME DomainOf[d] \in {"ORDER_REPORT", "BILLING"} PROVE Done(d) = {}
    <3>1. CASE DomainOf[d] = "ORDER_REPORT"
      BY <1>1, <2>4, <3>1 DEF OnceWithProject
    <3>2. CASE DomainOf[d] = "BILLING"
      BY <2>1, <2>4, <3>2 DEF Done, InProgress
    <3> QED
      BY <2>7, <3>1, <3>2
  <2>8. Cardinality({w}) = 1
    BY FS_Singleton
  <2>9. OnceWithProject(d)'
    BY <2>4, <2>6, <2>7, <2>8 DEF OnceWithProject
  <2>10. \A c \in Docs : c # d => OnceWithProject(c)'
    BY <1>1, <2>4, <2>6 DEF OnceWithProject
  <2> QED
    BY <2>9, <2>10 DEF ApprovedOnceWithProject, OnceWithProject, Done
<1> QED
  BY <1>2, <1>3, OnlyCompleting

\* However often an order report or a billing is submitted, cancelled and
\* submitted again, it is approved once, and the report then has its project.
THEOREM ApprovedOnce == Spec => []ApprovedOnceWithProject
<1>1. Init => TypeInv /\ ApprovedOnceWithProject
  <2> SUFFICES ASSUME Init PROVE TypeInv /\ ApprovedOnceWithProject
    OBVIOUS
  <2>1. \A d \in Docs : Done(d) = {}
    BY DEF Init, Done
  <2>2. \A d \in Docs : OnceWithProject(d)
    BY <2>1, FS_EmptySet DEF OnceWithProject
  <2> QED
    BY <2>2, InitType DEF ApprovedOnceWithProject, OnceWithProject, Done
<1>2. TypeInv /\ ApprovedOnceWithProject /\ [Next]_vars => (TypeInv /\ ApprovedOnceWithProject)'
  BY TypeStep, ApprovedOnceStep
<1> QED
  BY <1>1, <1>2, PTL DEF Spec

=============================================================================
