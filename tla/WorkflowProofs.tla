--------------------------- MODULE WorkflowProofs ---------------------------
(***************************************************************************)
(* Theorems about Workflow, for every set of users and documents, every    *)
(* template an administrator may post and every bound.                     *)
(*                                                                         *)
(* The argument: lemmas say what each method writes (StartAdds,            *)
(* ForwardWrites, ...), one lemma per invariant shows that the writes      *)
(* preserve it, and the theorems combine them.                             *)
(***************************************************************************)
EXTENDS Workflow, FiniteSetTheorems, TLAPS

\* The foreign keys: a workflow's template and a line's workflow exist.
References ==
    /\ \A w \in DOMAIN workflow : workflow[w].template \in DOMAIN template
    /\ \A l \in DOMAIN line : line[l].workflow \in DOMAIN workflow

TypeInv == TypeOK /\ References

-----------------------------------------------------------------------------
(* Type correctness.                                                       *)

\* Every template the initializer creates is a template row.
LEMMA SeedTemplateType ==
    ASSUME NEW dom \in WorkflowDomain
    PROVE  SeedTemplate(dom) \in TemplateRow
<1> DEFINE two == <<[order |-> 1, position |-> 2], [order |-> 2, position |-> 3]>>
           three == <<[order |-> 1, position |-> 1], [order |-> 2, position |-> 2],
                      [order |-> 3, position |-> 3]>>
<1>1. two \in Seq(StepRow) /\ three \in Seq(StepRow)
  BY DEF StepRow, Position
<1>2. SeedPlan(dom) \in {two, three}
  BY DEF SeedPlan
<1> QED
  BY <1>1, <1>2 DEF SeedTemplate, TemplateRow

\* What Append does to a sequence's type, length, domain and elements.
LEMMA AppendType ==
    ASSUME NEW S, NEW q \in Seq(S), NEW e \in S
    PROVE  /\ Append(q, e) \in Seq(S)
           /\ Len(Append(q, e)) = Len(q) + 1
           /\ DOMAIN Append(q, e) = DOMAIN q \cup {Len(q) + 1}
           /\ \A i \in DOMAIN q : Append(q, e)[i] = q[i]
           /\ Append(q, e)[Len(q) + 1] = e
OBVIOUS

\* A sequence of the type with a tuple of the type behind it.
LEMMA ConcatType ==
    ASSUME NEW S, NEW q \in Seq(S), NEW n \in Nat, NEW f \in [1..n -> S]
    PROVE  q \o f \in Seq(S) /\ DOMAIN q \subseteq DOMAIN (q \o f)
<1>1. f \in Seq(S)
  OBVIOUS
<1> QED
  BY <1>1

\* The first start of the backend leaves rows of the right types.
LEMMA InitType == Init => TypeInv
<1> SUFFICES ASSUME Init PROVE TypeInv
  OBVIOUS
<1>1. template \in Seq(TemplateRow)
  <2>1. \A i \in DOMAIN Seeded : SeedTemplate(Seeded[i]) \in TemplateRow
    BY SeedTemplateType, WorkflowAssumption
  <2> QED
    BY <2>1, WorkflowAssumption DEF Init
<1> QED
  BY <1>1, WorkflowAssumption DEF Init, TypeInv, TypeOK, References, ApprovalStatus

\* A step found at order n is a step row of that order.
LEMMA StepFound ==
    ASSUME TypeOK, NEW t \in DOMAIN template, NEW n, NEW s \in StepsAt(t, n)
    PROVE  template[t].steps[s] \in StepRow /\ template[t].steps[s].order = n
<1>1. template[t].steps \in Seq(StepRow)
  <2>1. template[t] \in TemplateRow
    BY DEF TypeOK
  <2> QED
    BY <2>1 DEF TemplateRow
<1>2. s \in DOMAIN template[t].steps /\ template[t].steps[s].order = n
  BY DEF StepsAt
<1> QED
  BY <1>1, <1>2

\* What a start of a workflow adds.
LEMMA StartAdds ==
    ASSUME TypeOK, NEW d \in Docs, NEW u \in Users, startWorkflow(d, u)
    PROVE  \E e \in WorkflowRow, f \in LineRow :
             /\ workflow' = Append(workflow, e) /\ line' = Append(line, f)
             /\ e.doc = d /\ e.status = "IN_PROGRESS" /\ e.current = 1
             /\ e.template \in DOMAIN template
             /\ f.workflow = Len(workflow) + 1 /\ f.order = 1 /\ f.status = "PENDING"
<1>0. PICK t \in DOMAIN template :
        \E s \in DOMAIN template[t].steps :
          /\ StepsAt(t, 1) = {s}
          /\ workflow' = Append(workflow, [doc |-> d, template |-> t,
                                           status |-> "IN_PROGRESS", current |-> 1])
          /\ line' = Append(line, NewLine(Len(workflow) + 1, template[t].steps[s], u))
  BY DEF startWorkflow
<1>1. PICK s \in DOMAIN template[t].steps :
        /\ StepsAt(t, 1) = {s}
        /\ workflow' = Append(workflow, [doc |-> d, template |-> t,
                                         status |-> "IN_PROGRESS", current |-> 1])
        /\ line' = Append(line, NewLine(Len(workflow) + 1, template[t].steps[s], u))
  BY <1>0
<1>2. template[t].steps[s] \in StepRow /\ template[t].steps[s].order = 1
  BY <1>1, StepFound
<1> DEFINE e == [doc |-> d, template |-> t, status |-> "IN_PROGRESS", current |-> 1]
           f == NewLine(Len(workflow) + 1, template[t].steps[s], u)
<1>3. t \in Nat /\ Len(workflow) + 1 \in Nat
  BY DEF TypeOK
<1>4. e \in WorkflowRow
  BY <1>3 DEF WorkflowRow, WorkflowStatus
<1>5. f \in LineRow /\ f.workflow = Len(workflow) + 1 /\ f.order = 1 /\ f.status = "PENDING"
  BY <1>2, <1>3 DEF LineRow, NewLine, WorkflowLineStatus, StepRow
<1> QED
  BY <1>1, <1>4, <1>5

\* What an approval of a step that is not the last one writes.
LEMMA ForwardWrites ==
    ASSUME TypeInv, NEW w \in DOMAIN workflow, NEW l \in DOMAIN line, NEW v \in Users,
           Forward(w, l, v)
    PROVE  \E f \in LineRow :
             /\ workflow' = [workflow EXCEPT ![w].current = workflow[w].current + 1]
             /\ line' = Append([line EXCEPT ![l].status = "APPROVED"], f)
             /\ f.workflow = w /\ f.order = workflow[w].current + 1 /\ f.status = "PENDING"
             /\ UNCHANGED <<approval, project>>
<1> DEFINE t == workflow[w].template
           n == workflow[w].current + 1
<1>1. PICK s \in StepsAt(t, n) :
        /\ workflow' = [workflow EXCEPT ![w].current = n]
        /\ line' = Append([line EXCEPT ![l].status = "APPROVED"],
                          NewLine(w, template[t].steps[s], v))
        /\ UNCHANGED <<approval, project>>
  BY DEF Forward
<1>2. t \in DOMAIN template
  BY DEF TypeInv, References
<1>3. template[t].steps[s] \in StepRow /\ template[t].steps[s].order = n
  BY <1>2, StepFound DEF TypeInv
<1> DEFINE f == NewLine(w, template[t].steps[s], v)
<1>4. w \in Nat
  BY DEF TypeInv, TypeOK
<1>5. f \in LineRow /\ f.workflow = w /\ f.order = n /\ f.status = "PENDING"
  BY <1>3, <1>4 DEF LineRow, NewLine, WorkflowLineStatus, StepRow
<1> QED
  BY <1>1, <1>5

\* Rewriting the status, the current step or both keeps the row a workflow row.
LEMMA WorkflowUpdateType ==
    ASSUME TypeOK, NEW w \in DOMAIN workflow, NEW st \in WorkflowStatus, NEW n \in Nat
    PROVE  /\ workflow[w] \in WorkflowRow
           /\ [workflow[w] EXCEPT !.status = st] \in WorkflowRow
           /\ [workflow[w] EXCEPT !.current = n] \in WorkflowRow
           /\ [workflow[w] EXCEPT !.status = st, !.current = n] \in WorkflowRow
<1>1. workflow[w] \in WorkflowRow
  BY DEF TypeOK
<1> QED
  BY <1>1 DEF WorkflowRow

\* A decided line is a line row.
LEMMA LineUpdateType ==
    ASSUME TypeOK, NEW l \in DOMAIN line, NEW st \in WorkflowLineStatus
    PROVE  [line[l] EXCEPT !.status = st] \in LineRow
<1>1. line[l] \in LineRow
  BY DEF TypeOK
<1> QED
  BY <1>1 DEF LineRow

-----------------------------------------------------------------------------
(* Every step has one of four effects on the workflows.                    *)

Finals == {"APPROVED", "REJECTED", "CANCELED"}

\* A workflow of d begins: Start, Submit, Register.
Begins(d) ==
    \E e \in WorkflowRow, f \in LineRow :
      /\ LiveWorkflows(d) = {}
      /\ workflow' = Append(workflow, e) /\ line' = Append(line, f)
      /\ e.doc = d /\ e.status = "IN_PROGRESS" /\ e.current = 1
      /\ e.template \in DOMAIN template
      /\ f.workflow = Len(workflow) + 1 /\ f.order = 1 /\ f.status = "PENDING"
      /\ \/ approval' = approval
         \/ /\ HasHandler(DomainOf[d]) /\ (approval[d] = "DRAFT" \/ row[d] = "none")
            /\ approval' = [approval EXCEPT ![d] = "PENDING"]

\* Workflow w goes on to the next step: Approve with Forward.
Advances(w) ==
    \E l \in DOMAIN line, f \in LineRow :
      /\ InProgress(w) /\ CurrentLines(w) = {l}
      /\ workflow' = [workflow EXCEPT ![w].current = workflow[w].current + 1]
      /\ line' = Append([line EXCEPT ![l].status = "APPROVED"], f)
      /\ f.workflow = w /\ f.order = workflow[w].current + 1 /\ f.status = "PENDING"
      /\ approval' = approval

\* A workflow that ends otherwise than approved stays at its step; one that ends
\* approved has its current line approved and no step left.
EndsProperly(w, e) ==
    IF e.status = "APPROVED"
    THEN /\ StepsAt(workflow[w].template, workflow[w].current + 1) = {}
         /\ \E l \in DOMAIN line : /\ CurrentLines(w) = {l}
                                   /\ line' = [line EXCEPT ![l].status = "APPROVED"]
    ELSE e.current = workflow[w].current

\* Workflow w ends: Approve with Complete, Reject, Cancel.
Ends(w) ==
    \E e \in WorkflowRow :
      /\ InProgress(w)
      /\ e.doc = workflow[w].doc /\ e.template = workflow[w].template /\ e.status \in Finals
      /\ workflow' = [workflow EXCEPT ![w] = e]
      /\ EndsProperly(w, e)
      /\ \/ line' = line
         \/ \E l \in CurrentLines(w), st \in {"APPROVED", "REJECTED"} :
              line' = [line EXCEPT ![l].status = st]
      /\ approval' = IF HasHandler(DomainOf[e.doc])
                     THEN [approval EXCEPT ![e.doc] = e.status] ELSE approval

\* Nothing of that happens.
Rests == UNCHANGED <<workflow, line, approval>>

\* Starting, submitting and registering begin a workflow.
LEMMA BeginsLemma ==
    ASSUME TypeInv, NEW d \in Docs, NEW u \in Users,
           Start(d, u) \/ Submit(d, u) \/ Register(d, u)
    PROVE  Begins(d)
<1>1. startWorkflow(d, u)
  BY DEF Start, Submit, Register
<1>2. LiveWorkflows(d) = {}
  BY <1>1 DEF startWorkflow
<1>3. \/ approval' = approval
      \/ /\ HasHandler(DomainOf[d]) /\ (approval[d] = "DRAFT" \/ row[d] = "none")
         /\ approval' = [approval EXCEPT ![d] = "PENDING"]
  BY DEF Start, Submit, Register, HasHandler
<1> QED
  BY <1>1, <1>2, <1>3, StartAdds DEF Begins, TypeInv

\* What a method that ends the workflow does: the row e it writes keeps document
\* and template, and the domain handler gets its status.
LEMMA EndsLemma ==
    ASSUME NEW w \in DOMAIN workflow, NEW e \in WorkflowRow, InProgress(w),
           e.doc = workflow[w].doc, e.template = workflow[w].template, e.status \in Finals,
           workflow' = [workflow EXCEPT ![w] = e], EndsProperly(w, e),
           Handle(workflow[w].doc, e.status),
           \/ line' = line
           \/ \E l \in CurrentLines(w), st \in {"APPROVED", "REJECTED"} :
                line' = [line EXCEPT ![l].status = st]
    PROVE  Ends(w)
<1>1. approval' = IF HasHandler(DomainOf[e.doc])
                  THEN [approval EXCEPT ![e.doc] = e.status] ELSE approval
  BY DEF Handle
<1> QED
  BY <1>1 DEF Ends

\* Approving moves the workflow on or ends it.
LEMMA ApproveEffect ==
    ASSUME TypeInv, NEW w \in DOMAIN workflow, NEW u \in Users, NEW v \in Users,
           Approve(w, u, v)
    PROVE  Advances(w) \/ Ends(w)
<1>1. PICK l \in DOMAIN line : Decidable(w, l, u) /\ (Forward(w, l, v) \/ Complete(w, l))
  BY DEF Approve
<1>2. InProgress(w) /\ CurrentLines(w) = {l}
  BY <1>1 DEF Decidable
<1>3. CASE Forward(w, l, v)
  BY <1>2, <1>3, ForwardWrites DEF Advances
<1>4. CASE Complete(w, l)
  <2> DEFINE e == [workflow[w] EXCEPT !.status = "APPROVED", !.current = 0]
  <2>1. workflow' = [workflow EXCEPT ![w] = e] /\ line' = [line EXCEPT ![l].status = "APPROVED"]
    BY <1>4 DEF Complete
  <2>2. e \in WorkflowRow /\ workflow[w] \in WorkflowRow
    BY WorkflowUpdateType DEF TypeInv, WorkflowStatus
  <2>3. e.doc = workflow[w].doc /\ e.template = workflow[w].template /\ e.status = "APPROVED"
    BY <2>2 DEF WorkflowRow
  <2>4. Handle(workflow[w].doc, "APPROVED")
    BY <1>4 DEF Complete, onApproved
  <2>5. \E k \in CurrentLines(w), st \in {"APPROVED", "REJECTED"} :
           line' = [line EXCEPT ![k].status = st]
    BY <1>2, <2>1
  <2>6. workflow' = [workflow EXCEPT ![w] = e] /\ Handle(workflow[w].doc, e.status)
    BY <2>1, <2>3, <2>4
  <2>7. EndsProperly(w, e)
    BY <1>2, <1>4, <2>1, <2>3 DEF Complete, EndsProperly
  <2> HIDE DEF e
  <2> QED
    BY <1>2, <2>2, <2>3, <2>5, <2>6, <2>7, EndsLemma DEF Finals
<1> QED
  BY <1>1, <1>3, <1>4

\* Rejecting ends the workflow.
LEMMA RejectEffect ==
    ASSUME TypeInv, NEW w \in DOMAIN workflow, NEW u \in Users, Reject(w, u)
    PROVE  Ends(w)
<1>1. PICK l \in DOMAIN line :
        /\ Decidable(w, l, u)
        /\ Handle(workflow[w].doc, "REJECTED")
        /\ workflow' = [workflow EXCEPT ![w].status = "REJECTED"]
        /\ line' = [line EXCEPT ![l].status = "REJECTED"]
  BY DEF Reject
<1> DEFINE e == [workflow[w] EXCEPT !.status = "REJECTED"]
<1>2. e \in WorkflowRow /\ workflow[w] \in WorkflowRow
  BY WorkflowUpdateType DEF TypeInv, WorkflowStatus
<1>3. e.doc = workflow[w].doc /\ e.template = workflow[w].template /\ e.status = "REJECTED"
  BY <1>2 DEF WorkflowRow
<1>4. workflow' = [workflow EXCEPT ![w] = e] /\ Handle(workflow[w].doc, e.status)
  BY <1>1, <1>3
<1>5. InProgress(w) /\ CurrentLines(w) = {l}
  BY <1>1 DEF Decidable
<1>6. \E k \in CurrentLines(w), st \in {"APPROVED", "REJECTED"} :
         line' = [line EXCEPT ![k].status = st]
  BY <1>1, <1>5
<1>7. EndsProperly(w, e)
  BY <1>2, <1>3 DEF EndsProperly, WorkflowRow
<1> HIDE DEF e
<1> QED
  BY <1>2, <1>3, <1>4, <1>5, <1>6, <1>7, EndsLemma DEF Finals

\* Cancelling ends the workflow.
LEMMA CancelEffect ==
    ASSUME TypeInv, NEW w \in DOMAIN workflow, Cancel(w)
    PROVE  Ends(w)
<1> DEFINE e == [workflow[w] EXCEPT !.status = "CANCELED"]
<1>1. e \in WorkflowRow /\ workflow[w] \in WorkflowRow
  BY WorkflowUpdateType DEF TypeInv, WorkflowStatus
<1>2. e.doc = workflow[w].doc /\ e.template = workflow[w].template /\ e.status = "CANCELED"
  BY <1>1 DEF WorkflowRow
<1>3. /\ workflow' = [workflow EXCEPT ![w] = e] /\ line' = line
      /\ InProgress(w) /\ Handle(workflow[w].doc, e.status)
  BY <1>2 DEF Cancel
<1>4. EndsProperly(w, e)
  BY <1>1, <1>2 DEF EndsProperly, WorkflowRow
<1> HIDE DEF e
<1> QED
  BY <1>1, <1>2, <1>3, <1>4, EndsLemma DEF Finals

\* Every step of the engine and of the services around it has one of the four
\* effects.
LEMMA StepEffect ==
    ASSUME TypeInv, [Next]_vars
    PROVE  \/ \E d \in Docs : Begins(d)
           \/ \E w \in DOMAIN workflow : Advances(w) \/ Ends(w)
           \/ Rests
<1>1. CASE \E d \in Docs, u \in Users : Start(d, u) \/ Submit(d, u) \/ Register(d, u)
  BY <1>1, BeginsLemma
<1>2. CASE \E d \in Docs : Create(d) \/ Delete(d) \/ RegisterProject(d)
  BY <1>2 DEF Create, Delete, RegisterProject, Rests
<1>3. CASE \E w \in DOMAIN workflow, u, v \in Users : Approve(w, u, v)
  BY <1>3, ApproveEffect
<1>4. CASE \E w \in DOMAIN workflow, u \in Users : Reject(w, u)
  BY <1>4, RejectEffect
<1>5. CASE \E w \in DOMAIN workflow : Cancel(w)
  BY <1>5, CancelEffect
<1>6. CASE \E plan \in Plans :
             \/ \E d \in Docs : CreateTemplate(DomainOf[d], plan)
             \/ \E t \in DOMAIN template, active \in BOOLEAN : UpdateTemplate(t, active, plan)
  BY <1>6 DEF CreateTemplate, UpdateTemplate, Rests
<1>7. CASE Restart
  BY <1>7 DEF Restart, Rests
<1>8. CASE \E u \in Users, p \in Position : UpdateUser(u, p)
  BY <1>8 DEF UpdateUser, Rests
<1>9. CASE UNCHANGED vars
  BY <1>9 DEF vars, Rests
<1> QED
  BY <1>1, <1>2, <1>3, <1>4, <1>5, <1>6, <1>7, <1>8, <1>9 DEF Next, Decide

\* The rows the engine writes keep their types and their foreign keys, given
\* that template rows are never removed.
LEMMA EngineType ==
    ASSUME TypeInv, [Next]_vars, template' \in Seq(TemplateRow),
           DOMAIN template \subseteq DOMAIN template'
    PROVE  /\ workflow' \in Seq(WorkflowRow) /\ line' \in Seq(LineRow)
           /\ approval' \in [Docs -> ApprovalStatus]
           /\ References'
<1>0. /\ workflow \in Seq(WorkflowRow) /\ line \in Seq(LineRow) /\ References
      /\ approval \in [Docs -> ApprovalStatus]
  BY DEF TypeInv, TypeOK
<1>1. CASE \E d \in Docs : Begins(d)
  <2>1. PICK d \in Docs : Begins(d)
    BY <1>1
  <2>2. PICK e \in WorkflowRow, f \in LineRow :
          /\ workflow' = Append(workflow, e) /\ line' = Append(line, f)
          /\ e.template \in DOMAIN template /\ f.workflow = Len(workflow) + 1
    BY <2>1 DEF Begins
  <2>3. workflow' \in Seq(WorkflowRow) /\ line' \in Seq(LineRow)
    BY <1>0, <2>2, AppendType
  <2>4. approval' \in [Docs -> ApprovalStatus]
    BY <1>0, <2>1 DEF Begins, ApprovalStatus
  <2>5. \A w \in DOMAIN workflow' : workflow'[w].template \in DOMAIN template'
    <3>1. \A w \in DOMAIN workflow' : w \in DOMAIN workflow \/ w = Len(workflow) + 1
      BY <1>0, <2>2, AppendType
    <3>2. \A w \in DOMAIN workflow : workflow'[w] = workflow[w]
      BY <1>0, <2>2, AppendType
    <3>3. workflow'[Len(workflow) + 1] = e
      BY <1>0, <2>2, AppendType
    <3> QED
      BY <1>0, <2>2, <3>1, <3>2, <3>3 DEF References
  <2>6. \A l \in DOMAIN line' : line'[l].workflow \in DOMAIN workflow'
    <3>1. \A l \in DOMAIN line' : l \in DOMAIN line \/ l = Len(line) + 1
      BY <1>0, <2>2, AppendType
    <3>2. \A l \in DOMAIN line : line'[l] = line[l]
      BY <1>0, <2>2, AppendType
    <3>3. line'[Len(line) + 1] = f
      BY <1>0, <2>2, AppendType
    <3>4. DOMAIN workflow' = DOMAIN workflow \cup {Len(workflow) + 1}
      BY <1>0, <2>2, AppendType
    <3> QED
      BY <1>0, <2>2, <3>1, <3>2, <3>3, <3>4 DEF References
  <2> QED
    BY <2>3, <2>4, <2>5, <2>6 DEF References
<1>2. CASE \E w \in DOMAIN workflow : Advances(w)
  <2>1. PICK w \in DOMAIN workflow : Advances(w)
    BY <1>2
  <2>2. PICK l \in DOMAIN line, f \in LineRow :
          /\ workflow' = [workflow EXCEPT ![w].current = workflow[w].current + 1]
          /\ line' = Append([line EXCEPT ![l].status = "APPROVED"], f)
          /\ f.workflow = w /\ approval' = approval
    BY <2>1 DEF Advances
  <2>3. workflow[w] \in WorkflowRow
    BY <1>0
  <2>0. workflow[w].current + 1 \in Nat
    BY <2>3 DEF WorkflowRow
  <2> DEFINE e == [workflow[w] EXCEPT !.current = workflow[w].current + 1]
             g == [line[l] EXCEPT !.status = "APPROVED"]
             lines == [line EXCEPT ![l] = g]
  <2>4. e \in WorkflowRow /\ e.template = workflow[w].template
    BY <2>0, <2>3 DEF WorkflowRow
  <2>5. line[l] \in LineRow
    BY <1>0
  <2>6. g \in LineRow /\ g.workflow = line[l].workflow
    BY <2>5 DEF LineRow, WorkflowLineStatus
  <2>7. workflow' = [workflow EXCEPT ![w] = e] /\ line' = Append(lines, f)
    BY <2>2
  <2> HIDE DEF e, g
  <2>8. /\ workflow' \in Seq(WorkflowRow) /\ DOMAIN workflow' = DOMAIN workflow
        /\ \A v \in DOMAIN workflow : workflow'[v].template = workflow[v].template
    BY <1>0, <2>4, <2>7
  <2>9. /\ lines \in Seq(LineRow) /\ DOMAIN lines = DOMAIN line /\ Len(lines) = Len(line)
        /\ \A k \in DOMAIN line : lines[k].workflow = line[k].workflow
    BY <1>0, <2>6
  <2> HIDE DEF lines
  <2>10. /\ line' \in Seq(LineRow)
         /\ \A k \in DOMAIN line' :
              \/ line'[k].workflow = w
              \/ k \in DOMAIN line /\ line'[k].workflow = line[k].workflow
    <3>1. /\ line' \in Seq(LineRow) /\ DOMAIN line' = DOMAIN line \cup {Len(line) + 1}
          /\ \A k \in DOMAIN line : line'[k] = lines[k]
          /\ line'[Len(line) + 1] = f
      BY <2>7, <2>9, AppendType
    <3> QED
      BY <2>2, <2>9, <3>1
  <2> QED
    BY <1>0, <2>2, <2>8, <2>10 DEF References
<1>3. CASE \E w \in DOMAIN workflow : Ends(w)
  <2>1. PICK w \in DOMAIN workflow : Ends(w)
    BY <1>3
  <2>2. PICK e \in WorkflowRow :
          /\ e.template = workflow[w].template /\ e.status \in Finals
          /\ workflow' = [workflow EXCEPT ![w] = e]
          /\ \/ line' = line
             \/ \E l \in CurrentLines(w), st \in {"APPROVED", "REJECTED"} :
                  line' = [line EXCEPT ![l].status = st]
          /\ approval' = IF HasHandler(DomainOf[e.doc])
                         THEN [approval EXCEPT ![e.doc] = e.status] ELSE approval
    BY <2>1 DEF Ends
  <2>3. /\ workflow' \in Seq(WorkflowRow) /\ DOMAIN workflow' = DOMAIN workflow
        /\ \A v \in DOMAIN workflow : workflow'[v].template = workflow[v].template
    BY <1>0, <2>2
  <2>4. /\ line' \in Seq(LineRow) /\ DOMAIN line' = DOMAIN line
        /\ \A k \in DOMAIN line : line'[k].workflow = line[k].workflow
    <3>1. CASE line' = line
      BY <1>0, <3>1
    <3>2. CASE line' # line
      <4>1. PICK l \in CurrentLines(w), st \in {"APPROVED", "REJECTED"} :
              line' = [line EXCEPT ![l].status = st]
        BY <2>2, <3>2
      <4> DEFINE g == [line[l] EXCEPT !.status = st]
      <4>2. l \in DOMAIN line /\ line[l] \in LineRow
        BY <1>0 DEF CurrentLines
      <4>3. g \in LineRow /\ g.workflow = line[l].workflow
        BY <4>2 DEF LineRow, WorkflowLineStatus
      <4>4. line' = [line EXCEPT ![l] = g]
        BY <4>1
      <4> HIDE DEF g
      <4> QED
        BY <1>0, <4>2, <4>3, <4>4
    <3> QED
      BY <3>1, <3>2
  <2>5. approval' \in [Docs -> ApprovalStatus]
    BY <1>0, <2>2 DEF Finals, ApprovalStatus
  <2> QED
    BY <1>0, <2>3, <2>4, <2>5 DEF References
<1>4. CASE Rests
  BY <1>0, <1>4 DEF Rests, References
<1> QED
  BY <1>1, <1>2, <1>3, <1>4, StepEffect

\* The tables the engine only reads.
LEMMA OtherTypes ==
    ASSUME TypeInv, [Next]_vars
    PROVE  /\ template' \in Seq(TemplateRow) /\ DOMAIN template \subseteq DOMAIN template'
           /\ position' \in [Users -> Position]
           /\ row' \in [Docs -> {"none", "live", "deleted"}]
           /\ project' \in SUBSET Docs
<1>0. /\ template \in Seq(TemplateRow) /\ position \in [Users -> Position]
      /\ row \in [Docs -> {"none", "live", "deleted"}] /\ project \in SUBSET Docs
      /\ workflow \in Seq(WorkflowRow)
  BY DEF TypeInv, TypeOK
<1>1. CASE \E d \in Docs, u \in Users : Start(d, u) \/ Submit(d, u) \/ Register(d, u)
  BY <1>0, <1>1 DEF Start, Submit, Register
<1>2. CASE \E d \in Docs : Create(d) \/ Delete(d) \/ RegisterProject(d)
  BY <1>0, <1>2 DEF Create, Delete, RegisterProject
<1>3. CASE \E w \in DOMAIN workflow, u, v \in Users : Approve(w, u, v)
  <2>1. PICK w \in DOMAIN workflow, l \in DOMAIN line, v \in Users :
          /\ Forward(w, l, v) \/ Complete(w, l)
          /\ UNCHANGED <<template, position, row>>
    BY <1>3 DEF Approve
  <2>2. workflow[w].doc \in Docs
    <3>1. workflow[w] \in WorkflowRow
      BY <1>0
    <3> QED
      BY <3>1 DEF WorkflowRow
  <2>3. project' \in SUBSET Docs
    BY <1>0, <2>1, <2>2 DEF Forward, Complete, onApproved
  <2> QED
    BY <1>0, <2>1, <2>3
<1>4. CASE \E w \in DOMAIN workflow, u \in Users : Reject(w, u)
  BY <1>0, <1>4 DEF Reject
<1>5. CASE \E w \in DOMAIN workflow : Cancel(w)
  BY <1>0, <1>5 DEF Cancel
<1>6. CASE \E plan \in Plans, d \in Docs : CreateTemplate(DomainOf[d], plan)
  <2>1. PICK plan \in Plans, d \in Docs : CreateTemplate(DomainOf[d], plan)
    BY <1>6
  <2>2. [domain |-> DomainOf[d], active |-> TRUE, steps |-> plan] \in TemplateRow
    BY WorkflowAssumption DEF TemplateRow
  <2> QED
    BY <1>0, <2>1, <2>2, AppendType DEF CreateTemplate
<1>7. CASE \E plan \in Plans, t \in DOMAIN template, active \in BOOLEAN :
             UpdateTemplate(t, active, plan)
  <2>1. PICK plan \in Plans, t \in DOMAIN template, active \in BOOLEAN :
          UpdateTemplate(t, active, plan)
    BY <1>7
  <2> DEFINE e == [template[t] EXCEPT !.active = active, !.steps = plan]
  <2>2. template[t] \in TemplateRow
    BY <1>0
  <2>3. plan \in Seq(StepRow)
    BY WorkflowAssumption
  <2>4. e \in TemplateRow
    BY <2>2, <2>3 DEF TemplateRow
  <2>5. template' = [template EXCEPT ![t] = e] /\ UNCHANGED <<position, row, project>>
    BY <2>1 DEF UpdateTemplate
  <2> HIDE DEF e
  <2> QED
    BY <1>0, <2>4, <2>5
<1>8. CASE Restart
  <2> DEFINE missing == {i \in DOMAIN Seeded : ActiveTemplates(Seeded[i]) = {}}
  <2>1. PICK added \in [1..Cardinality(missing) -> missing] :
          template' = template \o [i \in DOMAIN added |-> SeedTemplate(Seeded[added[i]])]
    BY <1>8 DEF Restart
  <2> DEFINE more == [i \in DOMAIN added |-> SeedTemplate(Seeded[added[i]])]
  <2>2. \A i \in DOMAIN added : SeedTemplate(Seeded[added[i]]) \in TemplateRow
    <3>1. \A i \in DOMAIN added : added[i] \in DOMAIN Seeded
      OBVIOUS
    <3>2. \A i \in DOMAIN Seeded : Seeded[i] \in WorkflowDomain
      BY WorkflowAssumption
    <3> QED
      BY <3>1, <3>2, SeedTemplateType
  <2>3. Cardinality(missing) \in Nat
    <3>1. Len(Seeded) \in Nat /\ DOMAIN Seeded = 1..Len(Seeded)
      BY WorkflowAssumption
    <3>2. IsFiniteSet(1..Len(Seeded))
      BY <3>1, FS_Interval
    <3>3. IsFiniteSet(missing)
      BY <3>1, <3>2, FS_Subset
    <3> QED
      BY <3>3, FS_CardinalityType
  <2> DEFINE n == Cardinality(missing)
  <2>4. more \in [1..n -> TemplateRow] /\ template' = template \o more
    BY <2>1, <2>2
  <2>5. n \in Nat
    BY <2>3
  <2> HIDE DEF more, n
  <2>6. template' \in Seq(TemplateRow) /\ DOMAIN template \subseteq DOMAIN template'
    BY <1>0, <2>4, <2>5, ConcatType
  <2> QED
    BY <1>0, <1>8, <2>6 DEF Restart
<1>9. CASE \E u \in Users, p \in Position : UpdateUser(u, p)
  BY <1>0, <1>9 DEF UpdateUser
<1>10. CASE UNCHANGED vars
  BY <1>0, <1>10 DEF vars
<1> QED
  BY <1>1, <1>2, <1>3, <1>4, <1>5, <1>6, <1>7, <1>8, <1>9, <1>10 DEF Next, Decide

\* Types and foreign keys survive every step.
LEMMA TypeStep == TypeInv /\ [Next]_vars => TypeInv'
<1> SUFFICES ASSUME TypeInv, [Next]_vars PROVE TypeInv'
  OBVIOUS
<1> QED
  BY EngineType, OtherTypes DEF TypeInv, TypeOK

\* Whatever requests come in, every table holds rows of its type and the foreign
\* keys between workflows, lines and templates hold.
THEOREM TypeCorrect == Spec => [](TypeOK /\ References)
<1>1. TypeInv => TypeOK /\ References
  BY DEF TypeInv
<1> QED
  BY InitType, TypeStep, <1>1, PTL DEF Spec

-----------------------------------------------------------------------------
(* The four effects, row by row.                                           *)

\* A begun workflow and its line get new ids; the old rows stay.
LEMMA BeginsRows ==
    ASSUME TypeInv, NEW d \in Docs, Begins(d)
    PROVE  LET w == Len(workflow) + 1
               l == Len(line) + 1
           IN  /\ LiveWorkflows(d) = {}
               /\ DOMAIN workflow' = DOMAIN workflow \cup {w}
               /\ \A v \in DOMAIN workflow : v < w /\ workflow'[v] = workflow[v]
               /\ workflow'[w].doc = d /\ workflow'[w].status = "IN_PROGRESS"
               /\ workflow'[w].current = 1
               /\ DOMAIN line' = DOMAIN line \cup {l}
               /\ \A k \in DOMAIN line : k < l /\ line'[k] = line[k]
               /\ line'[l].workflow = w /\ line'[l].order = 1 /\ line'[l].status = "PENDING"
<1>1. workflow \in Seq(WorkflowRow) /\ line \in Seq(LineRow)
  BY DEF TypeInv, TypeOK
<1>2. PICK e \in WorkflowRow, f \in LineRow :
        /\ LiveWorkflows(d) = {}
        /\ workflow' = Append(workflow, e) /\ line' = Append(line, f)
        /\ e.doc = d /\ e.status = "IN_PROGRESS" /\ e.current = 1
        /\ f.workflow = Len(workflow) + 1 /\ f.order = 1 /\ f.status = "PENDING"
  BY DEF Begins
<1>3. \A v \in DOMAIN workflow : v < Len(workflow) + 1
  BY <1>1
<1>4. \A k \in DOMAIN line : k < Len(line) + 1
  BY <1>1
<1>5. /\ DOMAIN workflow' = DOMAIN workflow \cup {Len(workflow) + 1}
      /\ \A v \in DOMAIN workflow : workflow'[v] = workflow[v]
      /\ workflow'[Len(workflow) + 1] = e
  BY <1>1, <1>2, AppendType
<1>6. /\ DOMAIN line' = DOMAIN line \cup {Len(line) + 1}
      /\ \A k \in DOMAIN line : line'[k] = line[k]
      /\ line'[Len(line) + 1] = f
  BY <1>1, <1>2, AppendType
<1> QED
  BY <1>2, <1>3, <1>4, <1>5, <1>6

\* An advancing workflow has its current line approved and a new one at the next
\* order.
AdvancedRows(w, l) ==
    LET m == Len(line) + 1 IN
    /\ InProgress(w) /\ CurrentLines(w) = {l}
    /\ DOMAIN workflow' = DOMAIN workflow
    /\ \A v \in DOMAIN workflow :
         /\ workflow'[v].doc = workflow[v].doc
         /\ workflow'[v].status = workflow[v].status
         /\ v # w => workflow'[v] = workflow[v]
    /\ workflow'[w].current = workflow[w].current + 1
    /\ DOMAIN line' = DOMAIN line \cup {m}
    /\ \A k \in DOMAIN line :
         /\ k < m /\ line'[k].workflow = line[k].workflow
         /\ line'[k].order = line[k].order
         /\ line'[k].approver = line[k].approver
         /\ k # l => line'[k] = line[k]
    /\ line'[l].status = "APPROVED"
    /\ line'[m].workflow = w /\ line'[m].status = "PENDING"
    /\ line'[m].order = workflow[w].current + 1
    /\ approval' = approval

\* The rows after an approval that is not the last one.
LEMMA AdvancesRows ==
    ASSUME TypeInv, NEW w \in DOMAIN workflow, Advances(w)
    PROVE  \E l \in DOMAIN line : AdvancedRows(w, l)
<1>1. workflow \in Seq(WorkflowRow) /\ line \in Seq(LineRow)
  BY DEF TypeInv, TypeOK
<1>2. PICK l \in DOMAIN line, f \in LineRow :
        /\ InProgress(w) /\ CurrentLines(w) = {l}
        /\ workflow' = [workflow EXCEPT ![w].current = workflow[w].current + 1]
        /\ line' = Append([line EXCEPT ![l].status = "APPROVED"], f)
        /\ f.workflow = w /\ f.order = workflow[w].current + 1 /\ f.status = "PENDING"
        /\ approval' = approval
  BY DEF Advances
<1> DEFINE e == [workflow[w] EXCEPT !.current = workflow[w].current + 1]
           g == [line[l] EXCEPT !.status = "APPROVED"]
           lines == [line EXCEPT ![l] = g]
<1>3. workflow[w] \in WorkflowRow /\ line[l] \in LineRow
  BY <1>1
<1>4. /\ e.doc = workflow[w].doc /\ e.status = workflow[w].status
      /\ e.current = workflow[w].current + 1
  BY <1>3 DEF WorkflowRow
<1>5. /\ g \in LineRow /\ g.workflow = line[l].workflow /\ g.order = line[l].order
      /\ g.approver = line[l].approver /\ g.status = "APPROVED"
  BY <1>3 DEF LineRow, WorkflowLineStatus
<1>6. workflow' = [workflow EXCEPT ![w] = e] /\ line' = Append(lines, f)
  BY <1>2
<1> HIDE DEF e, g
<1>7. /\ lines \in Seq(LineRow) /\ DOMAIN lines = DOMAIN line /\ Len(lines) = Len(line)
      /\ lines[l] = g /\ \A k \in DOMAIN line : k # l => lines[k] = line[k]
      /\ \A k \in DOMAIN line : k < Len(line) + 1
  BY <1>1, <1>5
<1> HIDE DEF lines
<1>8. /\ DOMAIN line' = DOMAIN line \cup {Len(line) + 1}
      /\ \A k \in DOMAIN line : line'[k] = lines[k]
      /\ line'[Len(line) + 1] = f
  BY <1>6, <1>7, AppendType
<1>9. /\ DOMAIN workflow' = DOMAIN workflow /\ workflow'[w] = e
      /\ \A v \in DOMAIN workflow : v # w => workflow'[v] = workflow[v]
  BY <1>1, <1>6
<1>10. \A v \in DOMAIN workflow :
         /\ workflow'[v].doc = workflow[v].doc
         /\ workflow'[v].status = workflow[v].status
         /\ v # w => workflow'[v] = workflow[v]
  BY <1>4, <1>9
<1>11. \A k \in DOMAIN line :
         /\ k < Len(line) + 1 /\ line'[k].workflow = line[k].workflow
         /\ line'[k].order = line[k].order
         /\ line'[k].approver = line[k].approver
         /\ k # l => line'[k] = line[k]
  BY <1>5, <1>7, <1>8
<1>12. line'[l].status = "APPROVED"
  BY <1>5, <1>7, <1>8
<1>13. AdvancedRows(w, l)
  BY <1>2, <1>4, <1>8, <1>9, <1>10, <1>11, <1>12 DEF AdvancedRows
<1> QED
  BY <1>13

\* A workflow that ends leaves IN_PROGRESS; at most its current line is decided,
\* and its document gets its status.
LEMMA EndsRows ==
    ASSUME TypeInv, NEW w \in DOMAIN workflow, Ends(w)
    PROVE  /\ InProgress(w)
           /\ DOMAIN workflow' = DOMAIN workflow
           /\ \A v \in DOMAIN workflow :
                workflow'[v].doc = workflow[v].doc /\ (v # w => workflow'[v] = workflow[v])
           /\ workflow'[w].status \in Finals
           /\ DOMAIN line' = DOMAIN line
           /\ \A k \in DOMAIN line :
                /\ line'[k].workflow = line[k].workflow
                /\ line'[k].order = line[k].order
                /\ line'[k].approver = line[k].approver
                /\ k \notin CurrentLines(w) => line'[k] = line[k]
           /\ LET d == workflow[w].doc IN
              approval' = IF HasHandler(DomainOf[d])
                          THEN [approval EXCEPT ![d] = workflow'[w].status] ELSE approval
           /\ EndsProperly(w, workflow'[w])
<1>1. workflow \in Seq(WorkflowRow) /\ line \in Seq(LineRow)
  BY DEF TypeInv, TypeOK
<1>2. PICK e \in WorkflowRow :
        /\ InProgress(w)
        /\ e.doc = workflow[w].doc /\ e.status \in Finals
        /\ workflow' = [workflow EXCEPT ![w] = e]
        /\ \/ line' = line
           \/ \E l \in CurrentLines(w), st \in {"APPROVED", "REJECTED"} :
                line' = [line EXCEPT ![l].status = st]
        /\ approval' = IF HasHandler(DomainOf[e.doc])
                       THEN [approval EXCEPT ![e.doc] = e.status] ELSE approval
        /\ EndsProperly(w, e)
  BY DEF Ends
<1>3. /\ DOMAIN workflow' = DOMAIN workflow /\ workflow'[w] = e
      /\ \A v \in DOMAIN workflow : v # w => workflow'[v] = workflow[v]
  BY <1>1, <1>2
<1>4. /\ DOMAIN line' = DOMAIN line
      /\ \A k \in DOMAIN line :
           /\ line'[k].workflow = line[k].workflow
           /\ line'[k].order = line[k].order
           /\ line'[k].approver = line[k].approver
           /\ k \notin CurrentLines(w) => line'[k] = line[k]
  <2>1. CASE line' = line
    BY <2>1
  <2>2. CASE line' # line
    <3>1. PICK l \in CurrentLines(w), st \in {"APPROVED", "REJECTED"} :
            line' = [line EXCEPT ![l].status = st]
      BY <1>2, <2>2
    <3> DEFINE g == [line[l] EXCEPT !.status = st]
    <3>2. l \in DOMAIN line /\ line[l] \in LineRow
      BY <1>1 DEF CurrentLines
    <3>3. g.workflow = line[l].workflow /\ g.order = line[l].order /\ g.approver = line[l].approver
      BY <3>2 DEF LineRow
    <3>4. line' = [line EXCEPT ![l] = g]
      BY <3>1
    <3> HIDE DEF g
    <3>5. /\ DOMAIN line' = DOMAIN line /\ line'[l] = g
          /\ \A k \in DOMAIN line : k # l => line'[k] = line[k]
      BY <1>1, <3>2, <3>4
    <3> QED
      BY <3>3, <3>5
  <2> QED
    BY <2>1, <2>2
<1> QED
  BY <1>2, <1>3, <1>4

-----------------------------------------------------------------------------
(* A document has at most one workflow in progress, its newest.            *)

\* Only a document without a workflow in progress gets a new one.
LEMMA LiveIsNewestStep ==
    ASSUME TypeInv, LiveIsNewest, [Next]_vars
    PROVE  LiveIsNewest'
<1>1. CASE \E d \in Docs : Begins(d)
  <2>1. PICK d \in Docs : Begins(d)
    BY <1>1
  <2> DEFINE n == Len(workflow) + 1
  <2>2. \A v \in DOMAIN workflow : workflow[v].doc = d => workflow[v].status # "IN_PROGRESS"
    BY <2>1, BeginsRows DEF LiveWorkflows
  <2>3. /\ DOMAIN workflow' = DOMAIN workflow \cup {n} /\ workflow'[n].doc = d
        /\ \A v \in DOMAIN workflow : v < n /\ workflow'[v] = workflow[v]
    BY <2>1, BeginsRows
  <2>4. n \in Nat /\ DOMAIN workflow \subseteq Nat
    BY DEF TypeInv, TypeOK
  <2> HIDE DEF n
  <2> SUFFICES ASSUME NEW v \in DOMAIN workflow', NEW w \in DOMAIN workflow',
                      workflow'[v].doc = workflow'[w].doc, workflow'[v].status = "IN_PROGRESS"
               PROVE  w <= v
    BY DEF LiveIsNewest
  <2>5. CASE v = n
    BY <2>3, <2>4, <2>5
  <2>6. CASE v # n
    BY <2>2, <2>3, <2>6 DEF LiveIsNewest
  <2> QED
    BY <2>5, <2>6
<1>2. CASE \E w \in DOMAIN workflow : Advances(w)
  BY <1>2, AdvancesRows DEF AdvancedRows, LiveIsNewest
<1>3. CASE \E w \in DOMAIN workflow : Ends(w)
  <2>1. PICK w \in DOMAIN workflow : Ends(w)
    BY <1>3
  <2>2. /\ DOMAIN workflow' = DOMAIN workflow /\ workflow'[w].status # "IN_PROGRESS"
        /\ \A v \in DOMAIN workflow :
             workflow'[v].doc = workflow[v].doc /\ (v # w => workflow'[v] = workflow[v])
    BY <2>1, EndsRows DEF Finals
  <2> QED
    BY <2>2 DEF LiveIsNewest
<1>4. CASE Rests
  BY <1>4 DEF Rests, LiveIsNewest
<1> QED
  BY <1>1, <1>2, <1>3, <1>4, StepEffect

\* validateDuplicateWorkflow does its job when requests do not overlap: of the
\* workflows of a document only the newest can be in progress.
THEOREM NewestWorkflow == Spec => []LiveIsNewest
<1>1. Init => TypeInv /\ LiveIsNewest
  BY InitType DEF Init, LiveIsNewest
<1>2. TypeInv /\ LiveIsNewest /\ [Next]_vars => (TypeInv /\ LiveIsNewest)'
  BY TypeStep, LiveIsNewestStep
<1> QED
  BY <1>1, <1>2, PTL DEF Spec

-----------------------------------------------------------------------------
(* A workflow in progress waits for exactly one approver.                  *)

\* A new pending line comes with the decision of the one before it.
LEMMA OneCurrentLineStep ==
    ASSUME TypeInv, OneCurrentLine, [Next]_vars
    PROVE  OneCurrentLine'
<1>0. /\ DOMAIN workflow \subseteq Nat /\ DOMAIN line \subseteq Nat
      /\ Len(workflow) \in Nat /\ Len(line) \in Nat /\ References
  BY DEF TypeInv, TypeOK
<1>1. CASE \E d \in Docs : Begins(d)
  <2>1. PICK d \in Docs : Begins(d)
    BY <1>1
  <2> DEFINE n == Len(workflow) + 1
             m == Len(line) + 1
  <2>2. /\ DOMAIN workflow' = DOMAIN workflow \cup {n} /\ workflow'[n].current = 1
        /\ \A v \in DOMAIN workflow : v < n /\ workflow'[v] = workflow[v]
        /\ DOMAIN line' = DOMAIN line \cup {m}
        /\ \A k \in DOMAIN line : k < m /\ line'[k] = line[k]
        /\ line'[m].workflow = n /\ line'[m].order = 1 /\ line'[m].status = "PENDING"
    BY <2>1, BeginsRows
  <2>3. n \notin DOMAIN workflow /\ m \notin DOMAIN line
    BY <1>0, <2>2
  <2> HIDE DEF n, m
  <2>4. \A k \in DOMAIN line : line'[k].workflow # n
    BY <1>0, <2>2, <2>3 DEF References
  <2>5. ASSUME NEW w \in DOMAIN workflow', InProgress(w)'
        PROVE  \E l \in DOMAIN line' :
                 /\ CurrentLines(w)' = {l}
                 /\ \A k \in DOMAIN line' :
                      line'[k].workflow = w /\ line'[k].status = "PENDING" => k = l
    <3>1. CASE w = n
      <4>1. CurrentLines(w)' = {m}
        BY <2>2, <2>4, <3>1 DEF CurrentLines
      <4> QED
        BY <2>2, <2>4, <3>1, <4>1
    <3>2. CASE w # n
      <4>1. w \in DOMAIN workflow /\ InProgress(w) /\ workflow'[w] = workflow[w]
        BY <2>2, <2>5, <3>2 DEF InProgress
      <4>2. CurrentLines(w)' = CurrentLines(w)
        BY <2>2, <3>2, <4>1 DEF CurrentLines
      <4> QED
        BY <2>2, <3>2, <4>1, <4>2 DEF OneCurrentLine
    <3> QED
      BY <3>1, <3>2
  <2> QED
    BY <2>5 DEF OneCurrentLine
<1>2. CASE \E w \in DOMAIN workflow : Advances(w)
  <2>1. PICK u \in DOMAIN workflow : Advances(u)
    BY <1>2
  <2> DEFINE m == Len(line) + 1
  <2>7. PICK c \in DOMAIN line : AdvancedRows(u, c)
    BY <2>1, AdvancesRows
  <2>2. /\ InProgress(u) /\ CurrentLines(u) = {c}
        /\ DOMAIN workflow' = DOMAIN workflow
        /\ \A v \in DOMAIN workflow :
             /\ workflow'[v].status = workflow[v].status
             /\ v # u => workflow'[v] = workflow[v]
        /\ workflow'[u].current = workflow[u].current + 1
        /\ DOMAIN line' = DOMAIN line \cup {m}
        /\ \A k \in DOMAIN line :
             /\ k < m /\ line'[k].workflow = line[k].workflow
             /\ k # c => line'[k] = line[k]
        /\ line'[c].status = "APPROVED"
        /\ line'[m].workflow = u /\ line'[m].status = "PENDING"
        /\ line'[m].order = workflow[u].current + 1
    BY <2>7 DEF AdvancedRows
  <2>3. m \notin DOMAIN line
    BY <1>0, <2>2
  <2> HIDE DEF m
  <2>4. line[c].workflow = u
    BY <2>2 DEF CurrentLines
  <2>5. \A k \in DOMAIN line : line[k].workflow = u /\ line[k].status = "PENDING" => k = c
    BY <2>2 DEF OneCurrentLine
  <2>6. ASSUME NEW w \in DOMAIN workflow', InProgress(w)'
        PROVE  \E l \in DOMAIN line' :
                 /\ CurrentLines(w)' = {l}
                 /\ \A k \in DOMAIN line' :
                      line'[k].workflow = w /\ line'[k].status = "PENDING" => k = l
    <3>1. CASE w = u
      <4>1. \A k \in DOMAIN line' :
              line'[k].workflow = u /\ line'[k].status = "PENDING" => k = m
        BY <2>2, <2>5
      <4>2. CurrentLines(w)' = {m}
        BY <2>2, <3>1, <4>1 DEF CurrentLines
      <4> QED
        BY <2>2, <3>1, <4>1, <4>2
    <3>2. CASE w # u
      <4>1. w \in DOMAIN workflow /\ InProgress(w) /\ workflow'[w] = workflow[w]
        BY <2>2, <2>6, <3>2 DEF InProgress
      <4>2. \A k \in DOMAIN line : line[k].workflow = w => line'[k] = line[k]
        BY <2>2, <2>4, <3>2
      <4>3. \A k \in DOMAIN line' : line'[k].workflow = w => k \in DOMAIN line
        BY <2>2, <3>2
      <4>4. CurrentLines(w)' = CurrentLines(w)
        BY <2>2, <4>1, <4>2, <4>3 DEF CurrentLines
      <4> QED
        BY <2>2, <4>1, <4>2, <4>3, <4>4 DEF OneCurrentLine
    <3> QED
      BY <3>1, <3>2
  <2> QED
    BY <2>6 DEF OneCurrentLine
<1>3. CASE \E w \in DOMAIN workflow : Ends(w)
  <2>1. PICK u \in DOMAIN workflow : Ends(u)
    BY <1>3
  <2>2. /\ DOMAIN workflow' = DOMAIN workflow /\ workflow'[u].status # "IN_PROGRESS"
        /\ \A v \in DOMAIN workflow : v # u => workflow'[v] = workflow[v]
        /\ DOMAIN line' = DOMAIN line
        /\ \A k \in DOMAIN line :
             /\ line'[k].workflow = line[k].workflow
             /\ k \notin CurrentLines(u) => line'[k] = line[k]
    BY <2>1, EndsRows DEF Finals
  <2>3. ASSUME NEW w \in DOMAIN workflow', InProgress(w)'
        PROVE  \E l \in DOMAIN line' :
                 /\ CurrentLines(w)' = {l}
                 /\ \A k \in DOMAIN line' :
                      line'[k].workflow = w /\ line'[k].status = "PENDING" => k = l
    <3>1. w # u /\ w \in DOMAIN workflow /\ InProgress(w) /\ workflow'[w] = workflow[w]
      BY <2>2, <2>3 DEF InProgress
    <3>2. \A k \in DOMAIN line : line[k].workflow = w => line'[k] = line[k]
      BY <2>2, <3>1 DEF CurrentLines
    <3>3. CurrentLines(w)' = CurrentLines(w)
      BY <2>2, <3>1, <3>2 DEF CurrentLines
    <3> QED
      BY <2>2, <3>1, <3>2, <3>3 DEF OneCurrentLine
  <2> QED
    BY <2>3 DEF OneCurrentLine
<1>4. CASE Rests
  BY <1>4 DEF Rests, OneCurrentLine, InProgress, CurrentLines
<1> QED
  BY <1>1, <1>2, <1>3, <1>4, StepEffect

\* getCurrentLine never throws on a workflow in progress: whatever templates are
\* edited meanwhile, it waits for the one approver of its current step.
THEOREM OneApproverAtATime == Spec => []OneCurrentLine
<1>1. Init => TypeInv /\ OneCurrentLine
  BY InitType DEF Init, OneCurrentLine
<1>2. TypeInv /\ OneCurrentLine /\ [Next]_vars => (TypeInv /\ OneCurrentLine)'
  BY TypeStep, OneCurrentLineStep
<1> QED
  BY <1>1, <1>2, PTL DEF Spec

-----------------------------------------------------------------------------
(* A document that says PENDING has a workflow in progress.                *)

\* A document without a domain handler is never submitted, and no handler ends
\* its workflows: it must not say PENDING in the first place.
UnhandledNotPending ==
    \A d \in Docs : ~HasHandler(DomainOf[d]) => approval[d] # "PENDING"

PendingInv == PendingHasWorkflow /\ UnhandledNotPending

\* A document stops saying PENDING when its workflow ends.
LEMMA PendingStep ==
    ASSUME TypeInv, PendingInv, [Next]_vars
    PROVE  PendingInv'
<1>0. approval \in [Docs -> ApprovalStatus] /\ workflow \in Seq(WorkflowRow)
  BY DEF TypeInv, TypeOK
<1>1. CASE \E d \in Docs : Begins(d)
  <2>1. PICK d \in Docs : Begins(d)
    BY <1>1
  <2> DEFINE n == Len(workflow) + 1
  <2>2. /\ DOMAIN workflow' = DOMAIN workflow \cup {n}
        /\ workflow'[n].doc = d /\ workflow'[n].status = "IN_PROGRESS"
        /\ \A v \in DOMAIN workflow : workflow'[v] = workflow[v]
    BY <2>1, BeginsRows
  <2> HIDE DEF n
  <2>3. \/ approval' = approval
        \/ HasHandler(DomainOf[d]) /\ approval' = [approval EXCEPT ![d] = "PENDING"]
    BY <2>1 DEF Begins
  <2>4. \A c \in Docs : c # d => approval'[c] = approval[c]
    BY <1>0, <2>3
  <2>5. n \in LiveWorkflows(d)'
    BY <2>2 DEF LiveWorkflows
  <2>6. \A c \in Docs : LiveWorkflows(c) \subseteq LiveWorkflows(c)'
    BY <2>2 DEF LiveWorkflows
  <2>7. PendingHasWorkflow'
    BY <2>4, <2>5, <2>6 DEF PendingInv, PendingHasWorkflow
  <2>8. UnhandledNotPending'
    BY <1>0, <2>3, <2>4 DEF PendingInv, UnhandledNotPending
  <2> QED
    BY <2>7, <2>8 DEF PendingInv
<1>2. CASE \E w \in DOMAIN workflow : Advances(w)
  <2>1. PICK w \in DOMAIN workflow, l \in DOMAIN line : AdvancedRows(w, l)
    BY <1>2, AdvancesRows
  <2>2. \A d \in Docs : LiveWorkflows(d)' = LiveWorkflows(d)
    BY <2>1 DEF AdvancedRows, LiveWorkflows
  <2> QED
    BY <2>1, <2>2 DEF AdvancedRows, PendingInv, PendingHasWorkflow, UnhandledNotPending
<1>3. CASE \E w \in DOMAIN workflow : Ends(w)
  <2>1. PICK w \in DOMAIN workflow : Ends(w)
    BY <1>3
  <2> DEFINE d == workflow[w].doc
  <2>2. /\ DOMAIN workflow' = DOMAIN workflow /\ workflow'[w].status \in Finals
        /\ \A v \in DOMAIN workflow : v # w => workflow'[v] = workflow[v]
        /\ approval' = IF HasHandler(DomainOf[d])
                       THEN [approval EXCEPT ![d] = workflow'[w].status] ELSE approval
    BY <2>1, EndsRows
  <2>3. d \in Docs
    <3>1. workflow[w] \in WorkflowRow
      BY <1>0
    <3> QED
      BY <3>1 DEF WorkflowRow
  <2>4. \A c \in Docs : c # d => LiveWorkflows(c)' = LiveWorkflows(c)
    BY <2>1, <2>2, EndsRows DEF LiveWorkflows
  <2> HIDE DEF d
  <2>5. approval'[d] # "PENDING"
    BY <1>0, <2>2, <2>3 DEF Finals, PendingInv, UnhandledNotPending
  <2>6. \A c \in Docs : c # d => approval'[c] = approval[c]
    BY <1>0, <2>2, <2>3
  <2> QED
    BY <2>3, <2>4, <2>5, <2>6 DEF PendingInv, PendingHasWorkflow, UnhandledNotPending
<1>4. CASE Rests
  BY <1>4 DEF Rests, PendingInv, PendingHasWorkflow, UnhandledNotPending, LiveWorkflows
<1> QED
  BY <1>1, <1>2, <1>3, <1>4, StepEffect

\* No document waits for a decision nobody can take: PENDING means that one of
\* its workflows is in progress.
THEOREM PendingIsBacked == Spec => []PendingHasWorkflow
<1>1. Init => TypeInv /\ PendingInv
  BY InitType, WorkflowAssumption
     DEF Init, PendingInv, PendingHasWorkflow, UnhandledNotPending
<1>2. TypeInv /\ PendingInv /\ [Next]_vars => (TypeInv /\ PendingInv)'
  BY TypeStep, PendingStep
<1>3. PendingInv => PendingHasWorkflow
  BY DEF PendingInv
<1> QED
  BY <1>1, <1>2, <1>3, PTL DEF Spec

-----------------------------------------------------------------------------
(* Decisions are final.                                                    *)

\* The action DecisionsAreFinal speaks of.
KeepsDecisions ==
    /\ \A w \in DOMAIN workflow :
         w \in DOMAIN workflow' /\ (~InProgress(w) => workflow'[w] = workflow[w])
    /\ \A l \in DOMAIN line :
         /\ l \in DOMAIN line'
         /\ line'[l].approver = line[l].approver
         /\ line[l].status # "PENDING" => line'[l] = line[l]

\* Only the current line of a workflow in progress is written.
LEMMA KeepsDecisionsStep ==
    ASSUME TypeInv, [Next]_vars
    PROVE  KeepsDecisions
<1>1. CASE \E d \in Docs : Begins(d)
  <2>1. PICK d \in Docs : Begins(d)
    BY <1>1
  <2>2. /\ \A w \in DOMAIN workflow : w \in DOMAIN workflow' /\ workflow'[w] = workflow[w]
        /\ \A l \in DOMAIN line : l \in DOMAIN line' /\ line'[l] = line[l]
    BY <2>1, BeginsRows
  <2> QED
    BY <2>2 DEF KeepsDecisions
<1>2. CASE \E w \in DOMAIN workflow : Advances(w)
  <2>1. PICK u \in DOMAIN workflow, c \in DOMAIN line : AdvancedRows(u, c)
    BY <1>2, AdvancesRows
  <2>2. InProgress(u) /\ line[c].status = "PENDING"
    BY <2>1 DEF AdvancedRows, CurrentLines
  <2> QED
    BY <2>1, <2>2 DEF AdvancedRows, KeepsDecisions
<1>3. CASE \E w \in DOMAIN workflow : Ends(w)
  <2>1. PICK u \in DOMAIN workflow : Ends(u)
    BY <1>3
  <2>2. /\ InProgress(u) /\ DOMAIN workflow' = DOMAIN workflow
        /\ \A v \in DOMAIN workflow : v # u => workflow'[v] = workflow[v]
        /\ DOMAIN line' = DOMAIN line
        /\ \A k \in DOMAIN line :
             /\ line'[k].approver = line[k].approver
             /\ k \notin CurrentLines(u) => line'[k] = line[k]
    BY <2>1, EndsRows
  <2> QED
    BY <2>2 DEF KeepsDecisions, CurrentLines
<1>4. CASE Rests
  BY <1>4 DEF Rests, KeepsDecisions
<1> QED
  BY <1>1, <1>2, <1>3, <1>4, StepEffect

\* No request, whoever sends it and however late, changes a finished workflow, a
\* decided line or the approver of a line.
THEOREM DecisionsStand == Spec => DecisionsAreFinal
<1>1. TypeInv /\ [Next]_vars => [KeepsDecisions]_vars
  BY KeepsDecisionsStep
<1>2. Spec => [][KeepsDecisions]_vars
  BY <1>1, InitType, TypeStep, PTL DEF Spec
<1> QED
  BY <1>2 DEF DecisionsAreFinal, KeepsDecisions

-----------------------------------------------------------------------------
(***************************************************************************)
(* The chain of approvals behind a workflow.  ApprovalChain counts lines;  *)
(* what makes it inductive is that no two lines of a workflow share a      *)
(* step, so that the current line is the only one at the last step.  Where *)
(* the administrator's step lists are numbered 1, 2, ..., as the pages     *)
(* that build them number them, the chain covers the template and the hint *)
(* to the page is right.                                                   *)
(***************************************************************************)

\* What ApprovalChain says of one workflow, and that its lines differ in order.
ChainFits(w) ==
    LET n == Cardinality(ChainOf(w)) IN
    /\ {line[l].order : l \in ChainOf(w)} = 1..n
    /\ workflow[w].status # "APPROVED" => workflow[w].current = n
    /\ \A l \in ChainOf(w) :
         line[l].order < n \/ workflow[w].status = "APPROVED" => line[l].status = "APPROVED"
    /\ \A k, l \in ChainOf(w) : line[k].order = line[l].order => k = l

ChainInv == \A w \in DOMAIN workflow : ChainFits(w)

-----------------------------------------------------------------------------

\* A workflow has finitely many lines.
LEMMA ChainFinite ==
    ASSUME TypeOK, NEW w
    PROVE  IsFiniteSet(ChainOf(w)) /\ Cardinality(ChainOf(w)) \in Nat
<1>1. Len(line) \in Nat /\ DOMAIN line = 1..Len(line)
  BY DEF TypeOK
<1>2. IsFiniteSet(1..Len(line))
  BY <1>1, FS_Interval
<1>3. ChainOf(w) \subseteq 1..Len(line)
  BY <1>1 DEF ChainOf
<1>4. IsFiniteSet(ChainOf(w))
  BY <1>2, <1>3, FS_Subset
<1> QED
  BY <1>4, FS_CardinalityType

\* A step that leaves a workflow, its lines and their set alone leaves its chain.
LEMMA ChainUntouched ==
    ASSUME NEW w, ChainFits(w), workflow'[w] = workflow[w], ChainOf(w)' = ChainOf(w),
           \A l \in ChainOf(w) : line'[l] = line[l]
    PROVE  ChainFits(w)'
BY DEF ChainFits

\* A workflow begins with a chain of one line.
LEMMA BeginningFits ==
    ASSUME TypeInv, ChainInv, NEW d \in Docs, Begins(d)
    PROVE  ChainInv'
<1> DEFINE m == Len(line) + 1
<1>0. PICK n : n = Len(workflow) + 1
  OBVIOUS
<1>1. /\ DOMAIN workflow' = DOMAIN workflow \cup {n} /\ workflow'[n].current = 1
      /\ workflow'[n].status = "IN_PROGRESS"
      /\ \A v \in DOMAIN workflow : v < n /\ workflow'[v] = workflow[v]
      /\ DOMAIN line' = DOMAIN line \cup {m}
      /\ \A k \in DOMAIN line : k < m /\ line'[k] = line[k]
      /\ line'[m].workflow = n /\ line'[m].order = 1 /\ line'[m].status = "PENDING"
  BY <1>0, BeginsRows
<1>2. n \notin DOMAIN workflow /\ m \notin DOMAIN line
  BY <1>1 DEF TypeInv, TypeOK
<1> HIDE DEF m
<1>3. \A k \in DOMAIN line : line[k].workflow \in DOMAIN workflow
  BY DEF TypeInv, References
<1>4. ChainOf(n)' = {m}
  BY <1>1, <1>2, <1>3 DEF ChainOf
<1>5. ChainFits(n)'
  <2>1. Cardinality({m}) = 1
    BY FS_Singleton
  <2>2. {line'[l].order : l \in {m}} = 1..1
    BY <1>1
  <2> QED
    BY <1>1, <1>4, <2>1, <2>2 DEF ChainFits
<1>6. ASSUME NEW w \in DOMAIN workflow PROVE ChainFits(w)'
  <2>1. ChainOf(w)' = ChainOf(w) /\ \A l \in ChainOf(w) : line'[l] = line[l]
    BY <1>1, <1>2 DEF ChainOf
  <2> QED
    BY <1>1, <2>1, ChainUntouched DEF ChainInv
<1> QED
  BY <1>1, <1>5, <1>6 DEF ChainInv

\* An approval adds the next line to a chain whose last line it approves.
LEMMA AdvancingFits ==
    ASSUME TypeInv, ChainInv, NEW u \in DOMAIN workflow, Advances(u)
    PROVE  ChainInv'
<1> DEFINE m == Len(line) + 1
           n == Cardinality(ChainOf(u))
<1>1. PICK c \in DOMAIN line : AdvancedRows(u, c)
  BY AdvancesRows
<1>2. /\ InProgress(u) /\ CurrentLines(u) = {c}
      /\ DOMAIN workflow' = DOMAIN workflow
      /\ \A v \in DOMAIN workflow : v # u => workflow'[v] = workflow[v]
      /\ workflow'[u].status = workflow[u].status
      /\ workflow'[u].current = workflow[u].current + 1
      /\ DOMAIN line' = DOMAIN line \cup {m}
      /\ \A k \in DOMAIN line :
           /\ line'[k].workflow = line[k].workflow
           /\ line'[k].order = line[k].order
           /\ k # c => line'[k] = line[k]
      /\ line'[c].status = "APPROVED"
      /\ line'[m].workflow = u /\ line'[m].order = workflow[u].current + 1
  BY <1>1 DEF AdvancedRows
<1>3. m \notin DOMAIN line
  BY DEF TypeInv, TypeOK
<1> HIDE DEF m
<1>4. c \in ChainOf(u) /\ line[c].order = workflow[u].current
  BY <1>2 DEF CurrentLines, ChainOf
<1>5. ASSUME NEW w \in DOMAIN workflow, w # u PROVE ChainFits(w)'
  <2>1. ChainOf(w)' = ChainOf(w) /\ \A l \in ChainOf(w) : line'[l] = line[l]
    BY <1>2, <1>3, <1>4, <1>5 DEF ChainOf
  <2> QED
    BY <1>2, <1>5, <2>1, ChainUntouched DEF ChainInv
<1>6. ChainFits(u)'
  <2>1. n \in Nat /\ IsFiniteSet(ChainOf(u)) /\ IsFiniteSet(ChainOf(u))
    BY ChainFinite DEF TypeInv
  <2>2. ChainOf(u)' = ChainOf(u) \cup {m} /\ m \notin ChainOf(u)
    BY <1>2, <1>3 DEF ChainOf
  <2>3. Cardinality(ChainOf(u)') = n + 1
    BY <2>1, <2>2, FS_AddElement
  <2>4. /\ {line[l].order : l \in ChainOf(u)} = 1..n
        /\ workflow[u].current = n
        /\ \A l \in ChainOf(u) : line[l].order < n => line[l].status = "APPROVED"
        /\ \A k, l \in ChainOf(u) : line[k].order = line[l].order => k = l
    BY <1>2 DEF ChainInv, ChainFits, InProgress
  <2> HIDE DEF n
  <2>5. /\ \A l \in ChainOf(u) : l \in DOMAIN line /\ l # m /\ line'[l].order = line[l].order
        /\ line'[m].order = n + 1
    BY <1>2, <1>3, <2>4 DEF ChainOf
  <2>6. {line'[l].order : l \in ChainOf(u) \cup {m}} = 1..(n + 1)
    <3>1. {line'[l].order : l \in ChainOf(u) \cup {m}}
             = {line[l].order : l \in ChainOf(u)} \cup {n + 1}
      BY <2>5
    <3> QED
      BY <2>1, <2>4, <3>1
  <2>7. \A l \in ChainOf(u) : line[l].order \in 1..n
    BY <2>4
  <2>8. ASSUME NEW l \in ChainOf(u) \cup {m}, line'[l].order < n + 1
        PROVE  line'[l].status = "APPROVED"
    <3>1. l \in ChainOf(u) /\ line[l].order < n + 1
      BY <2>1, <2>5, <2>8
    <3>2. CASE l = c
      BY <1>2, <3>2
    <3>3. CASE l # c
      <4>1. line[l].order # n
        BY <1>4, <2>4, <3>1, <3>3
      <4> QED
        BY <1>2, <2>1, <2>4, <2>5, <2>7, <3>1, <3>3, <4>1
    <3> QED
      BY <3>2, <3>3
  <2>9. \A k, l \in ChainOf(u) \cup {m} : line'[k].order = line'[l].order => k = l
    BY <2>1, <2>4, <2>5, <2>7
  <2>10. workflow'[u].current = n + 1 /\ workflow'[u].status # "APPROVED"
    BY <1>2, <2>4 DEF InProgress
  <2> QED
    BY <2>2, <2>3, <2>6, <2>8, <2>9, <2>10 DEF ChainFits
<1> QED
  BY <1>2, <1>5, <1>6 DEF ChainInv

\* The end of a workflow decides at most the last line of its chain.
LEMMA EndingFits ==
    ASSUME TypeInv, ChainInv, NEW u \in DOMAIN workflow, Ends(u)
    PROVE  ChainInv'
<1> DEFINE n == Cardinality(ChainOf(u))
<1>1. /\ InProgress(u) /\ DOMAIN workflow' = DOMAIN workflow
      /\ \A v \in DOMAIN workflow : v # u => workflow'[v] = workflow[v]
      /\ DOMAIN line' = DOMAIN line
      /\ \A k \in DOMAIN line :
           /\ line'[k].workflow = line[k].workflow
           /\ line'[k].order = line[k].order
           /\ k \notin CurrentLines(u) => line'[k] = line[k]
      /\ EndsProperly(u, workflow'[u])
  BY EndsRows
<1>2. \A w : ChainOf(w)' = ChainOf(w)
  BY <1>1 DEF ChainOf
<1>3. ASSUME NEW w \in DOMAIN workflow, w # u PROVE ChainFits(w)'
  <2>1. \A l \in ChainOf(w) : line'[l] = line[l]
    BY <1>1, <1>3 DEF ChainOf, CurrentLines
  <2> QED
    BY <1>1, <1>2, <1>3, <2>1, ChainUntouched DEF ChainInv
<1>4. ChainFits(u)'
  <2>1. /\ {line[l].order : l \in ChainOf(u)} = 1..n
        /\ workflow[u].current = n /\ n \in Nat
        /\ \A l \in ChainOf(u) : line[l].order < n => line[l].status = "APPROVED"
        /\ \A k, l \in ChainOf(u) : line[k].order = line[l].order => k = l
    BY <1>1, ChainFinite DEF ChainInv, ChainFits, InProgress, TypeInv
  <2> HIDE DEF n
  <2>2. \A l \in ChainOf(u) : l \in DOMAIN line /\ line'[l].order = line[l].order
    BY <1>1 DEF ChainOf
  <2>3. \A l \in ChainOf(u) : line[l].order \in 1..n
    BY <2>1
  <2>4. \A l \in CurrentLines(u) : l \in ChainOf(u) /\ line[l].order = n
    BY <2>1 DEF CurrentLines, ChainOf
  <2>5. {line'[l].order : l \in ChainOf(u)} = 1..n
    BY <2>1, <2>2
  <2>6. ASSUME NEW l \in ChainOf(u), line[l].order < n PROVE line'[l].status = "APPROVED"
    BY <1>1, <2>1, <2>2, <2>3, <2>4, <2>6
  <2>7. CASE workflow'[u].status # "APPROVED"
    BY <1>1, <1>2, <2>1, <2>2, <2>5, <2>6, <2>7 DEF ChainFits, EndsProperly, n
  <2>8. CASE workflow'[u].status = "APPROVED"
    <3>1. PICK c \in DOMAIN line :
            CurrentLines(u) = {c} /\ line' = [line EXCEPT ![c].status = "APPROVED"]
      BY <1>1, <2>8 DEF EndsProperly
    <3>2. line'[c].status = "APPROVED"
      <4>1. line \in Seq(LineRow)
        BY DEF TypeInv, TypeOK
      <4>2. line[c] \in LineRow
        BY <4>1
      <4> QED
        BY <3>1, <4>1, <4>2 DEF LineRow
    <3>3. ASSUME NEW l \in ChainOf(u) PROVE line'[l].status = "APPROVED"
      <4>1. line[l].order = n => l = c
        BY <2>1, <2>4, <3>1
      <4>2. line[l].order = n \/ line[l].order < n
        BY <2>1, <2>3
      <4> QED
        BY <2>6, <3>2, <4>1, <4>2
    <3> QED
      BY <1>2, <2>1, <2>2, <2>5, <2>8, <3>3 DEF ChainFits, n
  <2> QED
    BY <2>7, <2>8
<1> QED
  BY <1>1, <1>3, <1>4 DEF ChainInv

\* Every step keeps the chains whole.
LEMMA ChainStep ==
    ASSUME TypeInv, ChainInv, [Next]_vars
    PROVE  ChainInv'
<1>1. CASE Rests
  <2>1. \A w : ChainOf(w)' = ChainOf(w)
    BY <1>1 DEF Rests, ChainOf
  <2> QED
    BY <1>1, <2>1 DEF Rests, ChainInv, ChainFits
<1> QED
  BY <1>1, BeginningFits, AdvancingFits, EndingFits, StepEffect

\* Types, foreign keys and chains, along every behaviour.
LEMMA ChainHolds == Spec => [](TypeInv /\ ChainInv)
<1>1. Init => TypeInv /\ ChainInv
  BY InitType DEF Init, ChainInv
<1>2. TypeInv /\ ChainInv /\ [Next]_vars => (TypeInv /\ ChainInv)'
  BY TypeStep, ChainStep
<1> QED
  BY <1>1, <1>2, PTL DEF Spec

\* The audit trail of a workflow has no gap and no double, whatever templates are
\* edited while it runs: step by step, every line before the current one is an
\* approval, and all of them are once the workflow is approved.
THEOREM ChainWhole == Spec => []ApprovalChain
<1>1. ChainInv => ApprovalChain
  BY DEF ChainInv, ChainFits, ApprovalChain
<1> QED
  BY <1>1, ChainHolds, PTL

-----------------------------------------------------------------------------
(* Where step lists are numbered 1, 2, ... without a gap.                  *)

Numbered(steps) == \A i \in DOMAIN steps : steps[i].order = i

\* What the administration pages post: new/page.tsx numbers a step by its place,
\* edit/page.tsx keeps the numbers.
PlansNumbered == \A plan \in Plans : Numbered(plan)

TemplatesNumbered == \A t \in DOMAIN template : Numbered(template[t].steps)

\* The initializer's step lists are numbered.
LEMMA SeedNumbered == \A dom : Numbered(SeedTemplate(dom).steps)
<1> TAKE dom
<1> DEFINE two == <<[order |-> 1, position |-> 2], [order |-> 2, position |-> 3]>>
           three == <<[order |-> 1, position |-> 1], [order |-> 2, position |-> 2],
                      [order |-> 3, position |-> 3]>>
<1>1. Numbered(two) /\ Numbered(three)
  BY DEF Numbered
<1>2. SeedTemplate(dom).steps \in {two, three}
  BY DEF SeedTemplate, SeedPlan
<1> QED
  BY <1>1, <1>2

\* In a numbered list, step n is the n-th, and there is one as long as the list is
\* not over.
LEMMA NumberedSteps ==
    ASSUME TypeOK, NEW t \in DOMAIN template, Numbered(template[t].steps), NEW n \in Nat
    PROVE  StepsAt(t, n + 1) # {} <=> n < Len(template[t].steps)
<1>1. template[t].steps \in Seq(StepRow)
  <2>1. template[t] \in TemplateRow
    BY DEF TypeOK
  <2> QED
    BY <2>1 DEF TemplateRow
<1>2. DOMAIN template[t].steps = 1..Len(template[t].steps) /\ Len(template[t].steps) \in Nat
  BY <1>1
<1>3. StepsAt(t, n + 1) = {s \in DOMAIN template[t].steps : s = n + 1}
  BY DEF StepsAt, Numbered
<1>4. StepsAt(t, n + 1) # {} <=> n + 1 \in 1..Len(template[t].steps)
  BY <1>2, <1>3
<1>5. n + 1 \in 1..Len(template[t].steps) <=> n < Len(template[t].steps)
  BY <1>2
<1> QED
  BY <1>4, <1>5

\* What a sequence looks like behind another.
LEMMA ConcatElements ==
    ASSUME NEW S, NEW q \in Seq(S), NEW n \in Nat, NEW f \in [1..n -> S],
           NEW i \in DOMAIN (q \o f)
    PROVE  \/ i \in DOMAIN q /\ (q \o f)[i] = q[i]
           \/ \E j \in 1..n : (q \o f)[i] = f[j]
<1>1. f \in Seq(S) /\ Len(f) = n
  OBVIOUS
<1>2. CASE i <= Len(q)
  BY <1>1, <1>2
<1>3. CASE i > Len(q)
  <2>1. i - Len(q) \in 1..n /\ (q \o f)[i] = f[i - Len(q)]
    BY <1>1, <1>3
  <2> QED
    BY <2>1
<1> QED
  BY <1>1, <1>2, <1>3

\* No transaction numbers a template otherwise.
LEMMA NumberedStep ==
    ASSUME PlansNumbered, TypeInv, TemplatesNumbered, [Next]_vars
    PROVE  TemplatesNumbered'
<1>0. template \in Seq(TemplateRow)
  BY DEF TypeInv, TypeOK
<1>1. CASE \E plan \in Plans, d \in Docs : CreateTemplate(DomainOf[d], plan)
  <2>1. PICK plan \in Plans, d \in Docs : CreateTemplate(DomainOf[d], plan)
    BY <1>1
  <2> DEFINE e == [domain |-> DomainOf[d], active |-> TRUE, steps |-> plan]
  <2>2. e \in TemplateRow
    BY WorkflowAssumption DEF TemplateRow
  <2>3. template' = Append(template, e)
    BY <2>1 DEF CreateTemplate
  <2>4. Numbered(e.steps)
    BY DEF PlansNumbered
  <2> HIDE DEF e
  <2>5. \A t \in DOMAIN template' : template'[t] = e \/ (t \in DOMAIN template /\ template'[t] = template[t])
    BY <1>0, <2>2, <2>3, AppendType
  <2> QED
    BY <2>4, <2>5 DEF TemplatesNumbered
<1>2. CASE \E plan \in Plans, t \in DOMAIN template, active \in BOOLEAN :
             UpdateTemplate(t, active, plan)
  <2>1. PICK plan \in Plans, t \in DOMAIN template, active \in BOOLEAN :
          UpdateTemplate(t, active, plan)
    BY <1>2
  <2> DEFINE e == [template[t] EXCEPT !.active = active, !.steps = plan]
  <2>2. template[t] \in TemplateRow
    BY <1>0
  <2>3. e.steps = plan
    BY <2>2 DEF TemplateRow
  <2>4. template' = [template EXCEPT ![t] = e]
    BY <2>1 DEF UpdateTemplate
  <2> HIDE DEF e
  <2>5. \A i \in DOMAIN template' :
           i \in DOMAIN template /\ (template'[i] = e \/ template'[i] = template[i])
    BY <1>0, <2>4
  <2> QED
    BY <2>3, <2>5 DEF TemplatesNumbered, PlansNumbered
<1>3. CASE Restart
  <2> DEFINE missing == {i \in DOMAIN Seeded : ActiveTemplates(Seeded[i]) = {}}
  <2>1. PICK added \in [1..Cardinality(missing) -> missing] :
          template' = template \o [i \in DOMAIN added |-> SeedTemplate(Seeded[added[i]])]
    BY <1>3 DEF Restart
  <2> DEFINE more == [i \in DOMAIN added |-> SeedTemplate(Seeded[added[i]])]
  <2>2. /\ \A i \in DOMAIN added : SeedTemplate(Seeded[added[i]]) \in TemplateRow
        /\ Cardinality(missing) \in Nat
    <3>1. Len(Seeded) \in Nat /\ DOMAIN Seeded = 1..Len(Seeded)
      BY WorkflowAssumption
    <3>2. IsFiniteSet(missing)
      <4>1. IsFiniteSet(1..Len(Seeded))
        BY <3>1, FS_Interval
      <4> QED
        BY <3>1, <4>1, FS_Subset
    <3>3. \A i \in DOMAIN added : added[i] \in DOMAIN Seeded
      OBVIOUS
    <3>4. \A i \in DOMAIN Seeded : Seeded[i] \in WorkflowDomain
      BY WorkflowAssumption
    <3> QED
      BY <3>2, <3>3, <3>4, SeedTemplateType, FS_CardinalityType
  <2> DEFINE n == Cardinality(missing)
  <2>3. /\ more \in [1..n -> TemplateRow] /\ n \in Nat /\ template' = template \o more
    BY <2>1, <2>2
  <2>4. \A j \in 1..n : Numbered(more[j].steps)
    BY SeedNumbered
  <2> HIDE DEF more, n
  <2>5. \A t \in DOMAIN template' :
          \/ t \in DOMAIN template /\ template'[t] = template[t]
          \/ \E j \in 1..n : template'[t] = more[j]
    BY <1>0, <2>3, ConcatElements
  <2> QED
    BY <2>4, <2>5 DEF TemplatesNumbered
<1>4. CASE UNCHANGED template
  BY <1>4 DEF TemplatesNumbered
<1>5. CASE \E d \in Docs :
             \/ \E u \in Users : Start(d, u) \/ Submit(d, u) \/ Register(d, u)
             \/ Create(d) \/ Delete(d) \/ RegisterProject(d)
  BY <1>4, <1>5 DEF Start, Submit, Register, Create, Delete, RegisterProject
<1>6. CASE \E w \in DOMAIN workflow : Decide(w) \/ Cancel(w)
  BY <1>4, <1>6 DEF Decide, Approve, Reject, Cancel
<1>7. CASE \E u \in Users, p \in Position : UpdateUser(u, p)
  BY <1>4, <1>7 DEF UpdateUser
<1>8. CASE UNCHANGED vars
  BY <1>4, <1>8 DEF vars
<1> QED
  BY <1>1, <1>2, <1>3, <1>5, <1>6, <1>7, <1>8 DEF Next

\* A template that is numbered stays so.
LEMMA NumberedHolds == PlansNumbered => (Spec => [](TypeInv /\ ChainInv /\ TemplatesNumbered))
<1> SUFFICES ASSUME PlansNumbered PROVE Spec => [](TypeInv /\ ChainInv /\ TemplatesNumbered)
  OBVIOUS
<1>1. Init => TypeInv /\ TemplatesNumbered
  <2> SUFFICES ASSUME Init PROVE TemplatesNumbered
    BY InitType
  <2>1. \A i \in DOMAIN template : template[i] = SeedTemplate(Seeded[i])
    BY DEF Init
  <2> QED
    BY <2>1, SeedNumbered DEF TemplatesNumbered
<1>2. TypeInv /\ TemplatesNumbered /\ [Next]_vars => TemplatesNumbered'
  BY NumberedStep
<1> QED
  BY <1>1, <1>2, ChainHolds, PTL DEF Spec

\* toWorkflowResponse tells the page to ask for a next approver exactly when
\* approve will need one, after every edit of the template, as long as edits keep
\* step lists numbered.
THEOREM HintIsRight == PlansNumbered => (Spec => []NextApproverHint)
<1> SUFFICES ASSUME PlansNumbered PROVE Spec => []NextApproverHint
  OBVIOUS
<1>1. TypeInv /\ TemplatesNumbered => NextApproverHint
  <2> SUFFICES ASSUME TypeInv, TemplatesNumbered, NEW w \in DOMAIN workflow, InProgress(w)
               PROVE  needNextApprover(w) <=>
                        StepsAt(workflow[w].template, workflow[w].current + 1) # {}
    BY DEF NextApproverHint
  <2>1. workflow[w] \in WorkflowRow
    BY DEF TypeInv, TypeOK
  <2>2. workflow[w].current \in Nat /\ workflow[w].template \in DOMAIN template
    BY <2>1 DEF WorkflowRow, TypeInv, References
  <2> QED
    BY <2>2, NumberedSteps DEF TypeInv, TemplatesNumbered, needNextApprover
<1> QED
  BY <1>1, NumberedHolds, PTL

\* What NoStepSkipped says of one step.
SkipsNone ==
    \A w \in DOMAIN workflow :
        InProgress(w) /\ workflow'[w].status = "APPROVED" =>
          \A s \in DOMAIN template[workflow[w].template].steps :
            \E l \in DOMAIN line' :
              /\ line'[l].workflow = w
              /\ line'[l].order = template[workflow[w].template].steps[s].order
              /\ line'[l].status = "APPROVED"

\* Only the end of a workflow makes it an approved one.
LEMMA OnlyEndsApprove ==
    ASSUME TypeInv, [Next]_vars, NEW w \in DOMAIN workflow, InProgress(w),
           workflow'[w].status = "APPROVED"
    PROVE  Ends(w)
<1>1. ASSUME NEW d \in Docs, Begins(d) PROVE workflow'[w] = workflow[w]
  BY <1>1, BeginsRows
<1>2. ASSUME NEW v \in DOMAIN workflow, Advances(v) PROVE workflow'[w].status = workflow[w].status
  BY <1>2, AdvancesRows DEF AdvancedRows
<1>3. ASSUME NEW v \in DOMAIN workflow, Ends(v), v # w PROVE workflow'[w] = workflow[w]
  BY <1>3, EndsRows
<1> QED
  BY <1>1, <1>2, <1>3, StepEffect DEF InProgress, Rests

\* The chain of an approved workflow is as long as the template has steps.
LEMMA SkipsNoneStep ==
    ASSUME TypeInv, ChainInv, TemplatesNumbered, [Next]_vars
    PROVE  SkipsNone
<1> SUFFICES ASSUME NEW w \in DOMAIN workflow, InProgress(w), workflow'[w].status = "APPROVED",
                    NEW s \in DOMAIN template[workflow[w].template].steps
             PROVE  \E l \in DOMAIN line' :
                      /\ line'[l].workflow = w
                      /\ line'[l].order = template[workflow[w].template].steps[s].order
                      /\ line'[l].status = "APPROVED"
  BY DEF SkipsNone
<1> DEFINE t == workflow[w].template
           n == Cardinality(ChainOf(w))
<1>1. Ends(w)
  BY OnlyEndsApprove
<1>2. /\ DOMAIN workflow' = DOMAIN workflow /\ DOMAIN line' = DOMAIN line
      /\ \A k \in DOMAIN line : line'[k].workflow = line[k].workflow /\ line'[k].order = line[k].order
      /\ EndsProperly(w, workflow'[w])
  BY <1>1, EndsRows
<1>3. workflow[w].current = n /\ {line[l].order : l \in ChainOf(w)} = 1..n /\ n \in Nat
  BY ChainFinite DEF ChainInv, ChainFits, InProgress, TypeInv
<1>4. t \in DOMAIN template /\ StepsAt(t, n + 1) = {}
  BY <1>2, <1>3 DEF EndsProperly, TypeInv, References
<1>5. template[t].steps[s].order = s /\ s \in 1..n
  <2>1. template[t] \in TemplateRow
    BY <1>4 DEF TypeInv, TypeOK
  <2>2. template[t].steps \in Seq(StepRow)
    BY <2>1 DEF TemplateRow
  <2>3. Numbered(template[t].steps)
    BY <1>4 DEF TemplatesNumbered
  <2>4. ~(n < Len(template[t].steps))
    BY <1>3, <1>4, <2>3, NumberedSteps DEF TypeInv
  <2> QED
    BY <1>3, <2>2, <2>3, <2>4 DEF Numbered
<1> HIDE DEF n, t
<1>6. PICK l \in ChainOf(w) : line[l].order = s
  BY <1>3, <1>5
<1>7. ChainInv'
  BY <1>1, EndingFits
<1>8. l \in ChainOf(w)' /\ line'[l].order = s /\ l \in DOMAIN line'
  BY <1>2, <1>6 DEF ChainOf
<1>9. line'[l].status = "APPROVED"
  BY <1>2, <1>7, <1>8 DEF ChainInv, ChainFits
<1> QED
  BY <1>5, <1>8, <1>9 DEF ChainOf, t

\* Nobody's approval is left out: when a workflow is approved, each step its
\* template has by then has an approved line, even if steps were added, moved or
\* removed while the workflow ran.
THEOREM NothingSkipped == PlansNumbered => (Spec => NoStepSkipped)
<1> SUFFICES ASSUME PlansNumbered PROVE Spec => NoStepSkipped
  OBVIOUS
<1>1. TypeInv /\ ChainInv /\ TemplatesNumbered /\ [Next]_vars => [SkipsNone]_vars
  BY SkipsNoneStep
<1>2. Spec => [][SkipsNone]_vars
  BY <1>1, NumberedHolds, PTL DEF Spec
<1> QED
  BY <1>2 DEF NoStepSkipped, SkipsNone

=============================================================================
