---------------------------- MODULE SerialProofs ----------------------------
(***************************************************************************)
(* One request at a time, WorkflowTx is Workflow: a request split into its *)
(* validation, its handler's load and its flush does to the tables what    *)
(* the atomic action does, whatever the sizes of the system.               *)
(*                                                                         *)
(* The write set of the one transaction in flight is what an action of     *)
(* Workflow would write in the tables as they are; nothing changes them    *)
(* before the flush, so the flush is that action and every other step is a *)
(* stutter.                                                                *)
(***************************************************************************)
EXTENDS TxProofs

\* A start or a submit that may go ahead.
Starting(c) ==
    \E d \in Docs, u \in Users, t \in DOMAIN template : \E i \in DOMAIN template[t].steps :
        /\ Len(workflow) < MaxWorkflows
        /\ LiveWorkflows(d) = {}
        /\ AlarmTypeExists(DomainOf[d], "APPROVAL_REQUEST")
        /\ ActiveTemplates(DomainOf[d]) = {t} /\ StepsAt(t, 1) = {i}
        /\ IsAtLeast(u, template[t].steps[i].position)
        /\ c.updWorkflow = {} /\ c.updLine = {}
        /\ c.newWorkflow = <<[doc |-> d, template |-> t, status |-> "IN_PROGRESS", current |-> 1]>>
        /\ c.newLine = <<NewLine(0, template[t].steps[i], u)>>
        /\ c.outcome = "none" /\ c.newProject = {}
        /\ \/ c.docs = {}
           \/ /\ HasHandler(DomainOf[d]) /\ row[d] = "live" /\ approval[d] = "DRAFT"
              /\ c.docs = {<<d, "live", "PENDING">>}

\* An approval that goes to the next approver.
Forwarding(c) ==
    \E w \in DOMAIN workflow, l \in DOMAIN line, u, v \in Users :
      LET t == workflow[w].template
          n == workflow[w].current + 1
      IN  \E i \in StepsAt(t, n) :
            /\ Decidable(w, l, u)
            /\ StepsAt(t, n) = {i}
            /\ IsAtLeast(v, template[t].steps[i].position)
            /\ c.updWorkflow = {<<w, [workflow[w] EXCEPT !.current = n]>>}
            /\ c.updLine = {<<l, [line[l] EXCEPT !.status = "APPROVED"]>>}
            /\ c.newWorkflow = << >>
            /\ c.newLine = <<NewLine(w, template[t].steps[i], v)>>
            /\ c.outcome = "none" /\ c.docs = {} /\ c.newProject = {}

\* The end of a workflow, without what its handler does to the document: a final
\* approval, a reject, a cancel.
EndingWith(c, w, o) ==
    \/ /\ o = "APPROVED"
       /\ \E l \in DOMAIN line, u \in Users :
            /\ Decidable(w, l, u)
            /\ StepsAt(workflow[w].template, workflow[w].current + 1) = {}
            /\ AlarmTypeExists(DomainOf[workflow[w].doc], "APPROVED")
            /\ c.updWorkflow = {<<w, [workflow[w] EXCEPT !.status = "APPROVED", !.current = 0]>>}
            /\ c.updLine = {<<l, [line[l] EXCEPT !.status = "APPROVED"]>>}
    \/ /\ o = "REJECTED"
       /\ \E l \in DOMAIN line, u \in Users :
            /\ Decidable(w, l, u)
            /\ AlarmTypeExists(DomainOf[workflow[w].doc], "REJECTED")
            /\ c.updWorkflow = {<<w, [workflow[w] EXCEPT !.status = "REJECTED"]>>}
            /\ c.updLine = {<<l, [line[l] EXCEPT !.status = "REJECTED"]>>}
    \/ /\ o = "CANCELED"
       /\ InProgress(w)
       /\ c.updWorkflow = {<<w, [workflow[w] EXCEPT !.status = "CANCELED"]>>}
       /\ c.updLine = {}

Ending(c, o) ==
    \E w \in DOMAIN workflow :
        /\ c.doc = workflow[w].doc
        /\ c.newWorkflow = << >> /\ c.newLine = << >>
        /\ EndingWith(c, w, o)

\* Before the handler has loaded the document, and after.
Deciding(c) == c.outcome # "none" /\ Ending(c, c.outcome)

Decided(c) ==
    \E o \in Finals :
        /\ c.outcome = "none" /\ Ending(c, o)
        /\ HasHandler(DomainOf[c.doc]) => row[c.doc] = "live"
        /\ c.docs = IF HasHandler(DomainOf[c.doc]) THEN DocWrite(c.doc, "live", o) ELSE {}
        /\ IF o = "APPROVED" /\ DomainOf[c.doc] = "ORDER_REPORT"
           THEN c.doc \notin project /\ c.newProject = {c.doc}
           ELSE c.newProject = {}

Deleting(c) ==
    \E d \in Docs :
        /\ row[d] = "live"
        /\ c.updWorkflow = {} /\ c.updLine = {} /\ c.newWorkflow = << >> /\ c.newLine = << >>
        /\ c.outcome = "none" /\ c.newProject = {}
        /\ c.docs = {<<d, "deleted", approval[d]>>}

Valid(c) == Starting(c) \/ Forwarding(c) \/ Deciding(c) \/ Decided(c) \/ Deleting(c)

-----------------------------------------------------------------------------
(* A flush that nothing has overtaken.                                     *)

\* Nothing to write changes nothing.
LEMMA OverwriteNothing ==
    ASSUME NEW f, f = [i \in DOMAIN f |-> f[i]]
    PROVE  Overwrite(f, {}) = f
BY DEF Overwrite

\* One row to write is an update of that row.
LEMMA OverwriteOne ==
    ASSUME NEW f, f = [i \in DOMAIN f |-> f[i]], NEW k \in DOMAIN f, NEW e
    PROVE  Overwrite(f, {<<k, e>>}) = [f EXCEPT ![k] = e]
<1> DEFINE U == {<<k, e>>}
<1>1. \A u \in U : u[1] = k /\ u[2] = e
  OBVIOUS
<1>2. \E u \in U : u[1] = k
  OBVIOUS
<1> HIDE DEF U
<1>3. ASSUME NEW i \in DOMAIN f PROVE Overwrite(f, U)[i] = [f EXCEPT ![k] = e][i]
  <2>1. CASE i = k
    <3>1. (CHOOSE u \in U : u[1] = i)[2] = e
      BY <1>1, <1>2, <2>1
    <3> QED
      BY <1>2, <2>1, <3>1 DEF Overwrite
  <2>2. CASE i # k
    BY <1>1, <2>2 DEF Overwrite
  <2> QED
    BY <2>1, <2>2
<1>4. /\ DOMAIN Overwrite(f, U) = DOMAIN f
      /\ Overwrite(f, U) = [i \in DOMAIN f |-> Overwrite(f, U)[i]]
  BY DEF Overwrite
<1>5. Overwrite(f, U) = [f EXCEPT ![k] = e]
  BY <1>3, <1>4
<1> QED
  BY <1>5 DEF U

\* Inserting one row is an Append, inserting none leaves the table.
LEMMA InsertOne ==
    ASSUME NEW S, NEW q \in Seq(S), NEW e \in S
    PROVE  q \o <<e>> = Append(q, e) /\ q \o << >> = q
OBVIOUS

\* The document's row and status after a flush.
LEMMA FlushNoDocument ==
    ASSUME TypeOK, NEW s \in Sessions, Commit(s), tx[s].docs = {}
    PROVE  row' = row /\ approval' = approval
<1>1. {<<w[1], w[2]>> : w \in tx[s].docs} = {} /\ {<<w[1], w[3]>> : w \in tx[s].docs} = {}
  OBVIOUS
<1>2. row' = Overwrite(row, {}) /\ approval' = Overwrite(approval, {})
  BY <1>1 DEF Commit
<1>3. /\ row = [d \in DOMAIN row |-> row[d]]
      /\ approval = [d \in DOMAIN approval |-> approval[d]]
  BY DEF TypeOK
<1> QED
  BY <1>2, <1>3, OverwriteNothing

LEMMA FlushDocument ==
    ASSUME TypeOK, NEW s \in Sessions, Commit(s), NEW d \in Docs, NEW r, NEW a,
           tx[s].docs = {<<d, r, a>>}
    PROVE  row' = [row EXCEPT ![d] = r] /\ approval' = [approval EXCEPT ![d] = a]
<1>1. /\ {<<w[1], w[2]>> : w \in tx[s].docs} = {<<d, r>>}
      /\ {<<w[1], w[3]>> : w \in tx[s].docs} = {<<d, a>>}
  OBVIOUS
<1>2. row' = Overwrite(row, {<<d, r>>}) /\ approval' = Overwrite(approval, {<<d, a>>})
  BY <1>1 DEF Commit
<1>3. /\ row = [e \in DOMAIN row |-> row[e]] /\ d \in DOMAIN row
      /\ approval = [e \in DOMAIN approval |-> approval[e]] /\ d \in DOMAIN approval
  BY DEF TypeOK
<1>4. row' = [row EXCEPT ![d] = r]
  BY <1>2, <1>3, OverwriteOne
<1>5. approval' = [approval EXCEPT ![d] = a]
  BY <1>2, <1>3, OverwriteOne
<1> QED
  BY <1>4, <1>5

\* The workflows after a flush.
LEMMA FlushWorkflows ==
    ASSUME TypeOK, NEW s \in Sessions, Commit(s)
    PROVE  /\ tx[s].updWorkflow = {} => workflow' = workflow \o tx[s].newWorkflow
           /\ \A w \in DOMAIN workflow : \A e : tx[s].updWorkflow = {<<w, e>>} =>
                workflow' = [workflow EXCEPT ![w] = e] \o tx[s].newWorkflow
<1>1. workflow' = Overwrite(workflow, tx[s].updWorkflow) \o tx[s].newWorkflow
  BY DEF Commit
<1>2. workflow = [w \in DOMAIN workflow |-> workflow[w]]
  BY DEF TypeOK
<1>3. tx[s].updWorkflow = {} => workflow' = workflow \o tx[s].newWorkflow
  BY <1>1, <1>2, OverwriteNothing
<1>4. ASSUME NEW w \in DOMAIN workflow, NEW e, tx[s].updWorkflow = {<<w, e>>}
      PROVE  workflow' = [workflow EXCEPT ![w] = e] \o tx[s].newWorkflow
  <2>1. Overwrite(workflow, {<<w, e>>}) = [workflow EXCEPT ![w] = e]
    BY <1>2, OverwriteOne
  <2> QED
    BY <1>1, <1>4, <2>1
<1> QED
  BY <1>3, <1>4

\* The lines after a flush: those of a new workflow get its id.
LEMMA FlushLines ==
    ASSUME TypeOK, NEW s \in Sessions, Commit(s), tx[s].newLine \in Seq(LineRow)
    PROVE  \E new \in Seq(LineRow) :
             /\ tx[s].newWorkflow = << >> => new = tx[s].newLine
             /\ tx[s].newWorkflow # << >> =>
                  \A f \in LineRow : tx[s].newLine = <<f>> =>
                    new = <<[f EXCEPT !.workflow = Len(workflow) + 1]>>
             /\ tx[s].updLine = {} => line' = line \o new
             /\ \A l \in DOMAIN line : \A g : tx[s].updLine = {<<l, g>>} =>
                  line' = [line EXCEPT ![l] = g] \o new
<1> DEFINE c == tx[s]
           new == [i \in DOMAIN c.newLine |->
                     IF c.newWorkflow = << >> THEN c.newLine[i]
                     ELSE [c.newLine[i] EXCEPT !.workflow = Len(workflow) + 1]]
<1>1. line' = Overwrite(line, c.updLine) \o new
  BY DEF Commit
<1>2. line = [l \in DOMAIN line |-> line[l]] /\ Len(workflow) + 1 \in Nat
  BY DEF TypeOK
<1>3. new \in Seq(LineRow)
  <2>1. \A i \in DOMAIN c.newLine : c.newLine[i] \in LineRow
    OBVIOUS
  <2>2. \A x \in LineRow : [x EXCEPT !.workflow = Len(workflow) + 1] \in LineRow
    BY <1>2 DEF LineRow
  <2>3. DOMAIN c.newLine = 1..Len(c.newLine) /\ Len(c.newLine) \in Nat
    OBVIOUS
  <2>4. new \in [1..Len(c.newLine) -> LineRow]
    BY <2>1, <2>2, <2>3
  <2> QED
    BY <2>3, <2>4
<1>4. c.newWorkflow = << >> => new = c.newLine
  OBVIOUS
<1>5. ASSUME c.newWorkflow # << >>, NEW f \in LineRow, c.newLine = <<f>>
      PROVE  new = <<[f EXCEPT !.workflow = Len(workflow) + 1]>>
  BY <1>5
<1> HIDE DEF new
<1>6. c.updLine = {} => line' = line \o new
  BY <1>1, <1>2, OverwriteNothing
<1>7. ASSUME NEW l \in DOMAIN line, NEW g, c.updLine = {<<l, g>>}
      PROVE  line' = [line EXCEPT ![l] = g] \o new
  <2>1. Overwrite(line, {<<l, g>>}) = [line EXCEPT ![l] = g]
    BY <1>2, OverwriteOne
  <2> QED
    BY <1>1, <1>7, <2>1
<1> QED
  BY <1>3, <1>4, <1>5, <1>6, <1>7

-----------------------------------------------------------------------------
(* The flush of each write set is an action of Workflow.                   *)

\* A start's, with or without its document.
LEMMA StartingCommits ==
    ASSUME TxInv, NEW s \in Sessions, Commit(s), Starting(tx[s])
    PROVE  \E d \in Docs, u \in Users : Start(d, u) \/ Submit(d, u)
<1>0. TypeOK /\ tx[s] \in TxRow /\ workflow \in Seq(WorkflowRow) /\ line \in Seq(LineRow)
  BY DEF TxInv, TxType, TypeInv, TypeOK, InFlight, Commit
<1>1. PICK d \in Docs, u \in Users, t \in DOMAIN template : \E i \in DOMAIN template[t].steps :
        /\ Len(workflow) < MaxWorkflows
        /\ LiveWorkflows(d) = {}
        /\ AlarmTypeExists(DomainOf[d], "APPROVAL_REQUEST")
        /\ ActiveTemplates(DomainOf[d]) = {t} /\ StepsAt(t, 1) = {i}
        /\ IsAtLeast(u, template[t].steps[i].position)
        /\ tx[s].updWorkflow = {} /\ tx[s].updLine = {}
        /\ tx[s].newWorkflow = <<[doc |-> d, template |-> t, status |-> "IN_PROGRESS", current |-> 1]>>
        /\ tx[s].newLine = <<NewLine(0, template[t].steps[i], u)>>
        /\ tx[s].newProject = {}
        /\ \/ tx[s].docs = {}
           \/ /\ HasHandler(DomainOf[d]) /\ row[d] = "live" /\ approval[d] = "DRAFT"
              /\ tx[s].docs = {<<d, "live", "PENDING">>}
  BY DEF Starting
<1>2. PICK i \in DOMAIN template[t].steps :
        /\ StepsAt(t, 1) = {i}
        /\ IsAtLeast(u, template[t].steps[i].position)
        /\ tx[s].newLine = <<NewLine(0, template[t].steps[i], u)>>
  BY <1>1
<1> DEFINE e == [doc |-> d, template |-> t, status |-> "IN_PROGRESS", current |-> 1]
           f == NewLine(0, template[t].steps[i], u)
           g == NewLine(Len(workflow) + 1, template[t].steps[i], u)
<1>3. e \in WorkflowRow
  BY <1>0 DEF WorkflowRow, WorkflowStatus, TypeOK
<1>4. f \in LineRow /\ g \in LineRow /\ g = [f EXCEPT !.workflow = Len(workflow) + 1]
  <2>1. template[t].steps[i] \in StepRow
    BY <1>0, <1>2, StepFound
  <2>2. Len(workflow) + 1 \in Nat
    BY <1>0
  <2> QED
    BY <2>1, <2>2 DEF LineRow, NewLine, WorkflowLineStatus, StepRow
<1>5. workflow' = Append(workflow, e)
  <2> HIDE DEF e
  <2>1. workflow' = workflow \o <<e>>
    BY <1>0, <1>1, FlushWorkflows DEF e
  <2> QED
    BY <1>0, <1>3, <2>1, InsertOne
<1>6. line' = Append(line, g)
  <2>1. tx[s].newWorkflow # << >> /\ tx[s].newLine \in Seq(LineRow)
    <3>1. tx[s].newWorkflow = <<e>>
      BY <1>1
    <3>2. tx[s].newLine \in Seq(LineRow)
      BY <1>0 DEF TxRow
    <3> HIDE DEF e
    <3> QED
      BY <3>1, <3>2
  <2>2. PICK new \in Seq(LineRow) :
          /\ \A x \in LineRow : tx[s].newLine = <<x>> =>
               new = <<[x EXCEPT !.workflow = Len(workflow) + 1]>>
          /\ line' = line \o new
    BY <1>0, <1>1, <2>1, FlushLines
  <2>3. new = <<g>>
    BY <1>2, <1>4, <2>2
  <2> HIDE DEF g
  <2> QED
    BY <1>0, <1>4, <2>2, <2>3, InsertOne
<1>7. startWorkflow(d, u)
  BY <1>1, <1>2, <1>5, <1>6 DEF startWorkflow
<1>8. UNCHANGED <<template, position>> /\ project' = project
  BY <1>1 DEF Commit
<1>9. CASE tx[s].docs = {}
  BY <1>0, <1>7, <1>8, <1>9, FlushNoDocument DEF Start
<1>10. CASE HasHandler(DomainOf[d]) /\ row[d] = "live" /\ approval[d] = "DRAFT"
            /\ tx[s].docs = {<<d, "live", "PENDING">>}
  <2>1. row' = [row EXCEPT ![d] = "live"] /\ approval' = [approval EXCEPT ![d] = "PENDING"]
    <3> DEFINE x == "live"
               y == "PENDING"
    <3>1. tx[s].docs = {<<d, x, y>>}
      BY <1>10
    <3> HIDE DEF x, y
    <3>2. TypeOK
      BY <1>0
    <3>3. row' = [row EXCEPT ![d] = x]
      BY <3>1, <3>2, FlushDocument
    <3>4. approval' = [approval EXCEPT ![d] = y]
      BY <3>1, <3>2, FlushDocument
    <3> QED
      BY <3>3, <3>4 DEF x, y
  <2>2. row' = row
    BY <1>0, <1>10, <2>1 DEF TypeOK
  <2>3. DomainOf[d] # "BILLING"
    BY TxAssumption
  <2> QED
    BY <1>7, <1>8, <1>10, <2>1, <2>2, <2>3 DEF Submit
<1> QED
  BY <1>1, <1>9, <1>10

\* A deletion's.
LEMMA DeletingCommits ==
    ASSUME TxInv, NEW s \in Sessions, Commit(s), Deleting(tx[s])
    PROVE  \E d \in Docs : Delete(d)
<1>0. TypeOK /\ workflow \in Seq(WorkflowRow) /\ line \in Seq(LineRow)
  BY DEF TxInv, TxType, TypeInv, TypeOK
<1>1. PICK d \in Docs :
        /\ row[d] = "live"
        /\ tx[s].updWorkflow = {} /\ tx[s].updLine = {}
        /\ tx[s].newWorkflow = << >> /\ tx[s].newLine = << >> /\ tx[s].newProject = {}
        /\ tx[s].docs = {<<d, "deleted", approval[d]>>}
  BY DEF Deleting
<1>2. workflow' = workflow
  <2>1. workflow' = workflow \o << >>
    BY <1>0, <1>1, FlushWorkflows
  <2> QED
    BY <1>0, <2>1
<1>3. line' = line
  <2>1. << >> \in Seq(LineRow)
    OBVIOUS
  <2>2. PICK new \in Seq(LineRow) : new = << >> /\ line' = line \o new
    BY <1>0, <1>1, <2>1, FlushLines
  <2> QED
    BY <1>0, <2>2
<1>4. TypeOK /\ tx[s].docs = {<<d, "deleted", approval[d]>>}
  BY <1>0, <1>1
<1>5. row' = [row EXCEPT ![d] = "deleted"]
  <2>1. PICK a : a = approval[d]
    OBVIOUS
  <2>2. tx[s].docs = {<<d, "deleted", a>>}
    BY <1>4, <2>1
  <2> QED
    BY <1>4, <2>2, FlushDocument
<1>6. approval' = [approval EXCEPT ![d] = approval[d]]
  BY <1>4, FlushDocument
<1>7. approval' = approval
  BY <1>0, <1>6 DEF TypeOK
<1>8. DomainOf[d] # "BILLING" /\ UNCHANGED <<template, position>> /\ project' = project
  BY <1>1, TxAssumption DEF Commit
<1> QED
  BY <1>1, <1>2, <1>3, <1>5, <1>7, <1>8 DEF Delete

\* An update of one workflow ...
LEMMA DecisionWorkflow ==
    ASSUME TxInv, NEW s \in Sessions, Commit(s), tx[s].newWorkflow = << >>,
           NEW w \in DOMAIN workflow, NEW e, tx[s].updWorkflow = {<<w, e>>}
    PROVE  workflow' = [workflow EXCEPT ![w] = e]
<1>0. /\ TypeOK /\ tx[s] \in TxRow /\ workflow \in Seq(WorkflowRow)
  BY DEF TxInv, TxType, TypeInv, TypeOK, InFlight, Commit
<1>1. e \in WorkflowRow
  <2>1. <<w, e>> \in tx[s].updWorkflow /\ tx[s].updWorkflow \in SUBSET (Nat \X WorkflowRow)
    BY <1>0 DEF TxRow
  <2> QED
    BY <1>0, <2>1 DEF TxRow
<1>2. workflow' = [workflow EXCEPT ![w] = e] \o << >>
  BY <1>0, FlushWorkflows
<1>3. [workflow EXCEPT ![w] = e] \in Seq(WorkflowRow)
  BY <1>0, <1>1
<1> QED
  BY <1>2, <1>3

\* ... of no line ...
LEMMA DecisionNoLine ==
    ASSUME TxInv, NEW s \in Sessions, Commit(s), tx[s].newWorkflow = << >>,
           tx[s].updLine = {}, tx[s].newLine = << >>
    PROVE  line' = line
<1>0. TypeOK /\ line \in Seq(LineRow)
  BY DEF TxInv, TxType, TypeInv, TypeOK
<1>1. << >> \in Seq(LineRow)
  OBVIOUS
<1>2. PICK new \in Seq(LineRow) : new = << >> /\ line' = line \o new
  BY <1>0, <1>1, FlushLines
<1> QED
  BY <1>0, <1>2

\* ... or of one line, with at most one new line.
LEMMA DecisionLine ==
    ASSUME TxInv, NEW s \in Sessions, Commit(s), tx[s].newWorkflow = << >>,
           NEW l \in DOMAIN line, NEW g \in LineRow, tx[s].updLine = {<<l, g>>}
    PROVE  /\ tx[s].newLine = << >> => line' = [line EXCEPT ![l] = g]
           /\ \A f \in LineRow : tx[s].newLine = <<f>> =>
                line' = Append([line EXCEPT ![l] = g], f)
<1>0. /\ TypeOK /\ tx[s] \in TxRow /\ line \in Seq(LineRow)
  BY DEF TxInv, TxType, TypeInv, TypeOK, InFlight, Commit
<1>1. tx[s].newLine \in Seq(LineRow)
  BY <1>0 DEF TxRow
<1>2. PICK new \in Seq(LineRow) :
        /\ new = tx[s].newLine
        /\ \A k \in DOMAIN line : \A h : tx[s].updLine = {<<k, h>>} =>
             line' = [line EXCEPT ![k] = h] \o new
  BY <1>0, <1>1, FlushLines
<1> DEFINE lines == [line EXCEPT ![l] = g]
<1>3. lines \in Seq(LineRow)
  BY <1>0
<1>4. line' = lines \o new
  BY <1>2
<1> HIDE DEF lines
<1>5. tx[s].newLine = << >> => line' = lines
  BY <1>2, <1>3, <1>4
<1>6. ASSUME NEW f \in LineRow, tx[s].newLine = <<f>> PROVE line' = Append(lines, f)
  BY <1>2, <1>3, <1>4, <1>6, InsertOne
<1> QED
  BY <1>5, <1>6 DEF lines

\* A forward's.
LEMMA ForwardingCommits ==
    ASSUME TxInv, NEW s \in Sessions, Commit(s), Forwarding(tx[s])
    PROVE  \E w \in DOMAIN workflow, u, v \in Users : Approve(w, u, v)
<1>0. TypeOK /\ References
  BY DEF TxInv, TxType, TypeInv
<1>1. PICK w \in DOMAIN workflow, l \in DOMAIN line, u \in Users, v \in Users :
        \E i \in StepsAt(workflow[w].template, workflow[w].current + 1) :
            /\ Decidable(w, l, u)
            /\ StepsAt(workflow[w].template, workflow[w].current + 1) = {i}
            /\ IsAtLeast(v, template[workflow[w].template].steps[i].position)
            /\ tx[s].updWorkflow = {<<w, [workflow[w] EXCEPT !.current = workflow[w].current + 1]>>}
            /\ tx[s].updLine = {<<l, [line[l] EXCEPT !.status = "APPROVED"]>>}
            /\ tx[s].newWorkflow = << >>
            /\ tx[s].newLine = <<NewLine(w, template[workflow[w].template].steps[i], v)>>
            /\ tx[s].docs = {} /\ tx[s].newProject = {}
  BY DEF Forwarding
<1> DEFINE t == workflow[w].template
           n == workflow[w].current + 1
<1>2. PICK i \in StepsAt(t, n) :
        /\ Decidable(w, l, u)
        /\ StepsAt(t, n) = {i}
        /\ IsAtLeast(v, template[t].steps[i].position)
        /\ tx[s].updWorkflow = {<<w, [workflow[w] EXCEPT !.current = n]>>}
        /\ tx[s].updLine = {<<l, [line[l] EXCEPT !.status = "APPROVED"]>>}
        /\ tx[s].newWorkflow = << >>
        /\ tx[s].newLine = <<NewLine(w, template[t].steps[i], v)>>
        /\ tx[s].docs = {} /\ tx[s].newProject = {}
  BY <1>1
<1> DEFINE e == [workflow[w] EXCEPT !.current = n]
           g == [line[l] EXCEPT !.status = "APPROVED"]
           f == NewLine(w, template[t].steps[i], v)
<1>3. t \in DOMAIN template /\ w \in Nat /\ line[l] \in LineRow
  BY <1>0 DEF References, TypeOK
<1>4. f \in LineRow
  <2>1. template[t].steps[i] \in StepRow
    BY <1>0, <1>3, StepFound
  <2> QED
    BY <1>3, <2>1 DEF LineRow, NewLine, WorkflowLineStatus, StepRow
<1>5. g \in LineRow
  BY <1>3 DEF LineRow, WorkflowLineStatus
<1>6. workflow' = [workflow EXCEPT ![w] = e] /\ line' = Append([line EXCEPT ![l] = g], f)
  <2> HIDE DEF e, g, f
  <2>1. tx[s].updWorkflow = {<<w, e>>} /\ tx[s].updLine = {<<l, g>>} /\ tx[s].newLine = <<f>>
    BY <1>2 DEF e, g, f
  <2>2. tx[s].newWorkflow = << >>
    BY <1>2
  <2> HIDE DEF t, n
  <2>3. workflow' = [workflow EXCEPT ![w] = e]
    BY <2>1, <2>2, DecisionWorkflow
  <2>4. line' = Append([line EXCEPT ![l] = g], f)
    BY <1>4, <1>5, <2>1, <2>2, DecisionLine
  <2> QED
    BY <2>3, <2>4
<1>7. workflow' = [workflow EXCEPT ![w].current = n]
      /\ line' = Append([line EXCEPT ![l].status = "APPROVED"], f)
  BY <1>6
<1>8. row' = row /\ approval' = approval
  BY <1>0, <1>2, FlushNoDocument
<1>9. UNCHANGED <<template, position>> /\ project' = project
  BY <1>2 DEF Commit
<1>10. Forward(w, l, v)
  BY <1>2, <1>7, <1>8, <1>9 DEF Forward
<1>11. Approve(w, u, v)
  BY <1>2, <1>8, <1>9, <1>10 DEF Approve
<1> QED
  BY <1>11

\* What the handler has written is what Handle says.
LEMMA HandlerCommits ==
    ASSUME TxInv, NEW s \in Sessions, Commit(s), NEW d \in Docs, NEW o \in Finals,
           HasHandler(DomainOf[d]) => row[d] = "live",
           tx[s].docs = IF HasHandler(DomainOf[d]) THEN DocWrite(d, "live", o) ELSE {}
    PROVE  Handle(d, o) /\ row' = row
<1>0. TypeOK /\ row \in [Docs -> DocumentRow] /\ approval \in [Docs -> ApprovalStatus]
  BY DEF TxInv, TxType, TypeInv, TypeOK, DocumentRow
<1>1. CASE tx[s].docs = {}
  <2>1. row' = row /\ approval' = approval
    BY <1>0, <1>1, FlushNoDocument
  <2>2. HasHandler(DomainOf[d]) => approval[d] = o
    BY <1>1 DEF DocWrite
  <2> QED
    BY <1>0, <2>1, <2>2 DEF Handle
<1>2. CASE tx[s].docs # {}
  <2>1. HasHandler(DomainOf[d]) /\ tx[s].docs = {<<d, "live", o>>}
    BY <1>2 DEF DocWrite
  <2>2. row' = [row EXCEPT ![d] = "live"]
    BY <1>0, <2>1, FlushDocument
  <2>3. approval' = [approval EXCEPT ![d] = o]
    BY <1>0, <2>1, FlushDocument
  <2> QED
    BY <1>0, <2>1, <2>2, <2>3 DEF Handle
<1> QED
  BY <1>1, <1>2

\* An end's: a final approval, a reject or a cancel.
LEMMA DecidedCommits ==
    ASSUME TxInv, NEW s \in Sessions, Commit(s), Decided(tx[s])
    PROVE  \E w \in DOMAIN workflow : Decide(w) \/ Cancel(w)
<1> DEFINE c == tx[s]
<1>0. TypeOK /\ c \in TxRow
  BY DEF TxInv, TxType, TypeInv, InFlight, Commit
<1>1. PICK o \in Finals :
        /\ Ending(c, o)
        /\ HasHandler(DomainOf[c.doc]) => row[c.doc] = "live"
        /\ c.docs = IF HasHandler(DomainOf[c.doc]) THEN DocWrite(c.doc, "live", o) ELSE {}
        /\ IF o = "APPROVED" /\ DomainOf[c.doc] = "ORDER_REPORT"
           THEN c.doc \notin project /\ c.newProject = {c.doc}
           ELSE c.newProject = {}
  BY DEF Decided
<1>2. PICK w \in DOMAIN workflow :
        /\ c.doc = workflow[w].doc
        /\ c.newWorkflow = << >> /\ c.newLine = << >>
        /\ EndingWith(c, w, o)
  BY <1>1 DEF Ending
<1> DEFINE d == workflow[w].doc
<1>3. d \in Docs
  BY <1>0, <1>2 DEF TxRow
<1>4. Handle(d, o) /\ row' = row
  BY <1>1, <1>2, <1>3, HandlerCommits
<1>5. UNCHANGED <<template, position>> /\ project' = project \cup c.newProject
  BY DEF Commit
<1>6. CASE o = "APPROVED"
  <2>1. PICK l \in DOMAIN line, u \in Users :
          /\ Decidable(w, l, u)
          /\ StepsAt(workflow[w].template, workflow[w].current + 1) = {}
          /\ AlarmTypeExists(DomainOf[workflow[w].doc], "APPROVED")
          /\ c.updWorkflow = {<<w, [workflow[w] EXCEPT !.status = "APPROVED", !.current = 0]>>}
          /\ c.updLine = {<<l, [line[l] EXCEPT !.status = "APPROVED"]>>}
    BY <1>2, <1>6 DEF EndingWith
  <2> DEFINE e == [workflow[w] EXCEPT !.status = "APPROVED", !.current = 0]
             g == [line[l] EXCEPT !.status = "APPROVED"]
  <2>2. g \in LineRow
    BY <1>0, LineUpdateType DEF WorkflowLineStatus
  <2>3. c.updWorkflow = {<<w, e>>} /\ c.updLine = {<<l, g>>} /\ c.newWorkflow = << >> /\ c.newLine = << >>
    BY <1>2, <2>1
  <2> HIDE DEF e, g
  <2>4. workflow' = [workflow EXCEPT ![w] = e]
    BY <2>3, DecisionWorkflow
  <2>5. line' = [line EXCEPT ![l] = g]
    BY <2>2, <2>3, DecisionLine
  <2>6. /\ workflow' = [workflow EXCEPT ![w].status = "APPROVED", ![w].current = 0]
        /\ line' = [line EXCEPT ![l].status = "APPROVED"]
    BY <2>4, <2>5 DEF e, g
  <2>7. onApproved(w)
    <3>1. DomainOf[d] # "BILLING"
      BY <1>3, TxAssumption
    <3>2. IF DomainOf[d] = "ORDER_REPORT" THEN d \notin project /\ project' = project \cup {d}
          ELSE project' = project
      BY <1>1, <1>2, <1>5, <1>6
    <3> QED
      BY <1>4, <1>6, <3>1, <3>2 DEF onApproved
  <2>8. Approve(w, u, u)
    BY <1>4, <1>5, <2>1, <2>6, <2>7 DEF Approve, Complete
  <2> QED
    BY <2>8 DEF Decide
<1>7. CASE o = "REJECTED"
  <2>1. PICK l \in DOMAIN line, u \in Users :
          /\ Decidable(w, l, u)
          /\ AlarmTypeExists(DomainOf[workflow[w].doc], "REJECTED")
          /\ c.updWorkflow = {<<w, [workflow[w] EXCEPT !.status = "REJECTED"]>>}
          /\ c.updLine = {<<l, [line[l] EXCEPT !.status = "REJECTED"]>>}
    BY <1>2, <1>7 DEF EndingWith
  <2> DEFINE e == [workflow[w] EXCEPT !.status = "REJECTED"]
             g == [line[l] EXCEPT !.status = "REJECTED"]
  <2>2. g \in LineRow
    BY <1>0, LineUpdateType DEF WorkflowLineStatus
  <2>3. c.updWorkflow = {<<w, e>>} /\ c.updLine = {<<l, g>>} /\ c.newWorkflow = << >> /\ c.newLine = << >>
    BY <1>2, <2>1
  <2> HIDE DEF e, g
  <2>4. workflow' = [workflow EXCEPT ![w] = e]
    BY <2>3, DecisionWorkflow
  <2>5. line' = [line EXCEPT ![l] = g]
    BY <2>2, <2>3, DecisionLine
  <2>6. /\ workflow' = [workflow EXCEPT ![w].status = "REJECTED"]
        /\ line' = [line EXCEPT ![l].status = "REJECTED"]
    BY <2>4, <2>5 DEF e, g
  <2>7. project' = project
    BY <1>1, <1>5, <1>7
  <2>8. Reject(w, u)
    BY <1>4, <1>5, <1>7, <2>1, <2>6, <2>7 DEF Reject
  <2> QED
    BY <2>8 DEF Decide
<1>8. CASE o = "CANCELED"
  <2> DEFINE e == [workflow[w] EXCEPT !.status = "CANCELED"]
  <2>1. /\ InProgress(w) /\ c.updWorkflow = {<<w, e>>} /\ c.updLine = {}
        /\ c.newWorkflow = << >> /\ c.newLine = << >>
    BY <1>2, <1>8 DEF EndingWith
  <2> HIDE DEF e
  <2>2. workflow' = [workflow EXCEPT ![w] = e]
    BY <2>1, DecisionWorkflow
  <2>3. line' = line
    BY <2>1, DecisionNoLine
  <2>4. workflow' = [workflow EXCEPT ![w].status = "CANCELED"]
    BY <2>2 DEF e
  <2>5. project' = project
    BY <1>1, <1>5, <1>8
  <2>6. Cancel(w)
    BY <1>4, <1>5, <1>8, <2>1, <2>3, <2>4, <2>5 DEF Cancel
  <2> QED
    BY <2>6
<1> QED
  BY <1>2, <1>6, <1>7, <1>8 DEF EndingWith

-----------------------------------------------------------------------------
(* What enters is valid, and stays so while nothing else commits.          *)

\* Validity is about the tables alone.
LEMMA ValidStays ==
    ASSUME NEW c, Valid(c), UNCHANGED vars
    PROVE  Valid(c)'
<1>1. CASE Starting(c)
  <2>1. Starting(c)'
    BY <1>1 DEF Starting, vars, LiveWorkflows, ActiveTemplates, StepsAt, IsAtLeast
  <2> QED
    BY <2>1 DEF Valid
<1>2. CASE Forwarding(c)
  <2>1. Forwarding(c)'
    BY <1>2 DEF Forwarding, vars, Decidable, InProgress, CurrentLines, StepsAt, IsAtLeast
  <2> QED
    BY <2>1 DEF Valid
<1>3. ASSUME NEW o, Ending(c, o) PROVE Ending(c, o)'
  <2>1. PICK w \in DOMAIN workflow :
          /\ c.doc = workflow[w].doc /\ c.newWorkflow = << >> /\ c.newLine = << >>
          /\ EndingWith(c, w, o)
    BY <1>3 DEF Ending
  <2>2. \A l, u : Decidable(w, l, u) => Decidable(w, l, u)'
    BY DEF Decidable, InProgress, CurrentLines, vars
  <2>3. InProgress(w) => InProgress(w)'
    BY DEF InProgress, vars
  <2>4. EndingWith(c, w, o)'
    BY <2>1, <2>2, <2>3 DEF EndingWith, StepsAt, vars
  <2> QED
    BY <2>1, <2>4 DEF Ending, vars
<1>4. CASE Deciding(c)
  <2>1. Deciding(c)'
    BY <1>3, <1>4 DEF Deciding
  <2> QED
    BY <2>1 DEF Valid
<1>5. CASE Decided(c)
  <2>1. Decided(c)'
    BY <1>3, <1>5 DEF Decided, vars, DocWrite
  <2> QED
    BY <2>1 DEF Valid
<1>6. CASE Deleting(c)
  <2>1. Deleting(c)'
    BY <1>6 DEF Deleting, vars
  <2> QED
    BY <2>1 DEF Valid
<1> QED
  BY <1>1, <1>2, <1>4, <1>5, <1>6 DEF Valid

\* The only write set in flight is valid.
OneValid ==
    /\ \A r, s \in InFlight : r = s
    /\ \A s \in InFlight : \E c \in {tx[s]} : Valid(c)

\* With one request allowed, a request is admitted only when none is in flight.
LEMMA FirstIn ==
    ASSUME MaxInFlight = 1, Cardinality(InFlight) < MaxInFlight
    PROVE  InFlight = {}
<1>1. IsFiniteSet(InFlight)
  BY TxAssumption, FS_Subset DEF InFlight
<1>2. Cardinality(InFlight) \in Nat
  BY <1>1, FS_CardinalityType
<1> QED
  BY <1>1, <1>2, FS_EmptySet

\* What enters when nothing else is in flight is the only valid write set.
LEMMA BeginsValid ==
    ASSUME MaxInFlight = 1, tx \in [Sessions -> TxRow \cup {Idle}],
           NEW s \in Sessions, NEW n, Valid(n), Begin(s, n)
    PROVE  OneValid' /\ UNCHANGED vars
<1>1. InFlight = {} /\ tx' = [tx EXCEPT ![s] = n] /\ UNCHANGED vars
  BY FirstIn DEF Begin, Admitted
<1>2. \A r \in InFlight' : r = s /\ tx'[r] = n
  BY <1>1 DEF InFlight
<1>3. Valid(n)'
  BY <1>1, ValidStays
<1> QED
  BY <1>1, <1>2, <1>3 DEF OneValid

\* What a start or a submit enters with is valid.
LEMMA StartValid ==
    ASSUME TypeOK, InFlight = {}, NEW s \in Sessions, NEW d \in Docs, NEW u \in Users, NEW docs,
           BeginStart(s, d, u, docs),
           \/ docs = {}
           \/ /\ HasHandler(DomainOf[d]) /\ row[d] = "live" /\ approval[d] = "DRAFT"
              /\ docs = {<<d, "live", "PENDING">>}
    PROVE  \E n : Valid(n) /\ Begin(s, n)
<1>1. Len(workflow) < MaxWorkflows
  <2>1. {r \in InFlight : tx[r].newWorkflow # << >>} = {}
    OBVIOUS
  <2>2. Cardinality({r \in InFlight : tx[r].newWorkflow # << >>}) = 0
    BY <2>1, FS_EmptySet
  <2>3. Len(workflow) \in Nat
    BY DEF TypeOK
  <2> QED
    BY <2>2, <2>3 DEF BeginStart
<1>2. /\ LiveWorkflows(d) = {}
      /\ AlarmTypeExists(DomainOf[d], "APPROVAL_REQUEST")
  BY DEF BeginStart
<1>3. PICK t \in DOMAIN template : \E i \in DOMAIN template[t].steps :
        /\ ActiveTemplates(DomainOf[d]) = {t} /\ StepsAt(t, 1) = {i}
        /\ IsAtLeast(u, template[t].steps[i].position)
        /\ Begin(s, [Empty EXCEPT
               !.doc = d,
               !.newWorkflow = <<[doc |-> d, template |-> t,
                                  status |-> "IN_PROGRESS", current |-> 1]>>,
               !.newLine = <<NewLine(0, template[t].steps[i], u)>>,
               !.docs = docs])
  BY DEF BeginStart
<1>4. PICK i \in DOMAIN template[t].steps :
        /\ ActiveTemplates(DomainOf[d]) = {t} /\ StepsAt(t, 1) = {i}
        /\ IsAtLeast(u, template[t].steps[i].position)
        /\ Begin(s, [Empty EXCEPT
               !.doc = d,
               !.newWorkflow = <<[doc |-> d, template |-> t,
                                  status |-> "IN_PROGRESS", current |-> 1]>>,
               !.newLine = <<NewLine(0, template[t].steps[i], u)>>,
               !.docs = docs])
  BY <1>3
<1> DEFINE e == [doc |-> d, template |-> t, status |-> "IN_PROGRESS", current |-> 1]
           f == NewLine(0, template[t].steps[i], u)
           n == [Empty EXCEPT !.doc = d, !.newWorkflow = <<e>>, !.newLine = <<f>>, !.docs = docs]
<1>5. Begin(s, n)
  BY <1>4
<1>6. /\ n.updWorkflow = {} /\ n.updLine = {} /\ n.newWorkflow = <<e>> /\ n.newLine = <<f>>
      /\ n.outcome = "none" /\ n.docs = docs /\ n.newProject = {}
  BY DEF Empty
<1> HIDE DEF n
<1>7. Starting(n)
  BY <1>1, <1>2, <1>4, <1>6 DEF Starting
<1> QED
  BY <1>5, <1>7 DEF Valid

\* An approval's, forward or final.
LEMMA ApproveValid ==
    ASSUME NEW s \in Sessions, NEW w \in DOMAIN workflow, NEW u \in Users, NEW v \in Users,
           TxApprove(s, w, u, v)
    PROVE  \E n : Valid(n) /\ Begin(s, n)
<1> DEFINE t == workflow[w].template
           k == workflow[w].current + 1
<1>1. PICK l \in DOMAIN line :
        /\ Decidable(w, l, u)
        /\ \/ \E i \in StepsAt(t, k) :
                /\ StepsAt(t, k) = {i}
                /\ IsAtLeast(v, template[t].steps[i].position)
                /\ Begin(s, [Empty EXCEPT
                       !.doc = workflow[w].doc,
                       !.updWorkflow = {<<w, [workflow[w] EXCEPT !.current = k]>>},
                       !.updLine = {<<l, [line[l] EXCEPT !.status = "APPROVED"]>>},
                       !.newLine = <<NewLine(w, template[t].steps[i], v)>>])
           \/ /\ StepsAt(t, k) = {}
              /\ AlarmTypeExists(DomainOf[workflow[w].doc], "APPROVED")
              /\ Begin(s, [Empty EXCEPT
                     !.doc = workflow[w].doc,
                     !.updWorkflow = {<<w, [workflow[w] EXCEPT !.status = "APPROVED", !.current = 0]>>},
                     !.updLine = {<<l, [line[l] EXCEPT !.status = "APPROVED"]>>},
                     !.outcome = "APPROVED"])
  BY DEF TxApprove
<1>2. ASSUME NEW i \in StepsAt(t, k), StepsAt(t, k) = {i},
             IsAtLeast(v, template[t].steps[i].position),
             Begin(s, [Empty EXCEPT
                    !.doc = workflow[w].doc,
                    !.updWorkflow = {<<w, [workflow[w] EXCEPT !.current = k]>>},
                    !.updLine = {<<l, [line[l] EXCEPT !.status = "APPROVED"]>>},
                    !.newLine = <<NewLine(w, template[t].steps[i], v)>>])
      PROVE  \E n : Valid(n) /\ Begin(s, n)
  <2> DEFINE us == {<<w, [workflow[w] EXCEPT !.current = k]>>}
             ls == {<<l, [line[l] EXCEPT !.status = "APPROVED"]>>}
             new == <<NewLine(w, template[t].steps[i], v)>>
             n == [Empty EXCEPT !.doc = workflow[w].doc, !.updWorkflow = us, !.updLine = ls,
                                !.newLine = new]
  <2>1. Begin(s, n)
    BY <1>2
  <2> HIDE DEF us, ls, new
  <2>2. /\ n.updWorkflow = us /\ n.updLine = ls /\ n.newWorkflow = << >> /\ n.newLine = new
        /\ n.outcome = "none" /\ n.docs = {} /\ n.newProject = {}
    BY DEF Empty
  <2> HIDE DEF n
  <2>3. Forwarding(n)
    BY <1>1, <1>2, <2>2 DEF Forwarding, us, ls, new
  <2> QED
    BY <2>1, <2>3 DEF Valid
<1>3. ASSUME StepsAt(t, k) = {}, AlarmTypeExists(DomainOf[workflow[w].doc], "APPROVED"),
             Begin(s, [Empty EXCEPT
                    !.doc = workflow[w].doc,
                    !.updWorkflow = {<<w, [workflow[w] EXCEPT !.status = "APPROVED", !.current = 0]>>},
                    !.updLine = {<<l, [line[l] EXCEPT !.status = "APPROVED"]>>},
                    !.outcome = "APPROVED"])
      PROVE  \E n : Valid(n) /\ Begin(s, n)
  <2> DEFINE us == {<<w, [workflow[w] EXCEPT !.status = "APPROVED", !.current = 0]>>}
             ls == {<<l, [line[l] EXCEPT !.status = "APPROVED"]>>}
             n == [Empty EXCEPT !.doc = workflow[w].doc, !.updWorkflow = us, !.updLine = ls,
                                !.outcome = "APPROVED"]
  <2>1. Begin(s, n)
    BY <1>3
  <2> HIDE DEF us, ls
  <2>2. /\ n.doc = workflow[w].doc /\ n.updWorkflow = us /\ n.updLine = ls
        /\ n.newWorkflow = << >> /\ n.newLine = << >> /\ n.outcome = "APPROVED"
    BY DEF Empty
  <2> HIDE DEF n
  <2>3. EndingWith(n, w, "APPROVED")
    BY <1>1, <1>3, <2>2 DEF EndingWith, us, ls
  <2>4. Deciding(n)
    BY <2>2, <2>3 DEF Deciding, Ending
  <2> QED
    BY <2>1, <2>4 DEF Valid
<1> QED
  BY <1>1, <1>2, <1>3

\* A reject's.
LEMMA RejectValid ==
    ASSUME NEW s \in Sessions, NEW w \in DOMAIN workflow, NEW u \in Users, TxReject(s, w, u)
    PROVE  \E n : Valid(n) /\ Begin(s, n)
<1>1. PICK l \in DOMAIN line :
        /\ Decidable(w, l, u)
        /\ AlarmTypeExists(DomainOf[workflow[w].doc], "REJECTED")
        /\ Begin(s, [Empty EXCEPT
             !.doc = workflow[w].doc,
             !.updWorkflow = {<<w, [workflow[w] EXCEPT !.status = "REJECTED"]>>},
             !.updLine = {<<l, [line[l] EXCEPT !.status = "REJECTED"]>>},
             !.outcome = "REJECTED"])
  BY DEF TxReject
<1> DEFINE us == {<<w, [workflow[w] EXCEPT !.status = "REJECTED"]>>}
           ls == {<<l, [line[l] EXCEPT !.status = "REJECTED"]>>}
           n == [Empty EXCEPT !.doc = workflow[w].doc, !.updWorkflow = us, !.updLine = ls,
                              !.outcome = "REJECTED"]
<1>2. Begin(s, n)
  BY <1>1
<1> HIDE DEF us, ls
<1>3. /\ n.doc = workflow[w].doc /\ n.updWorkflow = us /\ n.updLine = ls
      /\ n.newWorkflow = << >> /\ n.newLine = << >> /\ n.outcome = "REJECTED"
  BY DEF Empty
<1> HIDE DEF n
<1>4. EndingWith(n, w, "REJECTED")
  BY <1>1, <1>3 DEF EndingWith, us, ls
<1>5. Deciding(n)
  BY <1>3, <1>4 DEF Deciding, Ending
<1> QED
  BY <1>2, <1>5 DEF Valid

\* A cancel's.
LEMMA CancelValid ==
    ASSUME NEW s \in Sessions, NEW w \in DOMAIN workflow, TxCancel(s, w)
    PROVE  \E n : Valid(n) /\ Begin(s, n)
<1> DEFINE us == {<<w, [workflow[w] EXCEPT !.status = "CANCELED"]>>}
           n == [Empty EXCEPT !.doc = workflow[w].doc, !.updWorkflow = us, !.outcome = "CANCELED"]
<1>1. InProgress(w) /\ Begin(s, n)
  BY DEF TxCancel
<1> HIDE DEF us
<1>2. /\ n.doc = workflow[w].doc /\ n.updWorkflow = us /\ n.updLine = {}
      /\ n.newWorkflow = << >> /\ n.newLine = << >> /\ n.outcome = "CANCELED"
  BY DEF Empty
<1> HIDE DEF n
<1>3. EndingWith(n, w, "CANCELED")
  BY <1>1, <1>2 DEF EndingWith, us
<1>4. Deciding(n)
  BY <1>2, <1>3 DEF Deciding, Ending
<1> QED
  BY <1>1, <1>4 DEF Valid

\* A deletion's.
LEMMA DeleteValid ==
    ASSUME NEW s \in Sessions, NEW d \in Docs, TxDelete(s, d)
    PROVE  \E n : Valid(n) /\ Begin(s, n)
<1> DEFINE docs == {<<d, "deleted", approval[d]>>}
           n == [Empty EXCEPT !.doc = d, !.docs = docs]
<1>1. row[d] = "live" /\ Begin(s, n)
  BY DEF TxDelete
<1> HIDE DEF docs
<1>2. /\ n.updWorkflow = {} /\ n.updLine = {} /\ n.newWorkflow = << >> /\ n.newLine = << >>
      /\ n.outcome = "none" /\ n.docs = docs /\ n.newProject = {}
  BY DEF Empty
<1> HIDE DEF n
<1>3. Deleting(n)
  BY <1>1, <1>2 DEF Deleting, docs
<1> QED
  BY <1>1, <1>3 DEF Valid

\* A handler that has loaded a document turns a decision that is valid into a flush
\* that is.
LEMMA LoadValid ==
    ASSUME TxInv, OneValid, NEW s \in Sessions, LoadDocument(s)
    PROVE  OneValid'
<1> DEFINE c == tx[s]
           docs == IF HasHandler(DomainOf[c.doc]) THEN DocWrite(c.doc, "live", c.outcome) ELSE {}
           new == IF CreatesProject(s) THEN {c.doc} ELSE {}
           m == [c EXCEPT !.outcome = "none", !.docs = docs, !.newProject = new]
<1>1. /\ c.outcome # "none" /\ HandlerAccepts(s)
      /\ tx' = [tx EXCEPT ![s] = m] /\ UNCHANGED vars
  BY DEF LoadDocument
<1>2. s \in InFlight
  BY <1>1 DEF InFlight, Idle, Empty
<1>3. Valid(c) /\ c \in TxRow /\ tx \in [Sessions -> TxRow \cup {Idle}] /\ \A r \in InFlight : r = s
  BY <1>2 DEF OneValid, TxInv, TxType
<1>4. Ending(c, c.outcome)
  BY <1>1, <1>3 DEF Valid, Starting, Forwarding, Deciding, Decided, Deleting
<1>5. c.outcome \in Finals
  BY <1>1, <1>3 DEF TxRow
<1>6. /\ m.doc = c.doc /\ m.updWorkflow = c.updWorkflow /\ m.updLine = c.updLine
      /\ m.newWorkflow = c.newWorkflow /\ m.newLine = c.newLine
      /\ m.outcome = "none" /\ m.docs = docs /\ m.newProject = new
  <2> HIDE DEF docs, new
  <2> QED
    BY <1>3 DEF TxRow
<1>7. PICK n : n = m
  OBVIOUS
<1> HIDE DEF m
<1>8. Ending(n, c.outcome)
  <2>1. PICK w \in DOMAIN workflow :
          /\ c.doc = workflow[w].doc /\ c.newWorkflow = << >> /\ c.newLine = << >>
          /\ EndingWith(c, w, c.outcome)
    BY <1>4 DEF Ending
  <2>2. EndingWith(n, w, c.outcome)
    BY <1>6, <1>7, <2>1 DEF EndingWith
  <2> QED
    BY <1>6, <1>7, <2>1, <2>2 DEF Ending
<1>9. Decided(n)
  <2>1. HasHandler(DomainOf[n.doc]) => row[n.doc] = "live"
    BY <1>1, <1>6, <1>7 DEF HandlerAccepts
  <2>2. IF c.outcome = "APPROVED" /\ DomainOf[n.doc] = "ORDER_REPORT"
        THEN n.doc \notin project /\ n.newProject = {n.doc}
        ELSE n.newProject = {}
    BY <1>1, <1>6, <1>7 DEF HandlerAccepts, CreatesProject
  <2>3. n.docs = IF HasHandler(DomainOf[n.doc]) THEN DocWrite(n.doc, "live", c.outcome) ELSE {}
    BY <1>6, <1>7
  <2> QED
    BY <1>5, <1>6, <1>7, <1>8, <2>1, <2>2, <2>3 DEF Decided
<1>10. Valid(n)'
  BY <1>1, <1>9, ValidStays DEF Valid
<1>11. \A r \in InFlight' : r = s /\ tx'[r] = n
  BY <1>1, <1>3, <1>7 DEF InFlight
<1> QED
  BY <1>10, <1>11 DEF OneValid

-----------------------------------------------------------------------------
(* The theorem.                                                            *)

\* Every step is a step of Workflow or changes no table.
LEMMA SerialStep ==
    ASSUME MaxInFlight = 1, TxInv, OneValid, [TxNext]_txVars
    PROVE  OneValid' /\ [Next]_vars
<1>0. TypeOK /\ tx \in [Sessions -> TxRow \cup {Idle}]
  BY DEF TxInv, TxType, TypeInv
<1>1. ASSUME NEW s \in Sessions, \E n : Valid(n) /\ Begin(s, n) PROVE OneValid' /\ UNCHANGED vars
  BY <1>0, <1>1, BeginsValid
<1>2. ASSUME NEW s \in Sessions, NEW d \in Docs, NEW u \in Users, TxStart(s, d, u) \/ TxSubmit(s, d, u)
      PROVE  OneValid' /\ UNCHANGED vars
  <2>1. PICK docs : /\ BeginStart(s, d, u, docs)
                    /\ \/ docs = {}
                       \/ /\ HasHandler(DomainOf[d]) /\ row[d] = "live" /\ approval[d] = "DRAFT"
                          /\ docs = {<<d, "live", "PENDING">>}
    BY <1>2 DEF TxStart, TxSubmit, DocWrite
  <2>2. InFlight = {}
    BY <2>1, FirstIn DEF BeginStart, Begin, Admitted
  <2> QED
    BY <1>0, <1>1, <2>1, <2>2, StartValid
<1>3. ASSUME NEW s \in Sessions, NEW d \in Docs, TxDelete(s, d) PROVE OneValid' /\ UNCHANGED vars
  BY <1>1, <1>3, DeleteValid
<1>4. ASSUME NEW s \in Sessions, NEW w \in DOMAIN workflow, NEW u \in Users, NEW v \in Users,
             TxApprove(s, w, u, v)
      PROVE  OneValid' /\ UNCHANGED vars
  BY <1>1, <1>4, ApproveValid
<1>5. ASSUME NEW s \in Sessions, NEW w \in DOMAIN workflow, NEW u \in Users, TxReject(s, w, u)
      PROVE  OneValid' /\ UNCHANGED vars
  BY <1>1, <1>5, RejectValid
<1>6. ASSUME NEW s \in Sessions, NEW w \in DOMAIN workflow, TxCancel(s, w)
      PROVE  OneValid' /\ UNCHANGED vars
  BY <1>1, <1>6, CancelValid
<1>7. ASSUME NEW s \in Sessions, LoadDocument(s) PROVE OneValid' /\ UNCHANGED vars
  BY <1>7, LoadValid DEF LoadDocument
<1>8. ASSUME NEW s \in Sessions, tx[s] # Idle, tx' = [tx EXCEPT ![s] = Idle] PROVE OneValid'
  <2>1. s \in InFlight /\ \A r \in InFlight : r = s
    BY <1>8 DEF InFlight, OneValid
  <2>2. InFlight' = {}
    BY <1>0, <1>8, <2>1 DEF InFlight
  <2> QED
    BY <2>2 DEF OneValid
<1>9. ASSUME NEW s \in Sessions, Rollback(s) PROVE OneValid' /\ UNCHANGED vars
  BY <1>8, <1>9 DEF Rollback
<1>10. ASSUME NEW s \in Sessions, Commit(s) PROVE OneValid' /\ Next
  <2>1. OneValid'
    BY <1>8, <1>10 DEF Commit
  <2>2. Valid(tx[s]) /\ tx[s].outcome = "none"
    BY <1>10 DEF Commit, InFlight, OneValid
  <2>3. CASE Starting(tx[s])
    BY <1>10, <2>1, <2>3, StartingCommits DEF Next
  <2>4. CASE Forwarding(tx[s])
    BY <1>10, <2>1, <2>4, ForwardingCommits DEF Next, Decide
  <2>5. CASE Decided(tx[s])
    BY <1>10, <2>1, <2>5, DecidedCommits DEF Next
  <2>6. CASE Deleting(tx[s])
    BY <1>10, <2>1, <2>6, DeletingCommits DEF Next
  <2> QED
    BY <2>1, <2>2, <2>3, <2>4, <2>5, <2>6 DEF Valid, Deciding
<1>11. CASE ShortRequest
  <2>1. Next
    BY <1>11 DEF ShortRequest, Next
  <2>2. InFlight = {} /\ tx' = tx
    BY <1>11, FirstIn DEF ShortRequest
  <2>3. InFlight' = {}
    BY <2>2 DEF InFlight
  <2> QED
    BY <2>1, <2>3 DEF OneValid
<1>12. CASE UNCHANGED txVars
  <2>1. UNCHANGED vars /\ tx' = tx /\ InFlight' = InFlight
    BY <1>12 DEF txVars, InFlight
  <2>2. ASSUME NEW s \in InFlight' PROVE \E c : c = tx'[s] /\ Valid(c)'
    <3>1. PICK c : c = tx[s] /\ Valid(c)
      BY <2>1 DEF OneValid
    <3>2. Valid(c)'
      BY <2>1, <3>1, ValidStays
    <3> QED
      BY <2>1, <3>1, <3>2
  <2>3. OneValid'
    BY <2>1, <2>2 DEF OneValid
  <2> QED
    BY <2>1, <2>3
<1> QED
  BY <1>2, <1>3, <1>4, <1>5, <1>6, <1>7, <1>9, <1>10, <1>11, <1>12 DEF TxNext

\* One request at a time, the transactional engine implements the atomic one, for
\* every number of users, documents, templates and workflows.
THEOREM SerialIsAtomic ==
    ASSUME MaxInFlight = 1
    PROVE  TxSpec => Spec
<1>1. TxInit => OneValid /\ Init
  BY DEF TxInit, OneValid, InFlight
<1>2. TxInv /\ OneValid /\ [TxNext]_txVars => OneValid' /\ [Next]_vars
  BY SerialStep
<1> QED
  BY <1>1, <1>2, TxInitInv, TxStep, PTL DEF TxSpec, Spec

=============================================================================
