------------------------------ MODULE TxProofs ------------------------------
(***************************************************************************)
(* Theorems about WorkflowTx: what still holds when any number of requests *)
(* overlap, each validating rows that others overwrite before it commits.  *)
(*                                                                         *)
(* WriteSet says what a transaction in flight carries.  The rows it read   *)
(* may be stale by then; the invariants relate only what it is about to    *)
(* write to what the tables hold.                                          *)
(***************************************************************************)
EXTENDS WorkflowTx, WorkflowProofs

DocumentRow == {"none", "live", "deleted"}

\* The types of a write set.
TxRow ==
    [doc : Docs,
     updWorkflow : SUBSET (Nat \X WorkflowRow),
     updLine : SUBSET (Nat \X LineRow),
     newWorkflow : Seq(WorkflowRow),
     newLine : Seq(LineRow),
     outcome : Finals \cup {"none"},
     docs : SUBSET (Docs \X {"live", "deleted"} \X ApprovalStatus),
     newProject : SUBSET Docs]

\* A transaction updates rows that exist, all of one document, and inserts
\* workflows of that document that are in progress.  It leaves a live document
\* PENDING only together with such a workflow, an order report APPROVED only
\* together with its project.
WriteSet(c) ==
    /\ \A u \in c.updWorkflow : /\ u[1] \in DOMAIN workflow
                                /\ workflow[u[1]].doc = c.doc /\ u[2].doc = c.doc
                                /\ u[2].template = workflow[u[1]].template
    /\ \A u \in c.updLine : u[1] \in DOMAIN line /\ u[2].workflow = line[u[1]].workflow
    /\ c.newWorkflow = << >> => \A i \in DOMAIN c.newLine : c.newLine[i].workflow \in DOMAIN workflow
    /\ \A i \in DOMAIN c.newWorkflow : /\ c.newWorkflow[i].doc = c.doc
                                       /\ c.newWorkflow[i].status = "IN_PROGRESS"
                                       /\ c.newWorkflow[i].template \in DOMAIN template
    /\ \A x, y \in c.docs : x = y
    /\ \A x \in c.docs :
         /\ x[1] = c.doc
         /\ x[3] = "PENDING" => /\ HasHandler(DomainOf[c.doc])
                                /\ x[2] = "live" => c.newWorkflow # << >>
         /\ x[3] = "APPROVED" /\ DomainOf[c.doc] = "ORDER_REPORT"
              => c.doc \in project \cup c.newProject

\* Until its handler has loaded the document, a transaction that ends a workflow
\* knows the outcome that goes with it.
Undecided(c) ==
    \A u \in c.updWorkflow : u[2].status # "IN_PROGRESS" => c.outcome \in Finals

TxType ==
    /\ TypeInv
    /\ tx \in [Sessions -> TxRow \cup {Idle}]
    /\ \A s \in InFlight : tx[s] \in TxRow /\ WriteSet(tx[s])

\* The transaction does not end workflow w and leave document d as it is: it has
\* still to load d, or it writes the outcome to d.
Spares(c, d, w) ==
    \A u \in c.updWorkflow : u[1] = w /\ u[2].status # "IN_PROGRESS" =>
        \/ c.outcome \in Finals
        \/ \E x \in c.docs : x[1] = d /\ x[3] \in Finals

Waits(d) == row[d] = "live" /\ approval[d] = "PENDING"

PendingIsGuarded ==
    \A d \in Docs : Waits(d) =>
        \E w \in LiveWorkflows(d) : \A s \in InFlight : Spares(tx[s], d, w)

\* Only a document that has been there, and whose domain has a handler, is PENDING.
PendingWasSubmitted ==
    \A d \in Docs : approval[d] = "PENDING" => row[d] # "none" /\ HasHandler(DomainOf[d])

TxInv == TxType /\ PendingWasSubmitted /\ ApprovedReportHasProject /\ PendingIsGuarded

-----------------------------------------------------------------------------
(* The flush.                                                              *)

\* An overwritten row is one of the new rows with its id; without one it stays.
LEMMA OverwriteRow ==
    ASSUME NEW f, NEW U, NEW i \in DOMAIN f
    PROVE  \/ (\A u \in U : u[1] # i) /\ Overwrite(f, U)[i] = f[i]
           \/ \E u \in U : u[1] = i /\ Overwrite(f, U)[i] = u[2]
<1>1. CASE \E u \in U : u[1] = i
  <2> DEFINE v == CHOOSE u \in U : u[1] = i
  <2>1. v \in U /\ v[1] = i
    BY <1>1
  <2>2. Overwrite(f, U)[i] = v[2]
    BY <1>1 DEF Overwrite
  <2> QED
    BY <2>1, <2>2
<1>2. CASE ~ \E u \in U : u[1] = i
  BY <1>2 DEF Overwrite
<1> QED
  BY <1>1, <1>2

\* Overwriting with rows of the type leaves rows of the type.
LEMMA OverwriteType ==
    ASSUME NEW D, NEW S, NEW f \in [D -> S], NEW U, \A u \in U : u[2] \in S
    PROVE  Overwrite(f, U) \in [D -> S]
<1>1. DOMAIN Overwrite(f, U) = D /\ Overwrite(f, U) = [i \in D |-> Overwrite(f, U)[i]]
  BY DEF Overwrite
<1>2. \A i \in D : Overwrite(f, U)[i] \in S
  BY OverwriteRow
<1> QED
  BY <1>1, <1>2

\* The same for a table with ids.
LEMMA OverwriteSeq ==
    ASSUME NEW S, NEW f \in Seq(S), NEW U, \A u \in U : u[2] \in S
    PROVE  /\ Overwrite(f, U) \in Seq(S) /\ DOMAIN Overwrite(f, U) = DOMAIN f
           /\ Len(Overwrite(f, U)) = Len(f)
<1>1. f \in [1..Len(f) -> S] /\ Len(f) \in Nat /\ DOMAIN f = 1..Len(f)
  OBVIOUS
<1>2. Overwrite(f, U) \in [1..Len(f) -> S]
  <2> DEFINE D == 1..Len(f)
  <2>1. f \in [D -> S]
    BY <1>1
  <2> HIDE DEF D
  <2>2. Overwrite(f, U) \in [D -> S]
    BY ONLY <2>1, \A u \in U : u[2] \in S, OverwriteType
  <2> QED
    BY <2>2 DEF D
<1>3. Overwrite(f, U) \in Seq(S) /\ DOMAIN Overwrite(f, U) = 1..Len(f)
  BY <1>1, <1>2
<1>4. Len(Overwrite(f, U)) = Len(f)
  BY <1>1, <1>3
<1> QED
  BY <1>1, <1>3, <1>4

\* Inserted rows get the next ids.
LEMMA InsertRows ==
    ASSUME NEW S, NEW p \in Seq(S), NEW q \in Seq(S)
    PROVE  /\ p \o q \in Seq(S)
           /\ DOMAIN p \subseteq DOMAIN (p \o q)
           /\ \A i \in DOMAIN p : (p \o q)[i] = p[i]
           /\ \A j \in DOMAIN q : Len(p) + j \in DOMAIN (p \o q) /\ (p \o q)[Len(p) + j] = q[j]
           /\ \A k \in DOMAIN (p \o q) : k \in DOMAIN p \/ \E j \in DOMAIN q : k = Len(p) + j
<1>1. \A k \in DOMAIN (p \o q) : k \in DOMAIN p \/ \E j \in DOMAIN q : k = Len(p) + j
  <2>1. SUFFICES ASSUME NEW k \in DOMAIN (p \o q), k \notin DOMAIN p
                 PROVE  \E j \in DOMAIN q : k = Len(p) + j
    OBVIOUS
  <2>2. k - Len(p) \in DOMAIN q /\ k = Len(p) + (k - Len(p))
    BY <2>1
  <2> QED
    BY <2>2
<1> QED
  BY <1>1

\* What a commit leaves in the tables, row by row.
Flushed(c) ==
    /\ \A w \in DOMAIN workflow :
         /\ w \in DOMAIN workflow'
         /\ \/ (\A u \in c.updWorkflow : u[1] # w) /\ workflow'[w] = workflow[w]
            \/ \E u \in c.updWorkflow : u[1] = w /\ workflow'[w] = u[2]
    /\ \A i \in DOMAIN c.newWorkflow :
         /\ Len(workflow) + i \in DOMAIN workflow'
         /\ workflow'[Len(workflow) + i] = c.newWorkflow[i]
    /\ \A d \in Docs :
         \/ (\A x \in c.docs : x[1] # d) /\ row'[d] = row[d] /\ approval'[d] = approval[d]
         \/ \E x \in c.docs : x[1] = d /\ row'[d] = x[2] /\ approval'[d] = x[3]

\* What no step takes away: ids, the foreign keys of the rows, projects.
Grows ==
    /\ DOMAIN template \subseteq DOMAIN template' /\ project \subseteq project'
    /\ \A w \in DOMAIN workflow : /\ w \in DOMAIN workflow'
                                  /\ workflow'[w].doc = workflow[w].doc
                                  /\ workflow'[w].template = workflow[w].template
    /\ \A l \in DOMAIN line : l \in DOMAIN line' /\ line'[l].workflow = line[l].workflow

\* The flush keeps the types and the foreign keys.
LEMMA CommitFlushes ==
    ASSUME TxType, NEW s \in Sessions, Commit(s)
    PROVE  TypeInv' /\ Flushed(tx[s]) /\ Grows
<1> DEFINE c == tx[s]
           U == {<<x[1], x[2]>> : x \in c.docs}
           V == {<<x[1], x[3]>> : x \in c.docs}
           inserted == [i \in DOMAIN c.newLine |->
                          IF c.newWorkflow = << >> THEN c.newLine[i]
                          ELSE [c.newLine[i] EXCEPT !.workflow = Len(workflow) + 1]]
<1>1. /\ c \in TxRow /\ WriteSet(c) /\ c # Idle
  BY DEF TxType, InFlight, Commit
<1>2. /\ workflow \in Seq(WorkflowRow) /\ line \in Seq(LineRow) /\ row \in [Docs -> DocumentRow]
      /\ approval \in [Docs -> ApprovalStatus] /\ project \in SUBSET Docs
      /\ template \in Seq(TemplateRow) /\ position \in [Users -> Position]
      /\ Len(workflow) \in Nat
  BY DEF TxType, TypeInv, TypeOK, DocumentRow
<1>3. /\ workflow' = Overwrite(workflow, c.updWorkflow) \o c.newWorkflow
      /\ line' = Overwrite(line, c.updLine) \o inserted
      /\ row' = Overwrite(row, U) /\ approval' = Overwrite(approval, V)
      /\ project' = project \cup c.newProject
      /\ UNCHANGED <<template, position>>
  BY DEF Commit
<1>4. /\ c.newWorkflow \in Seq(WorkflowRow) /\ c.newLine \in Seq(LineRow)
      /\ c.newProject \in SUBSET Docs
      /\ \A u \in c.updWorkflow : u[2] \in WorkflowRow
      /\ \A u \in c.updLine : u[2] \in LineRow
      /\ \A x \in c.docs : x[2] \in {"live", "deleted"} /\ x[3] \in ApprovalStatus
  BY <1>1 DEF TxRow
<1>5. inserted \in Seq(LineRow)
  <2>1. \A i \in DOMAIN c.newLine : c.newLine[i] \in LineRow
    BY <1>4
  <2>2. \A x \in LineRow : [x EXCEPT !.workflow = Len(workflow) + 1] \in LineRow
    <3>1. Len(workflow) + 1 \in Nat
      BY <1>2
    <3> QED
      BY <3>1 DEF LineRow
  <2>3. DOMAIN c.newLine = 1..Len(c.newLine) /\ Len(c.newLine) \in Nat
    BY <1>4
  <2>4. inserted \in [1..Len(c.newLine) -> LineRow]
    BY <2>1, <2>2, <2>3
  <2> QED
    BY <2>3, <2>4
<1> HIDE DEF c, inserted
<1>6. /\ workflow' \in Seq(WorkflowRow)
      /\ \A w \in DOMAIN workflow :
           /\ w \in DOMAIN workflow'
           /\ \/ (\A u \in c.updWorkflow : u[1] # w) /\ workflow'[w] = workflow[w]
              \/ \E u \in c.updWorkflow : u[1] = w /\ workflow'[w] = u[2]
      /\ \A i \in DOMAIN c.newWorkflow :
           /\ Len(workflow) + i \in DOMAIN workflow'
           /\ workflow'[Len(workflow) + i] = c.newWorkflow[i]
      /\ \A w \in DOMAIN workflow' : \/ w \in DOMAIN workflow
                                     \/ \E i \in DOMAIN c.newWorkflow : w = Len(workflow) + i
  <2> DEFINE o == Overwrite(workflow, c.updWorkflow)
  <2>0. workflow \in Seq(WorkflowRow) /\ \A u \in c.updWorkflow : u[2] \in WorkflowRow
    BY <1>2, <1>4
  <2>1. /\ o \in Seq(WorkflowRow) /\ DOMAIN o = DOMAIN workflow /\ Len(o) = Len(workflow)
        /\ \A w \in DOMAIN workflow : \/ (\A u \in c.updWorkflow : u[1] # w) /\ o[w] = workflow[w]
                                      \/ \E u \in c.updWorkflow : u[1] = w /\ o[w] = u[2]
    BY ONLY <2>0, OverwriteSeq, OverwriteRow
  <2>2. workflow' = o \o c.newWorkflow
    BY <1>3
  <2> HIDE DEF o
  <2>3. /\ workflow' \in Seq(WorkflowRow)
        /\ \A w \in DOMAIN o : w \in DOMAIN workflow' /\ workflow'[w] = o[w]
        /\ \A i \in DOMAIN c.newWorkflow :
             Len(o) + i \in DOMAIN workflow' /\ workflow'[Len(o) + i] = c.newWorkflow[i]
        /\ \A w \in DOMAIN workflow' :
             w \in DOMAIN o \/ \E i \in DOMAIN c.newWorkflow : w = Len(o) + i
    <3>1. o \in Seq(WorkflowRow) /\ c.newWorkflow \in Seq(WorkflowRow)
      BY <1>4, <2>1
    <3> QED
      BY ONLY <3>1, <2>2, InsertRows
  <2> QED
    BY <2>1, <2>3
<1>7. /\ line' \in Seq(LineRow)
      /\ \A l \in DOMAIN line :
           /\ l \in DOMAIN line'
           /\ \/ (\A u \in c.updLine : u[1] # l) /\ line'[l] = line[l]
              \/ \E u \in c.updLine : u[1] = l /\ line'[l] = u[2]
      /\ \A l \in DOMAIN line' : \/ l \in DOMAIN line
                                 \/ \E i \in DOMAIN inserted : line'[l] = inserted[i]
  <2> DEFINE o == Overwrite(line, c.updLine)
  <2>0. line \in Seq(LineRow) /\ \A u \in c.updLine : u[2] \in LineRow
    BY <1>2, <1>4
  <2>1. /\ o \in Seq(LineRow) /\ DOMAIN o = DOMAIN line
        /\ \A l \in DOMAIN line : \/ (\A u \in c.updLine : u[1] # l) /\ o[l] = line[l]
                                  \/ \E u \in c.updLine : u[1] = l /\ o[l] = u[2]
    BY ONLY <2>0, OverwriteSeq, OverwriteRow
  <2>2. line' = o \o inserted
    BY <1>3
  <2> HIDE DEF o
  <2>3. /\ line' \in Seq(LineRow)
        /\ \A l \in DOMAIN o : l \in DOMAIN line' /\ line'[l] = o[l]
        /\ \A i \in DOMAIN inserted : line'[Len(o) + i] = inserted[i]
        /\ \A l \in DOMAIN line' : l \in DOMAIN o \/ \E i \in DOMAIN inserted : l = Len(o) + i
    BY <1>5, <2>1, <2>2, InsertRows
  <2> QED
    BY <2>1, <2>3
<1>8. /\ row' \in [Docs -> DocumentRow]
      /\ \A d \in Docs : \/ (\A u \in U : u[1] # d) /\ row'[d] = row[d]
                         \/ \E u \in U : u[1] = d /\ row'[d] = u[2]
  <2>1. \A u \in U : u[2] \in DocumentRow
    BY <1>4 DEF DocumentRow
  <2>2. row \in [Docs -> DocumentRow] /\ row' = Overwrite(row, U)
    BY <1>2, <1>3
  <2> HIDE DEF U
  <2>3. Overwrite(row, U) \in [Docs -> DocumentRow]
    BY ONLY <2>1, <2>2, OverwriteType
  <2>4. \A d \in Docs :
             \/ (\A u \in U : u[1] # d) /\ Overwrite(row, U)[d] = row[d]
             \/ \E u \in U : u[1] = d /\ Overwrite(row, U)[d] = u[2]
    BY ONLY <2>2, OverwriteRow
  <2> QED
    BY ONLY <2>2, <2>3, <2>4
<1>9. /\ approval' \in [Docs -> ApprovalStatus]
      /\ \A d \in Docs : \/ (\A u \in V : u[1] # d) /\ approval'[d] = approval[d]
                         \/ \E u \in V : u[1] = d /\ approval'[d] = u[2]
  <2>1. \A u \in V : u[2] \in ApprovalStatus
    BY <1>4
  <2>2. approval \in [Docs -> ApprovalStatus] /\ approval' = Overwrite(approval, V)
    BY <1>2, <1>3
  <2> HIDE DEF V
  <2>3. Overwrite(approval, V) \in [Docs -> ApprovalStatus]
    BY ONLY <2>1, <2>2, OverwriteType
  <2>4. \A d \in Docs :
             \/ (\A u \in V : u[1] # d) /\ Overwrite(approval, V)[d] = approval[d]
             \/ \E u \in V : u[1] = d /\ Overwrite(approval, V)[d] = u[2]
    BY ONLY <2>2, OverwriteRow
  <2> QED
    BY ONLY <2>2, <2>3, <2>4
<1>10. ASSUME NEW d \in Docs
       PROVE  \/ (\A x \in c.docs : x[1] # d) /\ row'[d] = row[d] /\ approval'[d] = approval[d]
              \/ \E x \in c.docs : x[1] = d /\ row'[d] = x[2] /\ approval'[d] = x[3]
  <2>1. CASE \E x \in c.docs : x[1] = d
    <3>1. PICK x \in c.docs : x[1] = d
      BY <2>1
    <3>2. c.docs = {x}
      BY <1>1, <3>1 DEF WriteSet
    <3>3. U = {<<x[1], x[2]>>} /\ V = {<<x[1], x[3]>>}
      BY <3>2
    <3>4. row'[d] = x[2]
      <4>1. \A u \in U : u[1] = d /\ u[2] = x[2]
        BY <3>1, <3>3
      <4>2. <<x[1], x[2]>> \in U
        BY <3>3
      <4> QED
        BY ONLY <1>8, <4>1, <4>2, Zenon
    <3>5. approval'[d] = x[3]
      <4>1. \A u \in V : u[1] = d /\ u[2] = x[3]
        BY <3>1, <3>3
      <4>2. <<x[1], x[3]>> \in V
        BY <3>3
      <4> QED
        BY ONLY <1>9, <4>1, <4>2, Zenon
    <3> QED
      BY <3>1, <3>4, <3>5
  <2>2. CASE \A x \in c.docs : x[1] # d
    <3>1. (\A u \in U : u[1] # d) /\ (\A u \in V : u[1] # d)
      BY <2>2
    <3> QED
      BY <1>8, <1>9, <2>2, <3>1
  <2> QED
    BY <2>1, <2>2
<1>11. TypeOK'
  BY <1>2, <1>3, <1>4, <1>6, <1>7, <1>8, <1>9 DEF TypeOK, DocumentRow
<1>12. Grows
  <2>1. \A w \in DOMAIN workflow : /\ w \in DOMAIN workflow'
                                   /\ workflow'[w].doc = workflow[w].doc
                                   /\ workflow'[w].template = workflow[w].template
    BY <1>1, <1>6 DEF WriteSet
  <2>2. \A l \in DOMAIN line : l \in DOMAIN line' /\ line'[l].workflow = line[l].workflow
    BY <1>1, <1>7 DEF WriteSet
  <2> QED
    BY <1>3, <2>1, <2>2 DEF Grows
<1>13. \A i \in DOMAIN inserted : inserted[i].workflow \in DOMAIN workflow'
  <2>1. CASE c.newWorkflow = << >>
    <3>1. \A i \in DOMAIN c.newLine : c.newLine[i].workflow \in DOMAIN workflow
      BY <1>1, <2>1 DEF WriteSet
    <3> QED
      BY <1>6, <2>1, <3>1 DEF inserted
  <2>2. CASE c.newWorkflow # << >>
    <3>1. 1 \in DOMAIN c.newWorkflow
      BY <1>4, <2>2
    <3>2. Len(workflow) + 1 \in DOMAIN workflow'
      BY <1>6, <3>1
    <3>3. ASSUME NEW i \in DOMAIN c.newLine
          PROVE  [c.newLine[i] EXCEPT !.workflow = Len(workflow) + 1].workflow = Len(workflow) + 1
      <4>1. c.newLine[i] \in LineRow
        BY <1>4
      <4> QED
        BY <4>1 DEF LineRow
    <3> QED
      BY <2>2, <3>2, <3>3 DEF inserted
  <2> QED
    BY <2>1, <2>2
<1>14. References'
  <2>1. \A w \in DOMAIN workflow' : workflow'[w].template \in DOMAIN template'
    <3>1. \A w \in DOMAIN workflow : workflow[w].template \in DOMAIN template
      BY DEF TxType, TypeInv, References
    <3>2. \A w \in DOMAIN workflow : workflow'[w].template \in DOMAIN template
      BY <1>12, <3>1 DEF Grows
    <3>3. \A i \in DOMAIN c.newWorkflow : c.newWorkflow[i].template \in DOMAIN template
      BY <1>1 DEF WriteSet
    <3>4. ASSUME NEW w \in DOMAIN workflow' PROVE workflow'[w].template \in DOMAIN template
      BY <1>6, <3>2, <3>3
    <3> QED
      BY <1>3, <3>4
  <2>2. \A l \in DOMAIN line' : line'[l].workflow \in DOMAIN workflow'
    <3>1. \A l \in DOMAIN line : line[l].workflow \in DOMAIN workflow
      BY DEF TxType, TypeInv, References
    <3>2. \A l \in DOMAIN line : line'[l].workflow \in DOMAIN workflow'
      BY <1>12, <3>1 DEF Grows
    <3> QED
      BY <1>7, <1>13, <3>2
  <2> QED
    BY <2>1, <2>2 DEF References
<1>15. Flushed(c)
  BY <1>6, <1>10 DEF Flushed
<1> QED
  BY <1>11, <1>12, <1>14, <1>15 DEF TypeInv, c

-----------------------------------------------------------------------------
(* The steps that leave the tables alone.                                  *)

\* A write set a transaction may enter or go on with in this state.
Admissible(c) ==
    /\ c \in TxRow /\ WriteSet(c)
    /\ \A d \in Docs : Waits(d) => \A w \in LiveWorkflows(d) : Spares(c, d, w)

\* A step that only leaves admissible write sets in flight keeps the invariant.
LEMMA OnlyTx ==
    ASSUME TxInv, UNCHANGED vars, NEW s \in Sessions, NEW n,
           tx' = [tx EXCEPT ![s] = n], n = Idle \/ Admissible(n)
    PROVE  TxInv'
<1>0. tx \in [Sessions -> TxRow \cup {Idle}]
  BY DEF TxInv, TxType
<1>1. tx' \in [Sessions -> TxRow \cup {Idle}]
  BY <1>0 DEF Admissible
<1>2. \A r \in Sessions : tx'[r] = IF r = s THEN n ELSE tx[r]
  BY <1>0
<1>3. ASSUME NEW r \in Sessions, tx'[r] # Idle
      PROVE  tx'[r] \in TxRow /\ WriteSet(tx[r])'
  <2>1. CASE r = s
    <3>1. n \in TxRow /\ WriteSet(n) /\ tx'[r] = n
      BY <1>2, <1>3, <2>1 DEF Admissible
    <3> QED
      BY <3>1 DEF WriteSet, vars
  <2>2. CASE r # s
    <3>1. tx'[r] = tx[r] /\ r \in InFlight
      BY <1>2, <1>3, <2>2 DEF InFlight
    <3>2. tx[r] \in TxRow /\ WriteSet(tx[r])
      BY <3>1 DEF TxInv, TxType
    <3> QED
      BY <3>1, <3>2 DEF WriteSet, vars
  <2> QED
    BY <2>1, <2>2
<1>4. TxType'
  <2>1. TypeInv'
    BY DEF TxInv, TxType, TypeInv, TypeOK, References, vars
  <2> QED
    BY <1>1, <1>3, <2>1 DEF TxType, InFlight
<1>5. PendingWasSubmitted' /\ ApprovedReportHasProject'
  BY DEF TxInv, PendingWasSubmitted, ApprovedReportHasProject, vars
<1>6. ASSUME NEW d \in Docs, Waits(d)'
      PROVE  \E w \in LiveWorkflows(d)' : \A r \in InFlight' : Spares(tx[r], d, w)'
  <2>1. Waits(d)
    BY <1>6 DEF Waits, vars
  <2>2. PICK w \in LiveWorkflows(d) : \A r \in InFlight : Spares(tx[r], d, w)
    BY <2>1 DEF TxInv, PendingIsGuarded
  <2>3. w \in LiveWorkflows(d)'
    BY <2>2 DEF LiveWorkflows, vars
  <2>4. ASSUME NEW r \in InFlight' PROVE Spares(tx[r], d, w)'
    <3>1. r \in Sessions /\ tx'[r] # Idle
      BY DEF InFlight
    <3>2. CASE r = s
      <4>1. Spares(n, d, w) /\ tx'[r] = n
        BY <1>2, <2>1, <2>2, <3>1, <3>2 DEF Admissible
      <4> QED
        BY <4>1 DEF Spares
    <3>3. CASE r # s
      <4>1. tx'[r] = tx[r] /\ r \in InFlight
        BY <1>2, <3>1, <3>3 DEF InFlight
      <4> QED
        BY <2>2, <4>1 DEF Spares
    <3> QED
      BY <3>2, <3>3
  <2> QED
    BY <2>3, <2>4
<1> QED
  BY <1>4, <1>5, <1>6 DEF TxInv, PendingIsGuarded

\* A request that has validated and not yet loaded its document is admissible.
LEMMA BeginKeeps ==
    ASSUME TxInv, NEW s \in Sessions, NEW n \in TxRow, WriteSet(n), Undecided(n), Begin(s, n)
    PROVE  TxInv'
<1>1. Admissible(n)
  BY DEF Admissible, Undecided, Spares
<1> QED
  BY <1>1, OnlyTx DEF Begin

\* The document a handler has loaded gets the outcome, an order report its project.
LEMMA LoadKeeps ==
    ASSUME TxInv, NEW s \in Sessions, LoadDocument(s)
    PROVE  TxInv'
<1> DEFINE c == tx[s]
           d == c.doc
           docs == IF HasHandler(DomainOf[d]) THEN DocWrite(d, "live", c.outcome) ELSE {}
           new == IF CreatesProject(s) THEN {d} ELSE {}
           n == [c EXCEPT !.outcome = "none", !.docs = docs, !.newProject = new]
<1>1. c.outcome # "none" /\ tx' = [tx EXCEPT ![s] = n] /\ UNCHANGED vars
  BY DEF LoadDocument
<1>2. c \in TxRow /\ WriteSet(c) /\ c.outcome \in Finals
  <2>1. c # Idle
    BY <1>1 DEF Idle, Empty
  <2>2. c \in TxRow /\ WriteSet(c)
    BY <2>1 DEF TxInv, TxType, InFlight
  <2> QED
    BY <1>1, <2>2 DEF TxRow
<1>3. /\ docs \subseteq {<<d, "live", c.outcome>>}
      /\ Waits(d) => docs = {<<d, "live", c.outcome>>}
  <2>1. Waits(d) => HasHandler(DomainOf[d])
    BY <1>2 DEF TxInv, PendingWasSubmitted, TxRow, Waits
  <2>2. Waits(d) => approval[d] # c.outcome
    BY <1>2 DEF Waits, Finals
  <2> QED
    BY <2>1, <2>2 DEF DocWrite
<1>4. /\ d \in Docs /\ new \subseteq {d}
      /\ DomainOf[d] = "ORDER_REPORT" /\ c.outcome = "APPROVED" => new = {d}
  BY <1>2 DEF TxRow, CreatesProject
<1> HIDE DEF docs, new
<1>5. /\ n \in TxRow /\ n.doc = d /\ n.updWorkflow = c.updWorkflow /\ n.updLine = c.updLine
      /\ n.newWorkflow = c.newWorkflow /\ n.newLine = c.newLine
      /\ n.outcome = "none" /\ n.docs = docs /\ n.newProject = new
  <2>1. docs \in SUBSET (Docs \X {"live", "deleted"} \X ApprovalStatus)
    BY <1>2, <1>3, <1>4 DEF Finals, ApprovalStatus
  <2>2. new \in SUBSET Docs
    BY <1>4
  <2> QED
    BY <1>2, <2>1, <2>2 DEF TxRow
<1> HIDE DEF n
<1>6. WriteSet(n)
  <2>1. \A x \in n.docs : x[1] = d /\ x[2] = "live" /\ x[3] = c.outcome
    <3>1. \A x \in n.docs : x = <<d, "live", c.outcome>>
      BY <1>3, <1>5
    <3> QED
      BY <3>1
  <2> QED
    BY <1>2, <1>3, <1>4, <1>5, <2>1 DEF WriteSet, Finals
<1>7. ASSUME NEW e \in Docs, Waits(e), NEW w \in LiveWorkflows(e) PROVE Spares(n, e, w)
  <2>1. CASE e = d
    <3> DEFINE x == <<d, "live", c.outcome>>
    <3>1. x \in n.docs
      BY <1>3, <1>5, <1>7, <2>1
    <3>2. x[1] = e /\ x[3] \in Finals
      BY <1>2, <2>1
    <3> HIDE DEF x, c
    <3> QED
      BY <3>1, <3>2 DEF Spares
  <2>2. CASE e # d
    <3>1. \A u \in c.updWorkflow : workflow[u[1]].doc = d
      BY <1>2 DEF WriteSet
    <3>2. workflow[w].doc = e
      BY DEF LiveWorkflows
    <3> HIDE DEF c
    <3> QED
      BY <1>5, <2>2, <3>1, <3>2 DEF Spares
  <2> QED
    BY <2>1, <2>2
<1>8. Admissible(n)
  BY <1>5, <1>6, <1>7 DEF Admissible
<1> QED
  BY <1>1, <1>8, OnlyTx

\* A transaction that rolls back takes its write set with it.
LEMMA RollbackKeeps ==
    ASSUME TxInv, NEW s \in Sessions, Rollback(s)
    PROVE  TxInv'
BY OnlyTx DEF Rollback

-----------------------------------------------------------------------------
(* What the requests enter with.                                           *)

\* The write sets of the requests: a start's, and a decision's or a cancel's.
Starts(d, e, f, docs) ==
    [Empty EXCEPT !.doc = d, !.newWorkflow = <<e>>, !.newLine = <<f>>, !.docs = docs]

Decides(n, w, e, lines, new, outcome) ==
    /\ n \in TxRow
    /\ n.doc = workflow[w].doc /\ n.updWorkflow = {<<w, e>>} /\ n.updLine = lines
    /\ n.newWorkflow = << >> /\ n.newLine = new /\ n.outcome = outcome
    /\ n.docs = {} /\ n.newProject = {}

\* The fields of a start's, and their types.
LEMMA StartsType ==
    ASSUME NEW d \in Docs, NEW e \in WorkflowRow, NEW f \in LineRow,
           NEW docs \in SUBSET (Docs \X {"live", "deleted"} \X ApprovalStatus)
    PROVE  LET n == Starts(d, e, f, docs) IN
           /\ n.doc = d /\ n.updWorkflow = {} /\ n.updLine = {} /\ n.newWorkflow = <<e>>
           /\ n.newLine = <<f>> /\ n.outcome = "none" /\ n.docs = docs /\ n.newProject = {}
           /\ n \in TxRow
<1> DEFINE ws == <<e>>
           ls == <<f>>
<1>1. ws \in Seq(WorkflowRow) /\ ls \in Seq(LineRow)
  OBVIOUS
<1> DEFINE n == [Empty EXCEPT !.doc = d, !.newWorkflow = ws, !.newLine = ls, !.docs = docs]
<1> HIDE DEF ws, ls
<1>2. n \in TxRow
  BY <1>1 DEF TxRow, Empty
<1>3. /\ n.doc = d /\ n.updWorkflow = {} /\ n.updLine = {} /\ n.newWorkflow = ws
      /\ n.newLine = ls /\ n.outcome = "none" /\ n.docs = docs /\ n.newProject = {}
  BY DEF Empty
<1>4. n = Starts(d, e, f, docs)
  BY DEF Starts, ws, ls
<1> HIDE DEF n
<1> QED
  BY <1>2, <1>3, <1>4 DEF ws, ls

\* What a decision updates.
LEMMA DecidesType ==
    ASSUME TxInv, NEW w \in DOMAIN workflow, NEW e \in WorkflowRow
    PROVE  {<<w, e>>} \in SUBSET (Nat \X WorkflowRow) /\ workflow[w].doc \in Docs
<1>1. workflow[w] \in WorkflowRow /\ w \in Nat
  BY DEF TxInv, TxType, TypeInv, TypeOK
<1> QED
  BY <1>1 DEF WorkflowRow

\* A start inserts a workflow and its first line; a submit sets its document
\* PENDING in the same transaction.
LEMMA StartKeeps ==
    ASSUME TxInv, NEW s \in Sessions, NEW d \in Docs, NEW u \in Users, NEW docs,
           BeginStart(s, d, u, docs),
           \/ docs = {}
           \/ docs = {<<d, "live", "PENDING">>} /\ HasHandler(DomainOf[d])
    PROVE  TxInv'
<1>0. TypeOK
  BY DEF TxInv, TxType, TypeInv
<1>1. PICK t \in DOMAIN template : \E i \in DOMAIN template[t].steps :
        /\ StepsAt(t, 1) = {i}
        /\ Begin(s, [Empty EXCEPT
               !.doc = d,
               !.newWorkflow = <<[doc |-> d, template |-> t,
                                  status |-> "IN_PROGRESS", current |-> 1]>>,
               !.newLine = <<NewLine(0, template[t].steps[i], u)>>,
               !.docs = docs])
  BY DEF BeginStart
<1>2. PICK i \in DOMAIN template[t].steps :
        /\ StepsAt(t, 1) = {i}
        /\ Begin(s, [Empty EXCEPT
               !.doc = d,
               !.newWorkflow = <<[doc |-> d, template |-> t,
                                  status |-> "IN_PROGRESS", current |-> 1]>>,
               !.newLine = <<NewLine(0, template[t].steps[i], u)>>,
               !.docs = docs])
  BY <1>1
<1> DEFINE e == [doc |-> d, template |-> t, status |-> "IN_PROGRESS", current |-> 1]
           f == NewLine(0, template[t].steps[i], u)
           n == Starts(d, e, f, docs)
<1>3. Begin(s, n)
  BY <1>2 DEF Starts
<1>4. e \in WorkflowRow /\ e.doc = d /\ e.status = "IN_PROGRESS" /\ e.template \in DOMAIN template
  <2>1. t \in Nat
    BY <1>0 DEF TypeOK
  <2> QED
    BY <2>1 DEF WorkflowRow, WorkflowStatus
<1>5. f \in LineRow
  <2>1. template[t].steps[i] \in StepRow
    BY <1>0, <1>2, StepFound
  <2> QED
    BY <2>1 DEF LineRow, NewLine, WorkflowLineStatus, StepRow
<1>6. docs \in SUBSET (Docs \X {"live", "deleted"} \X ApprovalStatus)
  BY DEF ApprovalStatus
<1> HIDE DEF e, f
<1>7. /\ n.doc = d /\ n.updWorkflow = {} /\ n.updLine = {} /\ n.newWorkflow = <<e>>
      /\ n.newLine = <<f>> /\ n.outcome = "none" /\ n.docs = docs /\ n.newProject = {}
  BY <1>4, <1>5, <1>6, StartsType
<1>8. n \in TxRow
  BY <1>4, <1>5, <1>6, StartsType
<1> HIDE DEF n
<1>9. WriteSet(n)
  <2>1. \A j \in DOMAIN n.newWorkflow : n.newWorkflow[j] = e
    BY <1>7
  <2>2. n.newWorkflow # << >>
    BY <1>7
  <2>3. \A x \in n.docs : x = <<d, "live", "PENDING">> /\ HasHandler(DomainOf[d])
    BY <1>7
  <2>4. \A x \in n.docs : x[1] = d /\ x[2] = "live" /\ x[3] = "PENDING" /\ HasHandler(DomainOf[d])
    BY <2>3
  <2> QED
    BY <1>4, <1>7, <2>1, <2>2, <2>3, <2>4 DEF WriteSet
<1>10. Undecided(n)
  BY <1>7 DEF Undecided
<1> QED
  BY <1>3, <1>8, <1>9, <1>10, BeginKeeps

\* A workflow's row with its document and template, a line's with its workflow:
\* what the decisions overwrite and insert.
LEMMA DecisionKeeps ==
    ASSUME TxInv, NEW s \in Sessions, NEW w \in DOMAIN workflow, NEW e \in WorkflowRow,
           NEW lines \in SUBSET (Nat \X LineRow), NEW new \in Seq(LineRow),
           NEW outcome \in Finals \cup {"none"},
           e.doc = workflow[w].doc, e.template = workflow[w].template,
           e.status # "IN_PROGRESS" => outcome \in Finals,
           \A x \in lines : x[1] \in DOMAIN line /\ x[2].workflow = line[x[1]].workflow,
           \A i \in DOMAIN new : new[i].workflow = w,
           NEW n, Decides(n, w, e, lines, new, outcome), Begin(s, n)
    PROVE  TxInv'
<1>2. /\ n.doc = workflow[w].doc /\ n.updWorkflow = {<<w, e>>} /\ n.updLine = lines
      /\ n.newWorkflow = << >> /\ n.newLine = new /\ n.outcome = outcome
      /\ n.docs = {} /\ n.newProject = {}
      /\ n \in TxRow
  BY DEF Decides
<1>5. \A x \in n.updWorkflow : x[1] = w /\ x[2] = e
  <2>1. \A x \in n.updWorkflow : x = <<w, e>>
    BY <1>2
  <2> QED
    BY <2>1
<1>6. WriteSet(n)
  BY <1>2, <1>5 DEF WriteSet
<1>7. Undecided(n)
  BY <1>2, <1>5 DEF Undecided
<1> QED
  BY <1>2, <1>6, <1>7, BeginKeeps

\* The requests that decide a line: approve with a next approver, final approve, reject.
LEMMA ApproveKeeps ==
    ASSUME TxInv, NEW s \in Sessions, NEW w \in DOMAIN workflow, NEW u \in Users, NEW v \in Users,
           TxApprove(s, w, u, v)
    PROVE  TxInv'
<1>0. TypeOK /\ References
  BY DEF TxInv, TxType, TypeInv
<1> DEFINE t == workflow[w].template
           n == workflow[w].current + 1
<1>1. PICK l \in DOMAIN line :
        /\ Decidable(w, l, u)
        /\ \/ \E i \in StepsAt(t, n) :
                Begin(s, [Empty EXCEPT
                       !.doc = workflow[w].doc,
                       !.updWorkflow = {<<w, [workflow[w] EXCEPT !.current = n]>>},
                       !.updLine = {<<l, [line[l] EXCEPT !.status = "APPROVED"]>>},
                       !.newLine = <<NewLine(w, template[t].steps[i], v)>>])
           \/ Begin(s, [Empty EXCEPT
                     !.doc = workflow[w].doc,
                     !.updWorkflow = {<<w, [workflow[w] EXCEPT !.status = "APPROVED", !.current = 0]>>},
                     !.updLine = {<<l, [line[l] EXCEPT !.status = "APPROVED"]>>},
                     !.outcome = "APPROVED"])
  BY DEF TxApprove
<1> DEFINE g == [line[l] EXCEPT !.status = "APPROVED"]
           lines == {<<l, g>>}
<1>2. /\ workflow[w] \in WorkflowRow /\ line[l] \in LineRow /\ g \in LineRow
      /\ l \in Nat /\ w \in Nat /\ t \in DOMAIN template
      /\ g.workflow = line[l].workflow
  <2>1. workflow[w] \in WorkflowRow /\ line[l] \in LineRow /\ l \in Nat /\ w \in Nat
    BY <1>0 DEF TypeOK
  <2>2. g \in LineRow /\ g.workflow = line[l].workflow
    BY <2>1 DEF LineRow, WorkflowLineStatus
  <2> QED
    BY <1>0, <2>1, <2>2 DEF References
<1>3. n \in Nat
  BY <1>2 DEF WorkflowRow
<1> HIDE DEF g
<1>4. /\ lines \in SUBSET (Nat \X LineRow)
      /\ \A x \in lines : x[1] \in DOMAIN line /\ x[2].workflow = line[x[1]].workflow
  BY <1>2
<1> HIDE DEF lines
<1>5. CASE \E i \in StepsAt(t, n) :
             Begin(s, [Empty EXCEPT
                    !.doc = workflow[w].doc,
                    !.updWorkflow = {<<w, [workflow[w] EXCEPT !.current = n]>>},
                    !.updLine = {<<l, [line[l] EXCEPT !.status = "APPROVED"]>>},
                    !.newLine = <<NewLine(w, template[t].steps[i], v)>>])
  <2>1. PICK i \in StepsAt(t, n) :
          Begin(s, [Empty EXCEPT
                 !.doc = workflow[w].doc,
                 !.updWorkflow = {<<w, [workflow[w] EXCEPT !.current = n]>>},
                 !.updLine = {<<l, [line[l] EXCEPT !.status = "APPROVED"]>>},
                 !.newLine = <<NewLine(w, template[t].steps[i], v)>>])
    BY <1>5
  <2> DEFINE e == [workflow[w] EXCEPT !.current = n]
             f == NewLine(w, template[t].steps[i], v)
             new == <<f>>
  <2>2. template[t].steps[i] \in StepRow
    BY <1>0, <1>2, StepFound
  <2>3. f \in LineRow /\ f.workflow = w
    BY <1>2, <2>2 DEF LineRow, NewLine, WorkflowLineStatus, StepRow
  <2>4. /\ e \in WorkflowRow /\ e.doc = workflow[w].doc /\ e.template = workflow[w].template
        /\ e.status = workflow[w].status
    BY <1>2, <1>3 DEF WorkflowRow
  <2>5. e.status = "IN_PROGRESS"
    BY <1>1, <2>4 DEF Decidable, InProgress
  <2> DEFINE us == {<<w, e>>}
             N == [Empty EXCEPT !.doc = workflow[w].doc, !.updWorkflow = us, !.updLine = lines,
                                !.newLine = new]
  <2>6. Begin(s, N)
    BY <2>1 DEF lines, g
  <2> HIDE DEF e, f
  <2>7. new \in Seq(LineRow) /\ \A j \in DOMAIN new : new[j].workflow = w
    BY <2>3
  <2>8. us \in SUBSET (Nat \X WorkflowRow) /\ workflow[w].doc \in Docs /\ << >> \in Seq(WorkflowRow)
    BY <2>4, DecidesType
  <2> HIDE DEF new, t, n, us
  <2>9. Decides(N, w, e, lines, new, "none")
    <3>1. N \in TxRow
      BY <1>4, <2>7, <2>8 DEF TxRow, Empty
    <3> QED
      BY <3>1 DEF Decides, Empty, us
  <2> HIDE DEF N
  <2> QED
    BY <1>4, <2>4, <2>5, <2>6, <2>7, <2>9, DecisionKeeps
<1>6. CASE Begin(s, [Empty EXCEPT
                  !.doc = workflow[w].doc,
                  !.updWorkflow = {<<w, [workflow[w] EXCEPT !.status = "APPROVED", !.current = 0]>>},
                  !.updLine = {<<l, [line[l] EXCEPT !.status = "APPROVED"]>>},
                  !.outcome = "APPROVED"])
  <2> DEFINE e == [workflow[w] EXCEPT !.status = "APPROVED", !.current = 0]
  <2>1. e \in WorkflowRow /\ e.doc = workflow[w].doc /\ e.template = workflow[w].template
    BY <1>2 DEF WorkflowRow, WorkflowStatus
  <2> DEFINE us == {<<w, e>>}
             N == [Empty EXCEPT !.doc = workflow[w].doc, !.updWorkflow = us, !.updLine = lines,
                                !.outcome = "APPROVED"]
  <2>2. Begin(s, N)
    BY <1>6 DEF lines, g
  <2> HIDE DEF e
  <2> DEFINE new == << >>
  <2>3. /\ us \in SUBSET (Nat \X WorkflowRow) /\ workflow[w].doc \in Docs
        /\ << >> \in Seq(WorkflowRow)
    BY <2>1, DecidesType
  <2>4. new \in Seq(LineRow) /\ \A j \in DOMAIN new : new[j].workflow = w
    OBVIOUS
  <2> HIDE DEF t, n, us, new
  <2>5. Decides(N, w, e, lines, new, "APPROVED")
    <3>1. N \in TxRow
      BY <1>4, <2>3, <2>4 DEF TxRow, Empty, Finals, new
    <3> QED
      BY <3>1 DEF Decides, Empty, us, new
  <2>6. "APPROVED" \in Finals
    BY DEF Finals
  <2> HIDE DEF N
  <2> QED
    BY <1>4, <2>1, <2>2, <2>4, <2>5, <2>6, DecisionKeeps
<1> QED
  BY <1>1, <1>5, <1>6

\* A reject ends the workflow at its current line.
LEMMA RejectKeeps ==
    ASSUME TxInv, NEW s \in Sessions, NEW w \in DOMAIN workflow, NEW u \in Users,
           TxReject(s, w, u)
    PROVE  TxInv'
<1>0. TypeOK
  BY DEF TxInv, TxType, TypeInv
<1>1. PICK l \in DOMAIN line :
        Begin(s, [Empty EXCEPT
             !.doc = workflow[w].doc,
             !.updWorkflow = {<<w, [workflow[w] EXCEPT !.status = "REJECTED"]>>},
             !.updLine = {<<l, [line[l] EXCEPT !.status = "REJECTED"]>>},
             !.outcome = "REJECTED"])
  BY DEF TxReject
<1> DEFINE e == [workflow[w] EXCEPT !.status = "REJECTED"]
           g == [line[l] EXCEPT !.status = "REJECTED"]
           us == {<<w, e>>}
           lines == {<<l, g>>}
           new == << >>
           N == [Empty EXCEPT !.doc = workflow[w].doc, !.updWorkflow = us, !.updLine = lines,
                              !.outcome = "REJECTED"]
<1>2. Begin(s, N)
  BY <1>1
<1>3. workflow[w] \in WorkflowRow /\ line[l] \in LineRow /\ l \in Nat
  BY <1>0 DEF TypeOK
<1>4. e \in WorkflowRow /\ e.doc = workflow[w].doc /\ e.template = workflow[w].template
  BY <1>3 DEF WorkflowRow, WorkflowStatus
<1>5. g \in LineRow /\ g.workflow = line[l].workflow
  BY <1>3 DEF LineRow, WorkflowLineStatus
<1> HIDE DEF e, g
<1>6. /\ lines \in SUBSET (Nat \X LineRow)
      /\ \A x \in lines : x[1] \in DOMAIN line /\ x[2].workflow = line[x[1]].workflow
  BY <1>3, <1>5
<1>7. /\ us \in SUBSET (Nat \X WorkflowRow) /\ workflow[w].doc \in Docs
      /\ << >> \in Seq(WorkflowRow)
  BY <1>4, DecidesType
<1>8. new \in Seq(LineRow) /\ \A j \in DOMAIN new : new[j].workflow = w
  OBVIOUS
<1> HIDE DEF us, lines, new
<1>9. Decides(N, w, e, lines, new, "REJECTED")
  <2>1. N \in TxRow
    BY <1>6, <1>7, <1>8 DEF TxRow, Empty, Finals, new
  <2> QED
    BY <2>1 DEF Decides, Empty, us, new
<1>10. "REJECTED" \in Finals
  BY DEF Finals
<1> HIDE DEF N
<1> QED
  BY <1>2, <1>4, <1>6, <1>8, <1>9, <1>10, DecisionKeeps

\* A cancel ends the workflow and leaves its pending line.
LEMMA CancelKeeps ==
    ASSUME TxInv, NEW s \in Sessions, NEW w \in DOMAIN workflow, TxCancel(s, w)
    PROVE  TxInv'
<1>0. TypeOK
  BY DEF TxInv, TxType, TypeInv
<1> DEFINE e == [workflow[w] EXCEPT !.status = "CANCELED"]
           us == {<<w, e>>}
           lines == {}
           new == << >>
           N == [Empty EXCEPT !.doc = workflow[w].doc, !.updWorkflow = us, !.outcome = "CANCELED"]
<1>2. Begin(s, N)
  BY DEF TxCancel
<1>3. workflow[w] \in WorkflowRow
  BY <1>0 DEF TypeOK
<1>4. e \in WorkflowRow /\ e.doc = workflow[w].doc /\ e.template = workflow[w].template
  BY <1>3 DEF WorkflowRow, WorkflowStatus
<1> HIDE DEF e
<1>6. /\ lines \in SUBSET (Nat \X LineRow)
      /\ \A x \in lines : x[1] \in DOMAIN line /\ x[2].workflow = line[x[1]].workflow
  OBVIOUS
<1>7. /\ us \in SUBSET (Nat \X WorkflowRow) /\ workflow[w].doc \in Docs
      /\ << >> \in Seq(WorkflowRow)
  BY <1>4, DecidesType
<1>8. new \in Seq(LineRow) /\ \A j \in DOMAIN new : new[j].workflow = w
  OBVIOUS
<1> HIDE DEF us, lines, new
<1>9. Decides(N, w, e, lines, new, "CANCELED")
  <2>1. N \in TxRow
    BY <1>6, <1>7, <1>8 DEF TxRow, Empty, Finals, new, lines
  <2> QED
    BY <2>1 DEF Decides, Empty, us, new, lines
<1>10. "CANCELED" \in Finals
  BY DEF Finals
<1> HIDE DEF N
<1> QED
  BY <1>2, <1>4, <1>6, <1>8, <1>9, <1>10, DecisionKeeps

\* A delete writes the approval status it has read, whatever becomes of it.
LEMMA DeleteKeeps ==
    ASSUME TxInv, NEW s \in Sessions, NEW d \in Docs, TxDelete(s, d)
    PROVE  TxInv'
<1> DEFINE x == <<d, "deleted", approval[d]>>
           docs == {x}
           n == [Empty EXCEPT !.doc = d, !.docs = docs]
<1>1. Begin(s, n)
  BY DEF TxDelete
<1>2. x \in Docs \X {"live", "deleted"} \X ApprovalStatus
  BY DEF TxInv, TxType, TypeInv, TypeOK
<1>3. x[1] = d /\ x[2] = "deleted" /\ x[3] = approval[d]
  OBVIOUS
<1> HIDE DEF x
<1>4. docs \in SUBSET (Docs \X {"live", "deleted"} \X ApprovalStatus)
  BY <1>2
<1>5. /\ n.doc = d /\ n.updWorkflow = {} /\ n.updLine = {} /\ n.newWorkflow = << >>
      /\ n.newLine = << >> /\ n.outcome = "none" /\ n.docs = {x} /\ n.newProject = {}
  BY DEF Empty
<1> HIDE DEF docs
<1>6. n \in TxRow
  <2>1. << >> \in Seq(WorkflowRow) /\ << >> \in Seq(LineRow)
    OBVIOUS
  <2> QED
    BY <1>4, <2>1 DEF TxRow, Empty
<1> HIDE DEF n
<1>7. WriteSet(n)
  BY <1>3, <1>5 DEF WriteSet, TxInv, PendingWasSubmitted, ApprovedReportHasProject
<1>8. Undecided(n)
  BY <1>5 DEF Undecided
<1> QED
  BY <1>1, <1>6, <1>7, <1>8, BeginKeeps

-----------------------------------------------------------------------------
(* The steps that write the tables.                                        *)

\* A write set stays one while the tables only grow.
LEMMA WriteSetStays ==
    ASSUME NEW c, c \in TxRow, WriteSet(c), Grows
    PROVE  WriteSet(c)'
<1>1. \A u \in c.updWorkflow :
        /\ u[1] \in DOMAIN workflow'
        /\ workflow'[u[1]].doc = c.doc /\ u[2].doc = c.doc
        /\ u[2].template = workflow'[u[1]].template
  BY DEF WriteSet, Grows
<1>2. \A u \in c.updLine : u[1] \in DOMAIN line' /\ u[2].workflow = line'[u[1]].workflow
  BY DEF WriteSet, Grows
<1>3. c.newWorkflow = << >> =>
        \A i \in DOMAIN c.newLine : c.newLine[i].workflow \in DOMAIN workflow'
  BY DEF WriteSet, Grows
<1>4. \A i \in DOMAIN c.newWorkflow : /\ c.newWorkflow[i].doc = c.doc
                                      /\ c.newWorkflow[i].status = "IN_PROGRESS"
                                      /\ c.newWorkflow[i].template \in DOMAIN template'
  BY DEF WriteSet, Grows
<1>5. /\ \A x, y \in c.docs : x = y
      /\ \A x \in c.docs :
           /\ x[1] = c.doc
           /\ x[3] = "PENDING" => /\ HasHandler(DomainOf[c.doc])
                                  /\ x[2] = "live" => c.newWorkflow # << >>
           /\ x[3] = "APPROVED" /\ DomainOf[c.doc] = "ORDER_REPORT"
                => c.doc \in project' \cup c.newProject
  BY DEF WriteSet, Grows
<1> QED
  BY <1>1, <1>2, <1>3, <1>4, <1>5 DEF WriteSet

\* So do the write sets of the transactions a step leaves in flight.
LEMMA OthersStay ==
    ASSUME TxType, Grows, NEW r \in Sessions, tx'[r] = tx[r], tx'[r] # Idle
    PROVE  tx'[r] \in TxRow /\ WriteSet(tx[r])'
<1>1. PICK n : n = tx[r]
  OBVIOUS
<1>2. n \in TxRow /\ WriteSet(n)
  <2>1. r \in InFlight
    BY DEF InFlight
  <2>2. tx[r] \in TxRow /\ WriteSet(tx[r])
    BY <2>1 DEF TxType
  <2> QED
    BY <1>1, <2>2
<1>3. WriteSet(n)'
  BY <1>2, WriteSetStays
<1>4. tx'[r] = n
  BY <1>1
<1> QED
  BY <1>2, <1>3, <1>4 DEF WriteSet

\* A commit writes PENDING into a live document only with a workflow nobody else
\* has seen, and ends the workflow others count on only by taking its document out
\* of PENDING.
LEMMA CommitKeeps ==
    ASSUME TxInv, NEW s \in Sessions, Commit(s)
    PROVE  TxInv'
<1> DEFINE c == tx[s]
<1>1. TypeInv' /\ Flushed(c) /\ Grows
  BY CommitFlushes DEF TxInv
<1>2. /\ c # Idle /\ c.outcome = "none" /\ project' = project \cup c.newProject
      /\ tx' = [tx EXCEPT ![s] = Idle]
  BY DEF Commit
<1>3. c \in TxRow /\ WriteSet(c) /\ tx \in [Sessions -> TxRow \cup {Idle}] /\ TxType
  BY <1>2 DEF TxInv, TxType, InFlight
<1>4. /\ tx' \in [Sessions -> TxRow \cup {Idle}]
      /\ \A r \in Sessions : tx'[r] = IF r = s THEN Idle ELSE tx[r]
  BY <1>2, <1>3
<1>5. ASSUME NEW r \in InFlight'
      PROVE  r \in Sessions /\ r \in InFlight /\ tx'[r] = tx[r] /\ tx[r] \in TxRow /\ WriteSet(tx[r])
  <2>1. r \in Sessions /\ tx'[r] # Idle
    BY DEF InFlight
  <2>2. tx'[r] = tx[r] /\ r \in InFlight
    BY <1>4, <2>1 DEF InFlight
  <2> QED
    BY <1>3, <2>1, <2>2 DEF TxType
<1>6. TxType'
  <2>1. \A r \in InFlight' : tx'[r] \in TxRow /\ WriteSet(tx[r])'
    <3>1. TAKE r \in InFlight'
    <3>2. r \in Sessions /\ tx'[r] = tx[r] /\ tx'[r] # Idle
      BY <1>5 DEF InFlight
    <3> QED
      BY <1>1, <1>3, <3>2, OthersStay
  <2> QED
    BY <1>1, <1>4, <2>1 DEF TxType
<1> HIDE DEF c
<1>7. PendingWasSubmitted'
  <2> SUFFICES ASSUME NEW d \in Docs, approval'[d] = "PENDING"
               PROVE  row'[d] # "none" /\ HasHandler(DomainOf[d])
    BY DEF PendingWasSubmitted
  <2>1. CASE row'[d] = row[d] /\ approval'[d] = approval[d]
    BY <2>1 DEF TxInv, PendingWasSubmitted
  <2>2. CASE \E x \in c.docs : x[1] = d /\ row'[d] = x[2] /\ approval'[d] = x[3]
    <3>1. PICK x \in c.docs : x[1] = d /\ row'[d] = x[2] /\ approval'[d] = x[3]
      BY <2>2
    <3>2. x[2] \in {"live", "deleted"}
      BY <1>3 DEF TxRow
    <3> QED
      BY <1>3, <3>1, <3>2 DEF WriteSet
  <2> QED
    BY <1>1, <2>1, <2>2 DEF Flushed
<1>8. ApprovedReportHasProject'
  <2> SUFFICES ASSUME NEW d \in Docs, DomainOf[d] = "ORDER_REPORT", approval'[d] = "APPROVED"
               PROVE  d \in project'
    BY DEF ApprovedReportHasProject
  <2>1. CASE row'[d] = row[d] /\ approval'[d] = approval[d]
    BY <1>2, <2>1 DEF TxInv, ApprovedReportHasProject
  <2>2. CASE \E x \in c.docs : x[1] = d /\ row'[d] = x[2] /\ approval'[d] = x[3]
    BY <1>2, <1>3, <2>2 DEF WriteSet
  <2> QED
    BY <1>1, <2>1, <2>2 DEF Flushed
<1>9. ASSUME NEW d \in Docs, Waits(d)'
      PROVE  \E w \in LiveWorkflows(d)' : \A r \in InFlight' : Spares(tx[r], d, w)'
  <2>1. CASE (\A x \in c.docs : x[1] # d) /\ row'[d] = row[d] /\ approval'[d] = approval[d]
    <3>1. Waits(d)
      BY <1>9, <2>1 DEF Waits
    <3>2. PICK w \in LiveWorkflows(d) : \A r \in InFlight : Spares(tx[r], d, w)
      BY <3>1 DEF TxInv, PendingIsGuarded
    <3>3. w \in DOMAIN workflow /\ workflow[w].doc = d /\ workflow[w].status = "IN_PROGRESS"
      BY DEF LiveWorkflows
    <3>4. Spares(c, d, w)
      BY <1>2, <3>2 DEF InFlight, c
    <3>5. \A u \in c.updWorkflow : u[1] = w => u[2].status = "IN_PROGRESS" /\ u[2].doc = d
      <4>1. c.outcome \notin Finals
        BY <1>2 DEF Finals
      <4>2. \A u \in c.updWorkflow : u[1] = w => u[2].status = "IN_PROGRESS"
        BY <2>1, <3>4, <4>1 DEF Spares
      <4>3. \A u \in c.updWorkflow : u[1] = w => u[2].doc = d
        BY <1>3, <3>3 DEF WriteSet
      <4> QED
        BY <4>2, <4>3
    <3>6. w \in LiveWorkflows(d)'
      BY <1>1, <3>3, <3>5 DEF Flushed, LiveWorkflows
    <3>7. \A r \in InFlight' : Spares(tx[r], d, w)'
      BY <1>5, <3>2 DEF Spares
    <3> QED
      BY <3>6, <3>7
  <2>2. CASE \E x \in c.docs : x[1] = d /\ row'[d] = x[2] /\ approval'[d] = x[3]
    <3>1. c.doc = d /\ c.newWorkflow # << >>
      BY <1>3, <1>9, <2>2 DEF WriteSet, Waits
    <3>0. PICK w : w = Len(workflow) + 1
      OBVIOUS
    <3>2. 1 \in DOMAIN c.newWorkflow
      <4>1. c.newWorkflow \in Seq(WorkflowRow)
        BY <1>3 DEF TxRow
      <4> QED
        BY <3>1, <4>1
    <3>3. w \in DOMAIN workflow' /\ workflow'[w] = c.newWorkflow[1]
      BY <1>1, <3>0, <3>2 DEF Flushed
    <3>4. w \notin DOMAIN workflow
      BY <3>0 DEF TxInv, TxType, TypeInv, TypeOK
    <3>5. w \in LiveWorkflows(d)'
      BY <1>3, <3>1, <3>2, <3>3 DEF WriteSet, LiveWorkflows
    <3>6. \A r \in InFlight' : Spares(tx[r], d, w)'
      <4>1. TAKE r \in InFlight'
      <4>2. tx'[r] = tx[r] /\ WriteSet(tx[r])
        BY <1>5
      <4>3. \A u \in tx[r].updWorkflow : u[1] # w
        BY <3>4, <4>2 DEF WriteSet
      <4> QED
        BY <4>2, <4>3 DEF Spares
    <3> QED
      BY <3>5, <3>6
  <2> QED
    BY <1>1, <2>1, <2>2 DEF Flushed
<1> QED
  BY <1>6, <1>7, <1>8, <1>9 DEF TxInv, PendingIsGuarded

\* Creating a document, registering a project and editing a template leave every
\* transaction in flight as it was.
LEMMA ShortKeeps ==
    ASSUME TxInv, ShortRequest
    PROVE  TxInv'
<1>0. /\ tx' = tx /\ TypeInv /\ tx \in [Sessions -> TxRow \cup {Idle}] /\ TxType
      /\ template \in Seq(TemplateRow) /\ row \in [Docs -> {"none", "live", "deleted"}]
  BY DEF TxInv, TxType, TypeInv, TypeOK, ShortRequest
<1>1. [Next]_vars
  BY DEF ShortRequest, Next
<1>2. TypeInv'
  BY <1>0, <1>1, TypeStep
<1>3. /\ workflow' = workflow /\ line' = line /\ approval' = approval
      /\ project \subseteq project' /\ DOMAIN template' = DOMAIN template
      /\ \A d \in Docs :
           \/ row'[d] = row[d]
           \/ row[d] = "none" /\ row'[d] = "live"
  <2>1. CASE \E d \in Docs : Create(d) \/ RegisterProject(d)
    BY <1>0, <2>1 DEF Create, RegisterProject
  <2>2. CASE \E plan \in Plans, t \in DOMAIN template, active \in BOOLEAN :
               UpdateTemplate(t, active, plan)
    BY <1>0, <2>2 DEF UpdateTemplate
  <2> QED
    BY <2>1, <2>2 DEF ShortRequest
<1>4. Grows
  BY <1>3 DEF Grows
<1>5. TxType'
  <2>1. \A r \in InFlight' : tx'[r] \in TxRow /\ WriteSet(tx[r])'
    <3>1. TAKE r \in InFlight'
    <3>2. r \in Sessions /\ tx'[r] = tx[r] /\ tx'[r] # Idle
      BY <1>0 DEF InFlight
    <3> QED
      BY <1>0, <1>4, <3>2, OthersStay
  <2> QED
    BY <1>0, <1>2, <2>1 DEF TxType
<1>6. PendingWasSubmitted'
  BY <1>3 DEF TxInv, PendingWasSubmitted
<1>7. ApprovedReportHasProject'
  BY <1>3 DEF TxInv, ApprovedReportHasProject
<1>8. ASSUME NEW d \in Docs, Waits(d)'
      PROVE  \E w \in LiveWorkflows(d)' : \A r \in InFlight' : Spares(tx[r], d, w)'
  <2>1. Waits(d)
    BY <1>3, <1>8 DEF Waits, TxInv, PendingWasSubmitted
  <2>2. PICK w \in LiveWorkflows(d) : \A r \in InFlight : Spares(tx[r], d, w)
    BY <2>1 DEF TxInv, PendingIsGuarded
  <2>3. w \in LiveWorkflows(d)'
    BY <1>3, <2>2 DEF LiveWorkflows
  <2>4. \A r \in InFlight' : Spares(tx[r], d, w)'
    BY <1>0, <2>2 DEF InFlight, Spares
  <2> QED
    BY <2>3, <2>4
<1> QED
  BY <1>5, <1>6, <1>7, <1>8 DEF TxInv, PendingIsGuarded

-----------------------------------------------------------------------------
(* The theorems.                                                           *)

\* Before the first request nothing is in flight and nothing is PENDING.
LEMMA TxInitInv == TxInit => TxInv
<1> SUFFICES ASSUME TxInit PROVE TxInv
  OBVIOUS
<1>1. TypeInv
  BY InitType DEF TxInit
<1>2. tx = [s \in Sessions |-> Idle] /\ InFlight = {}
  BY DEF TxInit, InFlight
<1>3. TxType
  BY <1>1, <1>2 DEF TxType
<1>4. \A d \in Docs : approval[d] = "DRAFT"
  BY DEF TxInit, Init
<1> QED
  BY <1>3, <1>4 DEF TxInv, PendingWasSubmitted, ApprovedReportHasProject, PendingIsGuarded, Waits

\* Every step of every request keeps the invariant.
LEMMA TxStep == TxInv /\ [TxNext]_txVars => TxInv'
<1> SUFFICES ASSUME TxInv, [TxNext]_txVars PROVE TxInv'
  OBVIOUS
<1>1. ASSUME NEW s \in Sessions, NEW d \in Docs, NEW u \in Users, TxStart(s, d, u) PROVE TxInv'
  BY <1>1, StartKeeps DEF TxStart
<1>2. ASSUME NEW s \in Sessions, NEW d \in Docs, NEW u \in Users, TxSubmit(s, d, u) PROVE TxInv'
  <2>1. /\ HasHandler(DomainOf[d])
        /\ BeginStart(s, d, u, {<<d, "live", "PENDING">>})
    BY <1>2 DEF TxSubmit, DocWrite
  <2> QED
    BY <2>1, StartKeeps
<1>3. ASSUME NEW s \in Sessions, NEW d \in Docs, TxDelete(s, d) PROVE TxInv'
  BY <1>3, DeleteKeeps
<1>4. ASSUME NEW s \in Sessions, NEW w \in DOMAIN workflow, NEW u \in Users, NEW v \in Users,
             TxApprove(s, w, u, v)
      PROVE  TxInv'
  BY <1>4, ApproveKeeps
<1>5. ASSUME NEW s \in Sessions, NEW w \in DOMAIN workflow, NEW u \in Users, TxReject(s, w, u)
      PROVE  TxInv'
  BY <1>5, RejectKeeps
<1>6. ASSUME NEW s \in Sessions, NEW w \in DOMAIN workflow, TxCancel(s, w) PROVE TxInv'
  BY <1>6, CancelKeeps
<1>7. ASSUME NEW s \in Sessions, LoadDocument(s) PROVE TxInv'
  BY <1>7, LoadKeeps
<1>8. ASSUME NEW s \in Sessions, Rollback(s) PROVE TxInv'
  BY <1>8, RollbackKeeps
<1>9. ASSUME NEW s \in Sessions, Commit(s) PROVE TxInv'
  BY <1>9, CommitKeeps
<1>10. CASE ShortRequest
  BY <1>10, ShortKeeps
<1>11. CASE UNCHANGED txVars
  <2>1. UNCHANGED vars /\ tx' = tx
    BY <1>11 DEF txVars
  <2>2. TxType'
    BY <2>1 DEF TxInv, TxType, TypeInv, TypeOK, References, WriteSet, InFlight, vars
  <2>3. PendingIsGuarded'
    BY <2>1 DEF TxInv, PendingIsGuarded, Waits, LiveWorkflows, InFlight, Spares, vars
  <2>4. PendingWasSubmitted' /\ ApprovedReportHasProject'
    BY <2>1 DEF TxInv, PendingWasSubmitted, ApprovedReportHasProject, vars
  <2> QED
    BY <2>2, <2>3, <2>4 DEF TxInv
<1> QED
  BY <1>1, <1>2, <1>3, <1>4, <1>5, <1>6, <1>7, <1>8, <1>9, <1>10, <1>11 DEF TxNext

\* However many requests overlap, the rows keep their types and a transaction in
\* flight holds a write set for rows that exist.
THEOREM TxTypeCorrect == TxSpec => []TxTypeOK
<1>1. TxInv => TxTypeOK
  <2> SUFFICES ASSUME TxInv, NEW s \in InFlight
               PROVE  /\ tx[s].doc \in Docs
                      /\ \A u \in tx[s].updWorkflow : u[1] \in DOMAIN workflow /\ u[2] \in WorkflowRow
                      /\ \A u \in tx[s].updLine : u[1] \in DOMAIN line /\ u[2] \in LineRow
                      /\ tx[s].outcome \in ApprovalStatus \cup {"none"}
    BY DEF TxInv, TxType, TypeInv, TxTypeOK
  <2>1. tx[s] \in TxRow /\ WriteSet(tx[s])
    BY DEF TxInv, TxType
  <2>2. tx[s].doc \in Docs /\ tx[s].outcome \in ApprovalStatus \cup {"none"}
    BY <2>1 DEF TxRow, Finals, ApprovalStatus
  <2>3. /\ \A u \in tx[s].updWorkflow : u[2] \in WorkflowRow
        /\ \A u \in tx[s].updLine : u[2] \in LineRow
    BY <2>1 DEF TxRow
  <2> QED
    BY <2>1, <2>2, <2>3 DEF WriteSet
<1> QED
  BY TxInitInv, TxStep, <1>1, PTL DEF TxSpec

\* However many requests overlap, a live document that says PENDING has a workflow
\* in progress: an end without the document's status never gets past its handler.
THEOREM PendingStaysAlive == TxSpec => []PendingIsAlive
<1>1. TxInv => PendingIsAlive
  BY DEF TxInv, PendingIsGuarded, Waits, PendingIsAlive
<1> QED
  BY TxInitInv, TxStep, <1>1, PTL DEF TxSpec

\* However many requests overlap, an order report reads APPROVED only with its
\* project.
THEOREM ReportsHaveProjects == TxSpec => []ApprovedReportHasProject
<1>1. TxInv => ApprovedReportHasProject
  BY DEF TxInv
<1> QED
  BY TxInitInv, TxStep, <1>1, PTL DEF TxSpec

=============================================================================
