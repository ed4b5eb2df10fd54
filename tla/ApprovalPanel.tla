--------------------------- MODULE ApprovalPanel ---------------------------
(***************************************************************************)
(* Submitting and deciding a document from its page: the panel that most   *)
(* documents share (workflow-approval-panel.tsx) and the one of an order   *)
(* report (order-report-detail.tsx), with the pages that hold them.        *)
(*                                                                         *)
(* A page shows the document as it was when it was read. While it is being *)
(* approved the panel reads its workflow, and offers to decide to a user   *)
(* with the name of the approver of the step read. The service knows who   *)
(* the approver is by identity, and takes a decision for the step the      *)
(* workflow has reached when it comes.                                     *)
(***************************************************************************)
EXTENDS Integers, Sequences

CONSTANTS
    Staff,            \* users
    NameOf,           \* NameOf[u]: name of a user
    LevelOf,          \* LevelOf[u]: 1 team member, 2 team leader, 3 head of department
    UserOf,           \* UserOf[p]: who has page p open; one user may have several
    Domains,          \* kinds of documents looked at
    MaxPanelChoices,  \* bound: people chosen, comments typed and pages reloaded
    MaxPanelFaults    \* bound: calls that fail or whose answer is lost

Nobody == "nobody"
OpenPages == DOMAIN UserOf
Author == UserOf[1]

ASSUME PanelAssumption ==
    /\ Nobody \notin Staff /\ OpenPages = 1..Len(UserOf) /\ OpenPages # {}
    /\ \A p \in OpenPages : UserOf[p] \in Staff
    /\ \A u \in Staff : LevelOf[u] \in 1..3

VARIABLES
    domain,      \* kind of the document
    doc,         \* the document and its workflow, on the server
    page,        \* page[p]: the p-th open page
    panelChoices,
    panelFaults

panelVars == <<domain, doc, page, panelChoices, panelFaults>>

-----------------------------------------------------------------------------
(* The service.                                                            *)

\* The levels the steps of a workflow ask for.
StepLevels == IF domain \in {"LICENSE", "CUSTOMER_SUPPORT"} THEN <<1, 2, 3>> ELSE <<2, 3>>

LastStep == Len(StepLevels)
Current == Len(doc.lines)
CurrentApprover == IF doc.status = "PENDING" THEN doc.lines[Current] ELSE Nobody

\* There is a kind of alarm for a request of the domain; without it nothing is submitted.
HasAlarm == domain \notin {"PRB", "PRB_RESULT", "BID_RESULT"}

\* Mutant: who decides is not compared with the approver.
Accepted_Anyone(u, call) ==
    CASE call.op = "start" -> doc.live /\ doc.status = "DRAFT" /\ HasAlarm /\ LevelOf[call.to] >= StepLevels[1]
      [] call.op = "reject" -> doc.live /\ doc.status = "PENDING"
      [] call.op = "approve" ->
           /\ doc.live /\ doc.status = "PENDING"
           /\ Current < LastStep => call.to # Nobody /\ LevelOf[call.to] >= StepLevels[Current + 1]
      [] call.op = "delete" -> doc.live
      [] call.op = "revise" -> doc.live

\* Whether a call of u succeeds: only a draft is submitted, only its approver decides a
\* document, for the step it has reached, and a next approver has the level of the next step.
Accepted(u, call) ==
    CASE call.op = "start" -> doc.live /\ doc.status = "DRAFT" /\ HasAlarm /\ LevelOf[call.to] >= StepLevels[1]
      [] call.op = "reject" -> doc.live /\ CurrentApprover = u
      [] call.op = "approve" ->
           /\ doc.live /\ CurrentApprover = u
           /\ Current < LastStep => call.to # Nobody /\ LevelOf[call.to] >= StepLevels[Current + 1]
      [] call.op = "delete" -> doc.live
      [] call.op = "revise" -> doc.live

\* Mutant: the last step is followed by another.
After_Onwards(call) ==
    CASE call.op = "start" -> [doc EXCEPT !.status = "PENDING", !.lines = <<call.to>>]
      [] call.op = "reject" -> [doc EXCEPT !.status = "REJECTED"]
      [] call.op = "approve" ->
           IF Current <= LastStep /\ call.to # Nobody THEN [doc EXCEPT !.lines = Append(@, call.to)] ELSE [doc EXCEPT !.status = "APPROVED"]
      [] call.op = "delete" -> [doc EXCEPT !.live = FALSE]
      [] call.op = "revise" -> [doc EXCEPT !.revised = @ \/ doc.status = "REJECTED"]

\* The document after it. Correcting it leaves its status as it is.
After(call) ==
    CASE call.op = "start" -> [doc EXCEPT !.status = "PENDING", !.lines = <<call.to>>]
      [] call.op = "reject" -> [doc EXCEPT !.status = "REJECTED"]
      [] call.op = "approve" ->
           IF Current < LastStep THEN [doc EXCEPT !.lines = Append(@, call.to)] ELSE [doc EXCEPT !.status = "APPROVED"]
      [] call.op = "delete" -> [doc EXCEPT !.live = FALSE]
      [] call.op = "revise" -> [doc EXCEPT !.revised = @ \/ doc.status = "REJECTED"]

-----------------------------------------------------------------------------
(* Reading.                                                                *)

NoCall == [op |-> "none", to |-> Nobody]

\* The parts of the panel that a new reading of the workflow blanks.
Unread(pg) == [pg EXCEPT !.step = 0, !.need = "unknown", !.mine = "unknown"]

\* A page as it is mounted: fresh is kept for the properties, and holds while nobody has
\* changed the document since the page read it and its workflow.
Mounted ==
    [phase |-> "loading", status |-> "DRAFT", me |-> FALSE, reads |-> {}, overtaken |-> FALSE, step |-> 0,
     need |-> "unknown", mine |-> "unknown", first |-> Nobody, next |-> Nobody, comment |-> FALSE,
     call |-> NoCall, fresh |-> TRUE]

\* The panel of these reads the workflow before it knows who looks at it.
AnonymousRead == domain \in {"QUOTATION", "PRB", "PRB_RESULT", "BID_RESULT"}

PanelFault == panelFaults < MaxPanelFaults /\ panelFaults' = panelFaults + 1

\* fetchData: the document arrives; the panel is mounted anew under it.
DocArrives(p) ==
    /\ page[p].phase = "loading"
    /\ \/ /\ doc.live /\ UNCHANGED panelFaults
          /\ page' = [page EXCEPT ![p] = [Mounted EXCEPT !.phase = "shown", !.status = doc.status,
                        !.reads = IF doc.status = "PENDING" /\ AnonymousRead THEN {"anonymous"} ELSE {}]]
       \/ /\ ~doc.live /\ UNCHANGED panelFaults
          /\ page' = [page EXCEPT ![p].phase = "error"]
       \/ PanelFault /\ page' = [page EXCEPT ![p].phase = "error"]
    /\ UNCHANGED <<domain, doc, panelChoices>>

\* Mutant: the workflow is not read again once the user is known.
MeArrives_Known(p) ==
    /\ page[p].phase = "shown" /\ ~page[p].me
    /\ \/ /\ UNCHANGED panelFaults
          /\ page' = [page EXCEPT ![p] =
               IF page[p].status = "PENDING" /\ ~AnonymousRead
               THEN [Unread(page[p]) EXCEPT !.me = TRUE, !.reads = @ \cup {"known"}] ELSE [page[p] EXCEPT !.me = TRUE]]
       \/ PanelFault /\ UNCHANGED page
    /\ UNCHANGED <<domain, doc, panelChoices>>

\* The current user arrives, and the workflow of a document being approved is read, again.
\* The page of an order report asks for both in this order itself.
MeArrives(p) ==
    /\ page[p].phase = "shown" /\ ~page[p].me
    /\ \/ /\ UNCHANGED panelFaults
          /\ page' = [page EXCEPT ![p] =
               IF page[p].status = "PENDING"
               THEN [Unread(page[p]) EXCEPT !.me = TRUE, !.reads = @ \cup {"known"}] ELSE [page[p] EXCEPT !.me = TRUE]]
       \/ PanelFault /\ UNCHANGED page
    /\ UNCHANGED <<domain, doc, panelChoices>>

\* The workflows of the user, when it is looked up there, have this one only if the user
\* submitted it or is an approver of it.
InMine(u) == AnonymousRead \/ u = Author \/ \E l \in DOMAIN doc.lines : doc.lines[l] = u

YesNo(b) == IF b THEN "yes" ELSE "no"

\* applyWorkflowDetail, with the user known when the reading began. Nothing tells an answer
\* from that of an earlier reading.
InfoArrives(p, r) ==
    LET u == UserOf[p] IN
    /\ r \in page[p].reads
    /\ page' = [page EXCEPT ![p] =
         IF ~InMine(u) THEN [page[p] EXCEPT !.reads = @ \ {r}, !.need = "yes", !.mine = "no"]
         ELSE [page[p] EXCEPT !.reads = @ \ {r}, !.fresh = page[p].call = NoCall /\ doc.live /\ page[p].status = doc.status,
                 !.overtaken = r = "anonymous" /\ page[p].me,
                 !.step = Current, !.need = YesNo(doc.status = "PENDING" /\ Current < LastStep),
                 !.mine = YesNo(r = "known" /\ CurrentApprover # Nobody /\ NameOf[u] = NameOf[CurrentApprover])]]
    /\ UNCHANGED <<domain, doc, panelChoices, panelFaults>>

\* A reading that fails leaves a panel without buttons.
InfoFails(p, r) ==
    /\ r \in page[p].reads /\ PanelFault
    /\ page' = [page EXCEPT ![p].reads = @ \ {r}, ![p].need = "yes", ![p].mine = "no", ![p].fresh = FALSE]
    /\ UNCHANGED <<domain, doc, panelChoices>>

-----------------------------------------------------------------------------
(* The panel.                                                              *)

Idle(p) == page[p].phase = "shown" /\ page[p].call = NoCall

Chosen(p, next) ==
    /\ Idle(p) /\ panelChoices < MaxPanelChoices /\ panelChoices' = panelChoices + 1
    /\ page' = [page EXCEPT ![p] = next]
    /\ UNCHANGED <<domain, doc, panelFaults>>

\* Mutant: a team member may be the first approver of any document.
FirstLevel_Lower == 1

\* positionLevel of the first approver.
FirstLevel == IF domain \in {"LICENSE", "CUSTOMER_SUPPORT"} THEN 1 ELSE 2

\* getNextApproverFilter: written for the steps the templates are created with.
NextLevel(step) ==
    IF domain \in {"LICENSE", "CUSTOMER_SUPPORT"}
    THEN CASE step = 1 -> 2 [] step = 2 -> 3 [] OTHER -> 0
    ELSE IF step = 1 THEN 3 ELSE 0

Offered(p) == page[p].phase = "shown" /\ page[p].status = "PENDING" /\ page[p].mine = "yes"

ChooseFirst(p, u) ==
    /\ page[p].status = "DRAFT" /\ u # page[p].first
    /\ u # Nobody => LevelOf[u] >= FirstLevel
    /\ Chosen(p, [page[p] EXCEPT !.first = u])

\* Typing in the field takes the choice back.
ChooseNext(p, u) ==
    /\ Offered(p) /\ page[p].need = "yes" /\ page[p].step # 0 /\ u # page[p].next
    /\ u # Nobody => LevelOf[u] >= NextLevel(page[p].step)
    /\ Chosen(p, [page[p] EXCEPT !.next = u])

TypeComment(p) == Offered(p) /\ ~page[p].comment /\ Chosen(p, [page[p] EXCEPT !.comment = TRUE])

Calls(p, call) ==
    /\ Idle(p) /\ page' = [page EXCEPT ![p].call = call]
    /\ UNCHANGED <<domain, doc, panelChoices, panelFaults>>

\* handleStartWorkflow, handleSubmitReport.
StartWorkflow(p) ==
    /\ page[p].status = "DRAFT" /\ page[p].first # Nobody
    /\ Calls(p, [op |-> "start", to |-> page[p].first])

\* handleApprove: a next approver is asked for as the panel was told.
Approve(p) ==
    /\ Offered(p) /\ page[p].need # "unknown"
    /\ page[p].need = "yes" => page[p].next # Nobody /\ LevelOf[page[p].next] >= NextLevel(page[p].step)
    /\ Calls(p, [op |-> "approve", to |-> page[p].next])

\* handleReject: a comment is asked for.
Reject(p) ==
    /\ Offered(p) /\ page[p].need # "unknown" /\ page[p].comment
    /\ Calls(p, [op |-> "reject", to |-> Nobody])

\* Correcting and deleting are offered whatever the status is.
Revise(p) == p = 1 /\ domain = "ORDER_REPORT" /\ ~doc.revised /\ Calls(p, [op |-> "revise", to |-> Nobody])
DeleteReport(p) == p = 1 /\ domain = "ORDER_REPORT" /\ Calls(p, [op |-> "delete", to |-> Nobody])

\* What the other pages show is behind from now on.
Behind(p, next) ==
    [q \in OpenPages |-> IF q = p THEN next ELSE [page[q] EXCEPT !.fresh = page[q].phase # "shown"]]

\* onRefresh: a page reads its document again after a success, and leaves after deleting.
Refreshed(call) == IF call.op = "delete" THEN [Mounted EXCEPT !.phase = "left"] ELSE Mounted

\* The call is answered. An answer lost is told as a failure, and everything typed stays.
CallAnswered(p) ==
    LET call == page[p].call IN
    /\ call # NoCall
    /\ \/ /\ Accepted(UserOf[p], call) /\ UNCHANGED panelFaults
          /\ doc' = After(call) /\ page' = Behind(p, Refreshed(call))
       \/ /\ ~Accepted(UserOf[p], call) /\ UNCHANGED <<doc, panelFaults>>
          /\ page' = [page EXCEPT ![p].call = NoCall]
       \/ /\ PanelFault
          /\ \/ UNCHANGED doc /\ page' = [page EXCEPT ![p].call = NoCall]
             \/ /\ Accepted(UserOf[p], call) /\ doc' = After(call)
                /\ page' = Behind(p, [page[p] EXCEPT !.call = NoCall, !.fresh = FALSE])
    /\ UNCHANGED <<domain, panelChoices>>

\* The page is opened again.
Reload(p) ==
    /\ page[p].phase \in {"shown", "error"} /\ page[p].call = NoCall
    /\ panelChoices < MaxPanelChoices /\ panelChoices' = panelChoices + 1
    /\ page' = [page EXCEPT ![p] = Mounted]
    /\ UNCHANGED <<domain, doc, panelFaults>>

-----------------------------------------------------------------------------

PanelInit ==
    /\ domain \in Domains
    /\ doc = [status |-> "DRAFT", live |-> TRUE, lines |-> << >>, revised |-> FALSE]
    /\ page = [p \in OpenPages |-> Mounted]
    /\ panelChoices = 0 /\ panelFaults = 0

PanelNext ==
    \E p \in OpenPages :
      \/ DocArrives(p) \/ MeArrives(p)
      \/ \E r \in {"anonymous", "known"} : InfoArrives(p, r) \/ InfoFails(p, r)
      \/ \E u \in Staff \cup {Nobody} : ChooseFirst(p, u) \/ ChooseNext(p, u)
      \/ TypeComment(p) \/ StartWorkflow(p) \/ Approve(p) \/ Reject(p) \/ Revise(p) \/ DeleteReport(p)
      \/ CallAnswered(p) \/ Reload(p)

-----------------------------------------------------------------------------
(* Properties.                                                             *)

\* Every variable keeps its type: a document under approval has the approvers of its first
\* steps, each of the level of the step.
PanelTypeOK ==
    /\ doc.status \in {"DRAFT", "PENDING", "APPROVED", "REJECTED"}
    /\ doc.lines \in Seq(Staff) /\ Current \in 0..LastStep
    /\ \A l \in DOMAIN doc.lines : LevelOf[doc.lines[l]] >= StepLevels[l]
    /\ \A p \in OpenPages : page[p].step \in 0..LastStep /\ page[p].need \in {"unknown", "yes", "no"}
    /\ panelChoices \in 0..MaxPanelChoices

NoNamesake(u) == \A v \in Staff : NameOf[u] = NameOf[v] => u = v

\* What a page offers is accepted: a call sent and answered by a page that shows the
\* document as it is fails only for a domain without alarms or a namesake of the approver.
OfferedIsAccepted ==
    [][\A p \in OpenPages :
         LET call == page[p].call IN
         (/\ call # NoCall /\ page'[p].call = NoCall /\ panelFaults' = panelFaults
          /\ page[p].fresh /\ HasAlarm /\ NoNamesake(UserOf[p])) => Accepted(UserOf[p], call)]_panelVars

\* Nobody approves a step the page did not show, be it from a page left open or by sending
\* again what seemed to fail, unless they are the approver of two steps.
DecidesStepShown ==
    [][\A p \in OpenPages :
         (page[p].call.op \in {"approve", "reject"} /\ doc' # doc /\ page'[p].call = NoCall) =>
            \/ page[p].step = Current
            \/ \E l, m \in DOMAIN doc.lines : l # m /\ doc.lines[l] = UserOf[p] /\ doc.lines[m] = UserOf[p]]_panelVars

\* A page that shows the document as it is and waits for nothing offers the buttons to the
\* approver, unless the reading made without the user was answered last.
ApproverOffered ==
    \A p \in OpenPages :
        LET pg == page[p] IN
        (/\ pg.phase = "shown" /\ pg.me /\ pg.reads = {} /\ pg.fresh /\ ~pg.overtaken
         /\ pg.status = doc.status /\ CurrentApprover = UserOf[p]) => Offered(p)

=============================================================================
