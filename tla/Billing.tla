------------------------------ MODULE Billing ------------------------------
(***************************************************************************)
(* A billing from its request to the collection, as the project pages see  *)
(* it (billing-request-form.tsx, app/project, project-api.ts) over the     *)
(* billing service.                                                        *)
(*                                                                         *)
(* A request names who is to issue the tax invoice; they are also the      *)
(* first approver. The detail page shows the billing as it was when read   *)
(* and finds out from the user's workflows whether to offer to decide or   *)
(* to issue. The edit page is for the remarks alone, yet sends every field *)
(* as it was read, and the service takes the ones of the status the        *)
(* billing has by then.                                                    *)
(***************************************************************************)
EXTENDS Integers, Sequences

CONSTANTS
    Reports,        \* order reports
    Clerks,         \* users
    CalledClerk,    \* CalledClerk[u]: name of a user
    Requester,      \* who requests the billing
    StepClerks,     \* StepClerks[s]: users with the level of a step
    Lookers,        \* Lookers[p]: the user of the p-th open page
    OtherWorkflows, \* workflows of other documents with the number of the billing
    MaxInvoices,    \* bound: invoice files ever uploaded
    MaxRemarks,     \* bound: remarks ever saved
    MaxBillRuns     \* bound: pages opened, reports chosen, calls that fail

NoReport == "no report"
NoClerk == "no clerk"
BillPages == 1..Len(Lookers)
InvoiceFiles == 1..MaxInvoices

ASSUME BillingAssumption ==
    /\ NoReport \notin Reports /\ NoClerk \notin Clerks /\ Requester \in Clerks
    /\ Lookers \in Seq(Clerks) /\ StepClerks \in Seq(SUBSET Clerks)
    /\ \A w \in OtherWorkflows : w.first \in Clerks \union {NoClerk} /\ w.newer \in BOOLEAN
    /\ {MaxInvoices, MaxRemarks, MaxBillRuns} \subseteq Nat

VARIABLES
    bill,      \* the row of the billing, with the approvers of its workflow
    recorded,  \* its history: the states saved
    invoices,  \* the files that are not deleted
    other,     \* the other workflow with the number of the billing
    billForm,  \* the form of the request
    billPage,  \* billPage[p]: the p-th open page
    billRuns

billVars == <<bill, recorded, invoices, other, billForm, billPage, billRuns>>

BillRun == billRuns < MaxBillRuns /\ billRuns' = billRuns + 1

-----------------------------------------------------------------------------
(* The request.                                                            *)

\* The form, for the report another page hands over.
FormFor(given) ==
    [open |-> TRUE, given |-> given, report |-> NoReport, init |-> NoReport,
     loading |-> given # NoReport, amount |-> FALSE, failed |-> FALSE]

\* Whose customer and project the form shows.
BilledShown(form) == IF form.init # NoReport THEN form.init ELSE IF form.report # NoReport THEN form.report ELSE form.given

\* Mutant: the report handed over goes before the one chosen.
ReportBilled_Given(form) == IF form.given # NoReport THEN form.given ELSE form.report

\* currentOrderReportId.
ReportBilled(form) == IF form.report # NoReport THEN form.report ELSE form.given

\* A report is chosen: until its data are read the form is not shown.
ChooseReport(r) ==
    /\ billForm.open /\ ~billForm.loading /\ BillRun
    /\ billForm' = [billForm EXCEPT !.report = r, !.loading = TRUE]
    /\ UNCHANGED <<bill, recorded, invoices, other, billPage>>

\* The data: everything typed is blanked. When they cannot be read the fields are, but not
\* the data read before.
ReportDataArrive(ok) ==
    /\ billForm.open /\ billForm.loading
    /\ IF ok THEN /\ billForm' = [billForm EXCEPT !.loading = FALSE, !.init = IF billForm.report # NoReport THEN billForm.report ELSE billForm.given,
                                                  !.amount = FALSE, !.failed = FALSE]
                  /\ UNCHANGED billRuns
       ELSE BillRun /\ billForm' = [billForm EXCEPT !.loading = FALSE, !.failed = TRUE]
    /\ UNCHANGED <<bill, recorded, invoices, other, billPage>>

TypeAmount ==
    /\ billForm.open /\ ~billForm.loading /\ ~billForm.amount
    /\ billForm' = [billForm EXCEPT !.amount = TRUE]
    /\ UNCHANGED <<bill, recorded, invoices, other, billPage, billRuns>>

\* registerBilling: stored and submitted to the issuer in one transaction.
RequestBilling(issuer) ==
    /\ billForm.open /\ ~billForm.loading /\ billForm.amount /\ ReportBilled(billForm) # NoReport
    /\ issuer \in StepClerks[1]
    /\ bill' = [bill EXCEPT !.live = TRUE, !.report = ReportBilled(billForm), !.status = "REQUESTED",
                            !.approval = "PENDING", !.lines = <<issuer>>]
    /\ billForm' = [FormFor(NoReport) EXCEPT !.open = FALSE]
    /\ UNCHANGED <<recorded, invoices, other, billPage, billRuns>>

-----------------------------------------------------------------------------
(* What the service answers about a user's workflows: those the user       *)
(* decides or has requested, the newest first, and of a workflow requested *)
(* by another the user's own lines alone.                                  *)

Takes(u) == u = Requester \/ \E s \in 1..Len(bill.lines) : bill.lines[s] = u
SeenLines(u) == {s \in 1..Len(bill.lines) : u = Requester \/ bill.lines[s] = u}

\* The workflow found by the number of the billing: it may be of another document.
OthersFirst(u) == other.first = u /\ (other.newer \/ ~Takes(u))

\* Mutant: the approver of the step reached.
FirstApproverSeen_Current(u) ==
    IF OthersFirst(u) THEN other.first
    ELSE IF Len(bill.lines) \in SeenLines(u) THEN bill.lines[Len(bill.lines)] ELSE NoClerk

\* The approver of its first step, when it is among the lines seen.
FirstApproverSeen(u) ==
    IF OthersFirst(u) THEN other.first
    ELSE IF 1 \in SeenLines(u) THEN bill.lines[1] ELSE NoClerk

SameClerk(u, v) == v # NoClerk /\ CalledClerk[u] = CalledClerk[v]

StepReached == Len(bill.lines)
DecidesNow(u) == bill.live /\ bill.approval = "PENDING" /\ bill.lines[StepReached] = u

-----------------------------------------------------------------------------
(* The detail page.                                                        *)

NotRead == [status |-> "none", approval |-> "none", issued |-> 0, image |-> 0, collected |-> 0, remarks |-> 0]
Row == [status |-> bill.status, approval |-> bill.approval, issued |-> bill.issued, image |-> bill.image,
        collected |-> bill.collected, remarks |-> bill.remarks]
NoBillPage == [on |-> "closed", loading |-> FALSE, seen |-> NotRead, reads |-> {}, step |-> 0, need |-> FALSE,
               mine |-> "unknown", issuer |-> "unknown", busy |-> FALSE, file |-> 0, typed |-> FALSE]

Look(p, page) == billPage' = [billPage EXCEPT ![p] = page]
OnDetail(p) == billPage[p].on = "detail" /\ ~billPage[p].loading /\ ~billPage[p].busy
Gone(p) == Look(p, NoBillPage)

OpenDetail(p) ==
    /\ billPage[p].on = "closed" /\ bill.live /\ BillRun
    /\ Look(p, [NoBillPage EXCEPT !.on = "detail", !.loading = TRUE])
    /\ UNCHANGED <<bill, recorded, invoices, other, billForm>>

\* The billing arrives. The workflows are asked for anew when a status has changed; nothing
\* that was found out is blanked when a step of the approval has.
DetailOfBillArrives(p) ==
    LET page == billPage[p]
        changed == bill.status # page.seen.status \/ bill.approval # page.seen.approval
        asks == bill.approval = "PENDING" \/ bill.status = "APPROVED" IN
    /\ page.on = "detail" /\ page.loading /\ bill.live
    /\ Look(p, IF ~changed THEN [page EXCEPT !.loading = FALSE, !.seen = Row]
               ELSE [page EXCEPT !.loading = FALSE, !.seen = Row, !.step = 0, !.mine = "unknown",
                                 !.issuer = "unknown", !.reads = IF asks THEN @ \union {bill.status} ELSE @])
    /\ UNCHANGED <<bill, recorded, invoices, other, billForm, billRuns>>

\* The workflows arrive, for the status the page had when it asked for them.
WorkflowsArrive(p, asked) ==
    LET u == Lookers[p]  page == [billPage[p] EXCEPT !.reads = @ \ {asked}] IN
    /\ asked \in billPage[p].reads
    /\ Look(p, IF asked = "APPROVED"
               THEN [page EXCEPT !.issuer = IF SameClerk(u, FirstApproverSeen(u)) THEN "yes" ELSE "no"]
               ELSE IF ~Takes(u) THEN [page EXCEPT !.need = TRUE, !.mine = "no"]
               ELSE [page EXCEPT !.step = StepReached, !.need = bill.approval = "PENDING" /\ StepReached < Len(StepClerks),
                       !.mine = IF /\ bill.approval = "PENDING" /\ StepReached \in SeenLines(u)
                                   /\ SameClerk(u, bill.lines[StepReached]) THEN "yes" ELSE "no"])
    /\ UNCHANGED <<bill, recorded, invoices, other, billForm, billRuns>>

\* After a decision the page reads the billing again.
Rereads(p) == Look(p, [billPage[p] EXCEPT !.loading = TRUE, !.busy = FALSE, !.file = 0])

OffersDecision(p) ==
    OnDetail(p) /\ billPage[p].seen.approval = "PENDING" /\ billPage[p].mine = "yes"

\* Mutant: the status alone.
Approved_StatusOnly(row) == [row EXCEPT !.status = "APPROVED"]

\* BillingHandler.onApproved: approve and approveBilling.
Approved(row) == [row EXCEPT !.approval = "APPROVED", !.status = "APPROVED"]

\* Approved, with a next approver where the page asked for one. After the last step the
\* billing may be issued.
ApproveBilling(p, next) ==
    /\ OffersDecision(p) /\ DecidesNow(Lookers[p])
    /\ billPage[p].need \/ StepReached = Len(StepClerks)
    /\ IF StepReached < Len(StepClerks)
       THEN next \in StepClerks[StepReached + 1] /\ bill' = [bill EXCEPT !.lines = Append(@, next)]
       ELSE next = NoClerk /\ bill' = Approved(bill)
    /\ Rereads(p)
    /\ UNCHANGED <<recorded, invoices, other, billForm, billRuns>>

RejectBilling(p) ==
    /\ OffersDecision(p) /\ DecidesNow(Lookers[p])
    /\ bill' = [bill EXCEPT !.approval = "REJECTED"]
    /\ Rereads(p)
    /\ UNCHANGED <<recorded, invoices, other, billForm, billRuns>>

\* deleteBilling, for one that is not approved.
DeleteBilling(p) ==
    /\ OnDetail(p) /\ billPage[p].seen.status = "REQUESTED" /\ bill.live /\ bill.status = "REQUESTED" /\ BillRun
    /\ bill' = [bill EXCEPT !.live = FALSE]
    /\ Gone(p)
    /\ UNCHANGED <<recorded, invoices, other, billForm>>

\* The invoice is uploaded first; the page does nothing else meanwhile. The upload may fail.
UploadInvoice(p, withFile) ==
    /\ OnDetail(p) /\ billPage[p].seen.status = "APPROVED" /\ billPage[p].issuer = "yes"
    /\ IF withFile
       THEN \E f \in InvoiceFiles :
              /\ invoices \union {bill.image} \subseteq 0..(f - 1)
              /\ invoices' = invoices \union {f}
              /\ Look(p, [billPage[p] EXCEPT !.busy = TRUE, !.file = f])
       ELSE Look(p, [billPage[p] EXCEPT !.busy = TRUE]) /\ UNCHANGED invoices
    /\ UNCHANGED <<bill, recorded, other, billForm, billRuns>>

\* issueBilling; when it is refused, or lost, the page can be used again.
IssueBilling(p, ok) ==
    /\ billPage[p].on = "detail" /\ billPage[p].busy
    /\ IF ok /\ bill.live /\ bill.status = "APPROVED"
       THEN /\ bill' = [bill EXCEPT !.issued = 1, !.image = billPage[p].file, !.status = "ISSUED"]
            /\ Rereads(p) /\ UNCHANGED billRuns
       ELSE /\ (IF bill.live /\ bill.status = "APPROVED" THEN BillRun ELSE UNCHANGED billRuns)
            /\ Look(p, [billPage[p] EXCEPT !.busy = FALSE, !.file = 0])
            /\ UNCHANGED bill
    /\ UNCHANGED <<recorded, invoices, other, billForm>>

\* collectBilling; the state it leads to is recorded.
CollectBilling(p) ==
    /\ OnDetail(p) /\ billPage[p].seen.status = "ISSUED" /\ bill.live /\ bill.status = "ISSUED"
    /\ bill' = [bill EXCEPT !.collected = 1, !.status = "COLLECTED"]
    /\ recorded' = recorded \union {[Row EXCEPT !.collected = 1, !.status = "COLLECTED"]}
    /\ Rereads(p)
    /\ UNCHANGED <<invoices, other, billForm, billRuns>>

-----------------------------------------------------------------------------
(* The edit page.                                                          *)

OpenBillEdit(p) ==
    /\ billPage[p].on = "closed" /\ bill.live /\ BillRun
    /\ Look(p, [NoBillPage EXCEPT !.on = "edit", !.seen = Row])
    /\ UNCHANGED <<bill, recorded, invoices, other, billForm>>

TypeRemarks(p) ==
    /\ billPage[p].on = "edit" /\ ~billPage[p].typed /\ bill.remarks < MaxRemarks
    /\ Look(p, [billPage[p] EXCEPT !.typed = TRUE])
    /\ UNCHANGED <<bill, recorded, invoices, other, billForm, billRuns>>

\* updateByStatus: which of the fields sent are taken.
UpdatedByStatus(row, sent) ==
    CASE row.status = "ISSUED" -> [row EXCEPT !.remarks = @ + 1, !.issued = sent.issued, !.image = sent.image]
      [] row.status = "COLLECTED" -> [row EXCEPT !.remarks = @ + 1, !.collected = sent.collected]
      [] OTHER -> [row EXCEPT !.remarks = @ + 1]

\* Mutant: whatever the status.
ImageReplaced_AnyStatus(row, sent) == IF row.image # sent.image THEN {row.image} ELSE {}

\* The invoice replaced, whose file is deleted.
ImageReplaced(row, sent) == IF row.status = "ISSUED" /\ row.image # sent.image THEN {row.image} ELSE {}

\* Mutant: the state it leads to is.
Recorded_After(row, sent) == UpdatedByStatus(row, sent)

\* The state before an update is recorded.
Recorded(row, sent) == row

SaveBilling(p) ==
    LET sent == billPage[p].seen IN
    /\ billPage[p].on = "edit" /\ billPage[p].typed /\ bill.live /\ bill.remarks < MaxRemarks
    /\ recorded' = recorded \union {Recorded(Row, sent)}
    /\ invoices' = invoices \ ImageReplaced(Row, sent)
    /\ bill' = LET row == UpdatedByStatus(Row, sent) IN
               [bill EXCEPT !.remarks = row.remarks, !.issued = row.issued, !.image = row.image,
                            !.collected = row.collected]
    /\ Gone(p)
    /\ UNCHANGED <<other, billForm, billRuns>>

CloseBillPage(p) ==
    /\ billPage[p].on # "closed" /\ ~billPage[p].busy
    /\ Gone(p)
    /\ UNCHANGED <<bill, recorded, invoices, other, billForm, billRuns>>

-----------------------------------------------------------------------------

BillingInit ==
    /\ bill = [live |-> FALSE, report |-> NoReport, status |-> "none", approval |-> "none", lines |-> << >>,
               issued |-> 0, image |-> 0, collected |-> 0, remarks |-> 0]
    /\ recorded = {} /\ invoices = {}
    /\ other \in OtherWorkflows
    /\ \E given \in Reports \union {NoReport} : billForm = FormFor(given)
    /\ billPage = [p \in BillPages |-> NoBillPage]
    /\ billRuns = 0

BillingNext ==
    \/ TypeAmount
    \/ \E r \in Reports : ChooseReport(r)
    \/ \E ok \in BOOLEAN : ReportDataArrive(ok)
    \/ \E u \in Clerks : RequestBilling(u)
    \/ \E p \in BillPages :
         \/ OpenDetail(p) \/ DetailOfBillArrives(p) \/ RejectBilling(p) \/ DeleteBilling(p)
         \/ CollectBilling(p) \/ OpenBillEdit(p) \/ TypeRemarks(p) \/ SaveBilling(p) \/ CloseBillPage(p)
         \/ \E asked \in {"REQUESTED", "APPROVED"} : WorkflowsArrive(p, asked)
         \/ \E next \in Clerks \union {NoClerk} : ApproveBilling(p, next)
         \/ \E yes \in BOOLEAN : UploadInvoice(p, yes) \/ IssueBilling(p, yes)

-----------------------------------------------------------------------------
(* Properties.                                                             *)

\* The status never runs ahead of the approval, and every variable keeps its type.
BillingTypeOK ==
    /\ bill.status \in {"none", "REQUESTED", "APPROVED", "ISSUED", "COLLECTED"}
    /\ bill.status \in {"APPROVED", "ISSUED", "COLLECTED"} <=> bill.approval = "APPROVED"
    /\ Len(bill.lines) <= Len(StepClerks) /\ \A s \in 1..Len(bill.lines) : bill.lines[s] \in StepClerks[s]
    /\ invoices \subseteq InvoiceFiles /\ \A row \in recorded : row.status # "none"

\* The file of the invoice a billing leads to is not deleted by an edit, however old the page
\* is it was saved from. (A second edit, older than the first, can bring the number of the
\* deleted file back.)
InvoiceFileKept == (bill.image # 0 /\ bill.remarks <= 1) => bill.image \in invoices

\* A date or an invoice that a later save takes away can still be found in the history.
NothingTakenUnrecorded ==
    [][\A field \in {"issued", "image", "collected"} :
         (bill[field] # 0 /\ bill'[field] # bill[field]) =>
           \E row \in recorded' : row[field] = bill[field] /\ row.remarks = bill.remarks]_billVars

\* A billing is requested for the order report the form shows, unless its data could not be
\* read.
BilledAsShown ==
    [][bill.status = "none" /\ bill'.status # "none" /\ ~billForm.failed =>
         bill'.report = BilledShown(billForm)]_billVars

\* As long as no other document of theirs has the number of the billing, the page offers the
\* issue to those called as its first approver is and tells nobody else so.
IssueOfferedToIssuer ==
    \A p \in BillPages :
      (billPage[p].issuer # "unknown" /\ other.first # Lookers[p]) =>
        LET u == Lookers[p] IN
        billPage[p].issuer = (IF Takes(u) /\ SameClerk(u, bill.lines[1]) /\ 1 \in SeenLines(u) THEN "yes" ELSE "no")

\* BillingIssueRequest: the date of the invoice is required. An issued billing has one.
IssuedHasDate == bill.status = "ISSUED" => bill.issued # 0

\* app/project/[category]/[id]/page.tsx: the issue is shown to the issuer alone.
IssueShownToIssuerAlone ==
    \A p \in BillPages : billPage[p].issuer = "yes" => SameClerk(Lookers[p], bill.lines[1])

=============================================================================
