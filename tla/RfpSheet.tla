------------------------------ MODULE RfpSheet ------------------------------
(***************************************************************************)
(* The sheet of an RFP analysis (components/erp/rfp-analysis-sheet.tsx,     *)
(* lib/rfp-analysis-backend.ts) and the analyses the server keeps, one for  *)
(* each opportunity.                                                        *)
(*                                                                          *)
(* A new sheet lists the opportunities of the customer chosen and fills     *)
(* itself from the one chosen; a stored one is read once. The buttons stay  *)
(* enabled while a save is under way, and a finished save leads the browser *)
(* to the list whatever it shows by then.                                   *)
(*                                                                          *)
(* Left out: the analyst, the status (it is never sent), the copy in the    *)
(* browser's storage (readStoredRfpAnalyses drops every analysis without a  *)
(* request, and none has one), the values a chatbot suggests. The fields    *)
(* taken from an opportunity are told apart by the opportunity alone.       *)
(***************************************************************************)
EXTENDS Integers, Sequences

CONSTANTS
    RfpOwner,    \* RfpOwner[o]: the customer of opportunity o
    FirstRfps,   \* FirstRfps[o]: the analysis of o at first
    RfpTexts,    \* what is typed into a requirement
    MaxRows,     \* bound: requirements of a sheet
    MaxRfpRuns,  \* bound: calls made
    MaxRfpFaults \* bound: calls that fail or whose answer is lost

RfpDeals == DOMAIN RfpOwner
RfpCustomers == {RfpOwner[o] : o \in RfpDeals}
NoDeal == "none"
NoCustomer == "nobody"
BlankRow == ""

ASSUME RfpAssumption ==
    /\ NoDeal \notin RfpDeals /\ NoCustomer \notin RfpCustomers
    /\ FirstRfps \in [RfpDeals -> [state : {"none", "live"}, rows : Seq(RfpTexts), about : RfpDeals \union {NoDeal}]]

VARIABLES
    rfps,     \* rfps[o]: the row of opportunity o
    rfpSheet,    \* the page
    rfpCalls, \* calls under way
    rfpRuns, rfpFaults

rfpVars == <<rfps, rfpSheet, rfpCalls, rfpRuns, rfpFaults>>

\* list and read are the calls whose answers the page still takes, 0 if none.
ClosedSheet ==
    [mode |-> "closed", customer |-> NoCustomer, options |-> {}, list |-> 0, deal |-> NoDeal,
     filled |-> NoDeal, read |-> 0, rows |-> << >>, stored |-> << >>, touched |-> FALSE]

NextRfpCall == rfpRuns + 1
RfpAsks(call) == /\ rfpRuns < MaxRfpRuns /\ rfpRuns' = rfpRuns + 1
                 /\ rfpCalls' = rfpCalls \union {call}
                 /\ UNCHANGED rfpFaults
NoRfpCall == UNCHANGED <<rfpCalls, rfpRuns, rfpFaults>>
RfpEnds(call, ok) == /\ rfpCalls' = rfpCalls \ {call}
                     /\ IF ok THEN UNCHANGED rfpFaults
                        ELSE rfpFaults < MaxRfpFaults /\ rfpFaults' = rfpFaults + 1
                     /\ UNCHANGED rfpRuns

-----------------------------------------------------------------------------
(* Opening.                                                                *)

OpenNewRfp ==
    /\ rfpSheet.mode = "closed" /\ rfpSheet' = [ClosedSheet EXCEPT !.mode = "new", !.rows = <<BlankRow>>]
    /\ UNCHANGED rfps /\ NoRfpCall

OpenRfp(o) ==
    /\ rfpSheet.mode = "closed" /\ rfps[o].state = "live"
    /\ rfpSheet' = [ClosedSheet EXCEPT !.mode = "loading", !.deal = o, !.read = NextRfpCall]
    /\ RfpAsks([kind |-> "load", n |-> NextRfpCall, deal |-> o])
    /\ UNCHANGED rfps

\* buildDefaultRequirementRows: what an analysis without requirements is shown with.
DefaultRows == <<"monitoring", "collection", BlankRow>>

\* The effect of requestSyncSignature.
RowsFor(stored) == IF stored = << >> THEN DefaultRows ELSE stored

RfpArrives(call, ok) ==
    /\ call.kind = "load" /\ RfpEnds(call, ok)
    /\ rfpSheet' = IF rfpSheet.read # call.n THEN rfpSheet
                ELSE IF ok /\ rfps[call.deal].state = "live"
                     THEN LET stored == rfps[call.deal].rows IN
                          [rfpSheet EXCEPT !.mode = "stored", !.read = 0, !.filled = call.deal,
                                        !.rows = RowsFor(stored), !.stored = stored]
                ELSE [rfpSheet EXCEPT !.mode = "failed", !.read = 0]
    /\ UNCHANGED rfps

LeaveSheet == rfpSheet.mode # "closed" /\ rfpSheet' = ClosedSheet /\ UNCHANGED rfps /\ NoRfpCall

-----------------------------------------------------------------------------
(* Choosing and typing.                                                    *)

\* Mutant: choosing a customer leaves the opportunity chosen.
WithCustomer_KeepsDeal(c) == [rfpSheet EXCEPT !.customer = c]

\* No opportunity: the fields are emptied and the answer about the former one is not taken.
WithCustomer(c) == [rfpSheet EXCEPT !.customer = c, !.deal = NoDeal, !.filled = NoDeal, !.read = 0]

\* onSelect. Choosing the same customer again, which leaving the field does, lists nothing anew;
\* until the answer comes the former customer's opportunities stay, behind a disabled selection.
PickRfpCustomer(c) ==
    /\ rfpSheet.mode = "new"
    /\ IF c = rfpSheet.customer THEN rfpSheet' = WithCustomer(c) /\ NoRfpCall
       ELSE IF c = NoCustomer THEN rfpSheet' = [WithCustomer(c) EXCEPT !.options = {}, !.list = 0] /\ NoRfpCall
       ELSE /\ rfpSheet' = [WithCustomer(c) EXCEPT !.list = NextRfpCall]
            /\ RfpAsks([kind |-> "list", n |-> NextRfpCall, customer |-> c])
    /\ UNCHANGED rfps

\* Mutant: the list is taken whoever is the customer now.
ListTaken_Any(call) == rfpSheet.mode = "new"

\* The effect of the customer was not cleaned up since.
ListTaken(call) == rfpSheet.list = call.n

RfpDealsArrive(call, ok) ==
    /\ call.kind = "list" /\ RfpEnds(call, ok)
    /\ rfpSheet' = IF ~ListTaken(call) THEN rfpSheet
                ELSE [rfpSheet EXCEPT !.list = 0,
                        !.options = IF ok THEN {o \in RfpDeals : RfpOwner[o] = call.customer} ELSE {}]
    /\ UNCHANGED rfps

\* The fields still show the opportunity chosen before.
PickDeal(o) ==
    /\ rfpSheet.mode = "new" /\ rfpSheet.customer # NoCustomer /\ rfpSheet.list = 0
    /\ o \in rfpSheet.options \ {rfpSheet.deal}
    /\ rfpSheet' = [rfpSheet EXCEPT !.deal = o, !.read = NextRfpCall]
    /\ RfpAsks([kind |-> "deal", n |-> NextRfpCall, deal |-> o])
    /\ UNCHANGED rfps

\* Mutant: the answer is taken whatever is chosen now.
DealTaken_Any(call) == rfpSheet.mode = "new"

DealTaken(call) == rfpSheet.read = call.n

\* A failed answer fills from the list's row of the same opportunity.
DealArrives(call) ==
    /\ call.kind = "deal" /\ RfpEnds(call, TRUE)
    /\ rfpSheet' = IF DealTaken(call) THEN [rfpSheet EXCEPT !.filled = call.deal, !.read = 0] ELSE rfpSheet
    /\ UNCHANGED rfps

SheetShown == rfpSheet.mode \in {"new", "stored"}

TypeRow(i, text) ==
    /\ SheetShown /\ i \in DOMAIN rfpSheet.rows /\ rfpSheet.rows[i] # text
    /\ rfpSheet' = [rfpSheet EXCEPT !.rows[i] = text, !.touched = TRUE]
    /\ UNCHANGED rfps /\ NoRfpCall

AddRow ==
    /\ SheetShown /\ Len(rfpSheet.rows) < MaxRows
    /\ rfpSheet' = [rfpSheet EXCEPT !.rows = Append(@, BlankRow), !.touched = TRUE]
    /\ UNCHANGED rfps /\ NoRfpCall

-----------------------------------------------------------------------------
(* Saving and deleting.                                                    *)

\* persistAnalysis: nothing is sent without an opportunity, nothing is disabled afterwards. A draft
\* of a new sheet leaves the sheet new.
SaveSheet(done) ==
    /\ SheetShown /\ rfpSheet.deal # NoDeal
    /\ RfpAsks([kind |-> "save", n |-> NextRfpCall, deal |-> rfpSheet.deal, about |-> rfpSheet.filled, rows |-> rfpSheet.rows,
                 new |-> rfpSheet.mode = "new", done |-> done, stored |-> rfpSheet.stored, touched |-> rfpSheet.touched])
    /\ UNCHANGED <<rfps, rfpSheet>>

\* createRfpAnalyzeResult: an analysis of the opportunity, though deleted, refuses another one (the
\* check sees the live one, the unique column the deleted one); an update needs a live one.
SaveAccepted(call) == rfps[call.deal].state = IF call.new THEN "none" ELSE "live"

\* Mutant: the requirements that are not named are kept.
MergedRows_KeepsOld(old, sent) == old \o sent

\* updateRequirements: no row is sent with its id, so every former row goes and every row is added.
MergedRows(old, sent) == sent

SaveArrives(call, answered) ==
    /\ call.kind = "save" /\ RfpEnds(call, answered)
    /\ rfps' = IF ~SaveAccepted(call) THEN rfps
               ELSE [rfps EXCEPT ![call.deal] =
                       [state |-> "live", rows |-> MergedRows(@.rows, call.rows), about |-> call.about]]
    /\ rfpSheet' = IF SaveAccepted(call) /\ answered /\ call.done THEN ClosedSheet ELSE rfpSheet

SaveLost(call) == call.kind = "save" /\ RfpEnds(call, FALSE) /\ UNCHANGED <<rfps, rfpSheet>>

\* handleDelete. The server answers nothing, which parseApiResponse takes for a failure: the page
\* stays as it is.
DeleteSheet ==
    /\ rfpSheet.mode = "stored"
    /\ RfpAsks([kind |-> "delete", n |-> NextRfpCall, deal |-> rfpSheet.deal])
    /\ UNCHANGED <<rfps, rfpSheet>>

DeletionArrives(call) ==
    /\ call.kind = "delete" /\ RfpEnds(call, TRUE)
    /\ rfps' = [rfps EXCEPT ![call.deal].state = IF @ = "live" THEN "deleted" ELSE @]
    /\ UNCHANGED rfpSheet

-----------------------------------------------------------------------------

RfpInit == rfps = FirstRfps /\ rfpSheet = ClosedSheet /\ rfpCalls = {} /\ rfpRuns = 0 /\ rfpFaults = 0

RfpNext ==
    \/ OpenNewRfp \/ LeaveSheet \/ AddRow \/ DeleteSheet
    \/ \E o \in RfpDeals : OpenRfp(o) \/ PickDeal(o)
    \/ \E c \in RfpCustomers \union {NoCustomer} : PickRfpCustomer(c)
    \/ \E i \in 1..MaxRows, text \in RfpTexts : TypeRow(i, text)
    \/ \E done \in BOOLEAN : SaveSheet(done)
    \/ \E call \in rfpCalls :
          \/ DealArrives(call) \/ SaveLost(call) \/ DeletionArrives(call)
          \/ \E ok \in BOOLEAN : RfpArrives(call, ok) \/ RfpDealsArrive(call, ok) \/ SaveArrives(call, ok)

-----------------------------------------------------------------------------
(* Properties.                                                             *)

\* The opportunity a new sheet would be saved for is one of the customer shown beside it, however
\* the lists of the customers chosen before arrive.
DealOfCustomer == rfpSheet.mode = "new" /\ rfpSheet.deal # NoDeal => RfpOwner[rfpSheet.deal] = rfpSheet.customer

\* Once no answer is awaited the fields of a sheet are those of the opportunity it names, whatever
\* was chosen before and in whatever order the answers came.
FieldsOfDeal == SheetShown /\ rfpSheet.read = 0 => rfpSheet.filled = rfpSheet.deal

\* Saving a stored analysis that nobody touched leaves its requirements alone, unless it had none or
\* another save came between.
UntouchedRowsKept ==
    [][\A o \in RfpDeals :
         rfps[o].state = "live" /\ rfps'[o].rows # rfps[o].rows =>
            \E call \in rfpCalls \ rfpCalls' :
               call.kind = "save" /\ call.deal = o
               /\ (call.touched \/ call.stored = << >> \/ call.stored # rfps[o].rows)]_rfpVars

=============================================================================
