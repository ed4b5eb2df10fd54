----------------------------- MODULE SalesPages -----------------------------
(***************************************************************************)
(* The forms that lead from a company to a bid, one of which is open. Each *)
(* works on rows of its own; the pages share no state in the browser that  *)
(* the others read, so the forms that are not open stay as they are.       *)
(* The promises of the single forms are gathered by what they promise.     *)
(***************************************************************************)
EXTENDS CompanyForm, OpportunityForm, QuoteSheet, ActivityForm, ProposalForm, BidForm, PrbForm, PrbResultForm, RfpSheet

CONSTANT OpenForms \* the forms somebody opens

SalesForms == {"company", "opportunity", "quotation", "activity", "proposal", "bid", "prb", "prbresult", "rfp"}

ASSUME SalesAssumption == OpenForms \subseteq SalesForms

VARIABLE open \* the form that is open

salesVars == <<open, companyVars, oppVars, quoteVars, activityVars, propVars, bidVars, prbVars, resVars, rfpVars>>

-----------------------------------------------------------------------------

AnyOf(set) == CHOOSE x \in set : TRUE

\* The rows of a form that is not open are some of those it may start with.
SalesInit ==
    /\ open \in OpenForms
    /\ CompanyInit
    /\ open # "company" =>
          /\ company[1].name = AnyOf(Names) /\ form.kind = AnyOf(Kinds)
          /\ [i \in DOMAIN manager |-> [email |-> manager[i].email, info |-> manager[i].info]] = AnyOf(StoredManagers)
    /\ OpportunityInit
    /\ open # "opportunity" => oppForm.kind = "new" /\ file = AnyOf(StoredFiles)
    /\ QuoteInit
    /\ open # "quotation" => price = AnyOf(Prices) /\ quote = << >>
    /\ ActivityInit
    /\ open # "activity" =>
          activity[1].deal = AnyOf(Deals) /\ activity[1].purpose = AnyOf(Purposes) /\ activity[1].asked = 0
    /\ ProposalInit
    /\ open # "proposal" => propForm.kind = "new" /\ proposal = AnyOf(StoredProposals)
    /\ BidInit
    /\ open # "bid" => bidForm.kind = "new" /\ bidForm.reason = NoFactors /\ bid = AnyOf(StoredResults)
    /\ PrbInit
    /\ open # "prb" => prbForm.kind = "new" /\ prbForm.opp = NoOpportunity
    /\ PrbResultInit
    /\ open # "prbresult" =>
          /\ resForm.kind = "new" /\ resForm.text = NoText
          /\ [server |-> report, browser |-> reportSeen] = AnyOf(FirstReports)
    /\ RfpInit

Works(f) ==
    /\ open = f /\ open' = open
    /\ f # "company" => UNCHANGED companyVars
    /\ f # "opportunity" => UNCHANGED oppVars
    /\ f # "quotation" => UNCHANGED quoteVars
    /\ f # "activity" => UNCHANGED activityVars
    /\ f # "proposal" => UNCHANGED propVars
    /\ f # "bid" => UNCHANGED bidVars
    /\ f # "prb" => UNCHANGED prbVars
    /\ f # "prbresult" => UNCHANGED resVars
    /\ f # "rfp" => UNCHANGED rfpVars

SalesNext ==
    \/ Works("company") /\ CompanyNext
    \/ Works("opportunity") /\ OpportunityNext
    \/ Works("quotation") /\ QuoteNext
    \/ Works("activity") /\ ActivityNext
    \/ Works("proposal") /\ ProposalNext
    \/ Works("bid") /\ BidNext
    \/ Works("prb") /\ PrbNext
    \/ Works("prbresult") /\ PrbResultNext
    \/ Works("rfp") /\ RfpNext

SalesSpec == SalesInit /\ [][SalesNext]_salesVars

-----------------------------------------------------------------------------
(* Properties.                                                             *)

\* What the forms and the server keep has its type.
SalesTypeOK ==
    /\ open \in OpenForms
    /\ CompanyTypeOK /\ OpportunityTypeOK /\ QuoteTypeOK /\ ActivityTypeOK
    /\ ProposalTypeOK /\ BidTypeOK /\ PrbTypeOK /\ PrbResultTypeOK

\* Whatever arrives late, a form shows what was chosen in it last: the fields of the request and of
\* the opportunity chosen, the opportunity of the customer chosen, proposals without a result,
\* the version picked and the summary of the file beside it; and what is read back are the prices
\* and products saved.
FormShowsWhatIs ==
    /\ LastChoiceShown /\ DealOfCustomer /\ FieldsOfDeal /\ OffersUnresulted /\ SummaryFollowsFile
    /\ PriceReadsBack /\ PrbShowsStored /\ ChosenVersionShown

\* A registration that failed half-way leaves nothing behind, no name is registered twice, and a
\* request is never linked to an activity that does not know it.
NoHalfRegistrations == NoRemains /\ FailedRegistrationGone /\ CustomerNameIsNew /\ RequestKeepsActivity

\* What a form was not used to change is still there after saving it: prices, modules, files,
\* requirements, the opportunity, people and texts of an activity; what is replaced is in the history,
\* and a list of reports takes typed text away only when none of them is approved.
UntouchedIsKept ==
    EditKeepsPrice /\ UntouchedModulesKept /\ EditKeepsFiles /\ UntouchedRowsKept /\ EditKeepsUntouched
    /\ ReplacedIsKept /\ TypedResultSurvives

\* What the server stores is what the form showed when it was sent.
StoredIsShown ==
    /\ FilesAsAttached /\ SentAsShown /\ TypedAnalysisStored /\ PrbStoredAsShown /\ OldVersionNotSent
    /\ RegisteredAsShown /\ ResultStoredAsShown

\* A form that says it has saved has saved everything, on the server and in the browser's copy.
SavedMeansSaved == RegisteredComplete /\ SavedMeansStored /\ SavedStaysCached

=============================================================================
