---------------------------- MODULE DeliveryPages ----------------------------
(***************************************************************************)
(* The pages that lead from a contract to its approval, invoice, project,  *)
(* maintenance and support, and what surrounds them: licences, alarms,     *)
(* chatbot and report. One of them is open and works on rows of its own;   *)
(* the pages share no state in the browser that the others read, so the    *)
(* others stay as they are. The promises of the single pages are gathered  *)
(* by what they promise.                                                   *)
(***************************************************************************)
EXTENDS OrderForm, ApprovalPanel, Alarms, Billing, SupportForm, MaintenanceForm, ProjectResult, ChatModal,
        ReportModal, LicenseForm

CONSTANT OpenParts \* the pages somebody opens

DeliveryParts ==
    {"order", "approval", "alarms", "billing", "support", "maintenance", "project", "chat", "report", "licence"}

ASSUME DeliveryAssumption == OpenParts \subseteq DeliveryParts

VARIABLE opened \* the page that is open

deliveryVars ==
    <<opened, orderVars, panelVars, alarmVars, billVars, supVars, mntVars, prjVars, chatVars, repVars,
      licVars>>

-----------------------------------------------------------------------------

AnyOf(set) == CHOOSE x \in set : TRUE

\* The rows of a page that is not open are some of those it may start with.
DeliveryInit ==
    /\ opened \in OpenParts
    /\ OrderInit
    /\ opened # "order" => orderForm.kind = "new" /\ orderForm.sheet.opp = 0 /\ orders = AnyOf(StoredOrders)
    /\ PanelInit
    /\ opened # "approval" => domain = AnyOf(Domains)
    /\ AlarmsInit
    /\ opened # "alarms" => account = AnyOf(Accounts)
    /\ BillingInit
    /\ opened # "billing" => other = AnyOf(OtherWorkflows) /\ billForm = FormFor(NoReport)
    /\ SupportInit /\ MaintenanceInit /\ ProjectInit /\ ChatInit /\ RepInit /\ LicInit

Works(p) ==
    /\ opened = p /\ opened' = opened
    /\ p # "order" => UNCHANGED orderVars
    /\ p # "approval" => UNCHANGED panelVars
    /\ p # "alarms" => UNCHANGED alarmVars
    /\ p # "billing" => UNCHANGED billVars
    /\ p # "support" => UNCHANGED supVars
    /\ p # "maintenance" => UNCHANGED mntVars
    /\ p # "project" => UNCHANGED prjVars
    /\ p # "chat" => UNCHANGED chatVars
    /\ p # "report" => UNCHANGED repVars
    /\ p # "licence" => UNCHANGED licVars

DeliveryNext ==
    \/ Works("order") /\ OrderNext
    \/ Works("approval") /\ PanelNext
    \/ Works("alarms") /\ AlarmsNext
    \/ Works("billing") /\ BillingNext
    \/ Works("support") /\ SupportNext
    \/ Works("maintenance") /\ MaintenanceNext
    \/ Works("project") /\ ProjectNext
    \/ Works("chat") /\ ChatNext
    \/ Works("report") /\ RepNext
    \/ Works("licence") /\ LicNext

DeliverySpec == DeliveryInit /\ [][DeliveryNext]_deliveryVars

-----------------------------------------------------------------------------
(* Properties.                                                             *)

\* What the pages and the server keep has its type.
DeliveryTypeOK ==
    /\ opened \in OpenParts
    /\ OrderTypeOK /\ PanelTypeOK /\ AlarmsTypeOK /\ BillingTypeOK /\ SupportTypeOK /\ MaintenanceTypeOK
    /\ ChatTypeOK

\* The invoice, the contract and the report a row names are files that still exist, and the index
\* keeps no file of a question that has been answered.
FilesStayWithTheirRows == InvoiceFileKept /\ ContractFileLives /\ ReportFileLives /\ FilesOutOfIndex

\* A page shows what was chosen in it last: contacts of the company, requests and opportunities of
\* the customer, the number of the module, the entry and the version of the row, and a total that
\* is the sum of its parts.
PageShowsItsChoice ==
    /\ ContactsOfCompany /\ RequestOfCustomer /\ DealOfLicCompany /\ NumberOfModule
    /\ EntryShown /\ VersionIsChosen /\ DetailAddsUp

\* What is offered to whoever is logged in is theirs: the decision to the current approver, the
\* invoice to its issuer, the copies of their alarms, an answer in the conversation asked in.
OfferedToTheirUser ==
    ApproverOffered /\ IssueOfferedToIssuer /\ CopiesAreOwn /\ ReadCopiesAreRead /\ AnswerInItsChat

\* A question is stored once, an opportunity has one report wherever the check ran, a button is
\* disabled as long as its request runs, options of one group are counted together, and licences
\* reported as requested are stored, all of them.
OnceAndWhole ==
    QuestionStoredOnce /\ OneReportWhenChecked /\ LoadingMeansRunning /\ GroupsWhole /\ RequestedAllStored

\* What the server stores is what the page showed when it was sent.
StoredAsOnPage == TotalAsShown /\ BilledAsShown /\ SupportOfNamed /\ ReportAsShown /\ PeopleAsShown

\* What was not touched is kept, and so is every former version: of orders, people, reports,
\* support entries and contracts; a dismissed alarm and a newer report do not give way.
FormerIsKept ==
    /\ UntouchedOrderKept /\ PeopleKept /\ NamesKept /\ PastKept /\ EveryVersionKept /\ ResultKept
    /\ DismissedStaysSo /\ NewerReportStays

\* A decision the page offers is accepted and decides the step it shows, an answer is taken by the
\* login that asked, and no step of a billing passes unrecorded.
DecidedAsOffered == OfferedIsAccepted /\ DecidesStepShown /\ LoadOfThisLogin /\ NothingTakenUnrecorded

=============================================================================
