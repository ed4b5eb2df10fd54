# A TLA+ model of Orbis

Orbis is an ERP for a software company: opportunities, quotations, proposals,
bids, order reports, contracts, licences, projects, billing, maintenance and support
(Spring Boot backend, PostgreSQL, Redis, MinIO; Next.js frontend) with an AI
service (FastAPI, pgvector) that indexes the backend's tables and answers
questions about them. The repository has next to no tests of the parts whose
difficulty lies in the order of events. This project models those parts: the
approval engine, the indexing pipeline, the signed-in browser, and the pages
through which a deal goes from a customer's name to its support.

| file | what it is |
|---|---|
| `Approval.tla` | abstract: what approval promises whoever looks at a document |
| `Workflow.tla` | approval engine, templates, documents: every method one step; implements `Approval` |
| `WorkflowTx.tla` | the same methods as overlapping database transactions; implements `Workflow` when one runs at a time |
| `WorkflowProofs.tla`, `PromiseProofs.tla` | theorems about `Workflow` and its refinement of `Approval`, checked by TLAPS |
| `TxProofs.tla`, `SerialProofs.tla` | theorems about overlapping transactions, and that one at a time is `Workflow` |
| `IndexPipeline.tla` | from a changed row to the search index of the AI service |
| `IndexProofs.tla` | theorems about it |
| `Session.tla` | tokens: tabs of a browser, renewal, logout, the backend's checks |
| `SessionProofs.tla` | the theorem about it |
| `CompanyForm`, `OpportunityForm`, `QuoteSheet`, `ActivityForm`, `ProposalForm`, `BidForm`, `PrbForm`, `PrbResultForm`, `RfpSheet` | one page of the sales side each, with the calls and handlers behind it |
| `SalesPages.tla` | their composition |
| `SalesProofs.tla` | theorems about all nine of them, in the composition |
| `OrderForm`, `ApprovalPanel`, `Alarms`, `LicenseForm`, `Billing`, `SupportForm`, `MaintenanceForm`, `ProjectResult`, `ChatModal`, `ReportModal` | one page (or part of every page) of the delivery side each |
| `DeliveryPages.tla` | their composition |
| `DeliveryProofs.tla` | theorems about nine of these pages, in the composition |
| `MC*.tla` | values for TLC |
| `*.cfg` | one per run |
| `PROJECT.json` | components, runs, seeded faults, source lines of every definition, hazards, findings, theorems |

`tlc -config workflow_order_report.cfg MCWorkflow` runs a model,
`tlapm WorkflowProofs.tla` checks proofs.

## 1. The system

Paths are below `src/`; `Orbis/` stands for
`backend/Orbis/src/main/java/com/nkia/Orbis/`.

| component | state | operations | what is hard, what makes it correct |
|---|---|---|---|
| Workflow engine, `Orbis/domain/admin/workflow` | `workflow`, `workflow_line` rows | start, approve, reject, cancel | rules that span four tables, no lock and no version column; one approver at a time, no step skipped, decisions final, the document's status is the outcome |
| Workflow templates, same package | `workflow_template`, `workflow_step` rows | create, update (replaces the steps), seeding at every start of the backend | edited while workflows use them |
| Approvable documents (quotation, order report, contract, purchase, license, maintenance, support, PRB, bid result, billing) | the row, `approvalStatus`, `deleted` | create, update, submit, soft delete; `on...` callbacks of the engine | deleted or changed while pending; callbacks must take the engine's writes back when they throw |
| Sessions, `frontend/lib/auth-session.ts`, `customAxios.ts`, `Orbis/domain/auth` | localStorage shared by tabs, module variables of each tab, refresh token in Redis | login, renewal by timer, load and 401, logout | renewals overtaking logouts and logins, waiting calls |
| Pages of the frontend | the form, what it has read, a cache in localStorage | read lists and details, choose, type, save in one or several calls | answers out of order, names turned back into numbers, half-done saves, two pages of one row |
| AI indexing, `ai/db/migrations/002*`, `ai/app/services/index_listener.py`, `indexing_service.py` | `ai_knowledge_sources`, chunks | trigger, listen, handle, index | no queue, concurrent tasks, stale reads, lost notifications; the index ends up equal to the row |
| Reindexing, `ai/scripts/reindex_orbis_data.py` | none | read all, post in batches | races the listener; is the only repair |
| Alarms, `Orbis/domain/alarm`, `frontend/hooks/use-alarms.ts` | alarm rows, copies in localStorage | event after commit, read, dismiss | copies of several accounts in one browser |
| Chatbot, report | conversations, index of attached files, tab store | ask, attach, store, reload | an answer minutes later, elsewhere |
| Answer graph, search, OCR, expiry scheduler, numbers, administration pages, deployment | - | - | not modelled, section 10 |

How they interact.  A page reads lists and details with calls whose answers come
in any order, and saves with one call or a chain of them.  A document's service
calls `WorkflowService.startWorkflow` in its own transaction; the engine calls
the domain's handler back in the transaction of `approve`, `reject` or `cancel`,
and the order report's handler calls `ProjectService`.  The engine publishes an
`AlarmEvent`, stored after the commit.  Every insert, update or delete of an
indexed table fires a trigger whose notification reaches the AI service at the
commit; the service then *reads the row again* and writes the index in the same
PostgreSQL instance.  An operator may run the reindexing script at any time.  All
calls of a page go through the session.  The pages share, in the browser, only
the session and caches nobody but their own page reads: `PROJECT.json` lists
every component with its status, and the hazards with the line where each bites.

## 2. Approval and Workflow

State and code: `template` (rows with the steps still active), `workflow` and
`line` are the tables of the same names in the order of their ids, `position`
is `User.position`, `row` tells whether a document's row is there, soft deleted
or not created yet, `approval` is its `approvalStatus`, `project` the order
reports some project refers to.

An action is a public service method, run as one transaction nothing overlaps.
Early returns do not occur in this code: a failed check throws and rolls
back, so the action is not enabled.  `Start` and `Submit` share `startWorkflow`;
`Approve` is `Forward` (the template still has the next step) or `Complete`
(it has none), and `Complete` makes the handler's write in the same step.
`Register` is `registerBilling`, which creates and submits; `Create`, `Delete`
and `RegisterProject` are the other writers of rows the engine reads;
`CreateTemplate`, `UpdateTemplate` and `Restart` (the initializer) write
templates; `UpdateUser` changes a position while a line is pending.

What the code does that a reader may not expect, and the model keeps:
`/start` neither reads nor writes the document, so a workflow can run for a
document that does not exist yet or was approved before; cancelling leaves the
line PENDING and is open to everybody; steps are looked up in the template as it
is *now*; `Optional` queries throw on two rows; alarm types are found by name and
PRB, PRB result, bid result and, for decisions, purchase contract have none, so
those calls always roll back.  `WorkflowTemplateService.update` sets the active
flag without looking for another active template of the domain, as `create` does:
that a domain has one active template does not hold, and submissions of a domain
with two throw, as does the next start of the backend.

Abstractions: titles, reasons, times, amounts and reads are left out; a document's
domain is constant (changing a maintenance contract's type while its workflow
runs is not modelled); of the billing status only what `deleteBilling`
asks is kept; requester and self-approval checks do not exist in the code.

`Approval` sees a document's status and whether it waits: one decision at a
time, asked for once, and the status is the decision that ended the wait.
`KeepsPromise` instantiates it with `status <- approval` and `waiting <-` the
documents with a workflow in progress; documents of a domain without handler are
not `Followed`: their status stays what it is.

| run | instance | shows |
|---|---|---|
| `workflow_order_report` | 1 order report, 2 users (positions vary), 2 workflows, 1 template edited between a one-step and a two-step plan; 185 000 states | all safety and action properties below |
| `workflow_two_documents` | a billing (three seeded steps) and a purchase contract (no handler), 1 user, 2 workflows, 3 templates; 525 000 states | registration, templates created, deactivated, duplicated, re-seeded; the refinement `KeepsPromise` |
| `workflow_ends` | 1 order report, plans of 1 and 3 steps, 1 workflow; 28 600 states | liveness |

Properties: `TypeOK`; `LiveIsNewest`; `OneCurrentLine` (what `getCurrentLine`
relies on: exactly one pending line, at the current step);
`ApprovalChain` (approved lines 1, 2, ... without a gap); `StatusIsLastOutcome`
and `PendingHasWorkflow` (document against engine); `ApprovedOnceWithProject`;
`NextApproverHint` (the answer that makes the approval panel ask for the next
approver agrees with what `approve` needs); `DecisionsAreFinal`; `NoStepSkipped`;
`EveryWorkflowEnds`.

Bounds.  Two workflows of one document are what re-submission, a second
approval and every rule about "the last" need; plans of one, two and three steps
make a running workflow lose, keep and gain steps; two users with three positions
make the next approver too low.  The plans number their steps 1, 2, ..., as the
administration pages do; `NextApproverHint` and `NoStepSkipped` depend on it (the
server does not validate the orders).  `MaxWorkflows` and `MaxTemplates` are the
only bounds of the state.  Deadlock is not checked: at the bounds nothing may be
left to do.

Fairness (`FairSpec`): weak fairness of the decision of each workflow by *some*
current approver, approve or reject.  It says that people do their work, nothing
about submissions, cancellations, deletions or edits.  `EveryWorkflowEnds` then
has one exception, a document that is not there: its handler throws, and
approve, reject and cancel all roll back for good.

## 3. WorkflowTx

PostgreSQL runs at READ COMMITTED, no entity has `@Version` or `@DynamicUpdate`:
a request reads and validates, and Hibernate writes all columns of the entities
it changed when it commits.  A request is a `Tx...` step that validates and
computes its write set, for final decisions a `LoadDocument` step (the handler's
`findById`), and `Commit`; `Rollback` is a handler that throws or the unique
`order_report_id` of a project.  Short requests that only create or edit stay
one step.  Billing is left out (its registration is not split).

| run | instance | shows |
|---|---|---|
| `tx_overlap` | 1 report, 1 user, 2 requests at a time, 2 workflows; 820 000 states | what survives: `TxTypeOK`, `PendingIsAlive` (a live document that says PENDING has a workflow somebody can act on), `ApprovedReportHasProject` |
| `tx_serial` | 1 request at a time | refinement: `TxSpec` implements `Workflow!Spec` (the variables have the same names, the mapping is the identity) |

So `Workflow` is the abstract specification of the transactions and `tx_serial`
shows exactly the condition under which the code keeps it: requests on one
document do not overlap.  `SerialIsAtomic` proves it for every size (section 9).  With two at a time `LiveIsNewest`, `OneCurrentLine` and
`DecisionsAreFinal` fail in the model (two starts that both pass
`validateDuplicateWorkflow`, two decisions of one line, a decision against a
cancellation); so does "a deleted report stays deleted", when the handler loaded
it before.

## 4. IndexPipeline

One entity.  `row` is its table row, `now` counts its changes and is the clock:
change k is stamped k by the trigger and handled by job k; job 0 is the script.
`job[k]` goes notified, fetched (`_fetch_row`, `_lookup_source_id`), writing
(after `SELECT ... FOR UPDATE` and the stale check) and idle.  `holds` is the row
lock, which exists only where the source row exists.  `source` is the
`ai_knowledge_sources` row with its chunks: state, text, time (`last_event_at`)
and whether its metadata carry the row's key (`dbPk`), without which a DELETE
cannot be matched.  `Commit` models transaction and trigger: several statements of
one transaction notify together, and only a connected listener gets
anything.  Faults: the connection is lost, the service crashes (tasks and
transactions vanish), a task fails (the exception is logged).

`HoursAhead`: the script sends `updated_at`, a `LocalDateTime` of a backend in
`Asia/Seoul`, without a zone; the stale check takes it for UTC, nine hours
later than it was.  Counted in changes it is set to as many as the run has;
0 is a deployment in UTC.

Abstractions: database and trigger clocks agree and order the changes of one row (the
row lock orders its statements); the text is one of two values; the
document is never empty (the title never is); an event id never repeats, because
notifications are not redelivered and the script's ids carry the time; a row
that was deleted is not written again (entities filter deleted rows; the race
of section 3 is left out here).

| run | instance | shows |
|---|---|---|
| `index_listener` | indexed entity, 4 changes, no faults, no script | `EventsInOrder`, `DeletedStaysOut`, `Converges` |
| `index_reindex` | new entity, 3 changes, up to 2 in a transaction, any one fault, the script; 147 000 states | `IndexTypeOK`, `ChunksFollowSource`, `NewestEventMeansCurrent`, `LivingConverges` |
| `index_reindex_revives` | 1 change and the script | finding, section 8 |

`NewestEventMeansCurrent` is the reason the design works without a queue: a
task reads the row after the change it was told of, so an index that claims the time of
the last change shows the row as it is.

What the two passing runs do not show because it fails: `EventsInOrder` needs a
source row to lock, so of the first two notifications of a new entity the older
may overwrite the newer; a deletion committed while the listener is disconnected
stays in the index however often the operator reindexes, since the script never
sends DELETE (`Converges`; hence `LivingConverges`, about rows that exist).

Fairness: tasks run and locks are released (an event loop and a database), the
listener reconnects after five seconds, and an operator who reindexes does so
again and again; nobody is forced to change a row.  Three or four changes are
enough for two tasks to overtake each other around a deletion.

## 5. Session

`auth-session.ts` and `customAxios.ts` keep a timer, a flag and a queue of
waiting calls in module variables: `tab[t]`.  `store` is the session in
localStorage, which all tabs share.  An access token is its number of issue, a
refresh token the number of the login it was given for; `redis[u]` is the one the
server accepts, `blacklisted` what logging out leaves there.  `flight` holds the
requests about the session, sent by the timer, by a page that is mounted, by the
login page or by a call that met a 401; `call[c]` is a call with the state of the
interceptor.  Answers are lost or errors (`MaxFaults`); tokens expire at any time.

| run | instance | shows |
|---|---|---|
| `session_tabs` | 2 tabs, 1 user, 2 logins, 3 tokens, 1 call; 1 570 000 states | `SessionSound` |
| `session_calls` | 1 tab, 2 calls, 1 fault; 47 600 states | `EveryCallSettles` |

`SessionSound` is `SessionTypeOK`, `SessionOfOneLogin` (user, access and refresh
token of the store belong to one login, and every renewal keeps to its login),
`FlagMeansRenewing` (`isRefreshing` is set exactly while a call renews) and
`WaitersAreServed`.  Two logins are enough for a renewal to be answered after the
next login; three tokens for a renewal to be overtaken by another; two calls for
one to wait for the other.

Fairness of `session_calls`: a tab told to reload does (`Reload`), a call is
answered (`Answered`), a renewal a call has sent is answered.  Nothing forces a
timer, a login or a logout.  `OutOfTokens` is the bound on tokens, at which the
server of the model cannot answer.

What does not hold, and is not claimed: a renewal answered after a logout stores
its tokens (`auth-session.ts:238`), which brings the session back in this browser
although the server has forgotten its refresh token.

## 6. SalesPages

One module per page, with the calls it makes and the handlers that answer them.
The pages share nothing in the browser but the session (section 5) and a cache
of their own each, so `SalesPages` opens one of nine (`open`) and lets it work;
the others stand still.  What the single modules promise is gathered in six
properties by what is promised; a conjunct is about one page.

All modules are built alike.  A record holds the form: its fields, what it has
read, the calls under way.  One action each opens it, chooses, types, receives
one of several answers (in any order, or a failure), sends, and leaves.  An
action that sends is the handler up to its first `await`; each later answer is an
action, so that choices and other answers come in between.  The
service's checks are the guards of the answer that succeeds.  Data is reduced to
what tells the cases apart: a text is one of two values, a file a number, a
price one of three.  The head of each module says what it leaves out.

| module | page | state |
|---|---|---|
| `CompanyForm` | a customer or partner with its managers, new and edited; a business card read meanwhile | companies, managers, form, chain of calls with its undoing |
| `OpportunityForm` | an opportunity with partners, modules, RFP files and their summaries | row, files, summaries in localStorage |
| `QuoteSheet` | a quotation and the price list an administrator changes | rows in the old and the new meaning, cache, sheet |
| `ActivityForm` | activities and the requests for them | rows, requests linked once, form, lists |
| `ProposalForm` | a proposal prefilled from a request, its files, completion, deletion | rows, files, form |
| `BidForm` | the result of a bid, whose proposal has to be guessed | form, lists, prefills |
| `PrbForm` | a PRB report, new, edited, copied; its versions | rows, versions, cache, form |
| `PrbResultForm` | the result of a PRB meeting, its search for approved reports, versions, attendees | rows, history, reports known, form |
| `RfpSheet` | the analysis of an RFP | analyses, sheet |

| property | conjuncts |
|---|---|
| `SalesTypeOK` | the type invariant of every module, with the foreign keys between its tables |
| `FormShowsWhatIs` | `LastChoiceShown`, `DealOfCustomer`, `FieldsOfDeal` (a late answer never fills the form over a later choice), `OffersUnresulted`, `SummaryFollowsFile`, `PriceReadsBack`, `PrbShowsStored`, `ChosenVersionShown` |
| `NoHalfRegistrations` | `NoRemains`, `FailedRegistrationGone`, `CustomerNameIsNew`, `RequestKeepsActivity` |
| `UntouchedIsKept` | `EditKeepsPrice`, `UntouchedModulesKept`, `EditKeepsFiles`, `UntouchedRowsKept`, `EditKeepsUntouched`, `ReplacedIsKept`, `TypedResultSurvives` |
| `StoredIsShown` | `FilesAsAttached`, `SentAsShown`, `TypedAnalysisStored`, `PrbStoredAsShown`, `OldVersionNotSent`, `RegisteredAsShown`, `ResultStoredAsShown` |
| `SavedMeansSaved` | `RegisteredComplete`, `SavedMeansStored`, `SavedStaysCached` |

The run `sales_pages` visits 933 000 states; the two names of companies are
interchangeable (symmetry).  Bounds: two of whatever can be confused (names,
e-mail addresses, opportunities of one name, requests, versions), one call that
fails or loses its answer, one or two submissions, and in each form as many
choices as it takes to choose, change one's mind and type (two to three).  Every
bound stops a page sooner or later, so deadlock is not checked.

A comment that says *unless* names a case in which the code does not do what a
reader would expect; these, and the conjuncts that could not be stated at all:

  - Opportunities of one name are not told apart where a list names them only
    by name (bid results, PRB reports).
  - Activities: the server answers a purpose by its description, which for three
    purposes differs from the option of the page; the purpose then reads as
    "other" and an untouched one is saved so.  An edit opened from a row of the
    list, before the activity itself is read, clears the attendees.
  - Quotations: a stored price that is not below the list price is taken for that
    of a whole line, as old rows hold it; a price of a unit then reads back
    divided when the list price has been lowered to it.
  - Proposals and RFP analyses: a deletion is reported as failed although it is
    done.
  - RFP analyses: saving between choosing another opportunity and the answer
    about it stores the requirements of the former one.
  - Bid results: factors typed while a stored result is edited are not sent.
  - PRB reports: services and products travel in one list, whose first five
    entries are shown as services while the server keeps four; the first product
    of a stored report is shown, and sent again, as a fifth service.  When a
    second version cannot be read the content of the first remains, with the buttons
    that save it.
  - PRB results: a new one is always refused (the page does not send the `prbId`
    `PrbResultCreateRequest` demands); attendees other than the user are dropped,
    because the dashes of their ids are removed before the ids are checked; a
    stored result is edited from an empty form, whose saving replaces it (the
    former one is in its history: `ReplacedIsKept`); a list of reports with none
    approved empties what was typed; returning to the current version keeps the
    content of the former one with the button that saves it; submitting is always
    refused, as no result has the status it asks for.

## 7. DeliveryPages

Built as section 6, with ten pages; `opened` is the one that works.

| module | page | state |
|---|---|---|
| `OrderForm` | an order report: companies, contacts, sheet, totals, detail | rows, form, answers about contacts |
| `ApprovalPanel` | submitting and deciding, two pages of one document and two users | document, workflow, template's steps, pages |
| `Alarms` | the bell of each tab, the tasks of the dashboard | alarms of the server, copies in the storage of all tabs |
| `LicenseForm` | the request of licences, one call for each row | licences, form, submissions under way |
| `Billing` | request, approval, issue, collection, edit | billing, files, workflow, looks at a page |
| `SupportForm` | requests and activities of support, their history | rows, history, form |
| `MaintenanceForm` | maintenance contracts, free and paid, their versions | contracts, versions, files, two pages |
| `ProjectResult` | the result report of a project, its file and people | projects, reports, files, two pages |
| `ChatModal` | the chatbot: conversations, files of a question, retried storing | conversations of two users, index, window |
| `ReportModal` | the management report and the store of the tab | conditions, requests, report, session storage |

| property | conjuncts |
|---|---|
| `DeliveryTypeOK` | the type invariants of the modules |
| `FilesStayWithTheirRows` | `InvoiceFileKept`, `ContractFileLives`, `ReportFileLives`, `FilesOutOfIndex` |
| `PageShowsItsChoice` | `ContactsOfCompany`, `RequestOfCustomer`, `DealOfLicCompany`, `NumberOfModule`, `EntryShown`, `VersionIsChosen`, `DetailAddsUp` |
| `OfferedToTheirUser` | `ApproverOffered`, `IssueOfferedToIssuer`, `CopiesAreOwn`, `ReadCopiesAreRead`, `AnswerInItsChat` |
| `OnceAndWhole` | `QuestionStoredOnce`, `OneReportWhenChecked`, `LoadingMeansRunning`, `GroupsWhole`, `RequestedAllStored` |
| `StoredAsOnPage` | `TotalAsShown`, `BilledAsShown`, `SupportOfNamed`, `ReportAsShown`, `PeopleAsShown` |
| `FormerIsKept` | `UntouchedOrderKept`, `PeopleKept`, `NamesKept`, `PastKept`, `EveryVersionKept`, `ResultKept`, `DismissedStaysSo`, `NewerReportStays` |
| `DecidedAsOffered` | `OfferedIsAccepted`, `DecidesStepShown`, `LoadOfThisLogin`, `NothingTakenUnrecorded` |

The run `delivery_pages` visits 916 000 states.  Bounds as in section 6; two users have one name wherever people are looked up by name, the
price list has a price of zero, one of the modules offered is unknown to the server.

What the code does that keeps a stronger property from holding:

  - Order reports: a quantity above 999 is sent as the digits before its comma;
    an opportunity's second report is prevented by the page alone, and not when
    its list of reports could not be read; a rejected report cannot be submitted
    again.
  - Approval: an approver is recognised by name, so two users of one name are
    both offered the decision (the service refuses the wrong one); an approval
    whose answer was lost, sent again, decides the next step if the user is its
    approver as well.
  - Alarms: an answer that arrives after the account has changed is stored under
    the new account; marking all as read includes alarms the tab has not seen.
  - Licences: two of the three types the page offers (`PERMANENT`,
    `SUBSCRIPTION`) are unknown to the server and always refused, the rows beside
    them are stored; a submission repeated after a failure stores those again; a
    row whose module was chosen before the products had been read, or has no
    type, is left out without a word; a submission that ends after its form was
    left closes the form opened since.
  - Billing: the edit page sends every field as it was read, so a page older than
    the issue takes the issue's data back (the file stays: `InvoiceFileKept`);
    the workflow that decides what is offered is found by the document's number
    among all domains.
  - Maintenance: whenever the session is renewed an edit page looks the people up
    again, over what was chosen since; the people of the project chosen before
    stay when the new one's are not found.
  - Project results: an answer that arrives after another project was chosen
    brings its file number, which the report of the other project then names.
  - Chatbot: attached files stay in the window and are sent again with the next
    question; after a change of account the window shows the former account's
    conversations until the new ones have been read.
  - Management report: it is printed under the conditions as they are then, not
    as they were when it was asked for.

## 8. Finding

| run | code | what the repository says |
|---|---|---|
| `index_reindex_revives` | a reindexing run that read a row before its deletion indexes it again afterwards, for good | `indexing_service.py:194`: a deletion is excluded from search |

The run checks one property, which TLC refutes with a run of the script that reads,
waits and posts; the time it posts, without a zone, is taken for nine hours later
than it was (section 4).

## 9. Proofs and seeded faults

The theorems hold for every value of the constants: all users, documents, tabs,
plans, changes and bounds.  Their assumptions are the types the modules declare
(`WorkflowAssumption`, `TxAssumption`, `IndexAssumption`, `SessionAssumption`,
`ReportAssumption`, `LicenseAssumption`, `PanelAssumption`, `MaintenanceAssumption`,
`ProjectResultAssumption` and those of the nine forms, which TLC evaluates on every run of their modules) and, where a row says so, a condition.

| module | theorem | property | condition |
|---|---|---|---|
| `WorkflowProofs` | `TypeCorrect` | `TypeOK` and the foreign keys `References` | |
| | `NewestWorkflow` | `LiveIsNewest` | |
| | `OneApproverAtATime` | `OneCurrentLine` | |
| | `PendingIsBacked` | `PendingHasWorkflow` | |
| | `DecisionsStand` | `DecisionsAreFinal` | |
| | `ChainWhole` | `ApprovalChain` | |
| | `HintIsRight` | `NextApproverHint` | `PlansNumbered` |
| | `NothingSkipped` | `NoStepSkipped` | `PlansNumbered` |
| `PromiseProofs` | `EngineKeepsPromise` | `KeepsPromise`: `Workflow` implements `Approval` | |
| | `LastOutcomeShown` | `StatusIsLastOutcome` | |
| | `ApprovedOnce` | `ApprovedOnceWithProject` | |
| `TxProofs` | `TxTypeCorrect` | `TxTypeOK` | |
| | `PendingStaysAlive` | `PendingIsAlive` | |
| | `ReportsHaveProjects` | `ApprovedReportHasProject` | |
| `SerialProofs` | `SerialIsAtomic` | `Spec`: `TxSpec` implements `Workflow` | `MaxInFlight = 1` |
| `IndexProofs` | `IndexTypeCorrect` | `IndexTypeOK` | |
| | `SearchFollowsSource` | `ChunksFollowSource` | |
| | `NewestIsCurrent` | `NewestEventMeansCurrent` | |
| | `OldEventsLose` | `EventsInOrder` | `LockedInTime` |
| | `DeletedIsGone` | `DeletedStaysOut` | `LockedInTime` |
| `SessionProofs` | `SessionIsSound` | `SessionSound` | |
| `DeliveryProofs` | `EachOnce` | `OnceAndWhole` | `OneEach` of the reports stored at first |
| | `OfferedRightly` | `OfferedToTheirUser` | |
| | `FilesStay` | `FilesStayWithTheirRows` | |
| `SalesProofs` | `NoHalves` | `NoHalfRegistrations` | |
| | `ShowsWhatIs` | `FormShowsWhatIs` | |
| | `SalesTypes` | `SalesTypeOK` | |

The conditions.  `PlansNumbered`: step lists are numbered 1, 2, ..., as the
administration pages number them; the server would take others, for which both
properties fail.  `LockedInTime`: the entity is in the index already (else there
is no row to lock) and no script takes local time for UTC; the finding shows
what happens otherwise.  `MaxInFlight = 1` is what the code
does not enforce: the theorem says what overlapping costs.  `OneEach`: the reports there
are before the page is opened are of different opportunities and not deleted;
no page can make up for two that are there already.

**Workflow.**  `TypeInv`, types with foreign keys, is inductive: without the
keys a line could belong to no workflow and `CurrentLines` would be meaningless.
`StepEffect` then reduces the thirteen actions to four effects on engine and
approval status: a workflow of a document begins (`Begins`), moves on
(`Advances`), ends (`Ends`), or nothing of that happens (`Rests`).  `BeginsRows`,
`AdvancesRows` and `EndsRows` say what the tables hold afterwards.  Every other
proof is by cases on these effects.  `LiveIsNewest` and `OneCurrentLine` are
inductive relative to `TypeInv`: `startWorkflow` demands that no workflow is in
progress, and `Forward` decides the old line in the step that inserts the new one.
`PendingHasWorkflow` is not: a document of a domain without handler must
never be PENDING, or cancelling would leave it so; `UnhandledNotPending` is the
strengthening.

For the refinement the invariant is `PromiseInv`: the types, `LiveIsNewest` and
`NewIsDraft`.  A workflow that begins is `Ask`, one that ends is `Decide`, all else a
stutter.  That the end of one is the end of the wait needs `LiveIsNewest`, since
a document waits as long as any workflow of it is in progress; `NewIsDraft` is
needed where registering a billing writes a status in the same step.
`StatusIsLastOutcome` and `ApprovedOnceWithProject` are then inductive, the
first because a submission finds a draft, which no finished workflow leaves
behind, and the second because `onApproved` refuses a report that has its
project, and every approved one has.

`ApprovalChain` counts lines.  `ChainInv` adds that no two lines of a workflow
share a step, so that the current line is the only one at the last step, and
inserting the next one makes the count one more.  With numbered plans a template
has a step n exactly if it has at least n of them: that makes the hint right, and a
chain 1..n without a step n+1 in the template covers the template.

**WorkflowTx.**  The rows a request read may be gone when it writes, so nothing
relates them.  `WriteSet` says what a request in flight carries: updates of existing
rows of one document, a new workflow wherever it leaves a live document
PENDING, a project wherever it leaves a report APPROVED.  Rows keep their
document and are never removed, so other commits leave a write set what it is.
`PendingIsGuarded` is the strengthening of `PendingIsAlive`: a document that waits
has a workflow that every request in flight `Spares`, because it either does
not end it, or still has to load the document (and will roll back or
write the outcome), or writes the outcome with it.

For the refinement, `OneValid` says that the write set of the one request in
flight is what an action of `Workflow` would write in the tables as they are
(`Starting`, `Forwarding`, `Deciding` before the handler has loaded the document,
`Decided` after, `Deleting`).  The flush is then that action, with its `Overwrite`
of single rows an EXCEPT, and every other step a stutter.

**IndexPipeline.**  `NewestEventMeansCurrent` follows from what a job may remember
(`JobInv`): under the time of the row's last change a job that has read the row
carries it as it is, however long it sleeps, and a job that handles a deletion
finds the row erased for good.  This is why the service may run its tasks in any order
and read rows after the notification.  `LockInv` adds, where there is a row to
lock, that a job that writes holds the lock alone and the entry it found is not newer.

**Session.**  `SessionSound` lacks three things: that a token an answer brings
belongs to the login whose session was captured when the renewal was sent
(`RenewedOfOneLogin`; without it `Saved` could mix two logins), that the call which
renews stays `leading` in its tab until the answer (`LeaderWaits`; without it the
answer could re-send a call that is long over), and the flag in a tab that is about to
reload (`OneRenewal`).  A call is no purpose of a flight (`CallAssumption`), or
`by` would not tell them apart.

**DeliveryPages.**  Every page has an inductive invariant of its own, and a step of
one page leaves the variables of the others alone (`OrderRests`, ..., `ProjectsRest`).
`DeliveryInv` takes the four pages together that do something once and as a whole,
`OfferInv` the four that offer something to a user, `FileInv` those whose rows name files.

  - `OrderInv`: while every list was read and no two sendings overlapped,
    one sending is under way at most, and what it sends is still without a
    report.  That nothing comes between reading the list and the answer is all
    that keeps reports apart: the server does not look.
  - `RepInv`: of the requests of the current load one runs at most, so the
    answer that enables the button is that of the last one.  Toggling keeps
    options whole since no two of them share a value (`ToggledWhole`).
  - `LicInv` counts: of each licence as many are stored as calls that asked for it
    were answered in submissions that have not failed (`HeldCalls`).  An answer
    adds one licence and one such call; a submission that fails takes its calls
    away and leaves its licences, so only "at least as many" is inductive.
    Submissions that are done have all their calls answered.
  - `ChatInv`: a question that is not stored yet is in no conversation, no two
    callers ask the same question, and a file in the index has a caller that will
    remove it, unless the upload's answer was lost or the removal has failed.  Storing adds question and answer at the
    end of one conversation, so they stay neighbours (`SaidWell`).
  - `SaysInv` adds where questions were asked: every message of a conversation,
    of an answer to a read under way and of the window is of a question asked
    there.  The window is the hard part: a list read earlier is merged with what was said meanwhile.
  - `PanelInv`: a page that shows the document as it is either still waits for the
    workflow's state, asked for with the user known, or knows that the user decides
    (`WillOffer`).  Only the first read, sent before the user is known, may miss.
  - `BillInv`: what a page knows of the issuer it learnt after the approval, when the
    list of approvers no longer grows (`IssuerGood`); and up to the first edit of an issued
    billing all pages have read the invoice it was issued with, or none (`FileGood`).
    This is why one stale edit cannot bring a deleted file back, and two can.
  - `AlarmInv`: the identifiers a fetch brings are alarms of the account it was asked for,
    and nothing stored for an account ever changes its addressee (`AlarmsGrow`).
  - `MntInv`: a file is of one contract or of one form that registers one, and
    forms that hold the same file edit the same contract (`FilesApart`).  The update
    deletes the file it replaces without looking who else names it; that nobody else can is
    this invariant, not a check of the server.  A registering form's file is there (`NewFilesLive`).
  - `PrjInv`: a file deleted while another project names it was in the past of both
    (`GivenTwice`), since a version keeps the file of the state before it.

**SalesPages.**  Every form has an inductive invariant of its own, and a step
of one form leaves the variables of the others alone (`FormsApart`); the theorems
put the nine together.  What each adds to the properties:

  - `CompanyInv`: a run that registers knows the company it has created and has
    only managers left to create; undoing deletes that company and nothing else.
    Without it a failed call could be undone on the row of another run.  The page's list of names
    holds the name of the company that was there, once it is loaded.
  - `PeopleInv`: managers belong to a company that exists and no two share an address (`TablesOK`,
    the unique column); a save carries only complete people, a registration never reads
    or restores and an edit never creates (`CallOf`), and a save that has no company yet creates
    one first (`SaveOK`).  What undoing an edit writes back are people that were stored, since
    a page saves nothing before it was filled (`Unfilled`).  `SalesTypeOK` needs all of it:
    without it a manager could be created for no company, or restored with a blank field.
  - `ProposalInv`: the row a registration has created exists and is deleted
    when the registration failed, unless deleting it failed as well (`NewSendInv`);
    an edit keeps the files the proposal had when it arrived (`EditSendInv`);
    the answer to the newest choice is awaited, or what it said is shown
    (`ChoiceInv`): an older answer is told apart by its number.
  - `ActivityInv`: every request a page refers to was registered, and an edit has
    an activity.  `RequestKeepsActivity` itself is inductive with that: the
    link is written where activity and request are both at hand.
  - `RfpInv`: a call whose number the page still waits for is about what the
    page shows (`RfpCallInv`).  The handlers compare numbers, not customers; this is
    why that suffices.
  - `BidInv`: stored results are of different opportunities and proposals.
    Then the proposals a new form offers are those without a result, except where
    a name is shared (`Unmistakable`), and reading the results tells which (`LinkedRight`).
  - `OppInv`: what the browser knows of a file (summary, attachment, the parts of a
    submission under way) is of a file that was uploaded; uploading only adds (`GrownStays`).
  - `QuoteInv`: each stored row reads back as it was shown (`ReadsBack`), which a sending
    guarantees because the page caps the price before it sends.
  - `PrbInv`: unless another answer overtook it, the content of the form is the content in
    force (`InForce`); versions looked at are versions of the report opened (`VersionsIn`).  At most two
    products are sent and three stored, no more than the form shows.
  - `ResInv`: a version that is still wanted is the one chosen (`ResReadsInv`).

The assumptions about stored rows are what the programs that wrote them
guarantee: managers have addresses of their own and a form has room for those of a company
(`MaxContacts` bounds the form of the model only); a completed proposal has files; a report has no more products than the
form shows, an opportunity no more files than it takes; results of
bids are of different opportunities (the page offers the others only); an old
quotation holds the price of a line of more than one piece, not below its list price, or
`quotation-sheet.tsx` could not tell it from a new one.

Proving `ProposalTypeOK` showed that its last part, a completed proposal has
files, was false: the edit page of an *unfinished* proposal may be sent twice, and the
second sending may keep nothing of what the first has uploaded.  TLC had missed it
because every stored proposal of the instance had a file.  The instance now has one
without, and the part excepts such edits (`Careless`).

The strengthenings (`TypeInv`, `ChainInv`, `TxInv`, `OneValid`, `IndexInv`,
`LockInv`, `SessionInv`, `MntInv`, `PrjInv`, `DeliveryInv` with its calls bounded to those there are) are ordinary state predicates: put in a cfg as INVARIANT,
with an MC module that extends the proof module, they hold on the instances of the runs.

Only model-checked: liveness (`EveryWorkflowEnds`, `Converges`, `LivingConverges`,
`EveryCallSettles`), out of reach of the prover like everything about ENABLED; and
of the pages the action properties, and `DeliveryTypeOK` and `PageShowsItsChoice`.  Four habits of the prover have
shaped definitions: `@` below an IF or a second EXCEPT is misread, so the old value is named; operators of the community modules that take operators
(`SelectSeq`, `SetToSortSeq`) are opaque to it, so `ById`, `Filled` and `Purchased` pick
the entry of each rank; strings are not known to be in `STRING`; and a record with an
unknown field set has no type, so records are given theirs by name.

Seeded faults: an operator `X_What`, under a comment that starts with *Mutant*, is
`X` as a plausible mistake would have it (a dropped check, a line left pending,
a missing lock, a list forgotten).  No specification uses one; `PROJECT.json` names,
for each property of a passing run, one that TLC refutes when it takes the place
of `X`.  The modules of sections 6 and 7 hold more of them than `PROJECT.json`
names: one for each promise the tables above list.

## 10. Not modelled

  - The answer graph, its tool loop, search, OCR and the text of reports: what is
    answered is chosen by a language model; `ChatModal` models what the window
    and the server do with an answer.
  - `MaintenanceExpiryScheduler` (calendar arithmetic of a daily job) and the
    numbers of projects and documents (strings of the database's order); both
    are hazards in `PROJECT.json`.
  - A crash between a commit and the second transaction that stores its alarm:
    nothing in the code notices it.
  - The administration pages (users, departments, products, permissions): rows
    edited one by one without rules of their own; what others depend on, a
    user's position and a price, changes in `Workflow` and `QuoteSheet`.
  - List pages of bids, activities, contracts and projects, dashboards,
    printing, layout: views of rows.  The contract form sends one call with what
    it shows; the page to edit a contract or a licence sends nothing.
  - The inquiry page (fixed sample rows) and code no page reaches
    (`quotation-workflow.ts`, the localStorage functions of `finding-data.ts`,
    `activity-request-workflow.ts`).
  - Build, deployment, monitoring; the time zone and the restart policy they set
    are assumptions of sections 2 and 4.
