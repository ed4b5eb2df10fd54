--------------------------- MODULE PrbResultForm ---------------------------
(***************************************************************************)
(* Writing the result of a PRB meeting: prb-result-registration-form.tsx   *)
(* and prb-result-backend.ts.                                              *)
(*                                                                         *)
(* The page starts from an empty form, for a stored result too, and looks  *)
(* for the approved PRB reports of the user. Each time the list of reports *)
(* has been loaded, by whatever part of the page, it looks again: one      *)
(* report is taken, several are offered, none empties the form. Former     *)
(* versions are read into the same form.                                   *)
(*                                                                         *)
(* Date, place, risks and the overall opinion are one text here.           *)
(***************************************************************************)
EXTENDS Naturals, Sequences, FiniteSets

CONSTANTS
    Me,                \* the user
    Attenders,         \* users that may attend a meeting
    RepresentedBy,     \* RepresentedBy[r]: sales representative of the r-th report
    FirstReports,      \* what the server and the browser may know of the reports at first
    ResultTexts,       \* texts of a result
    FirstResults,      \* the result stored at first
    MaxResultSteps,    \* bound: changes in the form, changes of the reports, and loads of
                       \*   the reports by other parts of the page
    MaxResultSends,    \* bound: times it is sent
    MaxResultFaults    \* bound: calls that fail or whose answer is lost

NoReport == 0
NoText == "none"
NoBody == "nobody"

Reports == DOMAIN RepresentedBy

\* Two of the seven rows of attendees.
AttendeeRows == 1..2

\* What a result, and each of its former versions, holds.
ResultContents ==
    [about : Reports, text : ResultTexts \cup {NoText},
     said : Seq([who : Attenders, text : ResultTexts \cup {NoText}])]
ReportStatus == {"draft", "approved", "gone"}

ASSUME PrbResultAssumption ==
    /\ Me \in Attenders /\ NoBody \notin Attenders
    /\ NoText \notin ResultTexts
    /\ RepresentedBy \in Seq(Attenders)
    /\ \A known \in FirstReports :
         known.server \in [Reports -> ReportStatus] /\ known.browser \in [Reports -> ReportStatus]
    /\ \A rows \in FirstResults :
         /\ Len(rows) <= 1
         /\ rows \in Seq([live : BOOLEAN, now : ResultContents, past : Seq(ResultContents)])
    /\ MaxResultSteps \in Nat /\ MaxResultSends \in Nat /\ MaxResultFaults \in Nat

VARIABLES
    report,     \* report[r]: status of report r on the server
    reportSeen, \* the same in the browser's copy
    result,     \* result[q]: row q of the table, with its former versions
    resForm,    \* the open form
    resReads,   \* requests for a version under way
    resSend,    \* resSend[s]: the s-th time the form was sent
    resFaults   \* calls failed or unanswered so far

resVars == <<report, reportSeen, result, resForm, resReads, resSend, resFaults>>

ResultSends == 1..MaxResultSends

StepsLeft == resForm.changes + resForm.elsewhere < MaxResultSteps

-----------------------------------------------------------------------------
(* The report the result is about.                                         *)

NoRows == [i \in AttendeeRows |-> [who |-> NoBody, named |-> FALSE, text |-> NoText]]

\* The approved reports of the user. Results already registered are never known here,
\* because nothing fills the browser's copy of the results.
Candidates(seen) == {r \in Reports : seen[r] = "approved" /\ RepresentedBy[r] = Me}

\* Mutant: what was typed goes whenever the user has to choose.
LookedAgain_Emptied(form, seen) ==
    LET own == Candidates(seen) IN
    CASE Cardinality(own) = 1 -> [form EXCEPT !.chosen = CHOOSE r \in own : TRUE, !.about = CHOOSE r \in own : TRUE, !.asked = FALSE]
      [] Cardinality(own) > 1 -> [form EXCEPT !.chosen = NoReport, !.asked = TRUE, !.text = NoText]
      [] own = {} -> [form EXCEPT !.chosen = NoReport, !.about = NoReport, !.text = NoText, !.rows = NoRows]

\* sync.
LookedAgain(form, seen) ==
    LET own == Candidates(seen) IN
    CASE Cardinality(own) = 1 -> [form EXCEPT !.chosen = CHOOSE r \in own : TRUE, !.about = CHOOSE r \in own : TRUE, !.asked = FALSE]
      [] Cardinality(own) > 1 -> [form EXCEPT !.chosen = NoReport, !.asked = TRUE]
      [] own = {} -> [form EXCEPT !.chosen = NoReport, !.about = NoReport, !.text = NoText, !.rows = NoRows]

\* appliedPrb.
AppliedReport(form) ==
    IF form.chosen # NoReport THEN form.chosen
    ELSE IF form.about # NoReport /\ reportSeen[form.about] # "gone" THEN form.about ELSE NoReport

\* replacePrbs: the browser's copy becomes what the server has, and the page looks again.
\* The page does so for the results at first, and the report it shows for itself.
RefreshReports ==
    /\ resForm.phase = "open" /\ StepsLeft
    /\ reportSeen' = report
    /\ resForm' = [LookedAgain(resForm, report) EXCEPT !.elsewhere = @ + 1]
    /\ UNCHANGED <<report, result, resReads, resSend, resFaults>>

\* In another session a report is approved, or deleted.
ReportChanges(r) ==
    /\ resForm.phase = "open" /\ StepsLeft
    /\ resForm' = [resForm EXCEPT !.elsewhere = @ + 1]
    /\ \/ report[r] = "draft" /\ report' = [report EXCEPT ![r] = "approved"]
       \/ report[r] = "approved" /\ report' = [report EXCEPT ![r] = "gone"]
    /\ UNCHANGED <<reportSeen, result, resReads, resSend, resFaults>>

-----------------------------------------------------------------------------
(* Changes.                                                                *)

ChangeResult(next) ==
    /\ resForm.phase = "open" /\ StepsLeft
    /\ resForm' = [next EXCEPT !.changes = @ + 1]
    /\ UNCHANGED <<report, reportSeen, result, resReads, resSend, resFaults>>

\* applyPrb: one of the reports offered; the page of a new result offers them on demand.
ChooseReport(r) ==
    /\ r \in Candidates(reportSeen) /\ r # resForm.chosen
    /\ resForm.asked \/ (resForm.kind = "new" /\ Cardinality(Candidates(reportSeen)) > 1)
    /\ ChangeResult([resForm EXCEPT !.chosen = r, !.about = r, !.asked = FALSE])

TypeResult(text) == text # resForm.text /\ ChangeResult([resForm EXCEPT !.text = text])

\* updateAttendee: the picker gives the id of a user; an opinion is typed beside it.
PickAttendee(i, u) ==
    /\ u # resForm.rows[i].who
    /\ ChangeResult([resForm EXCEPT !.rows[i].who = u, !.rows[i].named = FALSE])
TypeAttendeeOpinion(i, text) ==
    text # resForm.rows[i].text /\ ChangeResult([resForm EXCEPT !.rows[i].text = text])

-----------------------------------------------------------------------------
(* Former versions, offered on the page of a stored result.                *)

\* loadBackendPrbResultHistoryRecords, once; without an answer none is offered.
VersionsListed ==
    /\ resForm.kind = "detail" /\ resForm.phase = "open" /\ resForm.listed = 0
    /\ resForm' = [resForm EXCEPT !.listed = Len(result[1].past)]
    /\ UNCHANGED <<report, reportSeen, result, resReads, resSend, resFaults>>

Cancelled(reads) == {[q EXCEPT !.wanted = FALSE] : q \in reads}

OpenResultVersion(v) ==
    /\ v \in 1..resForm.listed /\ v # resForm.version
    /\ resForm.phase = "open" /\ StepsLeft
    /\ resForm' = [resForm EXCEPT !.version = v, !.changes = @ + 1]
    /\ resReads' = Cancelled(resReads) \cup {[version |-> v, step |-> "reports", wanted |-> TRUE]}
    /\ UNCHANGED <<report, reportSeen, result, resSend, resFaults>>

\* The reports are loaded before a version, whether it is still wanted or not.
VersionReports(q) ==
    /\ q \in resReads /\ q.step = "reports" /\ resForm.phase = "open"
    /\ reportSeen' = report
    /\ resForm' = LookedAgain(resForm, report)
    /\ resReads' = (resReads \ {q}) \cup {[q EXCEPT !.step = "version"]}
    /\ UNCHANGED <<report, result, resSend, resFaults>>

\* mapBackendPrbResult: attendees are shown by their ids. The rows that are left are filled
\* with the names of the report's approval line; the first of them is its representative.
RowsOf(content) ==
    LET padded == content.said = << >> /\ reportSeen[content.about] # "gone" IN
    [i \in AttendeeRows |->
        IF i <= Len(content.said) THEN [who |-> content.said[i].who, named |-> FALSE, text |-> content.said[i].text]
        ELSE IF i = 1 /\ padded THEN [who |-> RepresentedBy[content.about], named |-> TRUE, text |-> NoText]
        ELSE NoRows[i]]

\* Mutant: the answer for a version left meanwhile is shown too.
StillWanted_Any(q) == TRUE

\* The answer for a version left meanwhile is dropped (cancelled).
StillWanted(q) == q.wanted

\* createFormFromResult.
ResultVersionArrives(q) ==
    /\ q \in resReads /\ q.step = "version" /\ resForm.phase = "open"
    /\ LET content == result[1].past[q.version] IN
       resForm' = IF StillWanted(q)
                  THEN [resForm EXCEPT !.detail = q.version, !.text = content.text, !.rows = RowsOf(content),
                          !.about = content.about,
                          !.chosen = IF reportSeen[content.about] = "gone" THEN NoReport ELSE content.about]
                  ELSE resForm
    /\ resReads' = resReads \ {q}
    /\ UNCHANGED <<report, reportSeen, result, resSend, resFaults>>

\* When it fails the form keeps what it holds, and the buttons come back.
ResultVersionFails(q) ==
    /\ q \in resReads /\ resForm.phase = "open" /\ resFaults < MaxResultFaults
    /\ resFaults' = resFaults + 1
    /\ resForm' = IF StillWanted(q) THEN [resForm EXCEPT !.detail = 0] ELSE resForm
    /\ resReads' = resReads \ {q}
    /\ UNCHANGED <<report, reportSeen, result, resSend>>

\* Back to the version in force; the form keeps the content of the former one.
CloseResultVersion ==
    /\ resForm.detail # 0 /\ resForm.phase = "open"
    /\ resForm' = [resForm EXCEPT !.version = 0, !.detail = 0]
    /\ resReads' = Cancelled(resReads)
    /\ UNCHANGED <<report, reportSeen, result, resSend, resFaults>>

-----------------------------------------------------------------------------
(* Sending it.                                                             *)

NoResultSend == [phase |-> "idle", text |-> NoText, shown |-> NoText, rows |-> NoRows, said |-> << >>, known |-> TRUE]

\* The buttons are there unless a former version is shown.
ResultButtons == resForm.phase = "open" /\ resForm.detail = 0

\* handleSave: nothing marks the page as busy.
SaveResult(s) ==
    /\ ResultButtons /\ AppliedReport(resForm) # NoReport
    /\ resSend[s].phase = "idle" /\ \A q \in 1..(s - 1) : resSend[q].phase # "idle"
    /\ resSend' = [resSend EXCEPT ![s].phase = "reports", ![s].text = resForm.text, ![s].shown = resForm.text, ![s].rows = resForm.rows]
    /\ UNCHANGED <<report, reportSeen, result, resForm, resReads, resFaults>>

\* saveBackendPrbResult loads the reports first.
SaveReports(s) ==
    /\ resSend[s].phase = "reports" /\ resForm.phase = "open"
    /\ reportSeen' = report
    /\ resForm' = LookedAgain(resForm, report)
    /\ resSend' = [resSend EXCEPT ![s].phase = "user"]
    /\ UNCHANGED <<report, result, resReads, resFaults>>

\* Mutant: each opinion goes out under the user's own id.
IsMe_Always(row, known) == row.who # NoBody

\* resolveAttendeeUserId: the pattern for an id is tried after its dashes are gone, and never
\* fits; only the user is found, by name, or by id once /user/me has told it.
IsMe(row, known) == row.who = Me /\ (row.named \/ known)

\* buildAttendeeOpinionRequests: the rows of anybody else are left out.
RowsSent(rows, known) ==
    LET own == SelectSeq(rows, LAMBDA row : IsMe(row, known)) IN
    [i \in DOMAIN own |-> [who |-> Me, text |-> own[i].text]]

\* Mutant: the text is read once the reports are there.
TextSent_Now(s) == resForm.text
TextSent(s) == resSend[s].text

\* fetchCurrentUserId: without an answer a made-up id stands for the user's.
UserTold(s) ==
    /\ resSend[s].phase = "user" /\ resForm.phase = "open"
    /\ \E known \in BOOLEAN :
         /\ IF known THEN UNCHANGED resFaults ELSE resFaults < MaxResultFaults /\ resFaults' = resFaults + 1
         /\ resSend' = [resSend EXCEPT ![s].phase = "sent", ![s].known = known,
                          ![s].text = TextSent(s), ![s].said = RowsSent(resSend[s].rows, known)]
    /\ UNCHANGED <<report, reportSeen, result, resForm, resReads>>

\* A new result is refused, because the request names no report; so is the made-up id.
ResultRefused(s) ==
    \/ resForm.kind = "new" \/ \E q \in DOMAIN result : ~result[q].live
    \/ ~resSend[s].known /\ resSend[s].said # << >>

\* Mutant: the snapshot is taken after the fields have been overwritten.
Overwritten_Late(row, now) == [row EXCEPT !.past = Append(@, now), !.now = now]

\* updatePrbResult: saveSnapshot, then the fields and the attendees are replaced.
Overwritten(row, now) == [row EXCEPT !.past = Append(@, row.now), !.now = now]

ResultWritten(s) ==
    [result EXCEPT ![1] = Overwritten(@, [about |-> @.now.about, text |-> resSend[s].text, said |-> resSend[s].said])]

\* The page of a result that has been saved stays as it is; from the others it is opened.
ResultAnswered(s) ==
    /\ resSend[s].phase = "sent" /\ resForm.phase = "open"
    /\ \/ /\ ~ResultRefused(s) /\ result' = ResultWritten(s)
          /\ resSend' = [resSend EXCEPT ![s].phase = "saved"]
          /\ resForm' = IF resForm.kind = "edit" THEN [resForm EXCEPT !.phase = "left"] ELSE resForm
          /\ UNCHANGED resFaults
       \/ /\ ResultRefused(s)
          /\ resSend' = [resSend EXCEPT ![s].phase = "failed"]
          /\ UNCHANGED <<result, resForm, resFaults>>
    /\ UNCHANGED <<report, reportSeen, resReads>>

\* Loading the reports fails, or the answer is lost: the save is reported as failed.
ResultFails(s) ==
    /\ resSend[s].phase \in {"reports", "sent"} /\ resForm.phase = "open" /\ resFaults < MaxResultFaults
    /\ resFaults' = resFaults + 1
    /\ \/ UNCHANGED result
       \/ resSend[s].phase = "sent" /\ ~ResultRefused(s) /\ result' = ResultWritten(s)
    /\ resSend' = [resSend EXCEPT ![s].phase = "failed"]
    /\ UNCHANGED <<report, reportSeen, resForm, resReads>>

\* handleDelete, on the page of a stored result.
DeleteResult ==
    /\ ResultButtons /\ resForm.kind = "detail" /\ result[1].live
    /\ result' = [result EXCEPT ![1].live = FALSE]
    /\ resForm' = [resForm EXCEPT !.phase = "left"]
    /\ UNCHANGED <<report, reportSeen, resReads, resSend, resFaults>>

-----------------------------------------------------------------------------

\* The draft of a chatbot names attendees and fills the text of a new form.
Prefilled(form, text) ==
    [form EXCEPT !.text = text, !.rows[1] = [who |-> Me, named |-> TRUE, text |-> NoText]]

\* The form is empty, or filled by the chatbot, when the page looks for reports first.
PrbResultInit ==
    \E kind \in {"new", "edit", "detail"}, rows \in FirstResults, reports \in FirstReports :
      LET form == [kind |-> kind, phase |-> "open", chosen |-> NoReport, about |-> NoReport, asked |-> FALSE,
                   text |-> NoText, rows |-> NoRows, version |-> 0, detail |-> 0, listed |-> 0,
                   changes |-> 0, elsewhere |-> 0] IN
      /\ kind = "new" <=> rows = << >>
      /\ report = reports.server /\ reportSeen = reports.browser
      /\ result = rows
      /\ \E filled \in {form} \cup {Prefilled(form, text) : text \in {x \in ResultTexts : kind = "new"}} :
            resForm = LookedAgain(filled, reports.browser)
      /\ resReads = {}
      /\ resSend = [s \in ResultSends |-> NoResultSend]
      /\ resFaults = 0

PrbResultNext ==
    \/ RefreshReports \/ VersionsListed \/ CloseResultVersion \/ DeleteResult
    \/ \E r \in Reports : ReportChanges(r) \/ ChooseReport(r)
    \/ \E text \in ResultTexts : TypeResult(text)
    \/ \E i \in AttendeeRows : \/ \E u \in Attenders : PickAttendee(i, u)
                               \/ \E text \in ResultTexts : TypeAttendeeOpinion(i, text)
    \/ \E v \in 1..resForm.listed : OpenResultVersion(v)
    \/ \E q \in resReads : VersionReports(q) \/ ResultVersionArrives(q) \/ ResultVersionFails(q)
    \/ \E s \in ResultSends : SaveResult(s) \/ SaveReports(s) \/ UserTold(s) \/ ResultAnswered(s) \/ ResultFails(s)

-----------------------------------------------------------------------------
(* Properties.                                                             *)

\* Every variable keeps its type.
PrbResultTypeOK ==
    /\ resForm.chosen \in {NoReport} \cup Reports /\ resForm.about \in {NoReport} \cup Reports
    /\ \A q \in DOMAIN result : result[q].now.text \in ResultTexts \cup {NoText}
    /\ resFaults \in 0..MaxResultFaults /\ resForm.changes + resForm.elsewhere \in 0..MaxResultSteps

\* A former version is shown only while it is the one chosen, or while the one chosen since
\* is still on its way, in whatever order the versions arrive.
ChosenVersionShown ==
    resForm.detail \in {0, resForm.version}
      \/ \E q \in resReads : q.wanted /\ q.version = resForm.version

\* What is written is the text shown when the button was pressed, whatever has been loaded
\* since, and the opinions written are those shown in the user's own rows.
ResultStoredAsShown ==
    [][\A s \in ResultSends : (result' # result /\ resSend[s].phase = "sent" /\ resSend'[s].phase # "sent") =>
         LET now == result'[1].now
             rows == resSend[s].rows IN
         /\ now.text = resSend[s].shown
         /\ \A i \in DOMAIN now.said : \E j \in AttendeeRows :
               rows[j].who = now.said[i].who /\ rows[j].text = now.said[i].text]_resVars

\* The content a save or a version shown replaces is found among the former versions of the
\* result: nothing overwritten by a form that started empty is lost.
ReplacedIsKept ==
    [][\A q \in DOMAIN result :
         /\ result'[q].now # result[q].now =>
              \E v \in DOMAIN result'[q].past : result'[q].past[v] = result[q].now
         /\ \A v \in DOMAIN result[q].past : result'[q].past[v] = result[q].past[v]]_resVars

\* A list of reports that arrives while a result is being written takes the text away only
\* when it leaves the user no approved report.
TypedResultSurvives ==
    [][(resForm'.text # resForm.text /\ resForm'.changes = resForm.changes
          /\ \A q \in resReads : q.step = "version" => q \in resReads')
         => Candidates(reportSeen') = {}]_resVars

=============================================================================
