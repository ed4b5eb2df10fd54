---------------------------- MODULE ProjectResult ---------------------------
(***************************************************************************)
(* The result of a project: the form that registers it                     *)
(* (components/erp/project/project-result-form.tsx), the project's edit    *)
(* page and detail page with its past versions (app/project/[category]/    *)
(* [id]), with the handlers behind them (ProjectFacadeService,             *)
(* ProjectResultReportService, ProjectService).                            *)
(*                                                                         *)
(* People are shown by name and sent by number, the first user of a name   *)
(* being taken. A page keeps the project it has read, and sends back the   *)
(* number of the report's file it shows unless a new one is attached.      *)
(*                                                                         *)
(* Left out: the two dates, sent as typed; what is changed on a page while *)
(* it sends, which is not sent.                                            *)
(***************************************************************************)
EXTENDS Integers, Sequences, FiniteSets, SequencesExt

CONSTANTS
    PrjPages,      \* pages open at the same time
    PrjUsers,      \* users, in the order they are listed
    PrjNameOf,     \* their names
    FirstProjects, \* the projects approved order reports have made: manager, sales representative
    MaxUploads,    \* bound: files uploaded
    MaxPrjRuns,    \* bound: pages opened, projects and people chosen, projects deleted
    MaxPrjFaults   \* bound: calls that fail or whose answer is lost

NoOne == ""

ASSUME ProjectResultAssumption ==
    /\ PrjUsers # << >> /\ DOMAIN PrjNameOf = ToSet(PrjUsers) /\ NoOne \notin ToSet(PrjUsers)
    /\ \A u \in ToSet(PrjUsers) : PrjNameOf[u] # NoOne
    /\ FirstProjects \in Seq([pm : ToSet(PrjUsers) \union {NoOne}, rep : ToSet(PrjUsers)])
    /\ {MaxUploads, MaxPrjRuns, MaxPrjFaults} \subseteq Nat

VARIABLES
    projects,  \* projects[i]: live, manager, sales representative, file of the report (0: none), past versions
    uploads,   \* files uploaded for reports: 1..uploads
    removed,   \* those deleted with their report
    prjPage,   \* the pages
    prjRuns, prjFaults

prjVars == <<projects, uploads, removed, prjPage, prjRuns, prjFaults>>

ProjectStore == <<projects, uploads, removed>>
PrjRun == prjRuns < MaxPrjRuns /\ prjRuns' = prjRuns + 1
PrjFault(ok) == IF ok THEN UNCHANGED prjFaults ELSE prjFaults < MaxPrjFaults /\ prjFaults' = prjFaults + 1

CalledPrj(u) == IF u = NoOne THEN NoOne ELSE PrjNameOf[u]

-----------------------------------------------------------------------------
(* What the server answers: names, and the number of the file. A version   *)
(* of the past shows the order report's manager, who is the sales          *)
(* representative, for a project without one.                              *)

Detail(i) == [of |-> i, pm |-> CalledPrj(projects[i].pm), rep |-> CalledPrj(projects[i].rep), report |-> projects[i].report]
NoDetail == [of |-> 0, pm |-> NoOne, rep |-> NoOne, report |-> 0]
Version(proj) == [pm |-> CalledPrj(IF proj.pm = NoOne THEN proj.rep ELSE proj.pm), report |-> proj.report]

NoPrjPage ==
    [at |-> "list", project |-> 0, detail |-> NoDetail, users |-> FALSE, pm |-> NoOne, rep |-> NoOne,
     picked |-> FALSE, attached |-> FALSE, send |-> "no", file |-> 0, reads |-> {}, chosen |-> 0, past |-> 0]

PrjTurn(p, page) == prjPage' = [prjPage EXCEPT ![p] = page]
PrjForm(p) == prjPage[p].at \in {"new", "edit"} /\ prjPage[p].send = "no"

-----------------------------------------------------------------------------
(* The pages.                                                              *)

\* users.find by name.
UserNamed(name, other) ==
    LET hits == SelectSeq(PrjUsers, LAMBDA u : PrjNameOf[u] = name) IN IF hits = << >> THEN other ELSE Head(hits)

\* Mutant: who has been matched once stays.
MatchedPeople_Once(page) ==
    [page EXCEPT !.pm = IF @ = NoOne THEN UserNamed(page.detail.pm, @) ELSE @,
                 !.rep = IF @ = NoOne THEN UserNamed(page.detail.rep, @) ELSE @]

\* The effect of the users or of the project: a project without a manager leaves the former one.
MatchedPeople(page) ==
    [page EXCEPT !.pm = UserNamed(page.detail.pm, page.pm), !.rep = UserNamed(page.detail.rep, page.rep)]

PeopleOn(page) == IF page.users /\ page.detail # NoDetail THEN MatchedPeople(page) ELSE page

OpenResultForm(p) ==
    /\ prjPage[p].at = "list" /\ PrjRun
    /\ PrjTurn(p, [NoPrjPage EXCEPT !.at = "new"])
    /\ UNCHANGED <<ProjectStore, prjFaults>>

OpenProject(p, i, at) ==
    /\ prjPage[p].at = "list" /\ projects[i].live /\ at \in {"edit", "detail"} /\ PrjRun
    /\ PrjTurn(p, [NoPrjPage EXCEPT !.at = at, !.project = i, !.reads = {i}])
    /\ UNCHANGED <<ProjectStore, prjFaults>>

\* useBackendUsers: at first, and again when the session changes.
PrjUsersArrive(p) ==
    /\ prjPage[p].at \in {"new", "edit"} /\ IF prjPage[p].users THEN PrjRun ELSE UNCHANGED prjRuns
    /\ PrjTurn(p, PeopleOn([prjPage[p] EXCEPT !.users = TRUE]))
    /\ UNCHANGED <<ProjectStore, prjFaults>>

\* handleSelectProject: the project is chosen at once, the rest when its detail is read.
SelectProject(p, i) ==
    /\ PrjForm(p) /\ prjPage[p].at = "new" /\ projects[i].live /\ i # prjPage[p].project /\ PrjRun
    /\ PrjTurn(p, [prjPage[p] EXCEPT !.project = i, !.reads = @ \union {i}])
    /\ UNCHANGED <<ProjectStore, prjFaults>>

\* Whatever was chosen meanwhile; an edit or detail page without it shows an error only.
ProjectArrives(p, i, ok) ==
    LET page == [prjPage[p] EXCEPT !.reads = @ \ {i}] IN
    /\ i \in prjPage[p].reads /\ prjPage[p].at # "list" /\ (ok => projects[i].live)
    /\ PrjTurn(p, IF ok THEN PeopleOn([page EXCEPT !.detail = Detail(i), !.picked = page.picked /\ Detail(i).pm = NoOne])
                  ELSE IF page.at = "new" THEN page ELSE NoPrjPage)
    /\ (projects[i].live => PrjFault(ok)) /\ (~projects[i].live => UNCHANGED prjFaults)
    /\ UNCHANGED <<ProjectStore, prjRuns>>

PickManager(p, u) ==
    /\ PrjForm(p) /\ prjPage[p].users /\ prjPage[p].project # 0 /\ prjPage[p].pm # u /\ PrjRun
    /\ prjPage[p].at = "edit" => prjPage[p].detail # NoDetail
    /\ PrjTurn(p, [prjPage[p] EXCEPT !.pm = u, !.picked = TRUE])
    /\ UNCHANGED <<ProjectStore, prjFaults>>

AttachReport(p) ==
    /\ PrjForm(p) /\ ~prjPage[p].attached /\ uploads < MaxUploads
    /\ prjPage[p].at = "edit" => prjPage[p].detail # NoDetail
    /\ PrjTurn(p, [prjPage[p] EXCEPT !.attached = TRUE])
    /\ UNCHANGED <<ProjectStore, prjRuns, prjFaults>>

-----------------------------------------------------------------------------
(* Sending: the file first, then the project with the file's number.       *)

\* A project and a manager; on the edit page the sales representative too.
Complete(page) ==
    /\ page.project # 0 /\ page.pm # NoOne
    /\ page.at = "edit" => page.detail # NoDetail /\ page.rep # NoOne

\* Mutant: the file the report has is not sent again.
ReportSent_Attached(page) == page.file

\* The file just uploaded, else the one the page has read, else none.
ReportSent(page) == IF page.file # 0 THEN page.file ELSE page.detail.report

\* The one matched; else by the name the list or the detail shows, else the manager.
RepSent(page) ==
    IF page.rep # NoOne THEN page.rep
    ELSE IF ~page.users THEN page.pm
    ELSE UserNamed(IF page.detail # NoDetail THEN page.detail.rep ELSE CalledPrj(projects[page.project].rep), page.pm)

SendResult(p) ==
    /\ PrjForm(p) /\ Complete(prjPage[p])
    /\ PrjTurn(p, [prjPage[p] EXCEPT !.send = IF prjPage[p].attached THEN "file" ELSE "project", !.file = 0])
    /\ UNCHANGED <<ProjectStore, prjRuns, prjFaults>>

UploadReport(p, ok) ==
    /\ prjPage[p].send = "file" /\ uploads < MaxUploads
    /\ uploads' = IF ok THEN uploads + 1 ELSE uploads
    /\ PrjTurn(p, IF ok THEN [prjPage[p] EXCEPT !.send = "project", !.file = uploads + 1] ELSE [prjPage[p] EXCEPT !.send = "no"])
    /\ PrjFault(ok)
    /\ UNCHANGED <<projects, removed, prjRuns>>

\* Mutant: a deleted file is found.
ReportFound_Any(file) == TRUE

\* getUploadFile: of the files that are not deleted.
ReportFound(file) == file = 0 \/ file \notin removed

\* Mutant: no version when the report is deleted.
PastOf_Reported(former, next) == IF next.report = 0 THEN former.past ELSE Append(former.past, Version(former))

\* createSnapshot, before the change.
PastOf(former, next) == Append(former.past, Version(former))

\* updateProjectWithReport: no number, and the report is deleted with its file; another number, and
\* the former file stays. The register form then tells the result, the edit page goes to the detail.
StoreResult(p, told) ==
    LET page == prjPage[p]
        i == page.project
        file == ReportSent(page)
        next == [projects[i] EXCEPT !.pm = page.pm, !.rep = RepSent(page), !.report = file]
        done == projects[i].live /\ ReportFound(file) IN
    /\ page.send = "project" /\ (told => done)
    /\ IF done
       THEN /\ projects' = [projects EXCEPT ![i] = [next EXCEPT !.past = PastOf(projects[i], next)]]
            /\ removed' = IF file = 0 THEN removed \union ({projects[i].report} \ {0}) ELSE removed
       ELSE UNCHANGED <<projects, removed>>
    /\ PrjTurn(p, IF told THEN NoPrjPage ELSE [page EXCEPT !.send = "no"])
    /\ IF done THEN PrjFault(told) ELSE UNCHANGED prjFaults
    /\ UNCHANGED <<uploads, prjRuns>>

-----------------------------------------------------------------------------
(* The detail page, and one of its past versions.                          *)

\* Mutant: the list of versions stays while one is read.
VersionsListed_Always(page) == page.past = 0 \/ page.chosen = 0

\* A version chosen and not read leaves nothing but the loading sign; one that is read hides the list.
VersionsListed(page) == page.chosen = 0

PickVersion(p, n) ==
    /\ prjPage[p].at = "detail" /\ prjPage[p].detail # NoDetail /\ VersionsListed(prjPage[p])
    /\ n \in 1..Len(projects[prjPage[p].project].past) /\ n # prjPage[p].chosen /\ PrjRun
    /\ PrjTurn(p, [prjPage[p] EXCEPT !.chosen = n, !.reads = @ \union {-n}])
    /\ UNCHANGED <<ProjectStore, prjFaults>>

PastArrives(p, n, ok) ==
    /\ prjPage[p].at = "detail" /\ -n \in prjPage[p].reads
    /\ PrjTurn(p, [prjPage[p] EXCEPT !.reads = @ \ {-n}, !.past = IF ok THEN n ELSE prjPage[p].past])
    /\ PrjFault(ok)
    /\ UNCHANGED <<ProjectStore, prjRuns>>

BackToProject(p) ==
    /\ prjPage[p].at = "detail" /\ prjPage[p].past # 0
    /\ PrjTurn(p, [prjPage[p] EXCEPT !.chosen = 0, !.past = 0])
    /\ UNCHANGED <<ProjectStore, prjRuns, prjFaults>>

\* Project.delete: with its report and the report's file.
DeleteProject(p) ==
    LET i == prjPage[p].project IN
    /\ prjPage[p].at = "detail" /\ prjPage[p].detail # NoDetail /\ prjPage[p].chosen = 0
    /\ projects[i].live /\ PrjRun
    /\ projects' = [projects EXCEPT ![i].live = FALSE]
    /\ removed' = removed \union ({projects[i].report} \ {0})
    /\ PrjTurn(p, NoPrjPage)
    /\ UNCHANGED <<uploads, prjFaults>>

LeaveProject(p) ==
    /\ prjPage[p].at # "list" /\ prjPage[p].send = "no"
    /\ PrjTurn(p, NoPrjPage)
    /\ UNCHANGED <<ProjectStore, prjRuns, prjFaults>>

-----------------------------------------------------------------------------

ProjectInit ==
    \* with the version createProjectFromOrderReport keeps
    /\ projects = [i \in 1..Len(FirstProjects) |->
                     LET first == [pm |-> FirstProjects[i].pm, rep |-> FirstProjects[i].rep, report |-> 0]
                     IN [live |-> TRUE, pm |-> first.pm, rep |-> first.rep, report |-> 0, past |-> <<Version(first)>>]]
    /\ uploads = 0 /\ removed = {} /\ prjPage = [p \in PrjPages |-> NoPrjPage]
    /\ prjRuns = 0 /\ prjFaults = 0

ProjectNext ==
    \E p \in PrjPages :
      \/ OpenResultForm(p) \/ PrjUsersArrive(p) \/ AttachReport(p) \/ SendResult(p)
      \/ BackToProject(p) \/ DeleteProject(p) \/ LeaveProject(p)
      \/ \E u \in ToSet(PrjUsers) \union {NoOne} : PickManager(p, u)
      \/ \E ok \in BOOLEAN : UploadReport(p, ok) \/ StoreResult(p, ok)
      \/ \E i \in 1..Len(projects) :
           \/ SelectProject(p, i)
           \/ \E at \in {"edit", "detail"} : OpenProject(p, i, at)
           \/ \E ok \in BOOLEAN : ProjectArrives(p, i, ok)
      \/ \E n \in 1..MaxPrjRuns : PickVersion(p, n) \/ \E ok \in BOOLEAN : PastArrives(p, n, ok)

-----------------------------------------------------------------------------
(* Properties.                                                             *)

\* The files a project's report has had.
EverOf(i) == ({projects[i].report} \union {projects[i].past[n].report : n \in 1..Len(projects[i].past)}) \ {0}
GivenTwice == {f \in 1..uploads : \E i, j \in 1..Len(projects) : i # j /\ f \in EverOf(i) /\ f \in EverOf(j)}

\* The file of a project's report is there, whatever stale pages send; those excepted that a late
\* answer about another project has brought into two of them.
ReportFileLives ==
    \A i \in 1..Len(projects) :
        (projects[i].live /\ projects[i].report # 0) => projects[i].report \notin removed \ GivenTwice

\* The version that is shown is the one that was chosen, however slow the answers are.
VersionIsChosen ==
    \A p \in PrjPages : (prjPage[p].past # 0 /\ prjPage[p].chosen # 0) => prjPage[p].past = prjPage[p].chosen

\* What a page that shows the project it sends stores: the file just attached, else the one it shows.
Stores(p, i) ==
    /\ prjPage[p].send = "project" /\ prjPage[p].project = i /\ projects[i].past # projects'[i].past
    /\ prjPage[p].detail.of = i
ReportAsShown ==
    [][\A p \in PrjPages, i \in 1..Len(projects) :
         (Stores(p, i) /\ prjPage'[p].send = "no" /\ ~prjPage[p].attached)
            => projects'[i].report = prjPage[p].detail.report]_prjVars

\* The people stored are called as the page shows them, unless another was picked.
PeopleAsShown ==
    [][\A p \in PrjPages, i \in 1..Len(projects) :
         (Stores(p, i) /\ prjPage'[p].send = "no" /\ prjPage[p].users)
            => /\ CalledPrj(projects'[i].rep) = prjPage[p].detail.rep
               /\ (prjPage[p].picked \/ prjPage[p].detail.pm = NoOne \/ CalledPrj(projects'[i].pm) = prjPage[p].detail.pm)]_prjVars

\* Nothing a project's report ever was is lost from its past.
ResultKept ==
    [][\A i \in 1..Len(projects) : projects'[i].report # projects[i].report
         => projects[i].report \in {projects'[i].past[n].report : n \in 1..Len(projects'[i].past)}]_prjVars

=============================================================================
