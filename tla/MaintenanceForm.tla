-------------------------- MODULE MaintenanceForm --------------------------
(***************************************************************************)
(* Maintenance contracts: their registration for a project                 *)
(* (free-maintenance-form.tsx, paid-maintenance-form.tsx), the page of a   *)
(* contract with its earlier versions, and the page to edit one            *)
(* (app/maintenance/[category]/[id]).                                      *)
(*                                                                         *)
(* Several pages may be open. An edit sends every field as the page has    *)
(* it; the people are looked up by name in the list of users, anew each    *)
(* time the list is read again (use-backend-users.ts reads it whenever the *)
(* session changes). A paid contract has a file, uploaded before the       *)
(* contract is saved.                                                      *)
(***************************************************************************)
EXTENDS Integers, Sequences

CONSTANTS
    Projects,      \* projects
    PeopleOf,      \* PeopleOf[p]: names of the sales representative and the PM of a project, or NoMntName
    MntUsers,      \* users, in the order of the list
    MntName,       \* MntName[u]: name of a user
    MntPages,      \* open pages
    MaxContracts,  \* bound: contracts
    MaxMntFiles,   \* bound: files ever uploaded
    MaxMntRuns     \* bound: pages opened, choices made, calls that fail

NoMntUser == "nobody"
NoMntName == "no name"
NoMntProject == "no project"
MntStaff == {MntUsers[i] : i \in 1..Len(MntUsers)}

ASSUME MaintenanceAssumption ==
    /\ NoMntUser \notin MntStaff /\ NoMntProject \notin Projects
    /\ \A p \in Projects : PeopleOf[p].rep \in {MntName[u] : u \in MntStaff} \union {NoMntName}
    /\ {MaxContracts, MaxMntFiles, MaxMntRuns} \subseteq Nat

VARIABLES
    contracts,   \* the contracts
    mntPast,     \* mntPast[i]: versions of the i-th contract, the states before its updates
    mntFiles,    \* the files that are not deleted
    mntUploads,  \* number of files uploaded
    mntPage,     \* mntPage[p]: a page
    mntRuns

mntVars == <<contracts, mntPast, mntFiles, mntUploads, mntPage, mntRuns>>

MntRun == mntRuns < MaxMntRuns /\ mntRuns' = mntRuns + 1

MntNameOf(u) == IF u = NoMntUser THEN NoMntName ELSE MntName[u]

\* users.find by name: the first who is called so.
MntCalled(name) ==
    LET called == {i \in 1..Len(MntUsers) : MntName[MntUsers[i]] = name} IN
    IF called = {} THEN NoMntUser ELSE MntUsers[CHOOSE i \in called : \A j \in called : i <= j]

-----------------------------------------------------------------------------
(* A contract and a page. Of the people, rep is required and manager is    *)
(* not; text stands for the other fields.                                  *)

Contract(type, project, rep, manager, file, text) ==
    [live |-> TRUE, type |-> type, project |-> project, rep |-> rep, manager |-> manager, file |-> file, text |-> text]
NoContract == Contract("PAID", NoMntProject, NoMntUser, NoMntUser, 0, 0)

NoMntPage == [on |-> "closed", of |-> 0, seen |-> NoContract, users |-> FALSE, fields |-> NoContract,
              attach |-> FALSE, picked |-> FALSE, busy |-> FALSE, renewed |-> FALSE, shown |-> 0, reads |-> << >>]

Turn(p, page) == mntPage' = [mntPage EXCEPT ![p] = page]
MntForm(p) == mntPage[p].on \in {"new", "edit"}
StoreSame == UNCHANGED <<contracts, mntPast, mntFiles, mntUploads>>

OpenMntForm(p, type) ==
    /\ mntPage[p].on = "closed" /\ MntRun
    /\ Turn(p, [NoMntPage EXCEPT !.on = "new", !.fields.type = type])
    /\ StoreSame

OpenMntEdit(p, i) ==
    /\ mntPage[p].on = "closed" /\ contracts[i].live /\ MntRun
    /\ Turn(p, [NoMntPage EXCEPT !.on = "edit", !.of = i, !.seen = contracts[i],
                  !.fields = [contracts[i] EXCEPT !.rep = NoMntUser, !.manager = NoMntUser]])
    /\ StoreSame

\* Mutant: the manager is not looked up.
MntResolved_RepOnly(page) == [page EXCEPT !.fields.rep = MntCalled(MntNameOf(page.seen.rep))]

\* Those the contract names, when they are found.
MntResolved(page) ==
    LET rep == MntCalled(MntNameOf(page.seen.rep))  manager == MntCalled(MntNameOf(page.seen.manager)) IN
    [page EXCEPT !.fields.rep = IF rep = NoMntUser THEN page.fields.rep ELSE rep,
                 !.fields.manager = IF manager = NoMntUser THEN page.fields.manager ELSE manager]

\* The users arrive, and again when the session has changed: the edit page looks those it has
\* read up again, whatever was chosen meanwhile.
MntUsersArrive(p) ==
    /\ MntForm(p)
    /\ IF mntPage[p].users THEN mntPage[p].on = "edit" /\ ~mntPage[p].renewed /\ MntRun ELSE UNCHANGED mntRuns
    /\ LET page == [mntPage[p] EXCEPT !.users = TRUE, !.renewed = mntPage[p].users] IN
       Turn(p, IF page.on = "edit" THEN MntResolved(page) ELSE page)
    /\ StoreSame

\* A project is chosen. Of its people those who are found in the list, as far as it has
\* arrived, take the place of the ones before.
ChooseProject(p, project) ==
    LET page == mntPage[p]
        rep == IF page.users THEN MntCalled(PeopleOf[project].rep) ELSE NoMntUser
        manager == IF page.users THEN MntCalled(PeopleOf[project].pm) ELSE NoMntUser IN
    /\ page.on = "new" /\ ~page.busy /\ project # page.fields.project /\ MntRun
    /\ Turn(p, [page EXCEPT !.fields.project = project,
                            !.fields.rep = IF rep = NoMntUser THEN page.fields.rep ELSE rep,
                            !.fields.manager = IF manager = NoMntUser THEN page.fields.manager ELSE manager])
    /\ StoreSame

\* A person is chosen, or none when the text is changed.
ChoosePerson(p, who, u) ==
    /\ MntForm(p) /\ ~mntPage[p].busy /\ mntPage[p].users /\ mntPage[p].fields[who] # u /\ MntRun
    /\ Turn(p, [mntPage[p] EXCEPT !.fields[who] = u, !.picked = TRUE])
    /\ StoreSame

MntTyped(page) == [page EXCEPT !.fields.text = 1 - @]

\* Another field is changed, or a file chosen: a free contract's form has none.
TypeMntText(p) ==
    /\ MntForm(p) /\ ~mntPage[p].busy /\ mntPage[p].fields.text = mntPage[p].seen.text
    /\ Turn(p, MntTyped(mntPage[p]))
    /\ StoreSame /\ UNCHANGED mntRuns

AttachContract(p) ==
    /\ MntForm(p) /\ ~mntPage[p].busy /\ ~mntPage[p].attach
    /\ (mntPage[p].on = "new" => mntPage[p].fields.type = "PAID")
    /\ Turn(p, [mntPage[p] EXCEPT !.attach = TRUE])
    /\ StoreSame /\ UNCHANGED mntRuns

-----------------------------------------------------------------------------
(* Saving: the file first, then the contract.                              *)

\* Mutant: the sales representative is not required.
MntSendable_Anyone(page) ==
    /\ page.on \in {"new", "edit"} /\ ~page.busy
    /\ (page.on = "new" => page.fields.project # NoMntProject)

\* handleSubmit: what is required, and the flag while it runs.
MntSendable(page) ==
    /\ page.on \in {"new", "edit"} /\ ~page.busy /\ page.fields.rep # NoMntUser
    /\ (page.on = "new" => page.fields.project # NoMntProject)

\* The file is uploaded, or this fails and nothing is sent. A new contract has no file but the
\* one uploaded, an edited one keeps its own.
SendMnt(p, ok) ==
    LET page == mntPage[p] IN
    /\ MntSendable(page)
    /\ IF ~page.attach
       THEN ok /\ UNCHANGED <<mntFiles, mntUploads, mntRuns>>
            /\ Turn(p, [page EXCEPT !.busy = TRUE])
       ELSE IF ok THEN
            /\ mntUploads < MaxMntFiles /\ mntUploads' = mntUploads + 1
            /\ mntFiles' = mntFiles \union {mntUploads'}
            /\ Turn(p, [page EXCEPT !.busy = TRUE, !.fields.file = mntUploads'])
            /\ UNCHANGED mntRuns
       ELSE MntRun /\ UNCHANGED <<mntPage, mntFiles, mntUploads>>
    /\ UNCHANGED <<contracts, mntPast>>

\* maintenanceRegister. When its answer is lost the form remains, to be sent again.
RegisterMnt(p, lost) ==
    LET page == mntPage[p] IN
    /\ page.on = "new" /\ page.busy /\ Len(contracts) < MaxContracts
    /\ contracts' = Append(contracts, page.fields)
    /\ mntPast' = Append(mntPast, << >>)
    /\ IF lost THEN MntRun /\ Turn(p, [page EXCEPT !.busy = FALSE, !.fields.file = 0])
               ELSE Turn(p, NoMntPage) /\ UNCHANGED mntRuns
    /\ UNCHANGED <<mntFiles, mntUploads>>

\* Mutant: the file is taken whether or not it is deleted.
FileTaken_Any(f) == TRUE

\* getUploadFile: a file that is deleted is not found.
FileTaken(f) == f = 0 \/ f \in mntFiles

\* Mutant: the version holds the contract as it becomes.
MntVersion_After(old, new) == new

\* saveSnapshot, before the update.
MntVersion(old, new) == old

\* updateMaintenance: the file replaced is deleted, the state before is kept as a version, every
\* field is taken as sent. Refused when the contract or the file sent is deleted.
UpdateMnt(p) ==
    LET page == mntPage[p]  i == page.of  old == contracts[i] IN
    /\ page.on = "edit" /\ page.busy
    /\ IF old.live /\ FileTaken(page.fields.file)
       THEN /\ contracts' = [contracts EXCEPT ![i] = page.fields]
            /\ mntPast' = [mntPast EXCEPT ![i] = Append(@, MntVersion(old, page.fields))]
            /\ mntFiles' = IF old.file = page.fields.file THEN mntFiles ELSE mntFiles \ {old.file}
            /\ Turn(p, [NoMntPage EXCEPT !.on = "detail", !.of = i, !.seen = page.fields])
       ELSE Turn(p, [page EXCEPT !.busy = FALSE, !.fields.file = page.seen.file])
            /\ UNCHANGED <<contracts, mntPast, mntFiles>>
    /\ UNCHANGED <<mntUploads, mntRuns>>

-----------------------------------------------------------------------------
(* The page of a contract.                                                 *)

OpenMnt(p, i) ==
    /\ mntPage[p].on = "closed" /\ contracts[i].live /\ MntRun
    /\ Turn(p, [NoMntPage EXCEPT !.on = "detail", !.of = i, !.seen = contracts[i]])
    /\ StoreSame

\* The versions remain listed while the first one chosen is read; they are not once one is
\* shown.
ChooseVersion(p, v) ==
    /\ mntPage[p].on = "detail" /\ mntPage[p].shown = 0 /\ v \in 1..Len(mntPast[mntPage[p].of]) /\ MntRun
    /\ Turn(p, [mntPage[p] EXCEPT !.reads = Append(@, v)])
    /\ StoreSame

\* The answer to one of the reads; any of them.
VersionArrives(p, r, ok) ==
    LET page == mntPage[p] IN
    /\ r \in 1..Len(page.reads)
    /\ Turn(p, [page EXCEPT !.reads = SubSeq(page.reads, 1, r - 1) \o SubSeq(page.reads, r + 1, Len(page.reads)),
                            !.shown = IF ok THEN page.reads[r] ELSE page.shown])
    /\ StoreSame /\ UNCHANGED mntRuns

BackToLive(p) ==
    /\ mntPage[p].on = "detail" /\ mntPage[p].shown # 0
    /\ Turn(p, [mntPage[p] EXCEPT !.shown = 0])
    /\ StoreSame /\ UNCHANGED mntRuns

\* deleteMaintenance: with its file.
DeleteMnt(p) ==
    LET i == mntPage[p].of IN
    /\ mntPage[p].on = "detail" /\ mntPage[p].shown = 0 /\ contracts[i].live
    /\ contracts' = [contracts EXCEPT ![i].live = FALSE]
    /\ mntFiles' = mntFiles \ {contracts[i].file}
    /\ Turn(p, NoMntPage)
    /\ UNCHANGED <<mntPast, mntUploads, mntRuns>>

LeaveMnt(p) ==
    /\ mntPage[p].on # "closed" /\ ~mntPage[p].busy
    /\ Turn(p, NoMntPage)
    /\ StoreSame /\ UNCHANGED mntRuns

-----------------------------------------------------------------------------

MaintenanceInit ==
    /\ contracts = << >> /\ mntPast = << >> /\ mntFiles = {} /\ mntUploads = 0
    /\ mntPage = [p \in MntPages |-> NoMntPage]
    /\ mntRuns = 0

MaintenanceNext ==
    \E p \in MntPages :
      \/ MntUsersArrive(p) \/ TypeMntText(p) \/ AttachContract(p) \/ UpdateMnt(p) \/ BackToLive(p)
      \/ DeleteMnt(p) \/ LeaveMnt(p)
      \/ \E type \in {"FREE", "PAID"} : OpenMntForm(p, type)
      \/ \E project \in Projects : ChooseProject(p, project)
      \/ \E who \in {"rep", "manager"}, u \in MntStaff \union {NoMntUser} : ChoosePerson(p, who, u)
      \/ \E yes \in BOOLEAN : SendMnt(p, yes) \/ RegisterMnt(p, yes)
      \/ \E i \in 1..Len(contracts) : OpenMnt(p, i) \/ OpenMntEdit(p, i)
      \/ \E n \in 1..MaxMntRuns : ChooseVersion(p, n) \/ \E ok \in BOOLEAN : VersionArrives(p, n, ok)

-----------------------------------------------------------------------------
(* Properties.                                                             *)

\* A contract has a project and a sales representative, and as many lists of versions as there
\* are contracts; a free one starts without a file.
MaintenanceTypeOK ==
    /\ Len(mntPast) = Len(contracts) /\ mntFiles \subseteq 1..mntUploads
    /\ \A i \in 1..Len(contracts) :
         LET c == contracts[i] IN
         /\ c.project \in Projects /\ c.rep \in MntStaff /\ c.manager \in MntStaff \union {NoMntUser}
         /\ ((c.type = "FREE" /\ mntPast[i] = << >>) => c.file = 0)

\* The file of a contract is not deleted, whichever of two edits that replace it is saved last
\* and however old its page is.
ContractFileLives ==
    \A i \in 1..Len(contracts) : (contracts[i].live /\ contracts[i].file # 0) => contracts[i].file \in mntFiles

\* Every state of a contract that was replaced is one of its versions.
EveryVersionKept ==
    [][\A i \in 1..Len(contracts) :
         (contracts'[i] # contracts[i] /\ contracts'[i].live) =>
            \E v \in 1..Len(mntPast'[i]) : mntPast'[i][v] = contracts[i]]_mntVars

\* A contract edited without choosing people keeps people of the names the page was opened
\* with, though these are looked up by name when the list arrives, and again when it does.
NamesKept ==
    [][\A p \in MntPages :
         (mntPage[p].on = "edit" /\ mntPage'[p].on = "detail" /\ ~mntPage[p].picked) =>
            \A who \in {"rep", "manager"} :
               MntNameOf(mntPage'[p].seen[who]) = MntNameOf(mntPage[p].seen[who])]_mntVars

=============================================================================
