---------------------------- MODULE SupportForm ----------------------------
(***************************************************************************)
(* Customer support: the requests of customers and the activities that     *)
(* answer them, their forms (support-request-form.tsx,                     *)
(* support-result-form.tsx) and their pages with the history               *)
(* (app/maintenance/support-requests, support-activities).                 *)
(*                                                                         *)
(* The answers a page reads name people and customers; a form to edit one  *)
(* finds their numbers again in lists that arrive later, in any order. Two *)
(* loads of the customers race with what is chosen: the form's own and the *)
(* one of the field (entity-customer-autocomplete.tsx).                    *)
(***************************************************************************)
EXTENDS Integers, Sequences, FiniteSets

CONSTANTS
    SupCustomers,    \* customers
    SupStaff,        \* users, in the order of the list
    SupName,         \* SupName[u]: name of a user
    StoredSupport,   \* initial requests and activities
    MaxSupRows,      \* bound: requests and activities
    MaxSupParts,     \* bound: participants of an activity
    MaxSupRuns       \* bound: pages opened, choices made, calls that fail

NoSupCustomer == "no customer"
NoSupUser == "no user"
SupUsers == {SupStaff[i] : i \in 1..Len(SupStaff)}

ASSUME SupportAssumption ==
    /\ NoSupCustomer \notin SupCustomers /\ NoSupUser \notin SupUsers
    /\ {MaxSupRows, MaxSupParts, MaxSupRuns} \subseteq Nat
    /\ Len(StoredSupport) <= MaxSupRows

VARIABLES
    support,   \* the rows: requests and activities
    supPast,   \* supPast[i]: the history of the i-th row, the states saved
    supPage,   \* the page of a user
    supRuns

supVars == <<support, supPast, supPage, supRuns>>

SupRun == supRuns < MaxSupRuns /\ supRuns' = supRuns + 1

SupCalled(u) == IF u = NoSupUser THEN NoSupUser ELSE SupName[u]

\* The first user of the list who is called so.
SupUserCalled(name) ==
    LET called == {i \in 1..Len(SupStaff) : SupName[SupStaff[i]] = name} IN
    IF called = {} THEN NoSupUser ELSE SupStaff[CHOOSE i \in called : \A j \in called : i <= j]

-----------------------------------------------------------------------------
(* Forms.                                                                  *)

\* The row of a form: what is sent when it is saved. kind is request or activity.
BlankSupport(kind) ==
    [kind |-> kind, live |-> TRUE, customer |-> NoSupCustomer, by |-> NoSupUser, type |-> "REGULAR",
     request |-> 0, parts |-> << >>]

NoSupForm == [row |-> BlankSupport("request"), named |-> NoSupCustomer, users |-> FALSE, customers |-> FALSE,
              picker |-> FALSE, listed |-> << >>, touched |-> FALSE]
NoSupPage == [on |-> "closed", of |-> 0, seen |-> BlankSupport("request"), form |-> NoSupForm,
              chosen |-> 0, shown |-> 0, reads |-> {}]

\* A form to edit. The type read is a description, never the one compared with, so it is
\* REGULAR; the numbers of the customer and of the people are not known yet.
SupFormOf(seen) ==
    [NoSupForm EXCEPT !.row = [BlankSupport(seen.kind) EXCEPT !.request = seen.request], !.named = seen.customer]

Form(form) == supPage' = [supPage EXCEPT !.form = form]
InForm == supPage.on \in {"new", "edit"}
Kept == UNCHANGED <<support, supPast>>

OpenSupForm(kind) ==
    /\ supPage.on = "closed" /\ SupRun
    /\ supPage' = [NoSupPage EXCEPT !.on = "new", !.form = [NoSupForm EXCEPT !.row = BlankSupport(kind)]]
    /\ Kept

\* The users: those who are named are looked up. One who is not found is left out of the form,
\* as a participant without a number.
SupUsersArrive ==
    LET seen == supPage.seen IN
    /\ InForm /\ ~supPage.form.users
    /\ Form(IF supPage.on = "new" THEN [supPage.form EXCEPT !.users = TRUE]
            ELSE [supPage.form EXCEPT !.users = TRUE, !.row.by = SupUserCalled(SupName[seen.by]),
                    !.row.parts = [i \in 1..Len(seen.parts) |-> SupUserCalled(SupName[seen.parts[i]])]])
    /\ Kept /\ UNCHANGED supRuns

\* The customers: the one read is set again, whatever has been chosen meanwhile.
SupCustomersArrive ==
    /\ supPage.on = "edit" /\ ~supPage.form.customers
    /\ Form([supPage.form EXCEPT !.customers = TRUE, !.row.customer = supPage.seen.customer, !.named = supPage.seen.customer])
    /\ Kept /\ UNCHANGED supRuns

SupPickerArrives ==
    /\ InForm /\ ~supPage.form.picker
    /\ Form([supPage.form EXCEPT !.picker = TRUE])
    /\ Kept /\ UNCHANGED supRuns

\* The requests, of an activity's form.
SupRequestsArrive ==
    /\ InForm /\ supPage.form.row.kind = "activity" /\ supPage.form.listed = << >>
    /\ Form([supPage.form EXCEPT !.listed =
              [i \in 1..Len(support) |->
                 IF support[i].kind = "request" /\ support[i].live THEN support[i].customer ELSE NoSupCustomer]])
    /\ Kept /\ UNCHANGED supRuns

\* Mutant: the request chosen stays.
Renamed_KeepsRequest(form, c) == [form EXCEPT !.named = c]

\* The name of the customer has changed: a new activity's request is taken back.
Renamed(form, c) ==
    [form EXCEPT !.named = c, !.row.request = IF supPage.on = "new" /\ form.named # c THEN 0 ELSE @]

\* A customer is chosen, or the field left, which takes the customer its text is most like, the
\* first one of all when it is empty.
SupPickCustomer(c) ==
    /\ InForm /\ supPage.form.picker /\ SupRun
    /\ Form([Renamed(supPage.form, c) EXCEPT !.row.customer = c])
    /\ Kept

\* Mutant: the customer chosen before stays.
SupTyped_KeepsNumber(form) == Renamed(form, NoSupCustomer)

\* Text is typed in the field: no customer any more.
SupTyped(form) == [Renamed(form, NoSupCustomer) EXCEPT !.row.customer = NoSupCustomer]

SupTypeCustomer ==
    /\ InForm /\ supPage.form.named # NoSupCustomer /\ SupRun
    /\ Form(SupTyped(supPage.form))
    /\ Kept

SupPickType(t) ==
    /\ InForm /\ supPage.form.row.kind = "activity" /\ supPage.form.row.type # t
    /\ Form([supPage.form EXCEPT !.row.type = t])
    /\ Kept /\ UNCHANGED supRuns

\* One of the requests of the customer named.
SupPickRequest(r) ==
    /\ InForm /\ supPage.form.row.type = "REQUEST" /\ supPage.form.named # NoSupCustomer
    /\ r \in 1..Len(supPage.form.listed) /\ supPage.form.listed[r] = supPage.form.named
    /\ supPage.form.row.request # r
    /\ Form([supPage.form EXCEPT !.row.request = r])
    /\ Kept /\ UNCHANGED supRuns

SupPickBy(u) ==
    /\ InForm /\ supPage.form.users /\ supPage.form.row.by # u /\ SupRun
    /\ Form([supPage.form EXCEPT !.row.by = u, !.touched = TRUE])
    /\ Kept

SupAddPart(u) ==
    /\ InForm /\ supPage.form.users /\ supPage.form.row.kind = "activity" /\ SupRun
    /\ Len(supPage.form.row.parts) < MaxSupParts
    /\ Form([supPage.form EXCEPT !.row.parts = Append(@, u), !.touched = TRUE])
    /\ Kept

SupRemovePart(i) ==
    /\ InForm /\ i \in 1..Len(supPage.form.row.parts)
    /\ Form([supPage.form EXCEPT !.row.parts = SubSeq(@, 1, i - 1) \o SubSeq(@, i + 1, Len(@)), !.touched = TRUE])
    /\ Kept /\ UNCHANGED supRuns

-----------------------------------------------------------------------------
(* Saving.                                                                 *)

\* Mutant: nobody who registers it is asked for.
SupReady_Anonymous(row) ==
    /\ row.customer # NoSupCustomer
    /\ row.type = "REQUEST" => row.request # 0
    /\ \A i \in 1..Len(row.parts) : row.parts[i] # NoSupUser

\* onSubmit, and the rules of the fields.
SupReady(row) ==
    /\ row.customer # NoSupCustomer /\ row.by # NoSupUser
    /\ row.type = "REQUEST" => row.request # 0
    /\ \A i \in 1..Len(row.parts) : row.parts[i] # NoSupUser

\* What is sent: the request of one that answers a request.
SupSent(row) == [row EXCEPT !.request = IF row.type = "REQUEST" THEN @ ELSE 0]

\* createSnapshot: what the history keeps of a row, with the names of the people.
SupSnapshot(row) ==
    [customer |-> row.customer, type |-> row.type, by |-> SupCalled(row.by),
     parts |-> [i \in 1..Len(row.parts) |-> SupCalled(row.parts[i])]]

\* createRequest, createActivity: the row, and its first state in the history. A request that
\* is deleted is refused.
RegisterSupport ==
    LET row == SupSent(supPage.form.row) IN
    /\ supPage.on = "new" /\ SupReady(supPage.form.row) /\ Len(support) < MaxSupRows
    /\ row.request # 0 => support[row.request].live
    /\ support' = Append(support, row)
    /\ supPast' = Append(supPast, <<SupSnapshot(row)>>)
    /\ supPage' = NoSupPage
    /\ UNCHANGED supRuns

\* Mutant: only the state at registration is.
SupRecorded_Once(past, old) == past

\* The state before an update is kept.
SupRecorded(past, old) == Append(past, SupSnapshot(old))

\* updateRequest, updateActivity: the request an activity answers is not among what is updated.
\* The page reads the row again.
UpdateSupport ==
    LET i == supPage.of  row == [SupSent(supPage.form.row) EXCEPT !.request = support[i].request] IN
    /\ supPage.on = "edit" /\ SupReady(supPage.form.row) /\ support[i].live /\ SupRun
    /\ support' = [support EXCEPT ![i] = row]
    /\ supPast' = [supPast EXCEPT ![i] = SupRecorded(@, support[i])]
    /\ supPage' = [NoSupPage EXCEPT !.on = "detail", !.of = i, !.seen = row]

-----------------------------------------------------------------------------
(* The detail page and its history.                                        *)

OpenSupport(i) ==
    /\ supPage.on = "closed" /\ support[i].live /\ SupRun
    /\ supPage' = [NoSupPage EXCEPT !.on = "detail", !.of = i, !.seen = support[i]]
    /\ Kept

\* Nothing of the detail is shown as long as an entry of the history is chosen.
SupShown == supPage.on = "detail" /\ supPage.chosen = 0

EditSupport ==
    /\ SupShown
    /\ supPage' = [supPage EXCEPT !.on = "edit", !.form = SupFormOf(supPage.seen)]
    /\ Kept /\ UNCHANGED supRuns

CancelEdit ==
    /\ supPage.on = "edit"
    /\ supPage' = [supPage EXCEPT !.on = "detail", !.form = NoSupForm]
    /\ Kept /\ UNCHANGED supRuns

\* Mutant: the entries of the history stay below while one is read.
EntriesOffered_Always(page) == page.on = "detail"

EntriesOffered(page) == page.on = "detail" /\ page.chosen = 0

ChooseEntry(e) ==
    /\ EntriesOffered(supPage) /\ e \in 1..Len(supPast[supPage.of]) /\ e # supPage.chosen /\ SupRun
    /\ supPage' = [supPage EXCEPT !.chosen = e, !.reads = @ \union {e}]
    /\ Kept

\* The entry arrives. When it cannot be read, the page shows neither it nor the detail.
EntryArrives(e, ok) ==
    /\ supPage.on = "detail" /\ e \in supPage.reads
    /\ supPage' = [supPage EXCEPT !.reads = @ \ {e}, !.shown = IF ok THEN e ELSE @]
    /\ Kept /\ UNCHANGED supRuns

BackToDetail ==
    /\ supPage.on = "detail" /\ supPage.shown # 0
    /\ supPage' = [supPage EXCEPT !.chosen = 0, !.shown = 0]
    /\ Kept /\ UNCHANGED supRuns

\* deleteRequest, deleteActivity, from the detail page: this one, or one of another user.
DeleteSupport(i, here) ==
    /\ support[i].live /\ (here => SupShown /\ supPage.of = i)
    /\ support' = [support EXCEPT ![i].live = FALSE]
    /\ IF here THEN supPage' = NoSupPage /\ UNCHANGED supRuns ELSE SupRun /\ UNCHANGED supPage
    /\ UNCHANGED supPast

LeaveSupport ==
    /\ supPage.on # "closed" /\ supPage' = NoSupPage
    /\ Kept /\ UNCHANGED supRuns

-----------------------------------------------------------------------------

SupportInit ==
    /\ support = StoredSupport
    /\ supPast = [i \in 1..Len(StoredSupport) |-> <<SupSnapshot(StoredSupport[i])>>]
    /\ supPage = NoSupPage /\ supRuns = 0

SupportNext ==
    \/ SupUsersArrive \/ SupCustomersArrive \/ SupPickerArrives \/ SupRequestsArrive \/ SupTypeCustomer
    \/ RegisterSupport \/ UpdateSupport \/ EditSupport \/ CancelEdit \/ BackToDetail \/ LeaveSupport
    \/ \E kind \in {"request", "activity"} : OpenSupForm(kind)
    \/ \E c \in SupCustomers : SupPickCustomer(c)
    \/ \E t \in {"REGULAR", "REQUEST"} : SupPickType(t)
    \/ \E u \in SupUsers : SupPickBy(u) \/ SupAddPart(u)
    \/ \E i \in 1..Len(support) :
         SupPickRequest(i) \/ OpenSupport(i) \/ \E here \in BOOLEAN : DeleteSupport(i, here)
    \/ \E i \in 1..MaxSupParts : SupRemovePart(i)
    \/ \E e \in 1..MaxSupRuns : ChooseEntry(e) \/ \E ok \in BOOLEAN : EntryArrives(e, ok)

-----------------------------------------------------------------------------
(* Properties.                                                             *)

\* Whatever is stored has a customer and one who registered it, and no participant without a
\* number; an activity registered for a request names one.
SupportTypeOK ==
    /\ \A i \in 1..Len(support) :
         LET row == support[i] IN
         /\ row.customer \in SupCustomers /\ row.by \in SupUsers /\ row.parts \in Seq(SupUsers)
         /\ row.request # 0 => row.kind = "activity" /\ support[row.request].kind = "request"
         /\ row.kind = "request" => row.type = "REGULAR" /\ row.parts = << >>
    /\ Len(supPast) = Len(support)
    /\ supPage.of \in 0..Len(support)

\* What is stored is for the customer the form names, whichever of the two lists of customers
\* came first and whatever was typed in between.
SupportOfNamed ==
    [][\A i \in 1..Len(support') :
         (i > Len(support) \/ (i <= Len(support) /\ support'[i].customer # support[i].customer)) =>
           support'[i].customer = supPage.form.named]_supVars

\* A new activity answers a request of its own customer, as the list had it.
RequestOfCustomer ==
    (supPage.on = "new" /\ supPage.form.row.request # 0) =>
      supPage.form.listed[supPage.form.row.request] = supPage.form.named

\* A form in which no person was changed saves people of the same names as the page showed,
\* even when it is saved before all the lists have arrived.
PeopleKept ==
    [][supPage.on = "edit" /\ ~supPage.form.touched /\ support' # support /\ supPage'.on = "detail" =>
         LET old == supPage.seen  new == support'[supPage.of] IN
         /\ SupCalled(new.by) = SupCalled(old.by)
         /\ [i \in 1..Len(new.parts) |-> SupCalled(new.parts[i])]
              = [i \in 1..Len(old.parts) |-> SupCalled(old.parts[i])]]_supVars

\* No state of a request or an activity is lost: one that is replaced is in the history.
PastKept ==
    [][\A i \in 1..Len(support) :
         (support'[i] # support[i] /\ support'[i].live) =>
           \E e \in 1..Len(supPast'[i]) : supPast'[i][e] = SupSnapshot(support[i])]_supVars

\* The entry shown is the entry chosen, whichever was read before.
EntryShown == supPage.shown \in {0, supPage.chosen}

=============================================================================
