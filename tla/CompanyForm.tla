---------------------------- MODULE CompanyForm ----------------------------
(***************************************************************************)
(* Registering and editing a customer or a partner with its managers: the  *)
(* pages finding/new, finding/customers/[id]/edit and                      *)
(* finding/[category]/[id]/edit, and the calls of finding-backend.ts.      *)
(*                                                                         *)
(* A save is a chain of single REST calls (the company, then one call per  *)
(* manager); when one fails the page tries to undo what went before it.    *)
(* A contact is an e-mail address and the rest of its fields.              *)
(***************************************************************************)
EXTENDS Naturals, Sequences, FiniteSets, SequencesExt

CONSTANTS
    Names,        \* company names
    Emails,       \* e-mail addresses
    Infos,        \* name, telephone, department ... of a person
    Blank,        \* nothing typed in
    Kinds,        \* pages opened: see Kind
    Typed,        \* contacts that get typed in
    Cards,        \* what the cards say
    StoredManagers, \* managers a company may have when its page is opened
    MaxContacts,  \* bound: contacts of the form
    MaxTyped,     \* bound: changes made to the form
    MaxRuns,      \* bound: times the save button is pressed
    MaxFaults     \* bound: calls that fail or whose answer is lost

Contact == [email : Emails \cup {Blank}, info : Infos \cup {Blank}]
FullContact == [email : Emails, info : Infos]
Kind == {"newCustomer", "newPartner", "editCustomer", "editPartner"}

\* Stored managers fit the form, and no two have an address in common.
ASSUME CompanyFormAssumption ==
    /\ Kinds \subseteq Kind /\ Typed \subseteq Contact /\ Cards \subseteq Contact
    /\ StoredManagers \subseteq Seq(FullContact)
    /\ \A rows \in StoredManagers :
         /\ Len(rows) <= MaxContacts
         /\ \A i, j \in DOMAIN rows : i # j => rows[i].email # rows[j].email
    /\ Blank \notin Emails \cup Infos
    /\ MaxContacts \in Nat \ {0} /\ MaxTyped \in Nat /\ MaxRuns \in Nat /\ MaxFaults \in Nat

VARIABLES
    company,     \* company[i]: row i of the company table
    manager,     \* manager[m]: row m of the manager table
    form,        \* the open page
    ocr,         \* the business card being read
    run,         \* run[r]: the r-th save
    badCalls     \* calls failed or unanswered so far

companyVars == <<company, manager, form, ocr, run, badCalls>>

Runs == 1..MaxRuns
EmptyContact == [email |-> Blank, info |-> Blank]
NoCard == [at |-> 0, contact |-> EmptyContact]

HasContactValue(contact) == contact # EmptyContact

\* Ids in ascending order: the k-th is the one that k of them do not exceed.
ById(ids) == [k \in 1..Cardinality(ids) |-> CHOOSE i \in ids : Cardinality({j \in ids : j <= i}) = k]

\* The contacts in which something was typed, in their order.
Filled(contacts) ==
    LET at == ById({i \in DOMAIN contacts : HasContactValue(contacts[i])}) IN
    [k \in DOMAIN at |-> contacts[at[k]]]

IsNew == form.kind \in {"newCustomer", "newPartner"}
ManagersOf(c) == {m \in DOMAIN manager : manager[m].company = c /\ manager[m].live}

-----------------------------------------------------------------------------
(* finding-backend.ts and the company endpoints.                           *)

Call(op, id, contact) == [op |-> op, id |-> id, contact |-> contact]
ThisCompany(op) == Call(op, 0, EmptyContact)

\* Mutant: the address of a deleted manager is free again.
EmailTaken_Live(email) == \E m \in DOMAIN manager : manager[m].email = email /\ manager[m].live

\* The e-mail column is unique, soft-deleted rows included.
EmailTaken(email) == \E m \in DOMAIN manager : manager[m].email = email
Missing(id) == id \notin DOMAIN manager \/ ~manager[id].live

Rejected(call) ==
    \/ call.op = "createManager" /\ EmailTaken(call.contact.email)
    \/ call.op \in {"updateManager", "deleteManager"} /\ Missing(call.id)

\* createBackendCompanyManager
CreateManager(c, contact) ==
    Append(manager, [company |-> c, email |-> contact.email, info |-> contact.info, live |-> TRUE])

\* updateBackendCompanyManager sends every field but the e-mail address.
UpdateManager(id, contact) == [manager EXCEPT ![id].info = contact.info]

DeleteManager(id) == [manager EXCEPT ![id].live = FALSE]

CompanyAfter(call, r) ==
    CASE call.op = "createCompany" -> Append(company, [name |-> run[r].name, live |-> TRUE])
      [] call.op = "updateCompany" -> [company EXCEPT ![run[r].company].name = run[r].name]
      [] call.op = "restoreCompany" -> [company EXCEPT ![run[r].company].name = form.original.name]
      [] call.op = "deleteCompany" -> [company EXCEPT ![run[r].company].live = FALSE]
      [] OTHER -> company

ManagersAfter(call, r) ==
    CASE call.op = "createManager" -> CreateManager(run[r].company, call.contact)
      [] call.op = "updateManager" -> UpdateManager(call.id, call.contact)
      [] call.op = "deleteManager" -> DeleteManager(call.id)
      [] OTHER -> manager

-----------------------------------------------------------------------------
(* The chains of calls.                                                    *)

CreateManagers(contacts) ==
    [i \in DOMAIN contacts |-> Call("createManager", 0, contacts[i])]

\* Mutant: managers left over stay.
SyncManagers_NoDelete(ids, contacts) ==
    [i \in DOMAIN contacts |-> IF i <= Len(ids) THEN Call("updateManager", ids[i], contacts[i])
                               ELSE Call("createManager", 0, contacts[i])]

\* syncBackendManagers: the i-th contact goes into the i-th manager by id, more
\* contacts become new managers, managers left over are deleted.
SyncManagers(ids, contacts) ==
    LET n == Len(contacts) m == Len(ids) IN
    [i \in 1..n |-> IF i <= m THEN Call("updateManager", ids[i], contacts[i])
                    ELSE Call("createManager", 0, contacts[i])]
      \o [i \in 1..(m - n) |-> Call("deleteManager", ids[n + i], EmptyContact)]

\* The customer page works on the managers it read when it was opened, the
\* partner page reads them again as the first call of the save.
Chain(contacts) ==
    CASE IsNew -> <<ThisCompany("createCompany")>> \o CreateManagers(contacts)
      [] form.kind = "editCustomer" ->
           <<ThisCompany("updateCompany")>> \o SyncManagers(form.existing, contacts)
      [] form.kind = "editPartner" ->
           <<ThisCompany("readManagers"), ThisCompany("updateCompany")>>

\* Mutant: a company whose managers could not be stored stays.
UndoNew_Nothing(c) == << >>

UndoNew(c) == IF c = 0 THEN << >> ELSE <<ThisCompany("deleteCompany")>>

UndoCustomerEdit ==
    <<ThisCompany("restoreCompany")>> \o SyncManagers(form.existing, form.original.contacts)

UndoPartnerEdit == <<ThisCompany("restoreCompany"), ThisCompany("readManagers")>>

Undo(c) ==
    CASE IsNew -> UndoNew(c)
      [] form.kind = "editCustomer" -> UndoCustomerEdit
      [] form.kind = "editPartner" -> UndoPartnerEdit

-----------------------------------------------------------------------------
(* The form.                                                               *)

\* A page for a new company can be filled in while its lists are still loading.
Editable == form.phase = "open" /\ (IsNew \/ form.loaded)
Typing == Editable /\ form.typed < MaxTyped
Submitting == \E r \in Runs : run[r].phase \in {"forward", "undo"}

\* The lists have arrived; the managers come in the order the table serves them,
\* which is any order.
Loaded(order) ==
    LET names == {company[i].name : i \in {j \in DOMAIN company : company[j].live}}
        contacts == [i \in DOMAIN order |-> [email |-> manager[order[i]].email,
                                              info |-> manager[order[i]].info]]
    IN
    /\ form.phase = "open" /\ ~form.loaded
    /\ form' = IF IsNew THEN [form EXCEPT !.loaded = TRUE, !.known = names]
               ELSE [form EXCEPT !.loaded = TRUE, !.known = names \ {company[1].name},
                                 !.name = company[1].name, !.contacts = contacts,
                                 !.original = [name |-> company[1].name, contacts |-> contacts],
                                 !.existing = ById(ManagersOf(1))]
    /\ UNCHANGED <<company, manager, ocr, run, badCalls>>

EditName(name) ==
    /\ Typing
    /\ form' = [form EXCEPT !.name = name, !.typed = @ + 1]
    /\ UNCHANGED <<company, manager, ocr, run, badCalls>>

AddContact ==
    /\ Typing /\ Len(form.contacts) < MaxContacts
    /\ form' = [form EXCEPT !.contacts = Append(@, EmptyContact), !.typed = @ + 1]
    /\ UNCHANGED <<company, manager, ocr, run, badCalls>>

EditContact(i, contact) ==
    /\ Typing
    /\ form' = [form EXCEPT !.contacts[i] = contact, !.typed = @ + 1]
    /\ UNCHANGED <<company, manager, ocr, run, badCalls>>

RemoveContact(i) ==
    /\ Typing
    /\ form' = [form EXCEPT !.contacts = RemoveAt(@, i), !.typed = @ + 1]
    /\ UNCHANGED <<company, manager, ocr, run, badCalls>>

\* handleBusinessCardFileChange keeps the contact as it was when it was called.
ReadCard(i) ==
    /\ Typing /\ ocr = NoCard
    /\ ocr' = [at |-> i, contact |-> form.contacts[i]]
    /\ form' = [form EXCEPT !.typed = @ + 1]
    /\ UNCHANGED <<company, manager, run, badCalls>>

\* keepExistingValue: what the card says wins, what it does not say stays.
KeepExisting(current, next) == IF next # Blank THEN next ELSE current

CardRead(found) ==
    LET next == [email |-> KeepExisting(ocr.contact.email, found.email),
                 info |-> KeepExisting(ocr.contact.info, found.info)]
    IN
    /\ ocr # NoCard /\ Editable
    /\ ocr' = NoCard
    /\ form' = IF ocr.at \in DOMAIN form.contacts /\ HasContactValue(next)
               THEN [form EXCEPT !.contacts[ocr.at] = next] ELSE form
    /\ UNCHANGED <<company, manager, run, badCalls>>

-----------------------------------------------------------------------------
(* Saving.                                                                 *)

\* validateManagerContacts: everybody has a name and an e-mail address of his own.
ValidContacts(contacts) ==
    /\ \A i \in DOMAIN contacts : Blank \notin {contacts[i].email, contacts[i].info}
    /\ \A i, j \in DOMAIN contacts : i # j => contacts[i].email # contacts[j].email

Start(kind) ==
    LET contacts == Filled(form.contacts) IN
    /\ Editable /\ form.kind = kind
    /\ contacts # << >> /\ ValidContacts(contacts)
    /\ form.name \in Names \ form.known
    /\ \E r \in Runs :
         /\ run[r].phase = "idle" /\ \A q \in 1..(r - 1) : run[q].phase # "idle"
         /\ run' = [q \in Runs |->
              CASE q = r -> [phase |-> "forward", name |-> form.name, contacts |-> contacts,
                             company |-> IF IsNew THEN 0 ELSE 1, calls |-> Chain(contacts),
                             alone |-> ~Submitting]
                [] run[q].phase \in {"forward", "undo"} -> [run[q] EXCEPT !.alone = FALSE]
                [] OTHER -> run[q]]
    /\ UNCHANGED <<company, manager, form, ocr, badCalls>>

\* Mutant: the button does not wait for the lists.
NewCustomerSubmit_NotLoaded == ~Submitting /\ Start("newCustomer")

\* The buttons: this one waits for the lists, which hold the names taken,
NewCustomerSubmit == form.loaded /\ ~Submitting /\ Start("newCustomer")
\* this one does not,
NewPartnerSubmit == ~Submitting /\ Start("newPartner")
EditCustomerSave == ~Submitting /\ Start("editCustomer")
\* and this one is never disabled.
EditPartnerSave == Start("editPartner")

Active(r) == run[r].phase \in {"forward", "undo"}
Due(r) == Head(run[r].calls)

\* What is left to do after the first call has succeeded.
Rest(r) ==
    IF Due(r).op # "readManagers" THEN Tail(run[r].calls)
    ELSE Tail(run[r].calls) \o
           SyncManagers(ById(ManagersOf(run[r].company)),
                        IF run[r].phase = "forward" THEN run[r].contacts
                        ELSE form.original.contacts)

\* The save is over: a page that has saved shows another one.
Finished(r, rest, c) ==
    /\ run' = [run EXCEPT ![r].calls = rest, ![r].company = c,
                          ![r].phase = IF rest # << >> THEN @
                                       ELSE IF @ = "forward" THEN "saved" ELSE "failed"]
    /\ form' = IF rest = << >> /\ run[r].phase = "forward"
               THEN [form EXCEPT !.phase = "left"] ELSE form

CallAnswered(r) ==
    /\ Active(r) /\ ~Rejected(Due(r))
    /\ company' = CompanyAfter(Due(r), r)
    /\ manager' = ManagersAfter(Due(r), r)
    /\ Finished(r, Rest(r), IF Due(r).op = "createCompany" THEN Len(company') ELSE run[r].company)
    /\ UNCHANGED <<ocr, badCalls>>

\* Mutant: nobody looks at the outcome of a call.
Caught_GoesOn(r) ==
    run' = [run EXCEPT ![r].calls = Tail(@),
                       ![r].phase = IF Len(run[r].calls) = 1 THEN "saved" ELSE @]

\* The catch block: undo, or give up when already undoing.
Caught(r) ==
    LET undo == IF run[r].phase = "undo" THEN << >> ELSE Undo(run[r].company) IN
    run' = [run EXCEPT ![r].calls = undo,
                       ![r].phase = IF undo = << >> THEN "failed" ELSE "undo"]

CallRefused(r) ==
    /\ Active(r) /\ Rejected(Due(r))
    /\ Caught(r)
    /\ UNCHANGED <<company, manager, form, ocr, badCalls>>

\* The call did not reach the server, or the server failed before it did anything.
CallFails(r) ==
    /\ Active(r) /\ badCalls < MaxFaults
    /\ badCalls' = badCalls + 1
    /\ Caught(r)
    /\ UNCHANGED <<company, manager, form, ocr>>

\* It did its work, but the answer never came.
AnswerLost(r) ==
    /\ Active(r) /\ ~Rejected(Due(r)) /\ badCalls < MaxFaults
    /\ badCalls' = badCalls + 1
    /\ company' = CompanyAfter(Due(r), r)
    /\ manager' = ManagersAfter(Due(r), r)
    /\ Caught(r)
    /\ UNCHANGED <<form, ocr>>

-----------------------------------------------------------------------------

NoRun == [phase |-> "idle", name |-> Blank, contacts |-> << >>, company |-> 0,
          calls |-> << >>, alone |-> TRUE]

\* One company with its managers.
CompanyInit ==
    \E name \in Names, kind \in Kinds, rows \in StoredManagers :
        /\ company = <<[name |-> name, live |-> TRUE]>>
        /\ manager = [i \in DOMAIN rows |-> [company |-> 1, email |-> rows[i].email,
                                             info |-> rows[i].info, live |-> TRUE]]
        /\ form = [kind |-> kind, phase |-> "open", loaded |-> FALSE, known |-> {},
                   typed |-> 0, name |-> Blank, contacts |-> <<EmptyContact>>,
                   original |-> [name |-> Blank, contacts |-> << >>], existing |-> << >>]
        /\ ocr = NoCard
        /\ run = [r \in Runs |-> NoRun]
        /\ badCalls = 0

CompanyNext ==
    \/ \E order \in SetToSeqs(ManagersOf(1)) : Loaded(order)
    \/ \E name \in Names : EditName(name)
    \/ AddContact
    \/ \E i \in DOMAIN form.contacts :
         ReadCard(i) \/ RemoveContact(i) \/ \E contact \in Typed : EditContact(i, contact)
    \/ \E found \in Cards : CardRead(found)
    \/ NewCustomerSubmit \/ NewPartnerSubmit \/ EditCustomerSave \/ EditPartnerSave
    \/ \E r \in Runs : CallAnswered(r) \/ CallRefused(r) \/ CallFails(r) \/ AnswerLost(r)

-----------------------------------------------------------------------------
(* Properties.                                                             *)

CallRow == [op : {"createCompany", "updateCompany", "restoreCompany", "deleteCompany",
                  "readManagers", "createManager", "updateManager", "deleteManager"},
            id : Nat, contact : Contact]

\* Every variable keeps its type, and no two managers ever share an e-mail address.
CompanyTypeOK ==
    /\ \A i \in DOMAIN company : company[i] \in [name : Names, live : BOOLEAN]
    /\ \A m \in DOMAIN manager :
         manager[m] \in [company : DOMAIN company, email : Emails, info : Infos, live : BOOLEAN]
    /\ \A m, k \in DOMAIN manager : m # k => manager[m].email # manager[k].email
    /\ form.contacts \in Seq(Contact) /\ form.known \subseteq Names
    /\ ocr \in [at : 0..MaxContacts, contact : Contact]
    /\ \A r \in Runs : run[r].contacts \in Seq(Contact) /\ run[r].calls \in Seq(CallRow)
    /\ badCalls \in 0..MaxFaults

JustSaved(r) == run[r].phase = "forward" /\ run'[r].phase = "saved"
People(ids) == [i \in DOMAIN ids |-> manager'[ids[i]].info]

\* When an edit reports success and no other save ran at the same time, the managers
\* of the company are, in the order of their ids, the people of the form and nobody
\* else, whatever an earlier failed attempt left behind on the partner page; on the
\* customer page, which works with the managers it once read, this is so for the
\* first attempt.
SavedMeansStored ==
    [][\A r \in Runs :
         (JustSaved(r) /\ run[r].alone /\ (form.kind = "editPartner" \/ (form.kind = "editCustomer" /\ r = 1)))
           => People(ById({m \in DOMAIN manager' : manager'[m].company = 1 /\ manager'[m].live}))
                = [i \in DOMAIN run[r].contacts |-> run[r].contacts[i].info]]_companyVars

\* A company that the page reports as registered has exactly the managers of the
\* form, with their addresses.
RegisteredComplete ==
    [][\A r \in Runs : (JustSaved(r) /\ IsNew) =>
         LET ids == ById({m \in DOMAIN manager' : manager'[m].company = run'[r].company}) IN
         [i \in DOMAIN ids |-> [email |-> manager'[ids[i]].email, info |-> manager'[ids[i]].info]]
           = run[r].contacts]_companyVars

\* However often registering fails and is tried again, the attempts leave no company
\* behind but the one reported as registered, unless a call was lost on the way.
NoRemains ==
    (badCalls = 0 /\ ~Submitting /\ IsNew) =>
        \A i \in DOMAIN company \ {1} :
            company[i].live => \E r \in Runs : run[r].phase = "saved" /\ run[r].company = i

\* A customer never gets the name of one that existed when the page was opened.
CustomerNameIsNew ==
    \A r \in Runs : (form.kind = "newCustomer" /\ run[r].phase # "idle") => run[r].name # company[1].name

=============================================================================
