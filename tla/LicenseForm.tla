---------------------------- MODULE LicenseForm ----------------------------
(***************************************************************************)
(* The request of licences (license-request-form.tsx, within               *)
(* app/contract/page.tsx): a customer, an opportunity of theirs and rows,  *)
(* each sent with a call of its own. The calls of one submission run at    *)
(* once (Promise.all): the first that fails makes the form usable again    *)
(* while the others go on, and the last that succeeds closes the form,     *)
(* whichever form is open by then.                                         *)
(*                                                                         *)
(* Left out: quantities and start dates, which a row must have before      *)
(* anything is sent, the end date and the remarks, which are not sent; the *)
(* lists of licences, and their approval.                                  *)
(***************************************************************************)
EXTENDS Integers, Sequences, FiniteSets

CONSTANTS
    LicCompanies,   \* customers
    LicModules,     \* the modules the form offers
    LicRegistered,  \* those among them the server has
    LicGroupOf,     \* LicGroupOf[m]: the product group of a module
    MaxLicRows,     \* bound: rows of a form
    MaxLicEdits,    \* bound: choices made in forms, rows removed
    MaxLicSends,    \* bound: submissions
    MaxLicFaults    \* bound: calls that fail without a reason of the server's

NoLicence == "none"
LicGroups == {LicGroupOf[m] : m \in LicModules}

ASSUME LicenseAssumption ==
    /\ NoLicence \notin LicCompanies \union LicModules \union LicGroups
    /\ LicRegistered \subseteq LicModules
    /\ {MaxLicRows, MaxLicEdits, MaxLicSends, MaxLicFaults} \subseteq Nat

VARIABLES
    licences,   \* the licences stored, in the order of their ids
    licForm,    \* the form of the contract page
    batches,    \* batches[b]: a submission
    licEdits, licFaults

licVars == <<licences, licForm, batches, licEdits, licFaults>>

\* The types the form offers, and those the server knows.
OfferedTypes == {"PERMANENT", "TRIAL"}
LicenseType == {"OFFICIAL", "TEMPORARY", "TRIAL"}

-----------------------------------------------------------------------------
(* The form. deal is the company of the opportunity chosen, number the     *)
(* module whose number a row has, batch the submission that runs.          *)

NoLicRow == [group |-> NoLicence, module |-> NoLicence, number |-> NoLicence, type |-> NoLicence]
BlankLicForm == [open |-> TRUE, products |-> FALSE, company |-> NoLicence, deal |-> NoLicence,
                 rows |-> <<NoLicRow>>, batch |-> 0]
NoLicForm == [BlankLicForm EXCEPT !.open = FALSE]

LicEdit == licForm.open /\ licEdits < MaxLicEdits /\ licEdits' = licEdits + 1
LicSame == UNCHANGED <<licences, batches, licFaults>>

OpenLicForm ==
    /\ ~licForm.open /\ licForm' = BlankLicForm
    /\ LicSame /\ UNCHANGED licEdits

\* Back to the list, or to another tab, also while a submission runs.
LeaveLicForm ==
    /\ licForm.open /\ licForm' = NoLicForm
    /\ LicSame /\ UNCHANGED licEdits

LicProductsArrive ==
    /\ licForm.open /\ ~licForm.products
    /\ licForm' = [licForm EXCEPT !.products = TRUE]
    /\ LicSame /\ UNCHANGED licEdits

\* Mutant: the opportunity chosen stays.
LicCompanyIs_KeepsDeal(form, c) == [form EXCEPT !.company = c]

\* handleCustomerSelect; none when the text is changed.
LicCompanyIs(form, c) == [form EXCEPT !.company = c, !.deal = NoLicence]

ChooseLicCompany(c) ==
    /\ LicEdit /\ licForm' = LicCompanyIs(licForm, c)
    /\ LicSame

\* An opportunity of the customer named, or none when the text is changed.
ChooseLicDeal(d) ==
    /\ LicEdit /\ licForm.company # NoLicence /\ d \in {licForm.company, NoLicence}
    /\ licForm' = [licForm EXCEPT !.deal = d]
    /\ LicSame

AddLicRow ==
    /\ licForm.open /\ Len(licForm.rows) < MaxLicRows
    /\ licForm' = [licForm EXCEPT !.rows = Append(@, NoLicRow)]
    /\ LicSame /\ UNCHANGED licEdits

RemoveLicRow(i) ==
    /\ LicEdit /\ Len(licForm.rows) > 1
    /\ licForm' = [licForm EXCEPT !.rows = SubSeq(@, 1, i - 1) \o SubSeq(@, i + 1, Len(@))]
    /\ LicSame

\* Mutant: the number of the module chosen before stays.
LicGroupIs_KeepsNumber(row, g) == [row EXCEPT !.group = g, !.module = NoLicence]

\* handleModuleChange: another group has other modules.
LicGroupIs(row, g) == [row EXCEPT !.group = g, !.module = NoLicence, !.number = NoLicence]

ChooseLicGroup(i, g) ==
    /\ LicEdit /\ licForm.rows[i].group # g
    /\ licForm' = [licForm EXCEPT !.rows[i] = LicGroupIs(@, g)]
    /\ LicSame

\* A module of the group; its number is found among the products, once they have been read.
ChooseLicModule(i, m) ==
    /\ LicEdit /\ licForm.rows[i].group = LicGroupOf[m]
    /\ licForm' = [licForm EXCEPT !.rows[i].module = m,
                    !.rows[i].number = IF licForm.products /\ m \in LicRegistered THEN m ELSE NoLicence]
    /\ LicSame

ChooseLicType(i, t) ==
    /\ LicEdit /\ licForm.rows[i].type # t
    /\ licForm' = [licForm EXCEPT !.rows[i].type = t]
    /\ LicSame

-----------------------------------------------------------------------------
(* Submissions.                                                            *)

\* validModules: rows without a number or a type are left out without a word.
ValidLicRows == {i \in 1..Len(licForm.rows) : NoLicence \notin {licForm.rows[i].number, licForm.rows[i].type}}

LicPayload(row) == [company |-> licForm.company, module |-> row.number, type |-> row.type]

\* handleSubmit.
SendLicences ==
    /\ licForm.open /\ licForm.batch = 0 /\ Len(batches) < MaxLicSends
    /\ NoLicence \notin {licForm.company, licForm.deal} /\ ValidLicRows # {}
    /\ batches' = Append(batches,
         [sent |-> [i \in ValidLicRows |-> LicPayload(licForm.rows[i])], out |-> ValidLicRows, state |-> "runs"])
    /\ licForm' = [licForm EXCEPT !.batch = Len(batches')]
    /\ UNCHANGED <<licences, licEdits, licFaults>>

\* Mutant: a submission has succeeded when one of its calls has.
Outcome_First(batch, failed) == IF failed THEN "failed" ELSE "done"

\* Promise.all: done when all of its calls are, failed with the first that fails.
Outcome(batch, failed) == IF failed THEN "failed" ELSE IF batch.out = {} THEN "done" ELSE "runs"

\* create, and its answer: a type the server does not know is refused, and the call or its answer
\* may be lost. A submission that fails enables the button of its form again; one that is done
\* closes the form that is open.
LicAnswered(b, i, how) ==
    LET call == batches[b].sent[i]
        refused == call.type \notin LicenseType
        left == [batches[b] EXCEPT !.out = @ \ {i}]
        ends == IF left.state = "runs" THEN Outcome(left, refused \/ how # "stored") ELSE "ended" IN
    /\ i \in batches[b].out
    /\ IF how = "stored" THEN UNCHANGED licFaults
       ELSE ~refused /\ licFaults < MaxLicFaults /\ licFaults' = licFaults + 1
    /\ licences' = IF refused \/ how = "lost" THEN licences ELSE Append(licences, call)
    /\ batches' = [batches EXCEPT ![b] = IF ends = "ended" THEN left ELSE [left EXCEPT !.state = ends]]
    /\ licForm' = IF ends = "done" THEN NoLicForm
                  ELSE IF ends = "failed" /\ licForm.batch = b THEN [licForm EXCEPT !.batch = 0] ELSE licForm
    /\ UNCHANGED licEdits

-----------------------------------------------------------------------------

LicInit == licences = << >> /\ licForm = NoLicForm /\ batches = << >> /\ licEdits = 0 /\ licFaults = 0

LicNext ==
    \/ OpenLicForm \/ LeaveLicForm \/ LicProductsArrive \/ AddLicRow \/ SendLicences
    \/ \E c \in LicCompanies \union {NoLicence} : ChooseLicCompany(c) \/ ChooseLicDeal(c)
    \/ \E i \in 1..Len(licForm.rows) :
         \/ RemoveLicRow(i)
         \/ \E g \in LicGroups : ChooseLicGroup(i, g)
         \/ \E m \in LicModules : ChooseLicModule(i, m)
         \/ \E t \in OfferedTypes : ChooseLicType(i, t)
    \/ \E b \in 1..Len(batches), i \in 1..MaxLicRows, how \in {"stored", "lost", "unheard"} : LicAnswered(b, i, how)

-----------------------------------------------------------------------------
(* Properties.                                                             *)

\* The number a row is sent with is that of the module it shows, in the group it shows, however
\* group and module were changed and whenever the products arrived.
NumberOfModule ==
    \A i \in 1..Len(licForm.rows) :
      LET row == licForm.rows[i] IN
      row.number # NoLicence => row.number = row.module /\ row.group = LicGroupOf[row.module]

\* The opportunity the form shows is one of the customer it shows.
DealOfLicCompany == licForm.deal \in {licForm.company, NoLicence}

\* The licences of every submission that was reported as done are stored, each as often as it was
\* asked for, whatever failed in the submissions before and went on beside it.
RequestedAllStored ==
    \A k \in 1..Len(batches) : \A n \in DOMAIN batches[k].sent :
      LET call == batches[k].sent[n]
          asks(c) == batches[c[1]].state = "done" /\ c[2] \in DOMAIN batches[c[1]].sent /\ batches[c[1]].sent[c[2]] = call IN
      Cardinality({c \in (1..Len(batches)) \X (1..MaxLicRows) : asks(c)})
         <= Cardinality({l \in 1..Len(licences) : licences[l] = call})

=============================================================================
