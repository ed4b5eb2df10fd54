------------------------------ MODULE PrbForm ------------------------------
(***************************************************************************)
(* Writing a PRB report: prb-registration-form.tsx and prb-backend.ts.     *)
(*                                                                         *)
(* The page opens on a new report, on a stored one, or on a copy of a      *)
(* stored one. The record comes three times: from the browser's cache, with *)
(* the list, which replaces the cache and announces it, and by itself.     *)
(* Versions kept by the server may be looked at in the same form. The four *)
(* rows of services and the purchased products travel in one list that is  *)
(* cut again after its fifth entry.                                        *)
(***************************************************************************)
EXTENDS Naturals, Sequences, FiniteSets

CONSTANTS
    OpportunityNamed, \* OpportunityNamed[o]: name of the o-th opportunity listed
    Users,            \* users that may represent sales or review
    Purchases,        \* names of purchased products
    Opinions,         \* texts of the sales representative
    StoredPrbs,       \* the report stored at first, with its versions
    MaxPrbChanges,    \* bound: changes made in a form of each kind
    MaxPrbSends,      \* bound: times it is sent
    MaxPrbFaults      \* bound: calls that fail or whose answer is lost

NoPurchase == "blank"
Subtotal == "subtotal"
NoRow == "none"
NoOpportunity == 0
NoUser == "nobody"

\* The rows of products the form shows.
ProductRows == 1..2

\* A row of the prb table; the products of a report are no more than the form shows.
PrbVersionRow == [opp : DOMAIN OpportunityNamed, rep : Users, products : Seq(Purchases), opinion : Opinions]
PrbRow == [opp : DOMAIN OpportunityNamed, rep : Users, reviewer : Users, products : Seq(Purchases), opinion : Opinions,
           live : BOOLEAN, status : {"draft", "approved"}, versions : Seq(PrbVersionRow)]

ASSUME PrbAssumption ==
    /\ {NoPurchase, Subtotal, NoRow} \cap Purchases = {}
    /\ NoUser \notin Users /\ "none" \in Opinions
    /\ StoredPrbs \subseteq Seq(PrbRow)
    /\ \A rows \in StoredPrbs : \A r \in DOMAIN rows : Len(rows[r].products) <= 3
    /\ MaxPrbChanges \in [{"new", "edit", "clone"} -> Nat]
    /\ MaxPrbSends \in Nat /\ MaxPrbFaults \in Nat

VARIABLES
    prb,       \* prb[r]: row r of the prb table, with its versions
    prbForm,   \* the open form
    prbReads,  \* answers under way
    prbSend,   \* prbSend[s]: the s-th time the form was sent
    prbFaults  \* calls failed or unanswered so far

prbVars == <<prb, prbForm, prbReads, prbSend, prbFaults>>

PrbSends == 1..MaxPrbSends

-----------------------------------------------------------------------------
(* Filling the form.                                                       *)

Blanks == [i \in ProductRows |-> NoPurchase]

\* Mutant: the first product is shown with the products too.
ShownProducts_All(products) ==
    [i \in ProductRows |-> IF i <= Len(products) THEN products[i] ELSE NoPurchase]

\* cloneForm: the first five entries are shown as services. The server keeps four
\* services, so the first product is shown, and sent, as the fifth.
FifthService(products) == IF products = << >> THEN NoRow ELSE products[1]
ShownProducts(products) ==
    [i \in ProductRows |-> IF i < Len(products) THEN products[i + 1] ELSE NoPurchase]

\* mapBackendPrbRecord: the reviewer is read as the name of the sales representative.
FilledFrom(form, d) ==
    [form EXCEPT !.opp = d.opp, !.rep = d.rep, !.reviewer = d.rep, !.opinion = d.opinion,
       !.fifth = FifthService(d.products), !.products = ShownProducts(d.products),
       !.typed = FALSE, !.old = FALSE]

Content(d) == [opp |-> d.opp, products |-> d.products, opinion |-> d.opinion]

\* applyRecord: the record becomes the source of the form, which is filled from it.
Applied(form, row) == [FilledFrom(form, row) EXCEPT !.source = {row}]

\* The entries of a list that name a product, in their order.
Purchased(list) ==
    LET at == {i \in DOMAIN list : list[i] \in Purchases} IN
    [k \in 1..Cardinality(at) |-> list[CHOOSE i \in at : Cardinality({j \in at : j <= i}) = k]]

\* The products named in the form, the fifth service included.
Named(form) == Purchased(<<form.fifth>> \o form.products)

Shown(form) == [opp |-> form.opp, products |-> Named(form), opinion |-> form.opinion]

-----------------------------------------------------------------------------
(* Arrivals.                                                               *)

\* loadBackendPrbs: the server reads the list ...
PrbListRead ==
    /\ prbReads.list = "sent"
    /\ prbReads' = [prbReads EXCEPT !.list = "read", !.rows = {prb[r] : r \in {q \in DOMAIN prb : q = 1 /\ prb[q].live}}]
    /\ UNCHANGED <<prb, prbForm, prbSend, prbFaults>>

\* ... and the page gets it: replacePrbs announces the new cache, sync fills the form
\* from it, the version selected is loaded again because the source is new, and, the
\* first time, the record itself is asked for.
PrbListArrives ==
    /\ prbReads.list = "read" /\ prbForm.phase = "open"
    /\ prbReads' = [prbReads EXCEPT !.list = "done", !.rows = {},
                      !.version = IF prbReads.rows # {} THEN prbForm.version ELSE @,
                      !.record = IF prbForm.kind # "new" /\ @ = "idle" THEN "sent" ELSE @]
    /\ \/ /\ prbForm.kind = "new" \/ prbReads.rows = {}
          /\ UNCHANGED prbForm
       \/ /\ prbForm.kind # "new"
          /\ \E row \in prbReads.rows :
                prbForm' = [Applied(prbForm, row) EXCEPT !.overtaken = Content(row) # Content(prb[1])]
    /\ UNCHANGED <<prb, prbSend, prbFaults>>

\* Without the list the record is not asked for.
PrbListFails ==
    /\ prbReads.list = "sent" /\ prbFaults < MaxPrbFaults
    /\ prbFaults' = prbFaults + 1
    /\ prbReads' = [prbReads EXCEPT !.list = "done"]
    /\ UNCHANGED <<prb, prbForm, prbSend>>

\* loadBackendPrbDetailById.
PrbRecordArrives ==
    /\ prbReads.record = "sent" /\ prbForm.phase = "open" /\ prb[1].live
    /\ prbForm' = [Applied(prbForm, prb[1]) EXCEPT !.loaded = TRUE, !.overtaken = FALSE]
    /\ prbReads' = [prbReads EXCEPT !.record = "done", !.version = prbForm.version]
    /\ UNCHANGED <<prb, prbSend, prbFaults>>

\* The approval panel loads the list again after each decision.
RefreshPrb ==
    /\ prbForm.kind = "edit" /\ prbForm.phase = "open"
    /\ prbReads.list = "done" /\ ~prbReads.again
    /\ prbReads' = [prbReads EXCEPT !.list = "sent", !.again = TRUE]
    /\ UNCHANGED <<prb, prbForm, prbSend, prbFaults>>

-----------------------------------------------------------------------------
(* Versions.                                                               *)

OpenVersion(v) ==
    /\ prbForm.kind = "edit" /\ prbForm.phase = "open"
    /\ v \in DOMAIN prb[1].versions /\ v # prbForm.version
    /\ prbForm' = [prbForm EXCEPT !.version = v]
    /\ prbReads' = [prbReads EXCEPT !.version = v]
    /\ UNCHANGED <<prb, prbSend, prbFaults>>

\* loadBackendPrbHistoryRecord; when it fails the form keeps what it shows. The
\* request of a version no longer selected is cancelled.
VersionArrives ==
    LET v == prbReads.version IN
    /\ v # 0 /\ prbForm.phase = "open"
    /\ prbReads' = [prbReads EXCEPT !.version = 0]
    /\ \/ /\ prbForm' = [FilledFrom(prbForm, prb[1].versions[v]) EXCEPT !.detail = v, !.old = TRUE]
          /\ UNCHANGED prbFaults
       \/ /\ prbFaults < MaxPrbFaults /\ prbFaults' = prbFaults + 1
          /\ prbForm' = [prbForm EXCEPT !.detail = 0, !.broken = @ \/ prbForm.old]
    /\ UNCHANGED <<prb, prbSend>>

\* Back to the version in force; the button is shown once a version has arrived.
CloseVersion ==
    /\ prbForm.detail # 0 /\ prbForm.phase = "open"
    /\ \E row \in prbForm.source :
         prbForm' = [FilledFrom(prbForm, row) EXCEPT !.version = 0, !.detail = 0]
    /\ prbReads' = [prbReads EXCEPT !.version = 0]
    /\ UNCHANGED <<prb, prbSend, prbFaults>>

-----------------------------------------------------------------------------
(* Changes.                                                                *)

ChangePrb(next) ==
    /\ prbForm.phase = "open" /\ prbForm.changes < MaxPrbChanges[prbForm.kind]
    /\ prbForm' = [next EXCEPT !.changes = @ + 1, !.typed = TRUE]
    /\ UNCHANGED <<prb, prbReads, prbSend, prbFaults>>

\* handleOpportunitySelection.
ChoosePrbOpportunity(o) == o # prbForm.opp /\ ChangePrb([prbForm EXCEPT !.opp = o])

\* The picker of the reviewer, and that of the sales representative.
ChooseReviewer(u) == u # prbForm.reviewer /\ ChangePrb([prbForm EXCEPT !.reviewer = u])
ChooseRepresentative(u) == u # prbForm.rep /\ ChangePrb([prbForm EXCEPT !.rep = u])

\* updateRows: a product is typed in a row of the form.
TypeProduct(i, name) == name # prbForm.products[i] /\ ChangePrb([prbForm EXCEPT !.products[i] = name])

\* updateFormData.
TypeOpinion(text) == text # prbForm.opinion /\ ChangePrb([prbForm EXCEPT !.opinion = text])

-----------------------------------------------------------------------------
(* Sending it.                                                             *)

\* Mutant: products are cut from the sixth entry on, services after the fourth.
FifthSent_Dropped(form) == Subtotal

\* buildCreateRequest: the fifth entry goes with the services, whether it is the
\* subtotal of a new form, the first product read, or the first row of products.
FifthSent(form) == IF form.fifth = NoRow THEN form.products[1] ELSE form.fifth
ProductsSent(form) ==
    Purchased(IF form.fifth = NoRow THEN Tail(form.products) ELSE form.products)

\* resolveProjectOpportunityId: the first of that code or of that name.
OpportunitiesSent(form) ==
    LET same == {o \in DOMAIN OpportunityNamed :
            form.opp # NoOpportunity /\ (o = form.opp \/ OpportunityNamed[o] = OpportunityNamed[form.opp])} IN
    {o \in same : \A q \in same : o <= q}

\* Mutant: the buttons stay while a version is shown.
PrbButtons_Always == prbForm.phase = "open"

\* The buttons are there unless a version has arrived.
PrbButtons == prbForm.phase = "open" /\ prbForm.detail = 0

NoPrbSend == [phase |-> "idle", payload |-> {}, shown |-> {}]

\* persist: nothing is sent without a reviewer, or when the opportunity is not found.
Persist(s, status) ==
    /\ prbSend[s].phase = "idle" /\ \A q \in 1..(s - 1) : prbSend[q].phase # "idle"
    /\ prbForm.reviewer # NoUser
    /\ OpportunitiesSent(prbForm) # {}
    /\ prbSend' = [prbSend EXCEPT ![s] =
         [phase |-> "sent", shown |-> {Shown(prbForm)},
          payload |-> {[opp |-> o, rep |-> prbForm.rep, reviewer |-> prbForm.reviewer, fifth |-> FifthSent(prbForm),
                        products |-> ProductsSent(prbForm), opinion |-> prbForm.opinion] : o \in OpportunitiesSent(prbForm)}]]
    /\ UNCHANGED <<prb, prbForm, prbReads, prbFaults>>

OpensCopy == prbForm.kind = "edit" /\ \E row \in prbForm.source : row.status = "approved"

\* handleDraft: an approved report is not changed, a copy of it is opened.
DraftPrb(s) ==
    /\ PrbButtons
    /\ \/ OpensCopy /\ prbForm' = [prbForm EXCEPT !.phase = "left"]
          /\ UNCHANGED <<prb, prbReads, prbSend, prbFaults>>
       \/ ~OpensCopy /\ Persist(s, "draft")

\* handleComplete asks for a customer and an opportunity, and does not look at the status.
CompletePrb(s) ==
    /\ PrbButtons /\ prbForm.opp # NoOpportunity
    /\ Persist(s, "complete")

\* Mutant: a report without a sales representative is accepted.
PrbRefused_Anyone(p) == p.fifth \in Purchases \/ (prbForm.kind = "edit" /\ ~prb[1].live)

\* The grade of a service is a name of an enumeration, so a named product in its place
\* is refused, as is a missing sales representative.
PrbRefused(p) ==
    \/ p.fifth \in Purchases \/ p.rep = NoUser
    \/ prbForm.kind = "edit" /\ ~prb[1].live

\* createPrb, or updatePrb, which keeps the former content as a version.
PrbWritten(p) ==
    LET Row(status, versions) == [opp |-> p.opp, rep |-> p.rep, reviewer |-> p.reviewer, products |-> p.products,
                                  opinion |-> p.opinion, live |-> TRUE, status |-> status, versions |-> versions] IN
    IF prbForm.kind = "edit"
    THEN [prb EXCEPT ![1] = Row(@.status, Append(@.versions,
            [opp |-> @.opp, rep |-> @.rep, products |-> @.products, opinion |-> @.opinion]))]
    ELSE Append(prb, Row("draft", << >>))

\* saveBackendPrb. An edit loads the record again, and shows it.
PrbAnswered(s) ==
    /\ prbSend[s].phase = "sent" /\ prbForm.phase = "open"
    /\ \E p \in prbSend[s].payload :
         \/ /\ ~PrbRefused(p) /\ prb' = PrbWritten(p)
            /\ prbSend' = [prbSend EXCEPT ![s] = [NoPrbSend EXCEPT !.phase = "saved"]]
            /\ prbReads' = [prbReads EXCEPT !.version = 0]
            /\ \/ /\ prbForm.kind = "edit"
                  /\ prbForm' = [Applied(prbForm, prb'[1]) EXCEPT !.version = 0, !.detail = 0, !.overtaken = FALSE]
               \/ /\ prbForm.kind # "edit"
                  /\ prbForm' = [prbForm EXCEPT !.phase = "left"]
            /\ UNCHANGED prbFaults
         \/ /\ PrbRefused(p)
            /\ prbSend' = [prbSend EXCEPT ![s] = [NoPrbSend EXCEPT !.phase = "failed"]]
            /\ UNCHANGED <<prb, prbForm, prbReads, prbFaults>>
         \/ /\ prbFaults < MaxPrbFaults /\ prbFaults' = prbFaults + 1
            /\ UNCHANGED prb \/ (~PrbRefused(p) /\ prb' = PrbWritten(p))
            /\ prbSend' = [prbSend EXCEPT ![s] = [NoPrbSend EXCEPT !.phase = "failed"]]
            /\ UNCHANGED prbReads
            /\ prbForm' = [prbForm EXCEPT !.overtaken = @ \/ prb' # prb]

\* handleDelete.
DeletePrb ==
    /\ PrbButtons /\ prbForm.kind = "edit" /\ prb[1].live
    /\ prb' = [prb EXCEPT ![1].live = FALSE]
    /\ prbForm' = [prbForm EXCEPT !.phase = "left"]
    /\ UNCHANGED <<prbReads, prbSend, prbFaults>>

\* The last approver, in another session.
ApprovePrb ==
    /\ prb # << >> /\ prb[1].live /\ prb[1].status = "draft" /\ prbForm.phase = "open"
    /\ prb' = [prb EXCEPT ![1].status = "approved"]
    /\ UNCHANGED <<prbForm, prbReads, prbSend, prbFaults>>

-----------------------------------------------------------------------------

\* The cache may hold the report as an earlier list gave it.
PrbInit ==
    \E kind \in {"new", "edit", "clone"}, rows \in StoredPrbs :
      LET form == [kind |-> kind, phase |-> "open", source |-> {}, opp |-> NoOpportunity, rep |-> NoUser,
                   reviewer |-> NoUser, opinion |-> "none", fifth |-> Subtotal, products |-> Blanks,
                   version |-> 0, detail |-> 0, old |-> FALSE, broken |-> FALSE, typed |-> FALSE,
                   loaded |-> FALSE, overtaken |-> FALSE, changes |-> 0] IN
      /\ kind # "new" <=> rows # << >>
      /\ prb = rows
      \* sync, when the page opens.
      /\ \/ prbForm \in {form} \cup {Applied(form, rows[r]) : r \in DOMAIN rows}
         \* A draft of the chatbot fills a new form.
         \/ kind = "new" /\ \E o \in DOMAIN OpportunityNamed, u \in Users : prbForm = [form EXCEPT !.opp = o, !.rep = u]
      /\ prbReads = [list |-> "sent", rows |-> {}, record |-> "idle", version |-> 0, again |-> FALSE]
      /\ prbSend = [s \in PrbSends |-> NoPrbSend]
      /\ prbFaults = 0

PrbNext ==
    \/ PrbListRead \/ PrbListArrives \/ PrbListFails \/ PrbRecordArrives \/ RefreshPrb
    \/ \E v \in 1..(MaxPrbSends + 2) : prb # << >> /\ OpenVersion(v)
    \/ VersionArrives \/ CloseVersion
    \/ \E o \in DOMAIN OpportunityNamed : ChoosePrbOpportunity(o)
    \/ \E u \in Users : ChooseReviewer(u) \/ ChooseRepresentative(u)
    \/ \E i \in ProductRows, name \in Purchases : TypeProduct(i, name)
    \/ \E text \in Opinions : TypeOpinion(text)
    \/ \E s \in PrbSends : DraftPrb(s) \/ CompletePrb(s) \/ PrbAnswered(s)
    \/ DeletePrb \/ ApprovePrb

-----------------------------------------------------------------------------
(* Properties.                                                             *)

OpportunityShared(o) == \E q \in DOMAIN OpportunityNamed : q # o /\ OpportunityNamed[q] = OpportunityNamed[o]

\* Every variable keeps its type; no stored report lacks a sales representative or a
\* reviewer, however the form was filled; a version shown is one of the report.
PrbTypeOK ==
    /\ \A r \in DOMAIN prb :
         /\ prb[r].opp \in DOMAIN OpportunityNamed /\ prb[r].rep \in Users /\ prb[r].reviewer \in Users
         /\ prb[r].products \in Seq(Purchases) /\ prb[r].opinion \in Opinions
    /\ prbFaults \in 0..MaxPrbFaults /\ prbForm.changes \in 0..MaxPrbChanges[prbForm.kind]
    /\ prbForm.kind = "edit" => prbForm.detail \in {0} \cup DOMAIN prb[1].versions

\* The content of an old version is not sent in place of the one in force, unless a
\* second version failed to load while the first was shown.
OldVersionNotSent ==
    [][\A s \in PrbSends : (prbSend[s].phase = "idle" /\ prbSend'[s].phase = "sent")
         => ~prbForm.old \/ prbForm.broken]_prbVars

\* A report reported as saved has the opportunity shown, unless another has its name,
\* and just the products named in the form, in their order.
PrbStoredAsShown ==
    [][\A s \in PrbSends : (prbSend[s].phase = "sent" /\ prbSend'[s].phase = "saved") =>
         \E shown \in prbSend[s].shown :
            LET row == prb'[IF prbForm.kind = "edit" THEN 1 ELSE Len(prb')] IN
            /\ row.products = shown.products /\ row.opinion = shown.opinion
            /\ row.opp = shown.opp \/ OpportunityShared(shown.opp)]_prbVars

\* Once the report has arrived, a form nobody typed in shows what is stored, after saves
\* and versions looked at too, unless a list read before a save arrived after it.
PrbShowsStored ==
    (prbForm.kind = "edit" /\ prbForm.phase = "open" /\ prbForm.loaded /\ prb[1].live
       /\ ~prbForm.typed /\ ~prbForm.old /\ ~prbForm.overtaken)
      => Shown(prbForm) = Content(prb[1])

=============================================================================
