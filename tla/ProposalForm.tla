---------------------------- MODULE ProposalForm ----------------------------
(***************************************************************************)
(* Proposals: proposal-registration-form.tsx, proposal-detail-page.tsx and *)
(* proposal-backend.ts.                                                    *)
(*                                                                         *)
(* Choosing an activity request asks the server for the fields of the form *)
(* and only the answer to the newest choice is used. A new proposal is     *)
(* stored in several calls: the files, the proposal, its completion, and   *)
(* the deletion of the proposal when the completion fails.                 *)
(***************************************************************************)
EXTENDS Naturals, Sequences, FiniteSets

CONSTANTS
    RequestOf,      \* RequestOf[r]: activity request r, [opp, customer, type]
    StoredProposals,\* the proposal tables there may be at first
    MaxFiles,       \* bound: files chosen at a time
    MaxChoices,     \* bound: requests chosen in the form
    MaxSends,       \* bound: times the form is sent
    MaxDown         \* bound: calls that fail or whose answer is lost

Requests == DOMAIN RequestOf
Opportunities == {RequestOf[r].opp : r \in Requests}
Sends == 1..MaxSends
NoRequest == 0

VARIABLES
    proposal,     \* proposal[p]: row p of the proposal table
    uploads,      \* rows of the upload_file table so far
    propForm,     \* the open form
    prefills,     \* prefill calls under way: the choices they were made for
    send,         \* send[s]: the s-th time the form was sent
    down          \* calls failed or unanswered so far

propVars == <<proposal, uploads, propForm, prefills, send, down>>

ProposalRow == [opp : Opportunities, request : {NoRequest} \cup Requests, files : SUBSET Nat,
                completed : BOOLEAN, live : BOOLEAN]

\* What was stored before has finitely many files, and is completed only with some.
ASSUME ProposalAssumption ==
    /\ StoredProposals \subseteq Seq(ProposalRow)
    /\ \A rows \in StoredProposals : \A p \in DOMAIN rows :
         IsFiniteSet(rows[p].files) /\ (rows[p].completed => rows[p].files # {})
    /\ {MaxFiles, MaxChoices, MaxSends, MaxDown} \subseteq Nat

Live(p) == proposal[p].live

\* The customer and the opportunity of a request, by code or by name.
OpportunityOfRequest(r) == RequestOf[r].opp

-----------------------------------------------------------------------------
(* The form.                                                               *)

\* completedRequestIds: a proposal takes the first request of its type that has its
\* customer or its opportunity, not the request it was made for.
Answers(r, p) ==
    LET made == CHOOSE q \in Requests : RequestOf[q].opp = proposal[p].opp IN
    /\ RequestOf[r].type = RequestOf[made].type
    /\ RequestOf[r].customer = RequestOf[made].customer \/ RequestOf[r].opp = proposal[p].opp

TakenRequests ==
    {r \in Requests : \E p \in DOMAIN proposal :
        Live(p) /\ Answers(r, p) /\ \A q \in Requests : Answers(q, p) => r <= q}

Offered == {r \in Requests : r \notin propForm.taken \/ r = propForm.own}

\* The lists of requests and of proposals have arrived.
ProposalListed ==
    /\ propForm.phase = "open" /\ ~propForm.listed
    /\ propForm' = [propForm EXCEPT !.listed = TRUE, !.taken = TakenRequests]
    /\ UNCHANGED <<proposal, uploads, prefills, send, down>>

\* handleRequestChange, hydrateRequestSelection: the choice gets the next token.
ChooseRequest(r) ==
    /\ propForm.phase = "open" /\ propForm.listed /\ r \in Offered
    /\ propForm.chosen < MaxChoices
    /\ propForm' = [propForm EXCEPT !.chosen = @ + 1, !.newest = r]
    /\ prefills' = prefills \cup {<<propForm.chosen + 1, r>>}
    /\ UNCHANGED <<proposal, uploads, send, down>>

\* The form opened from a request that has a proposal already: only its id is shown.
OpenTakenRequest(r) ==
    /\ propForm.phase = "open" /\ propForm.listed /\ propForm.kind = "new"
    /\ propForm.chosen = 0 /\ r \notin Offered
    /\ propForm' = [propForm EXCEPT !.request = r]
    /\ UNCHANGED <<proposal, uploads, prefills, send, down>>

\* Mutant: every answer is used, in the order of arrival.
Newest_Any(choice) == TRUE
Newest(choice) == choice[1] = propForm.chosen

\* applyRequestPrefill; applyRequestFallback when the call failed.
PrefillArrives(choice) ==
    /\ choice \in prefills /\ propForm.phase = "open"
    /\ prefills' = prefills \ {choice}
    /\ propForm' = IF Newest(choice)
                   THEN [propForm EXCEPT !.request = choice[2], !.opp = OpportunityOfRequest(choice[2])]
                   ELSE propForm
    /\ UNCHANGED <<proposal, uploads, send, down>>

\* The proposal edited, once; it also drops the files chosen meanwhile.
ProposalArrives ==
    /\ propForm.phase = "open" /\ propForm.kind = "edit" /\ propForm.detail = "awaited"
    /\ \/ /\ Live(1)
          /\ propForm' = [propForm EXCEPT !.detail = "shown", !.request = proposal[1].request,
                            !.own = proposal[1].request, !.opp = proposal[1].opp,
                            !.stored = proposal[1].files, !.files = 0]
          /\ UNCHANGED down
       \/ /\ down < MaxDown /\ down' = down + 1
          /\ propForm' = [propForm EXCEPT !.detail = "failed"]
    /\ UNCHANGED <<proposal, uploads, prefills, send>>

ChooseFile ==
    /\ propForm.phase = "open" /\ propForm.files < MaxFiles
    /\ propForm' = [propForm EXCEPT !.files = @ + 1]
    /\ UNCHANGED <<proposal, uploads, prefills, send, down>>

RemoveFile ==
    /\ propForm.phase = "open" /\ propForm.files > 0
    /\ propForm' = [propForm EXCEPT !.files = @ - 1]
    /\ UNCHANGED <<proposal, uploads, prefills, send, down>>

-----------------------------------------------------------------------------
(* Sending it.                                                             *)

NoSend == [phase |-> "idle", opp |-> 0, request |-> 0, kept |-> {}, blind |-> FALSE, files |-> 0,
           sent |-> {}, row |-> 0, spoilt |-> FALSE]

\* Mutant: the files stored before are not sent along.
KeptFiles_None == {}
\* existingFileIds: none while the proposal edited has not arrived.
KeptFiles == propForm.stored

\* handleComplete: nothing keeps the button from being pressed again.
CompleteProposal(s) ==
    /\ propForm.phase = "open" /\ propForm.opp # 0
    /\ send[s].phase = "idle" /\ \A r \in 1..(s - 1) : send[r].phase # "idle"
    /\ send' = [send EXCEPT ![s] =
         [NoSend EXCEPT !.phase = "uploading", !.opp = propForm.opp, !.request = propForm.request,
            !.kept = KeptFiles, !.blind = propForm.kind = "edit" /\ propForm.detail # "shown",
            !.files = propForm.files]]
    /\ UNCHANGED <<proposal, uploads, propForm, prefills, down>>

SendFails(s, phase) ==
    /\ down < MaxDown /\ down' = down + 1
    /\ send' = [send EXCEPT ![s].phase = phase]
    /\ UNCHANGED <<uploads, propForm, prefills>>

\* uploadProposalFiles: all of them or none; what was uploaded stays.
FileUploaded(s) ==
    /\ send[s].phase = "uploading" /\ Cardinality(send[s].sent) < send[s].files
    /\ \/ /\ uploads' = uploads + 1
          /\ send' = [send EXCEPT ![s].sent = @ \cup {uploads + 1}]
          /\ UNCHANGED <<propForm, prefills, down>>
       \/ SendFails(s, "failed")
    /\ UNCHANGED proposal

Sendable(s) == send[s].phase = "uploading" /\ Cardinality(send[s].sent) = send[s].files
FileIds(s) == send[s].kept \cup send[s].sent

\* existsByProjectOpportunityId sees the rows alive, the unique columns every row.
CreateRefused(s) ==
    \E p \in DOMAIN proposal :
        \/ proposal[p].opp = send[s].opp
        \/ send[s].request # NoRequest /\ proposal[p].request = send[s].request

NewProposal(s) ==
    Append(proposal, [opp |-> send[s].opp, request |-> send[s].request, files |-> FileIds(s),
                      completed |-> FALSE, live |-> TRUE])

\* POST /proposals; a proposal with files goes on to be completed.
ProposalCreated(s) ==
    /\ Sendable(s) /\ propForm.kind = "new" /\ ~CreateRefused(s)
    /\ proposal' = NewProposal(s)
    /\ send' = [send EXCEPT ![s].row = Len(proposal) + 1,
                            ![s].phase = IF FileIds(s) # {} THEN "completing" ELSE "listing"]
    /\ UNCHANGED <<uploads, propForm, prefills, down>>

ProposalRefused(s) ==
    /\ Sendable(s) /\ propForm.kind = "new" /\ CreateRefused(s)
    /\ send' = [send EXCEPT ![s].phase = "failed"]
    /\ UNCHANGED <<proposal, uploads, propForm, prefills, down>>

\* The call fails, or only its answer is lost.
CreateUnanswered(s) ==
    /\ Sendable(s) /\ propForm.kind = "new"
    /\ \/ UNCHANGED proposal
       \/ ~CreateRefused(s) /\ proposal' = NewProposal(s)
    /\ SendFails(s, "failed")

\* PUT /proposals/{id}: the files are replaced, the status set when there are files;
\* the opportunity and the request of a proposal never change.
Updated(p, ids) ==
    [proposal EXCEPT ![p].files = ids, ![p].completed = @ \/ ids # {}]

\* Mutant: a failed completion is reported at once.
AfterFailedCompletion_Reported == "failed"
AfterFailedCompletion == "undoing"

CompletionAnswered(s) ==
    LET p == send[s].row IN
    /\ send[s].phase = "completing"
    /\ \/ /\ Live(p) /\ proposal' = Updated(p, FileIds(s))
          /\ send' = [send EXCEPT ![s].phase = "listing"]
          /\ UNCHANGED <<uploads, propForm, prefills, down>>
       \/ /\ ~Live(p)
          /\ send' = [send EXCEPT ![s].phase = AfterFailedCompletion]
          /\ UNCHANGED <<proposal, uploads, propForm, prefills, down>>
       \/ /\ UNCHANGED proposal \/ (Live(p) /\ proposal' = Updated(p, FileIds(s)))
          /\ SendFails(s, AfterFailedCompletion)

\* The proposal is deleted again; whatever comes of it, the first error is reported.
CreationUndone(s) ==
    /\ send[s].phase = "undoing"
    /\ \/ /\ proposal' = [proposal EXCEPT ![send[s].row].live = FALSE]
          /\ send' = [send EXCEPT ![s].phase = "failed"]
          /\ UNCHANGED down
       \/ /\ down < MaxDown /\ down' = down + 1
          /\ send' = [send EXCEPT ![s].phase = "failed", ![s].spoilt = TRUE]
          /\ UNCHANGED proposal
    /\ UNCHANGED <<uploads, propForm, prefills>>

ProposalUpdated(s) ==
    /\ Sendable(s) /\ propForm.kind = "edit"
    /\ \/ /\ Live(1)
          /\ proposal' = Updated(1, FileIds(s))
          /\ send' = [send EXCEPT ![s].row = 1, ![s].phase = "listing"]
       \/ /\ ~Live(1) /\ UNCHANGED proposal
          /\ send' = [send EXCEPT ![s].phase = "failed"]
    /\ UNCHANGED <<uploads, propForm, prefills, down>>

UpdateUnanswered(s) ==
    /\ Sendable(s) /\ propForm.kind = "edit"
    /\ UNCHANGED proposal \/ (Live(1) /\ proposal' = Updated(1, FileIds(s)))
    /\ SendFails(s, "failed")

\* The list is read once more: when that fails, the proposal saved is reported as failed.
ProposalSaved(s) ==
    /\ send[s].phase = "listing"
    /\ \/ /\ send' = [send EXCEPT ![s].phase = "saved"]
          /\ propForm' = [propForm EXCEPT !.phase = "left"]
          /\ UNCHANGED down
       \/ /\ down < MaxDown /\ down' = down + 1
          /\ send' = [send EXCEPT ![s].phase = "failed", ![s].spoilt = TRUE]
          /\ UNCHANGED propForm
    /\ UNCHANGED <<proposal, uploads, prefills>>

\* The detail page, in another tab. The server answers with no data, which
\* parseApiResponse takes for a failure: the row is gone whatever the page says.
DeleteProposal(p) ==
    /\ Live(p) /\ propForm.phase = "open" /\ propForm.listed
    /\ proposal' = [proposal EXCEPT ![p].live = FALSE]
    /\ UNCHANGED <<uploads, propForm, prefills, send, down>>

-----------------------------------------------------------------------------

ProposalInit ==
    \E kind \in {"new", "edit"}, rows \in StoredProposals :
        /\ kind = "edit" => rows # << >>
        /\ proposal = rows
        /\ uploads = Cardinality(UNION {rows[p].files : p \in DOMAIN rows})
        /\ propForm = [kind |-> kind, phase |-> "open", listed |-> FALSE, taken |-> {},
                       request |-> NoRequest, opp |-> 0, own |-> NoRequest, chosen |-> 0, newest |-> NoRequest,
                       detail |-> "awaited", stored |-> {}, files |-> 0]
        /\ prefills = {} /\ send = [s \in Sends |-> NoSend] /\ down = 0

ProposalNext ==
    \/ ProposalListed \/ ProposalArrives \/ ChooseFile \/ RemoveFile
    \/ \E r \in Requests : ChooseRequest(r) \/ OpenTakenRequest(r)
    \/ \E choice \in prefills : PrefillArrives(choice)
    \/ \E s \in Sends :
         \/ CompleteProposal(s) \/ FileUploaded(s)
         \/ ProposalCreated(s) \/ ProposalRefused(s) \/ CreateUnanswered(s)
         \/ CompletionAnswered(s) \/ CreationUndone(s)
         \/ ProposalUpdated(s) \/ UpdateUnanswered(s) \/ ProposalSaved(s)
    \/ \E p \in DOMAIN proposal : DeleteProposal(p)

-----------------------------------------------------------------------------
(* Properties.                                                             *)

\* An edit that may end without files: sent blindly, or of a proposal that had none.
Careless ==
    \/ \E s \in Sends : send[s].blind
    \/ propForm.kind = "edit" /\ propForm.detail = "shown" /\ propForm.stored = {}

\* Every variable keeps its type; a completed proposal has files unless an edit was sent
\* before the proposal arrived, and then all its files may be lost, or the form was opened
\* on a proposal without any: an edit sent twice may then end without the files of the first.
ProposalTypeOK ==
    /\ proposal \in Seq(ProposalRow) /\ uploads \in Nat /\ down \in 0..MaxDown
    /\ prefills \subseteq (1..MaxChoices) \X Requests
    /\ propForm.files \in 0..MaxFiles
    /\ \A s \in Sends : send[s].sent \subseteq 1..uploads
    /\ ~Careless => \A p \in DOMAIN proposal : proposal[p].completed => proposal[p].files # {}

\* Once every prefill has been answered, the new form is that of the request chosen
\* last, in whatever order the answers arrived.
LastChoiceShown ==
    (propForm.kind = "new" /\ prefills = {} /\ propForm.chosen > 0)
        => propForm.request = propForm.newest /\ propForm.opp = OpportunityOfRequest(propForm.newest)

\* A registration reported as failed leaves no proposal behind, unless the answer
\* of the creation, the deletion that undoes it or the last reading of the list was lost.
FailedRegistrationGone ==
    \A s \in Sends :
        (send[s].phase = "failed" /\ send[s].row # 0 /\ propForm.kind = "new" /\ ~send[s].spoilt)
            => ~Live(send[s].row)

\* Saving an edited proposal adds the files chosen and loses none it showed.
EditKeepsFiles ==
    [][\A s \in Sends :
         (send[s].phase = "uploading" /\ send'[s].phase = "listing" /\ ~send[s].blind /\ propForm.kind = "edit")
           => proposal'[1].files = propForm.stored \cup send[s].sent]_propVars

=============================================================================
