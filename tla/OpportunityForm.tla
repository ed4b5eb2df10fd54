-------------------------- MODULE OpportunityForm --------------------------
(***************************************************************************)
(* Registering and editing a project opportunity: finding/new,             *)
(* finding/opportunities/[id]/edit and the calls of finding-backend.ts.    *)
(*                                                                         *)
(* Partners and product modules are chosen by name and looked up again     *)
(* when the form is sent; RFP documents are uploaded one by one, then the  *)
(* whole record is sent, then the AI summaries go to localStorage.         *)
(***************************************************************************)
EXTENDS Naturals, Sequences, FiniteSets, SequencesExt

CONSTANTS
    Documents,      \* RFP documents; the summary of a document tells which it is of
    ModuleNames,    \* ModuleNames[m]: name of row m of the product_module table
    Meets,          \* pairs of names of which one contains the other
    PartnerNames,   \* PartnerNames[p]: name of row p of the company table
    StoredFiles,    \* files an opportunity may have when its form is opened
    MaxAttachments, \* bound: attachments of the form
    MaxSteps,       \* bound: changes made to the form plus times it is sent
    MaxSubs,        \* bound: times it is sent
    MaxBad          \* bound: calls that fail or whose answer is lost

ASSUME OpportunityAssumption ==
    /\ Meets \subseteq Range(ModuleNames) \X Range(ModuleNames)
    /\ StoredFiles \subseteq Seq(Documents)
    /\ \A documents \in StoredFiles : Len(documents) <= MaxAttachments
    /\ MaxAttachments \in Nat /\ MaxSteps \in Nat /\ MaxSubs \in Nat /\ MaxBad \in Nat

VARIABLES
    opp,         \* opp[o]: row o of the project_opportunity table
    gone,        \* partners deleted
    file,        \* file[f]: the document of row f of the upload_file table
    summaries,   \* localStorage "orbis.project-opportunity-rfp-summaries"
    oppForm,     \* the open form
    sub,         \* sub[s]: the s-th time it was sent
    bad          \* calls failed or unanswered so far

oppVars == <<opp, gone, file, summaries, oppForm, sub, bad>>

Subs == 1..MaxSubs
Modules == DOMAIN ModuleNames
Partners == DOMAIN PartnerNames
OppRow == [partners : SUBSET Partners, modules : SUBSET Modules, files : SUBSET Nat,
           live : BOOLEAN]

\* createRfpAttachment: an attachment is a stored file (its id) or a new document.
Stocked(f) == [id |-> f, file |-> f, document |-> file[f], summarized |-> FALSE]
Fresh(id, document) == [id |-> id, file |-> 0, document |-> document, summarized |-> FALSE]

-----------------------------------------------------------------------------
(* Names back to ids.                                                      *)

\* resolvePartnerCompanyIds: the first partner of that name in the list read when the
\* form was opened; a name nobody bears is left out.
PartnerIds(names, known) ==
    {p \in known : PartnerNames[p] \in names
                     /\ \A q \in known : PartnerNames[q] = PartnerNames[p] => p <= q}

\* resolveProductModuleIds: the first module whose name is the chosen one, contains
\* it or is contained in it.
ModuleIds(names, known) ==
    {m \in known : \E n \in names :
        LET Matches(k) == ModuleNames[k] = n \/ <<ModuleNames[k], n>> \in Meets
                            \/ <<n, ModuleNames[k]>> \in Meets IN
        Matches(m) /\ \A k \in known : Matches(k) => m <= k}

-----------------------------------------------------------------------------
(* The form.                                                               *)

\* loadBackendFindingData lists the companies that are not deleted.
Listed == Partners \ gone

Filling == oppForm.phase = "open" /\ (oppForm.kind = "new" \/ oppForm.loaded)
Steps == oppForm.changes + Cardinality({s \in Subs : sub[s].phase # "idle"})
Changing == Filling /\ Steps < MaxSteps

\* Mutant: the modules of the opportunity are not taken over.
OppLoaded_NoModules ==
    /\ oppForm.phase = "open" /\ ~oppForm.loaded
    /\ oppForm' = [oppForm EXCEPT !.loaded = TRUE, !.known = Listed,
         !.partners = IF oppForm.kind = "new" THEN @ ELSE {PartnerNames[p] : p \in opp[1].partners},
         !.attachments = IF oppForm.kind = "new" THEN @
                         ELSE [i \in DOMAIN SetToSeq(opp[1].files) |-> Stocked(SetToSeq(opp[1].files)[i])]]
    /\ UNCHANGED <<opp, gone, file, summaries, sub, bad>>

\* The lists have arrived; the edit page also takes over the stored opportunity, its
\* files without their summaries.
OppLoaded ==
    LET files == SetToSeq(opp[1].files) IN
    /\ oppForm.phase = "open" /\ ~oppForm.loaded
    /\ oppForm' =
         IF oppForm.kind = "new"
         THEN [oppForm EXCEPT !.loaded = TRUE, !.known = Listed]
         ELSE [oppForm EXCEPT !.loaded = TRUE, !.known = Listed,
                 !.partners = {PartnerNames[p] : p \in opp[1].partners},
                 !.modules = {ModuleNames[m] : m \in opp[1].modules},
                 !.attachments = [i \in DOMAIN files |-> Stocked(files[i])]]
    /\ UNCHANGED <<opp, gone, file, summaries, sub, bad>>

Changed(next, part) ==
    /\ oppForm' = [next EXCEPT !.changes = @ + 1, !.touched = @ \cup {part}]
    /\ UNCHANGED <<opp, gone, file, summaries, sub, bad>>

TogglePartner(name) ==
    /\ Changing
    /\ Changed([oppForm EXCEPT !.partners = (@ \ {name}) \cup ({name} \ @)], "partners")

ToggleModule(name) ==
    /\ Changing
    /\ Changed([oppForm EXCEPT !.modules = (@ \ {name}) \cup ({name} \ @)], "modules")

\* While a document is being summarized nothing is attached, and that one stays.
AttachRfp(document) ==
    /\ Changing /\ oppForm.summarizing = 0
    /\ Len(oppForm.attachments) < MaxAttachments
    /\ Changed([oppForm EXCEPT !.attachments = Append(@, Fresh(MaxAttachments + oppForm.changes + 1, document))], "files")

DetachRfp(i) ==
    /\ Changing /\ oppForm.summarizing # oppForm.attachments[i].id
    /\ Changed([oppForm EXCEPT !.attachments = RemoveAt(@, i)], "files")

\* handleGenerateRfpSummary: only a document just chosen can be summarized.
Summarize(i) ==
    /\ Filling /\ oppForm.summarizing = 0
    /\ oppForm.attachments[i].file = 0 /\ ~oppForm.attachments[i].summarized
    /\ oppForm' = [oppForm EXCEPT !.summarizing = oppForm.attachments[i].id]
    /\ UNCHANGED <<opp, gone, file, summaries, sub, bad>>

Summarized ==
    /\ Filling /\ oppForm.summarizing # 0
    /\ \E ok \in BOOLEAN :
         oppForm' = [oppForm EXCEPT !.summarizing = 0,
           !.attachments = [i \in DOMAIN @ |->
              IF @[i].id = oppForm.summarizing THEN [@[i] EXCEPT !.summarized = ok] ELSE @[i]]]
    /\ UNCHANGED <<opp, gone, file, summaries, sub, bad>>

-----------------------------------------------------------------------------
(* Sending it.                                                             *)

\* Both pages first upload the new documents and read the list of modules again.
Submit ==
    \E s \in Subs :
        /\ Steps < MaxSteps
        /\ sub[s].phase = "idle" /\ \A r \in 1..(s - 1) : sub[r].phase # "idle"
        /\ sub' = [sub EXCEPT ![s] =
             [phase |-> "uploading", partners |-> PartnerIds(oppForm.partners, oppForm.known),
              names |-> oppForm.modules, attachments |-> oppForm.attachments,
              ids |-> [i \in DOMAIN oppForm.attachments |-> oppForm.attachments[i].file],
              modules |-> "unread"]]
        /\ UNCHANGED <<opp, gone, file, summaries, oppForm, bad>>

\* handleOpportunitySubmit never sets submitting: its button can be pressed again.
OpportunitySubmit == Filling /\ oppForm.kind = "new" /\ oppForm.loaded /\ Submit

OpportunitySave ==
    /\ Filling /\ oppForm.kind = "edit"
    /\ \A s \in Subs : sub[s].phase \notin {"uploading", "saving"}
    /\ Submit

Fails(s) ==
    /\ bad < MaxBad
    /\ bad' = bad + 1
    /\ sub' = [sub EXCEPT ![s].phase = "failed"]
    /\ UNCHANGED <<opp, gone, file, summaries, oppForm>>

\* uploadBackendRfpFile, for one document.
UploadAnswered(s, i) ==
    /\ sub[s].phase = "uploading" /\ sub[s].ids[i] = 0
    /\ file' = Append(file, sub[s].attachments[i].document)
    /\ sub' = [sub EXCEPT ![s].ids[i] = Len(file')]
    /\ UNCHANGED <<opp, gone, summaries, oppForm, bad>>

\* Promise.all: one failure ends the submission; what is uploaded stays.
UploadFails(s, i) ==
    /\ sub[s].phase = "uploading" /\ sub[s].ids[i] = 0
    /\ Fails(s)

\* The list of modules; when it cannot be read it counts as empty.
ModulesRead(s) ==
    /\ sub[s].phase = "uploading" /\ sub[s].modules = "unread"
    /\ \/ sub' = [sub EXCEPT ![s].modules = "read"] /\ UNCHANGED bad
       \/ /\ bad < MaxBad /\ bad' = bad + 1
          /\ sub' = [sub EXCEPT ![s].modules = "failed"]
    /\ UNCHANGED <<opp, gone, file, summaries, oppForm>>

\* Mutant: the uploads are not waited for.
Ready_Early(s) == sub[s].phase = "uploading" /\ sub[s].modules # "unread"

Ready(s) ==
    /\ sub[s].phase = "uploading" /\ sub[s].modules # "unread"
    /\ \A i \in DOMAIN sub[s].ids : sub[s].ids[i] # 0

\* What is sent replaces what is stored: an empty list clears.
Payload(s) ==
    [partners |-> sub[s].partners,
     modules |-> ModuleIds(sub[s].names, IF sub[s].modules = "read" THEN Modules ELSE {}),
     files |-> {sub[s].ids[i] : i \in DOMAIN sub[s].ids} \ {0}, live |-> TRUE]

Refused(s) ==
    \/ sub[s].partners \cap gone # {}
    \/ oppForm.kind = "edit" /\ ~opp[1].live

\* Mutant: the n-th document that has a summary goes with the n-th file uploaded.
SummaryRecords_ByPosition(s, o) ==
    LET attachments == SelectSeq(sub[s].attachments, LAMBDA a : a.summarized) IN
    {[opp |-> o, file |-> sub[s].ids[i], document |-> attachments[i].document] : i \in DOMAIN attachments}

\* saveRfpAttachmentSummariesForOpportunity.
SummaryRecords(s, o) ==
    {[opp |-> o, file |-> sub[s].ids[i], document |-> sub[s].attachments[i].document] :
        i \in {k \in DOMAIN sub[s].ids : sub[s].attachments[k].summarized}}

SummariesSaved(s, o) ==
    {r \in summaries : \A q \in SummaryRecords(s, o) :
        r.opp = o => r.file # q.file /\ r.document # q.document} \cup SummaryRecords(s, o)

Written(s) == IF oppForm.kind = "new" THEN Append(opp, Payload(s)) ELSE [opp EXCEPT ![1] = Payload(s)]

\* createBackendProjectOpportunity, updateBackendProjectOpportunity.
Saved(s) ==
    LET o == IF oppForm.kind = "new" THEN Len(opp) + 1 ELSE 1 IN
    /\ Ready(s) /\ ~Refused(s)
    /\ opp' = Written(s)
    /\ summaries' = SummariesSaved(s, o)
    /\ sub' = [sub EXCEPT ![s].phase = "saved"]
    /\ oppForm' = [oppForm EXCEPT !.phase = "left"]
    /\ UNCHANGED <<gone, file, bad>>

SaveRefused(s) ==
    /\ Ready(s) /\ Refused(s)
    /\ sub' = [sub EXCEPT ![s].phase = "failed"]
    /\ UNCHANGED <<opp, gone, file, summaries, oppForm, bad>>

\* The call fails, or its answer is lost after the server has done its work.
SaveFails(s) == Ready(s) /\ Fails(s)

SaveAnswerLost(s) ==
    /\ Ready(s) /\ ~Refused(s) /\ bad < MaxBad
    /\ bad' = bad + 1
    /\ opp' = Written(s)
    /\ sub' = [sub EXCEPT ![s].phase = "failed"]
    /\ UNCHANGED <<gone, file, summaries, oppForm>>

-----------------------------------------------------------------------------
(* The detail page, in another tab.                                        *)

DeletePartner(p) ==
    /\ p \notin gone /\ oppForm.loaded /\ oppForm.phase = "open"
    /\ gone' = gone \cup {p}
    /\ UNCHANGED <<opp, file, summaries, oppForm, sub, bad>>

DeleteOpportunity ==
    /\ opp[1].live /\ oppForm.loaded /\ oppForm.phase = "open"
    /\ opp' = [opp EXCEPT ![1].live = FALSE]
    /\ UNCHANGED <<gone, file, summaries, oppForm, sub, bad>>

-----------------------------------------------------------------------------

NoSub == [phase |-> "idle", partners |-> {}, names |-> {}, attachments |-> << >>, ids |-> << >>,
          modules |-> "unread"]

\* One opportunity with its links.
OpportunityInit ==
    \E kind \in {"new", "edit"}, documents \in StoredFiles :
        /\ file = documents
        /\ \E partners \in SUBSET Partners, modules \in SUBSET Modules :
             /\ kind = "new" => partners = {} /\ modules = {}
             /\ opp = <<[partners |-> partners, modules |-> modules, files |-> DOMAIN documents,
                         live |-> TRUE]>>
        /\ gone = {} /\ summaries = {} /\ bad = 0
        /\ oppForm = [kind |-> kind, phase |-> "open", loaded |-> FALSE, known |-> {},
                      partners |-> {}, modules |-> {}, attachments |-> << >>, summarizing |-> 0,
                      touched |-> {}, changes |-> 0]
        /\ sub = [s \in Subs |-> NoSub]

OpportunityNext ==
    \/ OppLoaded \/ Summarized \/ OpportunitySubmit \/ OpportunitySave \/ DeleteOpportunity
    \/ \E n \in Range(PartnerNames) : TogglePartner(n)
    \/ \E n \in Range(ModuleNames) : ToggleModule(n)
    \/ \E document \in Documents : AttachRfp(document)
    \/ \E i \in DOMAIN oppForm.attachments : DetachRfp(i) \/ Summarize(i)
    \/ \E s \in Subs :
         \/ ModulesRead(s) \/ Saved(s) \/ SaveRefused(s) \/ SaveFails(s) \/ SaveAnswerLost(s)
         \/ \E i \in DOMAIN sub[s].ids : UploadAnswered(s, i) \/ UploadFails(s, i)
    \/ \E p \in Partners : DeletePartner(p)

-----------------------------------------------------------------------------
(* Properties.                                                             *)

\* Every variable keeps its type; what an opportunity refers to exists, and
\* what was saved has been uploaded.
OpportunityTypeOK ==
    /\ \A o \in DOMAIN opp : opp[o] \in OppRow /\ opp[o].files \subseteq DOMAIN file
    /\ gone \subseteq Partners /\ file \in Seq(Documents)
    /\ Len(oppForm.attachments) <= MaxAttachments
    /\ oppForm.summarizing \in {0} \cup {oppForm.attachments[i].id : i \in DOMAIN oppForm.attachments}
    /\ \A s \in Subs : sub[s].phase \in {"idle", "uploading", "failed", "saved"}
    /\ \A s \in Subs : sub[s].phase = "saved" => 0 \notin Range(sub[s].ids)
    /\ bad \in 0..MaxBad

\* The summary kept for a file of an opportunity is the summary of that file, however
\* stored and new documents are mixed and in whatever order their uploads end.
SummaryFollowsFile ==
    \A r \in summaries : r.file \in opp[r.opp].files \cup DOMAIN file /\ r.document = file[r.file]

JustSavedSub(s) == sub[s].phase = "uploading" /\ sub'[s].phase = "saved"

\* A form that reports success has stored every document attached to it, and no other.
FilesAsAttached ==
    [][\A s \in Subs : JustSavedSub(s) =>
         LET o == IF oppForm.kind = "new" THEN Len(opp') ELSE 1
             stored == [f \in opp'[o].files |-> file[f]] IN
         /\ Cardinality(opp'[o].files) = Len(sub[s].attachments)
         /\ \A d \in Documents :
              Cardinality({f \in DOMAIN stored : stored[f] = d})
                = Cardinality({i \in DOMAIN sub[s].ids : sub[s].attachments[i].document = d})]_oppVars

Unambiguous == Meets = {} /\ IsInjective(ModuleNames)

\* Saving an opportunity leaves the modules alone that the user did not touch, as long
\* as no module's name contains another's and the list of modules could be read.
UntouchedModulesKept ==
    [][\A s \in Subs :
         (JustSavedSub(s) /\ oppForm.kind = "edit" /\ "modules" \notin oppForm.touched
            /\ sub[s].modules = "read" /\ Unambiguous)
           => opp'[1].modules = opp[1].modules]_oppVars

=============================================================================
