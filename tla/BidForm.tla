------------------------------ MODULE BidForm ------------------------------
(***************************************************************************)
(* Registering and editing the result of a bid:                            *)
(* bid-result-registration-form.tsx and bid-result-backend.ts.             *)
(*                                                                         *)
(* The list of results names customers and opportunities only, so the form *)
(* guesses which proposal a result is of; the list of proposals, the list  *)
(* of results, the result edited and the prefill of each proposal chosen   *)
(* arrive one by one, and the form is filled again at most arrivals.       *)
(***************************************************************************)
EXTENDS Naturals, Sequences, FiniteSets

CONSTANTS
    ProposalOf,    \* ProposalOf[p]: the p-th proposal listed, [opp, customer]
    OpportunityName, \* OpportunityName[o]: name of the o-th opportunity listed
    Factors,       \* texts that may be typed as the factors of success
    NoFactors,     \* no text
    StoredResults, \* the result tables there may be at first
    MaxBidChanges, \* bound: changes made in the form
    MaxBidSends,   \* bound: times it is sent
    MaxBidFaults   \* bound: calls that fail or whose answer is lost

BidProposals == DOMAIN ProposalOf
Customers == {ProposalOf[p].customer : p \in BidProposals}
BidSends == 1..MaxBidSends
None == 0
BidTexts == Factors \cup {NoFactors}

\* An item of the checklist: blank, with a score, with a reason but no score.
Items == {"blank", "scored", "remarked"}

VARIABLES
    bid,        \* bid[r]: row r of the bid_result table
    bidForm,    \* the open form
    bidPrefill, \* proposals whose prefill is under way
    bidSend,    \* bidSend[s]: the s-th time the form was sent
    bidFaults   \* calls failed or unanswered so far

bidVars == <<bid, bidForm, bidPrefill, bidSend, bidFaults>>

BidRow == [proposal : BidProposals, opp : DOMAIN OpportunityName, factors : BidTexts,
           item : Items, live : BOOLEAN]

\* The page registers a result under the name its opportunity is listed with.
OfItsName(row) == OpportunityName[row.opp] = OpportunityName[ProposalOf[row.proposal].opp]

\* Opportunity and proposal are unique columns, of the proposals and of the results.
ASSUME BidAssumption ==
    /\ NoFactors \notin Factors /\ {MaxBidChanges, MaxBidSends, MaxBidFaults} \subseteq Nat
    /\ BidProposals \subseteq Nat \ {None} /\ DOMAIN OpportunityName \subseteq Nat \ {None}
    /\ {ProposalOf[p].opp : p \in BidProposals} = DOMAIN OpportunityName
    /\ \A p, q \in BidProposals : ProposalOf[p].opp = ProposalOf[q].opp => p = q
    /\ StoredResults \subseteq Seq(BidRow)
    /\ \A rows \in StoredResults : \A r, q \in DOMAIN rows :
         OfItsName(rows[r]) /\ (r # q => rows[r].opp # rows[q].opp /\ rows[r].proposal # rows[q].proposal)

FirstOf(S) == CHOOSE n \in S : \A k \in S : n <= k

-----------------------------------------------------------------------------
(* Which proposal a result is of.                                          *)

\* A result is of the customer of its opportunity.
Customer(r) == ProposalOf[CHOOSE p \in BidProposals : ProposalOf[p].opp = bid[r].opp].customer

\* Mutant: by the opportunity alone, another proposal when there is none.
LinkedProposal_ByOpportunity(r) ==
    FirstOf({p \in BidProposals : ProposalOf[p].opp <= bid[r].opp})

\* mapBidResultSummary, mapBidResultDetail: the first proposal listed with the
\* opportunity or only the customer of the result.
LinkedProposal(r) ==
    FirstOf({p \in BidProposals : ProposalOf[p].opp = bid[r].opp \/ ProposalOf[p].customer = Customer(r)})

\* registeredProposalIds, availableProposals.
RegisteredProposals == {LinkedProposal(r) : r \in {q \in DOMAIN bid : bid[q].live}}

AvailableProposals ==
    {p \in BidProposals : bidForm.proposals /\ (p \notin bidForm.registered \/ p = bidForm.own)}

\* Mutant: a proposal goes with any opportunity of its customer.
MatchingProposal_Customer ==
    {p \in AvailableProposals : p = bidForm.proposal /\ ProposalOf[p].customer = bidForm.customer}

\* matchingProposal: the proposal chosen, with the customer and the opportunity chosen.
MatchingProposal ==
    {p \in AvailableProposals :
        /\ p = bidForm.proposal
        /\ ProposalOf[p].customer = bidForm.customer /\ ProposalOf[p].opp = bidForm.opp}

-----------------------------------------------------------------------------
(* Arrivals.                                                               *)

\* The effect that fills the form with the result edited runs again whenever the
\* proposals offered change; what was typed is gone.
BidFilled(next) ==
    IF next.record = None THEN next
    ELSE LET r == bid[next.record] IN
         [next EXCEPT !.proposal = next.own, !.customer = Customer(next.record), !.opp = r.opp,
            !.factors = next.read, !.reason = next.read, !.item = r.item]

BidProposalsArrive ==
    /\ bidForm.phase = "open" /\ ~bidForm.proposals
    /\ bidForm' = BidFilled([bidForm EXCEPT !.proposals = TRUE])
    /\ UNCHANGED <<bid, bidPrefill, bidSend, bidFaults>>

BidResultsArrive ==
    /\ bidForm.phase = "open" /\ ~bidForm.results
    /\ bidForm' = BidFilled([bidForm EXCEPT !.results = TRUE, !.registered = RegisteredProposals,
                            !.taken = {bid[r].proposal : r \in {q \in DOMAIN bid : bid[q].live}}])
    /\ UNCHANGED <<bid, bidPrefill, bidSend, bidFaults>>

\* loadBackendBidResultDetailById.
BidRecordArrives ==
    /\ bidForm.phase = "open" /\ bidForm.kind = "edit" /\ bidForm.record = None
    /\ bid[1].live
    /\ bidForm' = BidFilled([bidForm EXCEPT !.record = 1, !.own = LinkedProposal(1), !.read = bid[1].factors])
    /\ UNCHANGED <<bid, bidPrefill, bidSend, bidFaults>>

\* hydrateProposalPrefill. No token: answers are applied in the order they arrive. A
\* failed one applies the proposal of the list instead.
BidPrefillArrives(p) ==
    /\ p \in bidPrefill /\ bidForm.phase = "open"
    /\ bidPrefill' = bidPrefill \ {p}
    /\ \/ /\ bidForm' = [bidForm EXCEPT !.customer = ProposalOf[p].customer, !.opp = ProposalOf[p].opp]
          /\ UNCHANGED bidFaults
       \/ /\ bidFaults < MaxBidFaults /\ bidFaults' = bidFaults + 1
          /\ bidForm' = [bidForm EXCEPT !.proposal = p, !.customer = ProposalOf[p].customer,
                           !.opp = ProposalOf[p].opp]
    /\ UNCHANGED <<bid, bidSend>>

-----------------------------------------------------------------------------
(* Changes.                                                                *)

ChangeBid(next) ==
    /\ bidForm.phase = "open" /\ bidForm.changes < MaxBidChanges
    /\ bidForm' = [next EXCEPT !.changes = @ + 1]
    /\ UNCHANGED <<bid, bidSend, bidFaults>>

\* handleProposalChange.
ChooseBidProposal(p) ==
    /\ p \in AvailableProposals
    /\ ChangeBid([bidForm EXCEPT !.proposal = p, !.customer = ProposalOf[p].customer,
                    !.opp = ProposalOf[p].opp])
    /\ bidPrefill' = bidPrefill \cup {p}

\* handleCustomerChange: the proposal chosen stays when it is of that customer, and
\* when there is none of that customer.
ChooseCustomer(c) ==
    LET candidates == {p \in AvailableProposals : ProposalOf[p].customer = c}
        next == IF bidForm.proposal \in candidates THEN {bidForm.proposal}
                ELSE {p \in candidates : ProposalOf[p].opp = bidForm.opp} IN
    /\ candidates # {}
    /\ ChangeBid([bidForm EXCEPT !.customer = c,
                    !.proposal = IF next # {} THEN FirstOf(next) ELSE @,
                    !.opp = IF next # {} THEN ProposalOf[FirstOf(next)].opp ELSE @])
    /\ UNCHANGED bidPrefill

\* handleOpportunityChange: the proposals of that opportunity and customer.
ChooseOpportunity(o) ==
    LET candidates == {p \in AvailableProposals :
            ProposalOf[p].opp = o /\ bidForm.customer \in {None, ProposalOf[p].customer}} IN
    /\ candidates # {}
    /\ ChangeBid([bidForm EXCEPT !.opp = o, !.proposal = FirstOf(candidates),
                    !.customer = ProposalOf[FirstOf(candidates)].customer])
    /\ UNCHANGED bidPrefill

TypeFactors(text) ==
    /\ text # bidForm.factors
    /\ ChangeBid([bidForm EXCEPT !.factors = text])
    /\ UNCHANGED bidPrefill

\* updateChecklistItem: a score, or the reason of a score.
ScoreItem(item) ==
    /\ bidForm.item = "blank" /\ item # "blank"
    /\ ChangeBid([bidForm EXCEPT !.item = item])
    /\ UNCHANGED bidPrefill

-----------------------------------------------------------------------------
(* Sending it.                                                             *)

\* Mutant: only the field the form does not show is sent.
SentFactors_Reason == bidForm.reason

\* The factors read with the result win over those typed.
SentFactors == IF bidForm.reason # NoFactors THEN bidForm.reason ELSE bidForm.factors

\* resolveProjectOpportunityId: the first opportunity of that code or of that name.
ResolvedOpportunity(o) == FirstOf({q \in DOMAIN OpportunityName : q = o \/ OpportunityName[q] = OpportunityName[o]})

\* buildRequestPayload; a reason without a score is left out.
BidPayload(p) ==
    [proposal |-> p, opp |-> ResolvedOpportunity(ProposalOf[p].opp), factors |-> SentFactors,
     item |-> IF bidForm.item = "remarked" THEN "blank" ELSE bidForm.item, live |-> TRUE]

NoBidSend == [phase |-> "idle", payload |-> {}, typed |-> NoFactors, item |-> "blank", read |-> NoFactors]

\* handleComplete; the button stays active while the call is under way.
CompleteBid(s) ==
    /\ bidForm.phase = "open"
    /\ bidSend[s].phase = "idle" /\ \A q \in 1..(s - 1) : bidSend[q].phase # "idle"
    /\ MatchingProposal # {}
    /\ bidSend' = [bidSend EXCEPT ![s] =
         [phase |-> "sent", payload |-> {BidPayload(p) : p \in MatchingProposal},
          typed |-> bidForm.factors, item |-> bidForm.item, read |-> bidForm.read]]
    /\ UNCHANGED <<bid, bidForm, bidPrefill, bidFaults>>

\* Mutant: an edit does not look for other results.
BidRefused_NewOnly(row) ==
    bidForm.kind = "new" /\ \E r \in DOMAIN bid : bid[r].opp = row.opp \/ bid[r].proposal = row.proposal

\* checkOneBidResult sees the rows alive, the unique columns every row.
BidRefused(row) ==
    IF bidForm.kind = "new"
    THEN \E r \in DOMAIN bid : bid[r].opp = row.opp \/ bid[r].proposal = row.proposal
    ELSE \/ ~bid[1].live
         \/ \E r \in 2..Len(bid) : bid[r].opp = row.opp \/ bid[r].proposal = row.proposal

BidWritten(row) == IF bidForm.kind = "new" THEN Append(bid, row) ELSE [bid EXCEPT ![1] = row]

BidAnswered(s) ==
    /\ bidSend[s].phase = "sent"
    /\ \E row \in bidSend[s].payload :
         \/ /\ ~BidRefused(row) /\ bid' = BidWritten(row)
            /\ bidSend' = [bidSend EXCEPT ![s].phase = "saved"]
            /\ bidForm' = [bidForm EXCEPT !.phase = "left"]
            /\ UNCHANGED bidFaults
         \/ /\ BidRefused(row) /\ UNCHANGED <<bid, bidForm, bidFaults>>
            /\ bidSend' = [bidSend EXCEPT ![s].phase = "failed"]
         \/ /\ bidFaults < MaxBidFaults /\ bidFaults' = bidFaults + 1
            /\ UNCHANGED bid \/ (~BidRefused(row) /\ bid' = BidWritten(row))
            /\ bidSend' = [bidSend EXCEPT ![s].phase = "failed"]
            /\ UNCHANGED bidForm
    /\ UNCHANGED bidPrefill

\* The list page, in another tab.
DeleteBidResult(r) ==
    /\ bid[r].live /\ bidForm.phase = "open" /\ bidForm.results
    /\ bid' = [bid EXCEPT ![r].live = FALSE]
    /\ UNCHANGED <<bidForm, bidPrefill, bidSend, bidFaults>>

-----------------------------------------------------------------------------

BidInit ==
    \E kind \in {"new", "edit"}, rows \in StoredResults, reason \in BidTexts :
        /\ kind = "edit" => rows # << >> /\ reason = NoFactors
        /\ bid = rows
        \* A draft of the chatbot may fill the field that is not shown.
        /\ bidForm = [kind |-> kind, phase |-> "open", proposals |-> FALSE, results |-> FALSE,
                      registered |-> {}, taken |-> {}, record |-> None, own |-> None, read |-> NoFactors,
                      proposal |-> None, customer |-> None, opp |-> None, factors |-> NoFactors,
                      reason |-> reason, item |-> "blank", changes |-> 0]
        /\ bidPrefill = {} /\ bidSend = [s \in BidSends |-> NoBidSend] /\ bidFaults = 0

BidNext ==
    \/ BidProposalsArrive \/ BidResultsArrive \/ BidRecordArrives
    \/ \E p \in BidProposals : BidPrefillArrives(p) \/ ChooseBidProposal(p)
    \/ \E c \in Customers : ChooseCustomer(c)
    \/ \E o \in DOMAIN OpportunityName : ChooseOpportunity(o)
    \/ \E text \in BidTexts : TypeFactors(text)
    \/ \E item \in Items : ScoreItem(item)
    \/ \E s \in BidSends : CompleteBid(s) \/ BidAnswered(s)
    \/ \E r \in DOMAIN bid : DeleteBidResult(r)

-----------------------------------------------------------------------------
(* Properties.                                                             *)

NameShared(o) == \E q \in DOMAIN OpportunityName : q # o /\ OpportunityName[q] = OpportunityName[o]

\* Every variable keeps its type, and no two results are of one opportunity.
BidTypeOK ==
    /\ bid \in Seq(BidRow) /\ bidPrefill \subseteq BidProposals /\ bidFaults \in 0..MaxBidFaults
    /\ bidForm.proposal \in BidProposals \cup {None} /\ bidForm.registered \subseteq BidProposals
    /\ \A r, q \in DOMAIN bid : r # q => bid[r].opp # bid[q].opp /\ bid[r].proposal # bid[q].proposal

\* What is sent is of the opportunity the form shows, however the prefills of several
\* proposals overtake each other, unless another opportunity has the same name.
SentAsShown ==
    [][\A s \in BidSends : (bidSend[s].phase = "idle" /\ bidSend'[s].phase = "sent") =>
         \A row \in bidSend'[s].payload :
             /\ row.proposal = bidForm.proposal
             /\ row.opp = bidForm.opp \/ NameShared(bidForm.opp)]_bidVars

\* A proposal that is the only one of its customer, for an opportunity whose name no
\* other has, is offered for a new result just when there was no result of it yet.
OffersUnresulted ==
    \A p \in BidProposals :
        (bidForm.proposals /\ bidForm.results /\ bidForm.kind = "new" /\ ~NameShared(ProposalOf[p].opp)
           /\ \A q \in BidProposals : ProposalOf[q].customer = ProposalOf[p].customer => q = p)
          => (p \in AvailableProposals <=> p \notin bidForm.taken)

\* The factors typed are stored as long as none were stored when the form was filled
\* and no draft brought some; a score given is stored, a reason without one is not.
TypedAnalysisStored ==
    [][\A s \in BidSends :
         (bidSend[s].phase = "sent" /\ bidSend'[s].phase = "saved") =>
            LET row == bid'[IF bidForm.kind = "new" THEN Len(bid') ELSE 1] IN
            /\ (bidSend[s].read = NoFactors /\ bidForm.reason = NoFactors) => row.factors = bidSend[s].typed
            /\ (row.item = "scored") <=> (bidSend[s].item = "scored")]_bidVars

=============================================================================
