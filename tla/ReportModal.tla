----------------------------- MODULE ReportModal ----------------------------
(***************************************************************************)
(* The management report (components/erp/management-report-modal.tsx) and  *)
(* the store behind it (lib/management-report-store.ts). The store lives   *)
(* as long as the tab; conditions, report and error are kept in the tab's  *)
(* session storage, the loading flag is not: after a reload a request may  *)
(* still be under way, whose answer nobody takes.                          *)
(*                                                                         *)
(* Left out: the period, the customer sector and the text of the question, *)
(* which are copied as they are; how the report is drawn.                  *)
(***************************************************************************)
EXTENDS Integers, FiniteSets

CONSTANTS
    RepOptions,  \* what a group of boxes offers: each option stands for a set of values
    MaxAsked,    \* bound: reports asked for
    MaxToggles,  \* bound: boxes ticked
    MaxReloads   \* bound: reloads of the tab

ASSUME ReportAssumption ==
    /\ IsFiniteSet(RepOptions) /\ {} \notin RepOptions
    /\ \A o, p \in RepOptions : o # p => o \cap p = {}
    /\ {MaxAsked, MaxToggles, MaxReloads} \subseteq Nat

VARIABLES
    report,    \* the store: conditions (values ticked), report, error, loading, requests made
    repCalls,  \* requests under way
    repLoads,  \* reloads of the tab
    toggles

repVars == <<report, repCalls, repLoads, toggles>>

NoReportYet == [n |-> 0, of |-> {}]
EmptyStore == [ticked |-> {}, shown |-> NoReportYet, error |-> FALSE, loading |-> FALSE, asked |-> 0]

AllValues == UNION RepOptions

-----------------------------------------------------------------------------

\* Mutant: the box of an option of several values ticks its first only.
ToggledValues_First(ticked, values) ==
    LET v == CHOOSE x \in values : TRUE IN IF v \in ticked THEN ticked \ {v} ELSE ticked \union {v}

\* toggleArrayValues: all of them, unless all are ticked.
ToggledValues(ticked, values) == IF values \subseteq ticked THEN ticked \ values ELSE ticked \union values

ToggleOption(values) ==
    /\ toggles < MaxToggles /\ toggles' = toggles + 1
    /\ report' = [report EXCEPT !.ticked = ToggledValues(@, values)]
    /\ UNCHANGED <<repCalls, repLoads>>

\* toggleAllValues, with the list the modal has rendered.
ToggleAll ==
    /\ toggles < MaxToggles /\ toggles' = toggles + 1
    /\ report' = [report EXCEPT !.ticked = IF AllValues \subseteq @ THEN {} ELSE AllValues]
    /\ UNCHANGED <<repCalls, repLoads>>

\* Mutant: the click does not look whether a request is under way.
AlreadyAsked_Never == FALSE

\* A request is under way.
AlreadyAsked == report.loading

\* submit: the conditions of this moment; the error of the last one is cleared, its report stays.
AskReport ==
    /\ ~AlreadyAsked /\ report.asked < MaxAsked
    /\ report' = [report EXCEPT !.loading = TRUE, !.error = FALSE, !.asked = @ + 1]
    /\ repCalls' = repCalls \union {[n |-> report.asked + 1, of |-> report.ticked, load |-> repLoads]}
    /\ UNCHANGED <<repLoads, toggles>>

\* The answer of a request made before the last reload reaches nobody.
ReportArrives(call, ok) ==
    /\ repCalls' = repCalls \ {call}
    /\ report' = IF call.load # repLoads THEN report
                 ELSE IF ok THEN [report EXCEPT !.shown = [n |-> call.n, of |-> call.of], !.loading = FALSE]
                 ELSE [report EXCEPT !.error = TRUE, !.loading = FALSE]
    /\ UNCHANGED <<repLoads, toggles>>

\* Mutant: the whole store is kept in the session storage.
StoredPart_All == report

\* partialize: everything but the loading flag.
StoredPart == [report EXCEPT !.loading = FALSE]

ReloadTab ==
    /\ repLoads < MaxReloads /\ repLoads' = repLoads + 1
    /\ report' = StoredPart
    /\ UNCHANGED <<repCalls, toggles>>

-----------------------------------------------------------------------------

RepInit == report = EmptyStore /\ repCalls = {} /\ repLoads = 0 /\ toggles = 0

RepNext ==
    \/ ToggleAll \/ AskReport \/ ReloadTab
    \/ \E values \in RepOptions : ToggleOption(values)
    \/ \E call \in repCalls, ok \in BOOLEAN : ReportArrives(call, ok)

-----------------------------------------------------------------------------
(* Properties.                                                             *)

\* The button is disabled exactly while a request this page will hear of is under way: neither a
\* reload nor a failure leaves it disabled for good.
LoadingMeansRunning == report.loading <=> \E call \in repCalls : call.load = repLoads

\* AIOTION, ITO and the others are ticked as a whole or not at all, whatever the order of single
\* boxes and "all": what is counted is what the boxes show.
GroupsWhole == \A o \in RepOptions : o \subseteq report.ticked \/ o \cap report.ticked = {}

\* A report never gives way to one asked for before it, though the tab was reloaded while requests
\* were under way.
NewerReportStays == [][report'.shown.n >= report.shown.n /\ (report'.shown # report.shown => ~report'.error)]_repVars

=============================================================================
