----------------------------- MODULE MCWorkflow -----------------------------
(***************************************************************************)
(* Small instances of Workflow for TLC: who works here, which documents    *)
(* there are and which step lists the administrator may post.              *)
(***************************************************************************)
EXTENDS Workflow, TLC

CONSTANTS ada, lee,                  \* users
          report, billing, purchase  \* documents

Staff == [u \in Users |-> IF u = ada THEN 3 ELSE 2]

DocDomain ==
    (report :> "ORDER_REPORT") @@ (billing :> "BILLING")
        @@ (purchase :> "PURCHASE_CONTRACT")

DomainOfDocs == [d \in Docs |-> DocDomain[d]]

\* The step lists the administration pages build: orders 1, 2, ... (new/page.tsx
\* numbers a new step by its index, edit/page.tsx keeps the numbers).
StepList(positions) ==
    [i \in DOMAIN positions |-> [order |-> i, position |-> positions[i]]]

ShortPlans == {StepList(<<3>>), StepList(<<2, 3>>)}
LongPlans == {StepList(<<2>>), StepList(<<1, 2, 3>>)}
OneStepPlan == {StepList(<<2>>)}

OrderReportSeed == <<"ORDER_REPORT">>
MixedSeed == <<"BILLING", "PURCHASE_CONTRACT">>

=============================================================================
