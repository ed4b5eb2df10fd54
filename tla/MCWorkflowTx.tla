---------------------------- MODULE MCWorkflowTx ----------------------------
(***************************************************************************)
(* Small instances of WorkflowTx for TLC.                                  *)
(***************************************************************************)
EXTENDS WorkflowTx, TLC

CONSTANTS ada, report, s1, s2

DomainOfDocs == [d \in Docs |-> "ORDER_REPORT"]
Staff == [u \in Users |-> 3]
OrderReportSeed == <<"ORDER_REPORT">>

\* Orders 1, 2, ..., as the administration pages number them.
TwoSteps == {<<[order |-> 1, position |-> 2], [order |-> 2, position |-> 3]>>}
OneOrTwoSteps == TwoSteps \cup {<<[order |-> 1, position |-> 3]>>}

SessionSymmetry == Permutations(Sessions)

=============================================================================
