------------------------------- MODULE Approval ------------------------------
(***************************************************************************)
(* What approval promises whoever looks at a document, and nothing of how  *)
(* it comes about: templates, lines and approvers are not seen.            *)
(*                                                                         *)
(* A document waits for one decision at a time.  Its status leaves DRAFT   *)
(* when it is submitted, and any other status is the decision that ended   *)
(* the wait; what happens to one document is never seen in another.        *)
(***************************************************************************)
CONSTANTS
    Documents,
    Followed    \* documents whose status follows their decisions

VARIABLES
    status,   \* status[d]: the approval status shown
    waiting   \* documents that wait for a decision

promised == <<status, waiting>>

Decision == {"APPROVED", "REJECTED", "CANCELED"}

Init ==
    /\ status = [d \in Documents |-> "DRAFT"]
    /\ waiting = {}

\* A decision is asked for; a submission says so in the document, an
\* administrator's request does not.
Ask(d) ==
    /\ d \notin waiting
    /\ waiting' = waiting \cup {d}
    /\ \/ UNCHANGED status
       \/ /\ d \in Followed /\ status[d] = "DRAFT"
          /\ status' = [status EXCEPT ![d] = "PENDING"]

\* The decision comes: once, and in the document at the same time.
Decide(d, decision) ==
    /\ d \in waiting
    /\ waiting' = waiting \ {d}
    /\ status' = IF d \in Followed THEN [status EXCEPT ![d] = decision] ELSE status

Next == \E d \in Documents : Ask(d) \/ \E decision \in Decision : Decide(d, decision)

Spec == Init /\ [][Next]_promised

=============================================================================
