----------------------------- MODULE MCSession -----------------------------
(* Small instances of Session for TLC. *)
EXTENDS Session, TLC

CONSTANTS ada, lee, t1, t2, c1, c2

\* Nothing tells two tabs, users or calls apart.
Interchangeable == Permutations(Tabs) \cup Permutations(Users) \cup Permutations(Calls)

=============================================================================
