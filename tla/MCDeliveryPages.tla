--------------------------- MODULE MCDeliveryPages ---------------------------
(***************************************************************************)
(* Small instances of the pages of DeliveryPages for TLC.                  *)
(***************************************************************************)
EXTENDS DeliveryPages

CONSTANTS t1, pg1, pg2, pj1, pj2, ann1, bob1

\* Order reports: two opportunities of two companies, two products, one stored report.
CompanyOfDeal == <<1, 2>>
PriceList == [p |-> 2, q |-> 0]
ClassList == [p |-> "EMS", q |-> "FLOOR"]
BothSides == [d \in {"final", "partner"} |-> [company |-> 1, contact |-> 1]]
OrderRow == [opp |-> 1, sides |-> BothSides, product |-> "p", quantity |-> 2,
             fees |-> [k \in {"service", "other", "purchase"} |-> IF k = "other" THEN 0 ELSE 3],
             months |-> 3, cycle |-> "quarter", live |-> TRUE]
SomeOrders == {<< >>, <<OrderRow>>}

\* Approvals: two users of one name, one of them without the level.
StaffNames == [lead |-> "kim", head |-> "lee", member |-> "kim"]
StaffLevels == [lead |-> 2, head |-> 3, member |-> 1]
PageUsers == <<"lead", "head">>

\* Billing: two clerks of one name on the first step.
ClerkNames == [ann |-> "Ann", bob |-> "Ann", cid |-> "Cid"]
ClerksOfStep == <<{"ann", "bob"}, {"cid"}, {"cid"}>>
TwoLookers == <<"ann", "cid">>
OthersOfNumber == {[first |-> NoClerk, newer |-> FALSE], [first |-> "cid", newer |-> TRUE]}

\* Support: a request, an activity that refers to it, and two people of one name.
SupportRequest == [BlankSupport("request") EXCEPT !.customer = "c1", !.by = "kim"]
SupportActivity == [BlankSupport("activity") EXCEPT !.customer = "c1", !.by = "lee2", !.type = "REQUEST",
                                                    !.request = 1, !.parts = <<"kim">>]
SomeSupport == <<SupportRequest, SupportActivity>>
SupportStaff == <<"kim", "lee1", "lee2">>
SupportNames == [kim |-> "kim", lee1 |-> "lee", lee2 |-> "lee"]

\* Maintenance and projects: three users, two of one name.
ThreeUsers == <<"u1", "u2", "u3">>
KimLeeKim == [u1 |-> "kim", u2 |-> "lee", u3 |-> "kim"]
KimKimLee == [u1 |-> "kim", u2 |-> "kim", u3 |-> "lee"]
PeopleOfProject == [p \in {"pj1"} |-> [rep |-> "kim", pm |-> "lee"]]
TwoProjects == <<[pm |-> "", rep |-> "u2"], [pm |-> "u3", rep |-> "u3"]>>

\* Report: an option for one value, one for two.
OptionGroups == {{"EMS"}, {"DATACENTER", "RCA"}, {"ITAM"}}

\* Licences: two modules in groups of their own, one of them unknown to the server.
GroupOfModule == [m \in {"m1", "m2"} |-> IF m = "m1" THEN "g1" ELSE "g2"]

=============================================================================
