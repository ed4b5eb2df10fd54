---------------------------- MODULE MCSalesPages ----------------------------
(***************************************************************************)
(* Small instances of the forms of SalesPages for TLC.                     *)
(***************************************************************************)
EXTENDS SalesPages

CONSTANTS e1, e2, i1, i2, n1, n2, p1, m1, m2, d1, d2

\* Companies: two people typed in, one card, managers stored with the company.
Person(email, info) == [email |-> email, info |-> info]
TypedContacts == {Person(e1, i1), Person(e2, i2)}
OneCard == {Person(e2, Blank)}
SomeManagers == {<<Person(e1, i1)>>, <<Person(e1, i2), Person(e2, i1)>>}

\* Opportunities: two modules, one partner, at most a file.
TwoModules == <<m1, m2>>
OnePartner == <<p1>>
SomeFiles == {<< >>, <<d1>>}

\* A line stored with the price of the whole line.
WholeLines == {[quantity |-> 2, consumer |-> 3, supply |-> 4, shown |-> 2, listed |-> 3, live |-> TRUE]}

\* Activities: two opportunities of one customer, one of another; two colleagues.
FirmOfDeal == [o1 |-> "f1", o2 |-> "f1", o3 |-> "f2"]
ColleagueNames == [kim |-> "Kim", lee |-> "Lee"]
TwoColleagues == <<"kim", "lee">>
OneRequest == <<"f1">>

\* Proposals: two requests of one customer and type; a stored proposal with a file, or unfinished without.
TwoRequests == <<[opp |-> 1, customer |-> 1, type |-> "SI"], [opp |-> 2, customer |-> 1, type |-> "SI"]>>
StoredProposal(files) == [opp |-> 2, request |-> 2, files |-> files, completed |-> files # {}, live |-> TRUE]
SomeProposals == {<< >>, <<StoredProposal({1})>>, <<StoredProposal({})>>}

\* Bids: a customer with two proposals, two opportunities of one name.
FourProposals == <<[opp |-> 1, customer |-> 1], [opp |-> 2, customer |-> 1],
                   [opp |-> 3, customer |-> 2], [opp |-> 4, customer |-> 3]>>
SharedNames == <<"a", "b", "c", "a">>
ResultOf(p, factors) == [proposal |-> p, opp |-> ProposalOf[p].opp, factors |-> factors, item |-> "blank", live |-> TRUE]
SomeResults == {<< >>, <<ResultOf(1, "f")>>, <<ResultOf(1, NoFactors), ResultOf(3, NoFactors)>>}

\* PRB reports: one stored report with one version.
PrbNames == <<"a", "b", "a">>
PrbVersion(products) == [opp |-> 1, rep |-> "u", products |-> products, opinion |-> "none"]
StoredPrb == [opp |-> 1, rep |-> "u", products |-> << >>, opinion |-> "none", reviewer |-> "u", live |-> TRUE,
              status |-> "draft", versions |-> <<PrbVersion(<<"p">>)>>]
SomePrbs == {<< >>, <<StoredPrb>>}
PrbBounds == [new |-> 2, edit |-> 1, clone |-> 1]

\* RFP analyses: one customer with two stored ones, one of them without requirements.
RfpOwners == [o1 |-> "c1", o2 |-> "c1", o3 |-> "c2"]
SomeRfps == [o1 |-> [state |-> "live", rows |-> <<"r">>, about |-> "o1"],
             o2 |-> [state |-> "live", rows |-> << >>, about |-> "o2"],
             o3 |-> [state |-> "none", rows |-> << >>, about |-> NoDeal]]

\* PRB results: a result about the first of two reports of the user, with a former version.
Represented == <<"u", "u">>
FirstKnowledge == {[server |-> <<"approved", "draft">>, browser |-> <<"approved", "gone">>]}
ResultContent(text, said) == [about |-> 1, text |-> text, said |-> said]
SomePrbResults == {<< >>, <<[live |-> TRUE, now |-> ResultContent("r", <<[who |-> "u", text |-> "r"]>>),
                            past |-> <<ResultContent(NoText, <<[who |-> "v", text |-> "r"]>>), ResultContent("r", << >>)>>]>>}

\* Nothing tells two company names apart.
Interchangeable == Permutations(Names)

=============================================================================
