----------------------------- MODULE SalesProofs -----------------------------
(***************************************************************************)
(* Theorems about the forms of SalesPages. Each form has an inductive      *)
(* invariant of its own; a step of one form leaves the others as they are. *)
(***************************************************************************)
EXTENDS SalesPages, FiniteSetTheorems, SequenceTheorems, WellFoundedInduction, TLAPS

\* A step is a step of a form or leaves it as it is.
LEMMA FormsApart ==
    ASSUME [SalesNext]_salesVars
    PROVE  /\ CompanyNext \/ UNCHANGED companyVars
           /\ OpportunityNext \/ UNCHANGED oppVars
           /\ QuoteNext \/ UNCHANGED quoteVars
           /\ ActivityNext \/ UNCHANGED activityVars
           /\ ProposalNext \/ UNCHANGED propVars
           /\ BidNext \/ UNCHANGED bidVars
           /\ PrbNext \/ UNCHANGED prbVars
           /\ PrbResultNext \/ UNCHANGED resVars
           /\ RfpNext \/ UNCHANGED rfpVars
  <1>1. CASE SalesNext
    BY <1>1 DEF SalesNext, Works
  <1>2. CASE UNCHANGED salesVars
    BY <1>2 DEF salesVars
  <1> QED BY <1>1, <1>2

-----------------------------------------------------------------------------
(* Sequences, whatever they hold, and sets of numbers.                     *)

InOrder(s) == s \in Seq({s[k] : k \in DOMAIN s})

LEMMA OfSomething == ASSUME NEW S, NEW s \in Seq(S) PROVE InOrder(s)
  <1>1. Len(s) \in Nat /\ DOMAIN s = 1..Len(s) /\ s \in [1..Len(s) -> S]
    BY LenProperties
  <1> QED BY <1>1 DEF InOrder

LEMMA ListOf == ASSUME NEW n \in Nat, NEW S, NEW s \in [1..n -> S] PROVE s \in Seq(S) /\ Len(s) = n
  OBVIOUS

\* A function on the first numbers is a sequence.
LEMMA ListInOrder == ASSUME NEW s, NEW n \in Nat, NEW S, s \in [1..n -> S] PROVE InOrder(s) /\ Len(s) = n /\ DOMAIN s = 1..n
  <1>1. s \in Seq(S) /\ Len(s) = n /\ DOMAIN s = 1..n
    OBVIOUS
  <1> QED BY <1>1 DEF InOrder

LEMMA Added ==
    ASSUME NEW s, InOrder(s), NEW e
    PROVE  /\ InOrder(Append(s, e))
           /\ Len(s) \in Nat /\ DOMAIN s = 1..Len(s) /\ Len(Append(s, e)) = Len(s) + 1
           /\ \A k \in 1..Len(s) : Append(s, e)[k] = s[k]
           /\ Append(s, e)[Len(s) + 1] = e
  <1>1. PICK S : s \in Seq(S)
    BY DEF InOrder
  <1>2. /\ Len(s) \in Nat /\ DOMAIN s = 1..Len(s) /\ Len(Append(s, e)) = Len(s) + 1
        /\ \A k \in 1..Len(s) : Append(s, e)[k] = s[k]
        /\ Append(s, e)[Len(s) + 1] = e
        /\ Append(s, e) \in Seq(S \union {e})
    BY <1>1
  <1> QED BY <1>2 DEF InOrder

LEMMA Shortened ==
    ASSUME NEW s, InOrder(s), s # << >>
    PROVE  /\ InOrder(Tail(s)) /\ Len(s) \in Nat /\ Len(s) > 0 /\ Len(Tail(s)) = Len(s) - 1 /\ Head(s) = s[1]
           /\ Tail(s) = << >> <=> Len(s) = 1
           /\ \A k \in 1..(Len(s) - 1) : Tail(s)[k] = s[k + 1]
  <1>1. PICK S : s \in Seq(S)
    BY DEF InOrder
  <1>2. /\ Tail(s) \in Seq(S) /\ Len(s) \in Nat /\ Len(s) > 0 /\ Len(Tail(s)) = Len(s) - 1 /\ Head(s) = s[1]
        /\ \A k \in 1..(Len(s) - 1) : Tail(s)[k] = s[k + 1]
    BY <1>1
  <1>3. Tail(s) = << >> <=> Len(s) = 1
    <2>1. Tail(s) # << >> => Len(Tail(s)) \in Nat \ {0}
      BY <1>2, EmptySeq
    <2>2. ASSUME Tail(s) = << >> PROVE Len(Tail(s)) = 0
      <3>1. Len(<< >>) = 0
        BY EmptySeq
      <3> QED BY <2>2, <3>1
    <2>3. Tail(s) # << >> => Len(s) # 1
      BY <1>2, <2>1
    <2>4. Tail(s) = << >> => Len(s) = 1
      BY <1>2, <2>2
    <2> QED BY <2>3, <2>4
  <1>4. InOrder(Tail(s))
    BY <1>2, OfSomething
  <1> QED BY <1>2, <1>3, <1>4

\* Every set of numbers that is not empty has a least element.
LEMMA LeastNumber == ASSUME NEW T \in SUBSET Nat, T # {} PROVE \E n \in T : \A m \in T : n <= m
  <1> DEFINE below == {0..n : n \in T}
             inside == StrictSubsetOrdering(Nat)
  <1>1. IsWellFoundedOn(inside, FiniteSubsetsOf(Nat))
    BY FS_StrictSubsetOrderingWellFounded
  <1>2. below \subseteq FiniteSubsetsOf(Nat) /\ below # {}
    <2>1. ASSUME NEW n \in T PROVE 0..n \in FiniteSubsetsOf(Nat)
      <3>1. 0..n \in SUBSET Nat /\ IsFiniteSet(0..n)
        BY FS_Interval
      <3> QED BY <3>1 DEF FiniteSubsetsOf
    <2> QED BY <2>1
  <1> HIDE DEF inside
  <1>3. PICK least \in below : \A other \in below : <<other, least>> \notin inside
    <2> HIDE DEF below
    <2> QED BY <1>1, <1>2, WFMin
  <1>4. PICK n \in T : least = 0..n
    BY <1>3
  <1>5. ASSUME NEW m \in T, m < n PROVE FALSE
    <2>1. 0..m \subseteq 0..n /\ 0..m # 0..n /\ 0..m \in SUBSET Nat /\ 0..n \in SUBSET Nat
      <3>1. n \in 0..n /\ n \notin 0..m
        BY <1>5
      <3> QED BY <1>5, <3>1
    <2>2. <<0..m, 0..n>> \in inside
      BY <2>1 DEF inside, StrictSubsetOrdering
    <2> QED BY <2>2, <1>3, <1>4
  <1> QED BY <1>5

\* Without one entry a sequence has the others, and no more.
LEMMA WithoutOne ==
    ASSUME NEW s, InOrder(s), NEW i \in DOMAIN s
    PROVE  /\ InOrder(RemoveAt(s, i)) /\ Len(RemoveAt(s, i)) = Len(s) - 1 /\ Len(s) \in Nat
           /\ \A k \in DOMAIN RemoveAt(s, i) : \E j \in DOMAIN s : RemoveAt(s, i)[k] = s[j]
           /\ \A j \in DOMAIN s : j # i => \E k \in DOMAIN RemoveAt(s, i) : RemoveAt(s, i)[k] = s[j]
  <1> DEFINE S == {s[k] : k \in DOMAIN s}
             n == Len(s)
             a == SubSeq(s, 1, i - 1)
             b == SubSeq(s, i + 1, n)
             left == a \o b
  <1>1. s \in Seq(S) /\ n \in Nat /\ DOMAIN s = 1..n /\ i \in 1..n /\ \A k \in 1..n : s[k] \in S
    <2>1. s \in Seq(S)
      BY DEF InOrder
    <2>2. \A k \in DOMAIN s : s[k] \in S
      OBVIOUS
    <2> HIDE DEF S
    <2>3. n \in Nat /\ DOMAIN s = 1..n
      BY <2>1, LenProperties
    <2> HIDE DEF n
    <2>4. i \in 1..n
      BY <2>3, Zenon
    <2>5. \A k \in 1..n : s[k] \in S
      BY <2>2, <2>3, Zenon
    <2> QED BY <2>1, <2>3, <2>4, <2>5, Zenon
  <1>2. a \in Seq(S) /\ Len(a) = i - 1 /\ \A k \in 1..(i - 1) : a[k] = s[k]
    <2>1. \A k \in 1..(i - 1) : s[k] \in S
      <3> HIDE DEF S, n
      <3>1. \A k \in 1..(i - 1) : k \in 1..n
        BY <1>1
      <3> QED BY <1>1, <3>1, Zenon
    <2>2. /\ SubSeq(s, 1, i - 1) \in Seq(S)
          /\ Len(SubSeq(s, 1, i - 1)) = IF 1 <= i - 1 THEN i - 1 - 1 + 1 ELSE 0
          /\ \A k \in 1..(i - 1 - 1 + 1) : SubSeq(s, 1, i - 1)[k] = s[1 + k - 1]
      <3> HIDE DEF S, n
      <3>1. 1 \in Int /\ i - 1 \in Int
        BY <1>1
      <3> QED BY <2>1, <3>1, SubSeqProperties
    <2> HIDE DEF S, n
    <2>3. Len(a) = i - 1
      BY <1>1, <2>2
    <2>4. \A k \in 1..(i - 1) : a[k] = s[k]
      BY <1>1, <2>2
    <2> QED BY <2>2, <2>3, <2>4
  <1>3. b \in Seq(S) /\ Len(b) = n - i /\ \A k \in 1..(n - i) : b[k] = s[k + i]
    <2>1. \A k \in (i + 1)..n : s[k] \in S
      BY <1>1
    <2>2. /\ SubSeq(s, i + 1, n) \in Seq(S)
          /\ Len(SubSeq(s, i + 1, n)) = IF i + 1 <= n THEN n - (i + 1) + 1 ELSE 0
          /\ \A k \in 1..(n - (i + 1) + 1) : SubSeq(s, i + 1, n)[k] = s[i + 1 + k - 1]
      <3> HIDE DEF S, n
      <3>1. i + 1 \in Int /\ n \in Int
        BY <1>1
      <3> QED BY <2>1, <3>1, SubSeqProperties
    <2> HIDE DEF S, n
    <2>3. Len(b) = n - i
      BY <1>1, <2>2
    <2>4. \A k \in 1..(n - i) : b[k] = s[k + i]
      BY <1>1, <2>2
    <2> QED BY <2>2, <2>3, <2>4
  <1>4. RemoveAt(s, i) = left
    BY DEF RemoveAt
  <1>5. /\ left \in Seq(S) /\ Len(left) = Len(a) + Len(b)
        /\ \A k \in 1..(Len(a) + Len(b)) : left[k] = IF k <= Len(a) THEN a[k] ELSE b[k - Len(a)]
    <2> HIDE DEF S, a, b
    <2> QED BY <1>2, <1>3, ConcatProperties
  <1> HIDE DEF S, n, a, b, left
  <1>6. Len(left) = n - 1 /\ DOMAIN left = 1..(n - 1)
    <2>1. Len(left) = n - 1
      BY <1>1, <1>2, <1>3, <1>5
    <2> QED BY <1>5, <2>1, LenProperties
  <1>7. \A k \in 1..(i - 1) : left[k] = s[k]
    <2> SUFFICES ASSUME NEW k \in 1..(i - 1) PROVE left[k] = s[k]
      OBVIOUS
    <2>1. k \in 1..(Len(a) + Len(b)) /\ k <= Len(a)
      BY <1>1, <1>2, <1>3
    <2> QED BY <1>2, <1>5, <2>1
  <1>8. \A k \in i..(n - 1) : left[k] = s[k + 1]
    <2> SUFFICES ASSUME NEW k \in i..(n - 1) PROVE left[k] = s[k + 1]
      OBVIOUS
    <2>1. k \in 1..(Len(a) + Len(b)) /\ ~(k <= Len(a)) /\ k - Len(a) \in 1..(n - i) /\ k - Len(a) + i = k + 1
      BY <1>1, <1>2, <1>3
    <2>2. left[k] = b[k - Len(a)]
      BY <1>5, <2>1
    <2> QED BY <1>3, <2>1, <2>2
  <1>9. \A k \in 1..(n - 1) : \E j \in 1..n : left[k] = s[j]
    <2> SUFFICES ASSUME NEW k \in 1..(n - 1) PROVE \E j \in 1..n : left[k] = s[j]
      OBVIOUS
    <2>1. CASE k <= i - 1
      <3>1. k \in 1..(i - 1) /\ k \in 1..n
        BY <1>1, <2>1
      <3> QED BY <1>7, <3>1
    <2>2. CASE k > i - 1
      <3>1. k \in i..(n - 1) /\ k + 1 \in 1..n
        BY <1>1, <2>2
      <3> QED BY <1>8, <3>1
    <2> QED BY <1>1, <2>1, <2>2
  <1>10. \A j \in 1..n : j # i => \E k \in 1..(n - 1) : left[k] = s[j]
    <2> SUFFICES ASSUME NEW j \in 1..n, j # i PROVE \E k \in 1..(n - 1) : left[k] = s[j]
      OBVIOUS
    <2>1. CASE j < i
      <3>1. j \in 1..(i - 1) /\ j \in 1..(n - 1)
        BY <1>1, <2>1
      <3> QED BY <1>7, <3>1
    <2>2. CASE j > i
      <3>1. j - 1 \in i..(n - 1) /\ j - 1 \in 1..(n - 1) /\ (j - 1) + 1 = j
        BY <1>1, <2>2
      <3>2. left[j - 1] = s[(j - 1) + 1]
        BY <1>8, <3>1
      <3> QED BY <3>1, <3>2
    <2> QED BY <1>1, <2>1, <2>2
  <1>11. InOrder(left)
    BY <1>5, OfSomething
  <1> QED BY <1>1, <1>4, <1>6, <1>9, <1>10, <1>11 DEF n

LEMMA FirstNumbers == ASSUME NEW n \in Nat PROVE IsFiniteSet(1..n) /\ Cardinality(1..n) = n
  BY FS_Interval

\* In a finite set of numbers each rank is that of one of them.
LEMMA RankFound ==
    ASSUME NEW S \in SUBSET Nat, IsFiniteSet(S), NEW k \in 1..Cardinality(S)
    PROVE  \E i \in S : Cardinality({j \in S : j <= i}) = k
  <1> DEFINE n == Cardinality(S)
             upto(i) == {j \in S : j <= i}
             rank == [i \in S |-> Cardinality(upto(i))]
  <1>1. n \in Nat
    BY FS_CardinalityType
  <1>2. ASSUME NEW i \in S PROVE IsFiniteSet(upto(i)) /\ Cardinality(upto(i)) \in 1..n
    <2>1. upto(i) \in SUBSET S /\ i \in upto(i)
      OBVIOUS
    <2> HIDE DEF upto
    <2>2. IsFiniteSet(upto(i)) /\ Cardinality(upto(i)) <= n
      BY <2>1, FS_Subset
    <2>3. Cardinality(upto(i)) \in Nat /\ Cardinality(upto(i)) # 0
      BY <2>1, <2>2, FS_CardinalityType, FS_EmptySet
    <2> QED BY <1>1, <2>2, <2>3
  <1>3. ASSUME NEW i \in S, NEW j \in S, i < j PROVE Cardinality(upto(i)) # Cardinality(upto(j))
    <2>1. upto(i) \in SUBSET upto(j) /\ j \in upto(j) /\ j \notin upto(i)
      <3>1. \A q \in S : q <= i => q <= j
        BY <1>3
      <3>2. j <= j /\ ~(j <= i)
        BY <1>3
      <3> QED BY <3>1, <3>2
    <2>2. IsFiniteSet(upto(j))
      BY <1>2
    <2> HIDE DEF upto
    <2> QED BY <2>1, <2>2, FS_Subset
  <1>4. rank \in Injection(S, 1..n)
    <2> HIDE DEF upto
    <2>1. rank \in [S -> 1..n]
      BY <1>2
    <2>2. ASSUME NEW i \in S, NEW j \in S, rank[i] = rank[j] PROVE i = j
      <3>1. ~(i < j) /\ ~(j < i)
        BY <1>3, <2>2
      <3> QED BY <3>1
    <2> HIDE DEF rank
    <2> QED BY <2>1, <2>2 DEF Injection, IsInjective
  <1>5. IsFiniteSet(1..n) /\ Cardinality(1..n) = n
    BY <1>1, FS_Interval
  <1>6. rank \in Surjection(S, 1..n)
    <2> HIDE DEF rank
    <2> QED BY <1>4, <1>5, FS_Injection
  <1>7. PICK i \in S : rank[i] = k
    <2> HIDE DEF rank
    <2> QED BY <1>6 DEF Surjection
  <1> QED BY <1>7

\* Ids are put in order: a list of them all.
LEMMA ByIdIs ==
    ASSUME NEW S \in SUBSET Nat, IsFiniteSet(S)
    PROVE  ById(S) \in [1..Cardinality(S) -> S] /\ Cardinality(S) \in Nat
  <1> DEFINE found(k) == CHOOSE i \in S : Cardinality({j \in S : j <= i}) = k
  <1>1. \A k \in 1..Cardinality(S) : found(k) \in S
    BY RankFound
  <1>2. ById(S) = [k \in 1..Cardinality(S) |-> found(k)]
    BY DEF ById
  <1> HIDE DEF found
  <1> QED BY <1>1, <1>2, FS_CardinalityType

-----------------------------------------------------------------------------
(* Companies: registering one.                                             *)

CompanyShape ==
    [kind : Kind, phase : {"open", "left"}, loaded : BOOLEAN, known : {form.known}, typed : {form.typed}, name : {form.name},
     contacts : {form.contacts}, original : {form.original}, existing : {form.existing}]

CompanyRow == [name : Names, live : BOOLEAN]
RunPhase == {"idle", "forward", "undo", "saved", "failed"}

RunsShaped ==
    \E names, people, chains, alone :
        run \in [Runs -> [phase : RunPhase, name : names, contacts : people, company : Nat, calls : chains, alone : alone]]

\* What is left of a registration: the company and its managers, or only managers.
CompanyAndManagers(calls) ==
    /\ InOrder(calls) /\ calls # << >> /\ calls[1].op = "createCompany"
    /\ \A k \in 1..(Len(calls) - 1) : calls[k + 1].op = "createManager"
OnlyManagers(calls) ==
    /\ InOrder(calls) /\ calls # << >>
    /\ \A k \in 1..Len(calls) : calls[k].op = "createManager"

\* A run knows the company it has created, and undoes nothing else.
RunInv(r) ==
    /\ run[r].company = 0 \/ run[r].company \in 2..Len(company)
    /\ run[r].phase # "idle" =>
         run[r].name \in Names /\ (form.kind = "newCustomer" => run[r].name # company[1].name)
    /\ run[r].phase = "forward" =>
         IF run[r].company = 0 THEN CompanyAndManagers(run[r].calls) ELSE OnlyManagers(run[r].calls)
    /\ run[r].phase = "undo" => run[r].company # 0 /\ run[r].calls = <<ThisCompany("deleteCompany")>>

\* A registration that runs, or has been reported, answers for the company.
Owned(i) == \E r \in Runs : run[r].phase \in {"forward", "undo", "saved"} /\ run[r].company = i

RegisteringInv ==
    /\ company \in Seq(CompanyRow) /\ Len(company) >= 1 /\ company[1].live
    /\ form.contacts \in Seq(Contact) /\ ocr.contact \in Contact
    /\ form.loaded => company[1].name \in form.known
    /\ badCalls \in Nat
    /\ RunsShaped
    /\ \A r \in Runs : RunInv(r)
    /\ \A r, q \in Runs : Active(r) /\ Active(q) => r = q
    /\ badCalls = 0 => \A i \in 2..Len(company) : company[i].live => Owned(i)

CompanyInv == form \in CompanyShape /\ (IsNew => RegisteringInv)

LEMMA CompanyInvStarts == CompanyInit => CompanyInv
  <1> SUFFICES ASSUME CompanyInit PROVE CompanyInv
    OBVIOUS
  <1>1. PICK name \in Names, kind \in Kinds, rows \in StoredManagers :
          /\ company = <<[name |-> name, live |-> TRUE]>>
          /\ form = [kind |-> kind, phase |-> "open", loaded |-> FALSE, known |-> {},
                     typed |-> 0, name |-> Blank, contacts |-> <<EmptyContact>>,
                     original |-> [name |-> Blank, contacts |-> << >>], existing |-> << >>]
          /\ run = [r \in Runs |-> NoRun]
          /\ badCalls = 0
    BY DEF CompanyInit
  <1>2. kind \in Kind
    BY CompanyFormAssumption
  <1>3. form \in CompanyShape
    <2> DEFINE original == [name |-> Blank, contacts |-> << >>]
               contacts == <<EmptyContact>>
    <2> HIDE DEF original, contacts
    <2>1. form = [kind |-> kind, phase |-> "open", loaded |-> FALSE, known |-> {}, typed |-> 0, name |-> Blank,
                  contacts |-> contacts, original |-> original, existing |-> << >>]
      BY <1>1 DEF original, contacts
    <2> QED BY <1>2, <2>1 DEF CompanyShape
  <1>4. company \in Seq(CompanyRow) /\ Len(company) = 1 /\ company[1].live
    BY <1>1 DEF CompanyRow
  <1>5. form.contacts \in Seq(Contact) /\ ~form.loaded /\ ocr.contact \in Contact
    <2>1. EmptyContact \in Contact
      BY DEF EmptyContact, Contact
    <2>2. ocr.contact = EmptyContact
      BY DEF CompanyInit, NoCard
    <2> QED BY <1>1, <2>1, <2>2
  <1>6. RunsShaped
    <2> DEFINE calls == << >>
    <2>1. NoRun \in [phase : RunPhase, name : {Blank}, contacts : {calls}, company : Nat, calls : {calls}, alone : {TRUE}]
      BY DEF NoRun, RunPhase
    <2>2. run \in [Runs -> [phase : RunPhase, name : {Blank}, contacts : {calls}, company : Nat, calls : {calls}, alone : {TRUE}]]
      BY <1>1, <2>1
    <2> QED BY <2>2 DEF RunsShaped
  <1>7. \A r \in Runs : run[r].phase = "idle" /\ run[r].company = 0
    BY <1>1 DEF NoRun
  <1>8. \A r \in Runs : RunInv(r) /\ ~Active(r)
    BY <1>7 DEF RunInv, Active
  <1>9. RegisteringInv
    BY <1>1, <1>4, <1>5, <1>6, <1>8 DEF RegisteringInv
  <1> QED BY <1>3, <1>9 DEF CompanyInv

\* Steps that change the form alone.
LEMMA TypingKeeps ==
    ASSUME CompanyInv, UNCHANGED <<company, run, badCalls>>,
           form' \in CompanyShape', form'.kind = form.kind,
           IsNew /\ RegisteringInv =>
             form'.contacts \in Seq(Contact) /\ ocr'.contact \in Contact /\ (form'.loaded => company[1].name \in form'.known)
    PROVE  CompanyInv'
  <1>1. IsNew' => IsNew
    BY DEF IsNew
  <1>2. ASSUME IsNew' PROVE RegisteringInv'
    <2>1. RegisteringInv /\ IsNew
      BY <1>1, <1>2 DEF CompanyInv
    <2>2. \A r \in Runs : RunInv(r)'
      BY <2>1 DEF RegisteringInv, RunInv
    <2>3. RunsShaped'
      BY <2>1 DEF RegisteringInv, RunsShaped
    <2>4. badCalls' = 0 => \A i \in 2..Len(company') : company'[i].live => Owned(i)'
      BY <2>1 DEF RegisteringInv, Owned
    <2>5. \A r, q \in Runs : Active(r)' /\ Active(q)' => r = q
      BY <2>1 DEF RegisteringInv, Active
    <2> QED BY <2>1, <2>2, <2>3, <2>4, <2>5 DEF RegisteringInv
  <1> QED BY <1>2 DEF CompanyInv

LEMMA Removed == ASSUME NEW S, NEW s \in Seq(S), NEW i \in 1..Len(s) PROVE RemoveAt(s, i) \in Seq(S)
  <1>1. Len(s) \in Nat /\ \A k \in 1..Len(s) : s[k] \in S
    OBVIOUS
  <1>2. SubSeq(s, 1, i - 1) \in Seq(S)
    BY <1>1, SubSeqProperties
  <1>3. SubSeq(s, i + 1, Len(s)) \in Seq(S)
    BY <1>1, SubSeqProperties
  <1> QED BY <1>2, <1>3, ConcatProperties DEF RemoveAt

LEMMA TypingKeepsInv ==
    ASSUME CompanyInv,
           \/ \E order \in SetToSeqs(ManagersOf(1)) : Loaded(order)
           \/ \E name \in Names : EditName(name)
           \/ AddContact
           \/ \E i \in DOMAIN form.contacts :
                ReadCard(i) \/ RemoveContact(i) \/ \E contact \in Typed : EditContact(i, contact)
           \/ \E found \in Cards : CardRead(found)
    PROVE  CompanyInv'
  <1> USE DEF CompanyShape
  <1>0. form \in CompanyShape /\ (IsNew => RegisteringInv)
    BY DEF CompanyInv
  <1>1. ASSUME NEW order, Loaded(order) PROVE CompanyInv'
    <2> DEFINE names == {company[i].name : i \in {j \in DOMAIN company : company[j].live}}
               contacts == [i \in DOMAIN order |-> [email |-> manager[order[i]].email, info |-> manager[order[i]].info]]
               name == company[1].name
               original == [name |-> company[1].name, contacts |-> contacts]
               existing == ById(ManagersOf(1))
    <2>1. form' = IF IsNew THEN [form EXCEPT !.loaded = TRUE, !.known = names]
                  ELSE [form EXCEPT !.loaded = TRUE, !.known = names \ {name}, !.name = name, !.contacts = contacts,
                                    !.original = original, !.existing = existing]
      BY <1>1 DEF Loaded
    <2>2. IsNew /\ RegisteringInv => name \in names
      <3>1. RegisteringInv => 1 \in DOMAIN company /\ company[1].live
        BY DEF RegisteringInv
      <3> QED BY <3>1
    <2> HIDE DEF names, contacts, name, original, existing
    <2>3. form' \in CompanyShape' /\ form'.kind = form.kind
      BY <1>0, <2>1
    <2>4. IsNew => form'.contacts = form.contacts /\ form'.known = names
      BY <1>0, <2>1
    <2>5. IsNew /\ RegisteringInv => form'.contacts \in Seq(Contact) /\ company[1].name \in form'.known
      BY <2>2, <2>4 DEF RegisteringInv, name
    <2>6. RegisteringInv => ocr'.contact \in Contact
      BY <1>1 DEF Loaded, RegisteringInv
    <2> QED BY <1>1, <2>3, <2>5, <2>6, TypingKeeps DEF Loaded
  <1>2. ASSUME NEW name, EditName(name) PROVE CompanyInv'
    <2>1. form' \in CompanyShape' /\ form'.kind = form.kind /\ form'.contacts = form.contacts /\ form'.loaded = form.loaded
          /\ form'.known = form.known
      BY <1>0, <1>2 DEF EditName
    <2> QED BY <1>2, <2>1, TypingKeeps DEF EditName, RegisteringInv
  <1>3. ASSUME NEW contacts, RegisteringInv => contacts \in Seq(Contact) /\ ocr'.contact \in Contact,
               \/ form' = [form EXCEPT !.contacts = contacts, !.typed = @ + 1]
               \/ form' = [form EXCEPT !.contacts = contacts],
               UNCHANGED <<company, run, badCalls>>
        PROVE  CompanyInv'
    <2>1. form' \in CompanyShape' /\ form'.kind = form.kind /\ form'.contacts = contacts /\ form'.loaded = form.loaded
          /\ form'.known = form.known
      BY <1>0, <1>3
    <2> QED BY <1>3, <2>1, TypingKeeps DEF RegisteringInv
  <1>4. CASE AddContact
    <2> DEFINE contacts == Append(form.contacts, EmptyContact)
    <2>1. EmptyContact \in Contact
      BY DEF EmptyContact, Contact
    <2>2. RegisteringInv => contacts \in Seq(Contact)
      BY <2>1, AppendProperties DEF RegisteringInv
    <2>3. form' = [form EXCEPT !.contacts = contacts, !.typed = @ + 1] /\ UNCHANGED <<company, ocr, run, badCalls>>
      BY <1>0, <1>4 DEF AddContact
    <2>4. RegisteringInv => ocr'.contact \in Contact
      BY <2>3 DEF RegisteringInv
    <2> HIDE DEF contacts
    <2> QED BY <1>3, <2>2, <2>3, <2>4
  <1>5. ASSUME NEW i \in DOMAIN form.contacts, RemoveContact(i) PROVE CompanyInv'
    <2> DEFINE contacts == RemoveAt(form.contacts, i)
    <2>2. RegisteringInv => contacts \in Seq(Contact)
      BY Removed, LenProperties DEF RegisteringInv
    <2>3. form' = [form EXCEPT !.contacts = contacts, !.typed = @ + 1] /\ UNCHANGED <<company, ocr, run, badCalls>>
      BY <1>0, <1>5 DEF RemoveContact
    <2>4. RegisteringInv => ocr'.contact \in Contact
      BY <2>3 DEF RegisteringInv
    <2> HIDE DEF contacts
    <2> QED BY <1>3, <2>2, <2>3, <2>4
  <1>6. ASSUME NEW i \in DOMAIN form.contacts, NEW contact, RegisteringInv => contact \in Contact /\ ocr'.contact \in Contact,
               form' = [form EXCEPT !.contacts[i] = contact, !.typed = @ + 1] \/ form' = [form EXCEPT !.contacts[i] = contact],
               UNCHANGED <<company, run, badCalls>>
        PROVE  CompanyInv'
    <2> DEFINE contacts == [form.contacts EXCEPT ![i] = contact]
    <2>1. RegisteringInv => contacts \in Seq(Contact)
      BY <1>6, ExceptSeq, LenProperties DEF RegisteringInv
    <2>2. form' = [form EXCEPT !.contacts = contacts, !.typed = @ + 1] \/ form' = [form EXCEPT !.contacts = contacts]
      BY <1>6, <1>0
    <2> HIDE DEF contacts
    <2> QED BY <1>3, <1>6, <2>1, <2>2
  <1>7. ASSUME NEW i \in DOMAIN form.contacts, NEW contact \in Typed, EditContact(i, contact) PROVE CompanyInv'
    <2>1. contact \in Contact
      BY CompanyFormAssumption
    <2>2. form' = [form EXCEPT !.contacts[i] = contact, !.typed = @ + 1] /\ UNCHANGED <<company, ocr, run, badCalls>>
      BY <1>7 DEF EditContact
    <2>3. RegisteringInv => ocr'.contact \in Contact
      BY <2>2 DEF RegisteringInv
    <2> QED BY <1>6, <2>1, <2>2, <2>3
  <1>8. ASSUME NEW i \in DOMAIN form.contacts, ReadCard(i) PROVE CompanyInv'
    <2>1. form' \in CompanyShape' /\ form'.kind = form.kind /\ form'.contacts = form.contacts /\ form'.loaded = form.loaded
          /\ form'.known = form.known
      BY <1>0, <1>8 DEF ReadCard
    <2>2. ocr'.contact = form.contacts[i]
      BY <1>8 DEF ReadCard
    <2>3. RegisteringInv => ocr'.contact \in Contact
      BY <2>2, ElementOfSeq, LenProperties DEF RegisteringInv
    <2> QED BY <1>8, <2>1, <2>3, TypingKeeps DEF ReadCard, RegisteringInv
  <1>9. ASSUME NEW found \in Cards, CardRead(found) PROVE CompanyInv'
    <2> DEFINE next == [email |-> KeepExisting(ocr.contact.email, found.email),
                        info |-> KeepExisting(ocr.contact.info, found.info)]
               at == ocr.at
    <2>1. /\ ocr'.contact = EmptyContact /\ UNCHANGED <<company, run, badCalls>>
          /\ form' = IF at \in DOMAIN form.contacts /\ HasContactValue(next)
                     THEN [form EXCEPT !.contacts[at] = next] ELSE form
      BY <1>9 DEF CardRead, NoCard
    <2>2. RegisteringInv => next \in Contact /\ ocr'.contact \in Contact
      <3>1. found \in Contact
        BY CompanyFormAssumption
      <3> QED BY <2>1, <3>1 DEF RegisteringInv, Contact, KeepExisting, EmptyContact
    <2> HIDE DEF next, at
    <2>3. CASE at \in DOMAIN form.contacts /\ form' = [form EXCEPT !.contacts[at] = next]
      BY <1>6, <2>1, <2>2, <2>3
    <2>4. CASE form' = form
      BY <1>0, <2>1, <2>2, <2>4, TypingKeeps DEF RegisteringInv
    <2> QED BY <2>1, <2>3, <2>4
  <1> QED BY <1>1, <1>2, <1>4, <1>5, <1>7, <1>8, <1>9

-----------------------------------------------------------------------------
(* Companies: the runs.                                                    *)

\* The contacts filled in are some number of contacts.
\* The contacts filled in are contacts of the form.
LEMMA FilledIs ==
    ASSUME NEW contacts \in Seq(Contact)
    PROVE  \E n \in Nat :
             /\ DOMAIN Filled(contacts) = 1..n
             /\ \A k \in 1..n : \E i \in DOMAIN contacts : Filled(contacts)[k] = contacts[i]
             /\ Filled(contacts) \in [1..n -> Contact]
  <1> DEFINE typed == {i \in DOMAIN contacts : HasContactValue(contacts[i])}
             at == ById(typed)
             n == Cardinality(typed)
  <1>1. typed \in SUBSET Nat /\ IsFiniteSet(typed) /\ typed \subseteq DOMAIN contacts
    <2>1. IsFiniteSet(1..Len(contacts)) /\ typed \in SUBSET (1..Len(contacts))
      BY FS_Interval
    <2> QED BY <2>1, FS_Subset
  <1>2. Filled(contacts) = [k \in DOMAIN at |-> contacts[at[k]]]
    BY DEF Filled
  <1> HIDE DEF typed
  <1>3. at \in [1..n -> typed] /\ n \in Nat
    BY <1>1, ByIdIs
  <1> HIDE DEF at, n
  <1>4. \A k \in 1..n : at[k] \in DOMAIN contacts /\ Filled(contacts)[k] = contacts[at[k]]
    BY <1>1, <1>2, <1>3
  <1>5. \A k \in 1..n : contacts[at[k]] \in Contact
    BY <1>4, ElementOfSeq, LenProperties
  <1>6. Filled(contacts) \in [1..n -> Contact]
    BY <1>2, <1>3, <1>5
  <1>7. DOMAIN Filled(contacts) = 1..n
    BY <1>6
  <1> QED BY <1>3, <1>4, <1>6, <1>7

LEMMA ChainOfNew ==
    ASSUME IsNew, form.contacts \in Seq(Contact)
    PROVE  CompanyAndManagers(Chain(Filled(form.contacts)))
  <1> DEFINE contacts == Filled(form.contacts)
             calls == CreateManagers(contacts)
             first == ThisCompany("createCompany")
             whole == <<first>> \o calls
  <1>1. PICK n \in Nat : \E S : contacts \in [1..n -> S]
    BY FilledIs
  <1>2. calls \in [1..n -> {Call("createManager", 0, contacts[k]) : k \in 1..n}] /\ \A k \in 1..n : calls[k].op = "createManager"
    <2> HIDE DEF contacts
    <2>1. calls = [k \in 1..n |-> Call("createManager", 0, contacts[k])]
      BY <1>1 DEF CreateManagers
    <2> HIDE DEF calls
    <2>2. \A k \in 1..n : calls[k] = Call("createManager", 0, contacts[k])
      BY <2>1
    <2> QED BY <2>1, <2>2 DEF Call
  <1>3. Chain(contacts) = whole
    BY DEF Chain, IsNew
  <1>4. first.op = "createCompany"
    BY DEF ThisCompany, Call
  <1> HIDE DEF contacts, calls, first
  <1>5. InOrder(calls) /\ Len(calls) = n
    BY <1>2, ListInOrder
  <1>6. InOrder(whole) /\ Len(whole) = Len(calls) + 1 /\ whole[1] = first /\ \A k \in 1..Len(calls) : whole[k + 1] = calls[k]
    <2>1. PICK S : calls \in Seq(S)
      BY <1>5 DEF InOrder
    <2>2. <<first>> \in Seq(S \union {first}) /\ calls \in Seq(S \union {first}) /\ Len(<<first>>) = 1 /\ <<first>>[1] = first
      BY <2>1
    <2>3. /\ whole \in Seq(S \union {first}) /\ Len(whole) = Len(calls) + 1 /\ Len(calls) \in Nat
          /\ whole[1] = first /\ \A k \in 1..Len(calls) : whole[k + 1] = calls[k]
      BY <2>2
    <2> HIDE DEF whole
    <2>4. InOrder(whole)
      BY <2>3, OfSomething
    <2> QED BY <2>3, <2>4
  <1> HIDE DEF whole
  <1>7. whole # << >>
    BY <1>5, <1>6, EmptySeq
  <1>8. Len(whole) - 1 = n
    BY <1>5, <1>6
  <1>9. \A k \in 1..(Len(whole) - 1) : whole[k + 1].op = "createManager"
    BY <1>2, <1>5, <1>6, <1>8
  <1>10. CompanyAndManagers(whole)
    BY <1>4, <1>6, <1>7, <1>9 DEF CompanyAndManagers
  <1> QED BY <1>3, <1>10 DEF contacts

LEMMA RunChanges ==
    ASSUME RunsShaped, NEW r \in Runs, NEW phase \in RunPhase, NEW c \in Nat, NEW rest,
           \/ run' = [run EXCEPT ![r].calls = rest, ![r].company = c, ![r].phase = phase]
           \/ c = run[r].company /\ run' = [run EXCEPT ![r].calls = rest, ![r].phase = phase]
    PROVE  /\ RunsShaped'
           /\ run'[r].phase = phase /\ run'[r].company = c /\ run'[r].calls = rest /\ run'[r].name = run[r].name
           /\ \A q \in Runs : q # r => run'[q] = run[q]
  <1>1. PICK names, people, chains, alone :
          run \in [Runs -> [phase : RunPhase, name : names, contacts : people, company : Nat, calls : chains, alone : alone]]
    BY DEF RunsShaped
  <1>2. run' \in [Runs -> [phase : RunPhase, name : names, contacts : people, company : Nat, calls : chains \union {rest}, alone : alone]]
    BY <1>1
  <1>3. RunsShaped'
    BY <1>2 DEF RunsShaped
  <1> QED BY <1>1, <1>3

\* A step of one registration; no other one answers for its company.
LEMMA RegistrationKeeps ==
    ASSUME RegisteringInv, IsNew, NEW r \in Runs, \A q \in Runs : Active(q) => q = r,
           form' \in CompanyShape', form'.kind = form.kind, form'.contacts = form.contacts, form'.loaded = form.loaded,
           form'.known = form.known, UNCHANGED ocr,
           RunsShaped', run'[r].name \in Names, form.kind = "newCustomer" => run'[r].name # company[1].name, \A q \in Runs : q # r => run'[q] = run[q],
           company' \in Seq(CompanyRow), Len(company') >= Len(company), company'[1] = company[1],
           run'[r].company = 0 \/ run'[r].company \in 2..Len(company'),
           run'[r].phase = "forward" =>
             IF run'[r].company = 0 THEN CompanyAndManagers(run'[r].calls) ELSE OnlyManagers(run'[r].calls),
           run'[r].phase = "undo" => run'[r].company # 0 /\ run'[r].calls = <<ThisCompany("deleteCompany")>>,
           badCalls' \in Nat,
           badCalls' = 0 => \A i \in 2..Len(company') : company'[i].live => Owned(i)'
    PROVE  CompanyInv'
  <1>1. Len(company) \in Nat /\ Len(company') \in Nat /\ Len(company) >= 1
    BY DEF RegisteringInv
  <1>2. RunInv(r)'
    BY <1>1 DEF RegisteringInv, RunInv, Active
  <1>3. ASSUME NEW q \in Runs, q # r PROVE RunInv(q)'
    <2>1. RunInv(q)
      BY DEF RegisteringInv
    <2> QED BY <1>1, <1>3, <2>1 DEF RunInv
  <1>4. \A q \in Runs : RunInv(q)'
    BY <1>2, <1>3
  <1>5. \A q \in Runs : Active(q)' => q = r
    BY DEF Active
  <1>6. RegisteringInv'
    BY <1>1, <1>4, <1>5 DEF RegisteringInv
  <1> QED BY <1>6 DEF CompanyInv

\* Nothing is claimed of a page that edits.
LEMMA EditKeeps ==
    ASSUME CompanyInv, ~IsNew, form' \in CompanyShape', form'.kind = form.kind
    PROVE  CompanyInv'
  BY DEF CompanyInv, IsNew

\* A registration starts when no other runs, with a name that is not known yet.
LEMMA StartKeeps == ASSUME CompanyInv, NewCustomerSubmit \/ NewPartnerSubmit PROVE CompanyInv'
  <1> DEFINE contacts == Filled(form.contacts)
             chain == Chain(contacts)
  <1>1. IsNew /\ RegisteringInv /\ ~Submitting /\ form.name \in Names \ form.known
    BY DEF CompanyInv, NewCustomerSubmit, NewPartnerSubmit, Start, IsNew
  <1>2. UNCHANGED <<company, form, ocr, badCalls>>
    BY DEF NewCustomerSubmit, NewPartnerSubmit, Start
  <1>3. PICK r \in Runs :
          /\ run[r].phase = "idle"
          /\ run' = [q \in Runs |->
               CASE q = r -> [phase |-> "forward", name |-> form.name, contacts |-> contacts,
                              company |-> IF IsNew THEN 0 ELSE 1, calls |-> chain, alone |-> ~Submitting]
                 [] run[q].phase \in {"forward", "undo"} -> [run[q] EXCEPT !.alone = FALSE]
                 [] OTHER -> run[q]]
    BY DEF NewCustomerSubmit, NewPartnerSubmit, Start
  <1>4. CompanyAndManagers(chain)
    BY <1>1, ChainOfNew DEF RegisteringInv
  <1> HIDE DEF contacts, chain
  <1>5. \A q \in Runs : ~Active(q) /\ run[q].phase \notin {"forward", "undo"}
    BY <1>1 DEF Submitting, Active
  <1>6. run'[r] = [phase |-> "forward", name |-> form.name, contacts |-> contacts, company |-> 0, calls |-> chain, alone |-> TRUE]
    BY <1>1, <1>3
  <1>7. \A q \in Runs : q # r => run'[q] = run[q]
    BY <1>3, <1>5
  <1>8. RunsShaped'
    <2>1. PICK names, people, chains, alone :
            run \in [Runs -> [phase : RunPhase, name : names, contacts : people, company : Nat, calls : chains, alone : alone]]
      BY <1>1 DEF RegisteringInv, RunsShaped
    <2> DEFINE Rows == [phase : RunPhase, name : names \union {form.name}, contacts : people \union {contacts}, company : Nat,
                        calls : chains \union {chain}, alone : alone \union {TRUE}]
    <2>2. run'[r] \in Rows
      BY <1>6 DEF RunPhase
    <2>3. \A q \in Runs : q # r => run'[q] \in Rows
      BY <1>7, <2>1
    <2>4. run' = [q \in Runs |-> run'[q]]
      BY <1>3
    <2>5. run' \in [Runs -> Rows]
      BY <2>2, <2>3, <2>4
    <2> QED BY <2>5 DEF RunsShaped
  <1>9. form.kind = "newCustomer" => form.name # company[1].name
    <2>1. form.kind = "newCustomer" => form.loaded
      BY DEF NewCustomerSubmit, NewPartnerSubmit, Start
    <2> QED BY <1>1, <2>1 DEF RegisteringInv
  <1>10. badCalls' = 0 => \A i \in 2..Len(company') : company'[i].live => Owned(i)'
    <2>1. ASSUME NEW q \in Runs, run[q].phase \in {"forward", "undo", "saved"} PROVE run'[q] = run[q]
      BY <1>3, <1>7, <2>1
    <2>2. ASSUME NEW i, Owned(i) PROVE Owned(i)'
      BY <2>1, <2>2 DEF Owned
    <2> QED BY <1>1, <1>2, <2>2 DEF RegisteringInv
  <1>11. form' \in CompanyShape'
    BY <1>2 DEF CompanyInv, CompanyShape
  <1>12. company' \in Seq(CompanyRow) /\ badCalls' \in Nat /\ Len(company') >= Len(company)
    BY <1>1, <1>2 DEF RegisteringInv
  <1>13. /\ run'[r].phase = "forward" /\ run'[r].name = form.name /\ run'[r].company = 0 /\ run'[r].calls = chain
    BY <1>6
  <1> QED BY <1>1, <1>2, <1>4, <1>5, <1>7, <1>8, <1>9, <1>10, <1>11, <1>12, <1>13, RegistrationKeeps

LEMMA Editing == ASSUME CompanyInv, EditCustomerSave \/ EditPartnerSave PROVE CompanyInv'
  <1>1. ~IsNew /\ form' = form
    BY DEF EditCustomerSave, EditPartnerSave, Start, IsNew
  <1> QED BY <1>1, EditKeeps DEF CompanyInv, CompanyShape

\* An answer: the company exists and is the run's, or is deleted again, or a manager was stored.
LEMMA AnsweredKeeps == ASSUME CompanyInv, NEW r \in Runs, CallAnswered(r) PROVE CompanyInv'
  <1> DEFINE due == Due(r)
             rest == Rest(r)
             c == IF due.op = "createCompany" THEN Len(company') ELSE run[r].company
             phase == IF rest # << >> THEN run[r].phase ELSE IF run[r].phase = "forward" THEN "saved" ELSE "failed"
             calls == run[r].calls
  <1>1. /\ Active(r) /\ company' = CompanyAfter(due, r) /\ UNCHANGED <<ocr, badCalls>>
        /\ form' = [form EXCEPT !.phase = "left"] \/ form' = form
    BY DEF CallAnswered, Finished
  <1>2. /\ form' \in CompanyShape' /\ form'.kind = form.kind /\ form'.contacts = form.contacts /\ form'.loaded = form.loaded
        /\ form'.known = form.known
    BY <1>1 DEF CompanyInv, CompanyShape
  <1>3. CASE ~IsNew
    BY <1>2, <1>3, EditKeeps
  <1>4. CASE IsNew
    <2>1. RegisteringInv
      BY <1>4 DEF CompanyInv
    <2>2. RunInv(r) /\ RunsShaped /\ run[r].phase \in RunPhase
      <3>1. RunsShaped => run[r].phase \in RunPhase
        BY DEF RunsShaped
      <3> QED BY <2>1, <3>1 DEF RegisteringInv
    <2>3. /\ company \in Seq(CompanyRow) /\ Len(company) \in Nat /\ Len(company) >= 1 /\ badCalls' \in Nat
          /\ \A q \in Runs : Active(q) => q = r
      BY <1>1, <2>1 DEF RegisteringInv
    <2>4. run[r].phase \in {"forward", "undo"} /\ run[r].name \in Names
          /\ (form.kind = "newCustomer" => run[r].name # company[1].name)
      BY <1>1, <2>2 DEF Active, RunInv
    <2>5. run' = [run EXCEPT ![r].calls = rest, ![r].company = c, ![r].phase = phase]
      <3>1. run' = [run EXCEPT ![r].calls = rest, ![r].company = c,
                               ![r].phase = IF rest # << >> THEN @ ELSE IF @ = "forward" THEN "saved" ELSE "failed"]
        BY DEF CallAnswered, Finished
      <3> HIDE DEF rest, c
      <3> QED BY <2>2, <3>1 DEF RunsShaped
    <2>6. due.op # "readManagers" => rest = Tail(calls)
      BY DEF Rest
    <2>7. due = Head(calls)
      BY DEF Due
    <2>8. phase \in RunPhase
      BY <2>2 DEF RunPhase
    <2> HIDE DEF due, rest, c, phase
    <2>9. ASSUME c \in Nat
          PROVE  /\ RunsShaped'
                 /\ run'[r].phase = phase /\ run'[r].company = c /\ run'[r].calls = rest /\ run'[r].name = run[r].name
                 /\ \A q \in Runs : q # r => run'[q] = run[q]
      BY <2>2, <2>5, <2>8, <2>9, RunChanges
    <2>10. CASE run[r].phase = "forward" /\ run[r].company = 0
      <3>1. CompanyAndManagers(calls)
        BY <2>2, <2>10 DEF RunInv
      <3> HIDE DEF calls
      <3>2. due.op = "createCompany" /\ rest = Tail(calls)
        BY <2>6, <2>7, <3>1, Shortened DEF CompanyAndManagers
      <3>3. rest # << >> => OnlyManagers(rest)
        BY <3>1, <3>2, Shortened DEF CompanyAndManagers, OnlyManagers
      <3> DEFINE row == [name |-> run[r].name, live |-> TRUE]
      <3>4. company' = Append(company, row) /\ row \in CompanyRow
        BY <1>1, <2>4, <3>2 DEF CompanyAfter, CompanyRow
      <3> HIDE DEF row
      <3>5. /\ company' \in Seq(CompanyRow) /\ Len(company') = Len(company) + 1 /\ company'[1] = company[1]
            /\ \A i \in 1..Len(company) : company'[i] = company[i]
        BY <2>3, <3>4, AppendProperties
      <3>6. c = Len(company) + 1 /\ c \in Nat /\ c # 0 /\ c \in 2..Len(company')
        BY <2>3, <3>2, <3>5 DEF c
      <3>7. badCalls' = 0 => \A i \in 2..Len(company') : company'[i].live => Owned(i)'
        <4> SUFFICES ASSUME badCalls' = 0, NEW i \in 2..Len(company'), company'[i].live PROVE Owned(i)'
          OBVIOUS
        <4>1. CASE i = c
          BY <2>4, <2>9, <2>10, <3>6, <4>1 DEF Owned, phase
        <4>2. CASE i # c
          <5>1. i \in 2..Len(company) /\ company[i].live
            BY <2>3, <3>5, <3>6, <4>2
          <5>2. PICK q \in Runs : run[q].phase \in {"forward", "undo", "saved"} /\ run[q].company = i
            BY <1>1, <2>1, <5>1 DEF RegisteringInv, Owned
          <5>3. q # r
            BY <2>10, <5>1, <5>2
          <5> QED BY <2>9, <3>6, <5>2, <5>3 DEF Owned
        <4> QED BY <4>1, <4>2
      <3>8. phase \in {"forward", "saved"} /\ (phase = "forward" => rest # << >>)
        BY <2>10 DEF phase
      <3> QED BY <1>1, <1>2, <1>4, <2>1, <2>3, <2>4, <2>9, <3>3, <3>5, <3>6, <3>7, <3>8, RegistrationKeeps
    <2>11. CASE run[r].phase = "forward" /\ run[r].company # 0
      <3>1. OnlyManagers(calls)
        BY <2>2, <2>11 DEF RunInv
      <3> HIDE DEF calls
      <3>2. due.op = "createManager" /\ rest = Tail(calls)
        BY <2>6, <2>7, <3>1, Shortened DEF OnlyManagers
      <3>3. rest # << >> => OnlyManagers(rest)
        BY <3>1, <3>2, Shortened DEF OnlyManagers
      <3>4. company' = company
        BY <1>1, <3>2 DEF CompanyAfter
      <3>5. c = run[r].company /\ c \in 2..Len(company) /\ c \in Nat
        BY <2>2, <2>3, <2>11, <3>2 DEF c, RunInv
      <3>6. phase \in {"forward", "saved"} /\ (phase = "forward" => rest # << >>)
        BY <2>11 DEF phase
      <3>7. badCalls' = 0 => \A i \in 2..Len(company') : company'[i].live => Owned(i)'
        <4>1. ASSUME NEW i, Owned(i) PROVE Owned(i)'
          <5>1. PICK q \in Runs : run[q].phase \in {"forward", "undo", "saved"} /\ run[q].company = i
            BY <4>1 DEF Owned
          <5> QED BY <2>9, <3>5, <3>6, <5>1 DEF Owned
        <4> QED BY <1>1, <2>1, <3>4, <4>1 DEF RegisteringInv
      <3> QED BY <1>1, <1>2, <1>4, <2>1, <2>3, <2>4, <2>9, <3>3, <3>4, <3>5, <3>6, <3>7, RegistrationKeeps
    <2>12. CASE run[r].phase = "undo"
      <3>1. run[r].company \in 2..Len(company) /\ calls = <<ThisCompany("deleteCompany")>>
        BY <2>2, <2>12 DEF RunInv
      <3>2. due = ThisCompany("deleteCompany") /\ Tail(calls) = << >>
        BY <2>7, <3>1
      <3>3. due.op = "deleteCompany" /\ rest = << >>
        BY <2>6, <3>2 DEF ThisCompany, Call
      <3> DEFINE row == [company[run[r].company] EXCEPT !.live = FALSE]
      <3>4. company[run[r].company] \in CompanyRow
        BY <2>3, <3>1, ElementOfSeq
      <3>5. company' = [company EXCEPT ![run[r].company] = row] /\ row \in CompanyRow /\ ~row.live
        BY <1>1, <3>1, <3>3, <3>4 DEF CompanyAfter, CompanyRow
      <3> HIDE DEF row
      <3>6. /\ company' \in Seq(CompanyRow) /\ Len(company') = Len(company)
            /\ \A i \in 1..Len(company) : company'[i] = IF i = run[r].company THEN row ELSE company[i]
        BY <2>3, <3>1, <3>5, ExceptSeq
      <3>7. c = run[r].company /\ c \in Nat
        BY <3>1, <3>3 DEF c
      <3>8. phase = "failed"
        BY <2>12, <3>3 DEF phase
      <3>9. company'[1] = company[1]
        BY <2>3, <3>1, <3>6
      <3>10. badCalls' = 0 => \A i \in 2..Len(company') : company'[i].live => Owned(i)'
        <4> SUFFICES ASSUME badCalls' = 0, NEW i \in 2..Len(company'), company'[i].live PROVE Owned(i)'
          OBVIOUS
        <4>1. i # run[r].company /\ i \in 2..Len(company) /\ company[i].live
          BY <2>3, <3>5, <3>6
        <4>2. PICK q \in Runs : run[q].phase \in {"forward", "undo", "saved"} /\ run[q].company = i
          BY <1>1, <2>1, <4>1 DEF RegisteringInv, Owned
        <4> QED BY <2>9, <3>7, <4>1, <4>2 DEF Owned
      <3> QED BY <1>1, <1>2, <1>4, <2>1, <2>3, <2>4, <2>9, <3>1, <3>6, <3>7, <3>8, <3>9, <3>10, RegistrationKeeps
    <2> QED BY <2>4, <2>10, <2>11, <2>12
  <1> QED BY <1>3, <1>4

\* What the call due does to the companies, whether its answer comes or not.
LEMMA CompaniesAfterCall ==
    ASSUME RegisteringInv, NEW r \in Runs, Active(r), NEW after, after = CompanyAfter(Due(r), r)
    PROVE  after \in Seq(CompanyRow) /\ Len(after) >= Len(company) /\ after[1] = company[1]
  <1> DEFINE calls == run[r].calls
  <1>1. /\ company \in Seq(CompanyRow) /\ Len(company) \in Nat /\ Len(company) >= 1
        /\ RunInv(r) /\ run[r].phase \in {"forward", "undo"} /\ run[r].name \in Names
    BY DEF RegisteringInv, RunInv, Active
  <1>2. CASE after = company
    BY <1>1, <1>2
  <1>3. CASE after = Append(company, [name |-> run[r].name, live |-> TRUE])
    <2> DEFINE row == [name |-> run[r].name, live |-> TRUE]
    <2>1. row \in CompanyRow
      BY <1>1 DEF CompanyRow
    <2> HIDE DEF row
    <2>2. after = Append(company, row)
      BY <1>3 DEF row
    <2> QED BY <1>1, <2>1, <2>2, AppendProperties
  <1>4. CASE run[r].company \in 2..Len(company) /\ after = [company EXCEPT ![run[r].company].live = FALSE]
    <2> DEFINE row == [company[run[r].company] EXCEPT !.live = FALSE]
    <2>1. row \in CompanyRow
      <3>1. company[run[r].company] \in CompanyRow
        BY <1>1, <1>4, ElementOfSeq
      <3> QED BY <3>1 DEF CompanyRow
    <2>2. after = [company EXCEPT ![run[r].company] = row]
      BY <1>4
    <2> HIDE DEF row
    <2> QED BY <1>1, <1>4, <2>1, <2>2, ExceptSeq
  <1>5. ASSUME run[r].phase = "undo"
        PROVE  run[r].company \in 2..Len(company) /\ after = [company EXCEPT ![run[r].company].live = FALSE]
    <2>1. run[r].company \in 2..Len(company) /\ calls = <<ThisCompany("deleteCompany")>>
      BY <1>1, <1>5 DEF RunInv
    <2>2. Due(r).op = "deleteCompany"
      BY <2>1 DEF Due, ThisCompany, Call
    <2> QED BY <2>1, <2>2 DEF CompanyAfter
  <1>6. ASSUME run[r].phase = "forward" PROVE Due(r).op \in {"createCompany", "createManager"}
    <2>1. CompanyAndManagers(calls) \/ OnlyManagers(calls)
      BY <1>1, <1>6 DEF RunInv
    <2>2. Due(r) = Head(calls)
      BY DEF Due
    <2> HIDE DEF calls
    <2>3. CASE CompanyAndManagers(calls)
      BY <2>2, <2>3, Shortened DEF CompanyAndManagers
    <2>4. CASE OnlyManagers(calls)
      BY <2>2, <2>4, Shortened DEF OnlyManagers
    <2> QED BY <2>1, <2>3, <2>4
  <1>7. run[r].phase = "forward" =>
          after = company \/ after = Append(company, [name |-> run[r].name, live |-> TRUE])
    BY <1>6 DEF CompanyAfter
  <1> QED BY <1>1, <1>2, <1>3, <1>4, <1>5, <1>7

\* The catch block: a run that has created its company goes on to delete it.
LEMMA CaughtKeeps ==
    ASSUME CompanyInv, NEW r \in Runs, Active(r), Caught(r), UNCHANGED <<form, ocr>>,
           \/ UNCHANGED <<company, badCalls>> /\ Rejected(Due(r))
           \/ badCalls' = badCalls + 1 /\ company' \in {company, CompanyAfter(Due(r), r)}
    PROVE  CompanyInv'
  <1>1. form' \in CompanyShape' /\ form'.kind = form.kind
    BY DEF CompanyInv, CompanyShape
  <1>2. CASE ~IsNew
    BY <1>1, <1>2, EditKeeps
  <1>3. CASE IsNew
    <2> DEFINE undo == IF run[r].phase = "undo" THEN << >> ELSE UndoNew(run[r].company)
               phase == IF undo = << >> THEN "failed" ELSE "undo"
               c == run[r].company
               calls == run[r].calls
    <2>1. RegisteringInv
      BY <1>3 DEF CompanyInv
    <2>2. RunInv(r) /\ RunsShaped /\ Len(company) \in Nat /\ Len(company) >= 1 /\ badCalls \in Nat
          /\ \A q \in Runs : Active(q) => q = r
      BY <2>1 DEF RegisteringInv
    <2>3. run[r].phase \in {"forward", "undo"} /\ run[r].name \in Names
          /\ (form.kind = "newCustomer" => run[r].name # company[1].name)
      BY <2>2 DEF Active, RunInv
    <2>4. run' = [run EXCEPT ![r].calls = undo, ![r].phase = phase]
      <3>1. Undo(run[r].company) = UndoNew(run[r].company)
        BY <1>3 DEF Undo, IsNew
      <3> QED BY <3>1 DEF Caught
    <2>5. c \in Nat /\ (c = 0 \/ c \in 2..Len(company))
      BY <2>2 DEF RunInv
    <2>6. phase \in RunPhase /\ phase \in {"failed", "undo"}
      BY DEF RunPhase
    <2>7. phase = "undo" => run[r].phase = "forward" /\ c # 0 /\ undo = <<ThisCompany("deleteCompany")>>
      BY <2>3 DEF UndoNew
    <2>8. phase = "failed" => run[r].phase = "undo" \/ c = 0
      <3>1. <<ThisCompany("deleteCompany")>> # << >>
        OBVIOUS
      <3> QED BY <3>1 DEF UndoNew
    <2> HIDE DEF undo, phase
    <2>9. /\ RunsShaped'
          /\ run'[r].phase = phase /\ run'[r].company = c /\ run'[r].calls = undo /\ run'[r].name = run[r].name
          /\ \A q \in Runs : q # r => run'[q] = run[q]
      BY <2>2, <2>4, <2>5, <2>6, RunChanges
    <2>10. company' \in Seq(CompanyRow) /\ Len(company') >= Len(company) /\ company'[1] = company[1] /\ Len(company') \in Nat
      <3>1. company \in Seq(CompanyRow) /\ Len(company) >= Len(company)
        BY <2>1, <2>2 DEF RegisteringInv
      <3>2. CASE company' = company
        BY <3>1, <3>2, <2>2
      <3>3. CASE company' = CompanyAfter(Due(r), r)
        BY <2>1, <3>3, CompaniesAfterCall, LenProperties
      <3> QED BY <3>2, <3>3
    <2>11. badCalls' \in Nat
      BY <2>2
    <2>12. badCalls' = 0 => \A i \in 2..Len(company') : company'[i].live => Owned(i)'
      <3> SUFFICES ASSUME badCalls' = 0 PROVE \A i \in 2..Len(company') : company'[i].live => Owned(i)'
        OBVIOUS
      <3>1. UNCHANGED <<company, badCalls>> /\ Rejected(Due(r))
        BY <2>2
      <3>2. run[r].phase = "forward"
        <4>1. ASSUME run[r].phase = "undo" PROVE Due(r).op = "deleteCompany"
          <5>1. run[r].calls = <<ThisCompany("deleteCompany")>>
            BY <2>2, <4>1 DEF RunInv
          <5> QED BY <5>1 DEF Due, ThisCompany, Call
        <4> QED BY <2>3, <3>1, <4>1 DEF Rejected
      <3>3. c # 0 => phase = "undo"
        BY <2>6, <2>8, <3>2
      <3>4. ASSUME NEW i \in 2..Len(company), Owned(i) PROVE Owned(i)'
        <4>1. PICK q \in Runs : run[q].phase \in {"forward", "undo", "saved"} /\ run[q].company = i
          BY <3>4 DEF Owned
        <4>2. CASE q = r
          <5>1. c = i /\ c # 0
            BY <4>1, <4>2
          <5> QED BY <2>9, <3>3, <5>1 DEF Owned
        <4>3. CASE q # r
          BY <2>9, <4>1, <4>3 DEF Owned
        <4> QED BY <4>2, <4>3
      <3> QED BY <2>1, <3>1, <3>4 DEF RegisteringInv
    <2>13. c = 0 \/ c \in 2..Len(company')
      BY <2>2, <2>5, <2>10
    <2> QED BY <1>1, <1>3, <2>1, <2>2, <2>3, <2>6, <2>7, <2>9, <2>10, <2>11, <2>12, <2>13, RegistrationKeeps
  <1> QED BY <1>2, <1>3

LEMMA CompanyInvStays == CompanyInv /\ CompanyNext => CompanyInv'
  <1> SUFFICES ASSUME CompanyInv, CompanyNext PROVE CompanyInv'
    OBVIOUS
  <1>1. ASSUME NEW r \in Runs, CallRefused(r) PROVE CompanyInv'
    BY <1>1, CaughtKeeps DEF CallRefused
  <1>2. ASSUME NEW r \in Runs, CallFails(r) PROVE CompanyInv'
    BY <1>2, CaughtKeeps DEF CallFails
  <1>3. ASSUME NEW r \in Runs, AnswerLost(r) PROVE CompanyInv'
    BY <1>3, CaughtKeeps DEF AnswerLost
  <1> QED BY <1>1, <1>2, <1>3, TypingKeepsInv, StartKeeps, Editing, AnsweredKeeps DEF CompanyNext

LEMMA CompanyInvRests == CompanyInv /\ UNCHANGED companyVars => CompanyInv'
  <1> SUFFICES ASSUME CompanyInv, UNCHANGED companyVars PROVE CompanyInv'
    OBVIOUS
  <1>1. form' \in CompanyShape' /\ form'.kind = form.kind
    BY DEF CompanyInv, CompanyShape, companyVars
  <1> QED BY <1>1, TypingKeeps DEF companyVars, RegisteringInv, CompanyInv

LEMMA CompanyPromises == CompanyInv => NoRemains /\ CustomerNameIsNew
  <1> SUFFICES ASSUME CompanyInv PROVE NoRemains /\ CustomerNameIsNew
    OBVIOUS
  <1>1. NoRemains
    <2> SUFFICES ASSUME badCalls = 0, ~Submitting, IsNew, NEW i \in DOMAIN company \ {1}, company[i].live
                 PROVE  \E r \in Runs : run[r].phase = "saved" /\ run[r].company = i
      BY DEF NoRemains
    <2>1. RegisteringInv
      BY DEF CompanyInv
    <2>2. i \in 2..Len(company)
      BY <2>1, LenProperties DEF RegisteringInv
    <2>3. Owned(i)
      BY <2>1, <2>2 DEF RegisteringInv
    <2> QED BY <2>3 DEF Owned, Submitting
  <1>2. CustomerNameIsNew
    BY DEF CompanyInv, CustomerNameIsNew, IsNew, RegisteringInv, RunInv
  <1> QED BY <1>1, <1>2

-----------------------------------------------------------------------------
(* Companies: the people of a company, and what the calls of a save carry. *)

ManagerRow(n) == [company : 1..n, email : Emails, info : Infos, live : BOOLEAN]

\* The calls of a save: registering creates a company, an edit changes, reads and restores one.
CallOf(new) ==
    {call \in CallRow :
       /\ call.op = "createManager" => call.contact \in FullContact
       /\ call.op = "updateManager" => call.contact.info \in Infos
       /\ IF new THEN call.op \notin {"restoreCompany", "readManagers", "updateCompany"} ELSE call.op # "createCompany"}

TablesOK(rows, people) ==
    /\ rows \in Seq(CompanyRow) /\ Len(rows) >= 1
    /\ people \in Seq(ManagerRow(Len(rows)))
    /\ \A m, k \in DOMAIN people : m # k => people[m].email # people[k].email

\* A save that runs has calls left, and creates the company first when there is none.
SaveOK(e, n, new) ==
    /\ e \in [phase : RunPhase, name : Names \union {Blank}, contacts : Seq(FullContact), company : 0..n,
              calls : Seq(CallOf(new)), alone : BOOLEAN]
    /\ e.phase # "idle" => e.name \in Names
    /\ e.phase \in {"forward", "undo"} => e.calls # << >> /\ (e.company = 0 => e.calls[1].op = "createCompany")

SavesOK(saves, n, new) == saves = [r \in Runs |-> saves[r]] /\ \A r \in Runs : SaveOK(saves[r], n, new)

\* What an edit goes back to are people that were stored.
OriginalOK(g) ==
    /\ g.original = [x \in {"name", "contacts"} |-> g.original[x]]
    /\ g.original.name \in Names /\ g.original.contacts \in Seq(FullContact) /\ g.existing \in Seq(Nat)

PeopleFormOK(g) ==
    /\ g.contacts \in Seq(Contact) /\ Len(g.contacts) <= MaxContacts /\ g.known \subseteq Names
    /\ g.kind \in {"editCustomer", "editPartner"} /\ g.loaded => OriginalOK(g)

\* Nothing is saved on an edit page that has not been filled yet.
Unfilled(g, people, saves) ==
    g.kind \in {"editCustomer", "editPartner"} /\ ~g.loaded =>
        Len(people) <= MaxContacts /\ \A r \in Runs : saves[r].phase = "idle"

PeopleInv ==
    /\ form \in CompanyShape
    /\ TablesOK(company, manager)
    /\ PeopleFormOK(form)
    /\ SavesOK(run, Len(company), IsNew)
    /\ Unfilled(form, manager, run)
    /\ ocr \in [at : 0..MaxContacts, contact : Contact]
    /\ badCalls \in 0..MaxFaults

LEMMA FullIsContact == FullContact \subseteq Contact /\ Seq(FullContact) \subseteq Seq(Contact)
  <1>1. FullContact \subseteq Contact
    BY DEF FullContact, Contact
  <1> HIDE DEF FullContact, Contact
  <1> QED BY <1>1

LEMMA CompanyTyped == PeopleInv => CompanyTypeOK
  <1> SUFFICES ASSUME PeopleInv PROVE CompanyTypeOK
    OBVIOUS
  <1>0. /\ company \in Seq(CompanyRow) /\ manager \in Seq(ManagerRow(Len(company)))
        /\ DOMAIN company = 1..Len(company) /\ DOMAIN manager = 1..Len(manager)
    BY LenProperties DEF PeopleInv, TablesOK
  <1>1. \A i \in DOMAIN company : company[i] \in CompanyRow
    BY <1>0, ElementOfSeq
  <1>2. \A m \in DOMAIN manager : manager[m] \in ManagerRow(Len(company))
    BY <1>0, ElementOfSeq
  <1>3. ASSUME NEW r \in Runs PROVE run[r].contacts \in Seq(Contact) /\ run[r].calls \in Seq(CallRow)
    <2>1. run[r].contacts \in Seq(FullContact) /\ run[r].calls \in Seq(CallOf(IsNew))
      BY DEF PeopleInv, SavesOK, SaveOK
    <2>2. CallOf(IsNew) \subseteq CallRow
      BY DEF CallOf
    <2> HIDE DEF CallRow, Contact
    <2>3. Seq(CallOf(IsNew)) \subseteq Seq(CallRow)
      BY <2>2
    <2> QED BY <2>1, <2>3, FullIsContact
  <1>4. /\ \A m, k \in DOMAIN manager : m # k => manager[m].email # manager[k].email
        /\ form.contacts \in Seq(Contact) /\ form.known \subseteq Names
        /\ ocr \in [at : 0..MaxContacts, contact : Contact] /\ badCalls \in 0..MaxFaults
    BY DEF PeopleInv, TablesOK, PeopleFormOK
  <1> QED BY <1>0, <1>1, <1>2, <1>3, <1>4 DEF CompanyTypeOK, CompanyRow, ManagerRow

LEMMA PeopleInvStarts == CompanyInit => PeopleInv
  <1> SUFFICES ASSUME CompanyInit PROVE PeopleInv
    OBVIOUS
  <1>1. PICK name \in Names, kind \in Kinds, rows \in StoredManagers :
          /\ company = <<[name |-> name, live |-> TRUE]>>
          /\ manager = [i \in DOMAIN rows |-> [company |-> 1, email |-> rows[i].email, info |-> rows[i].info, live |-> TRUE]]
          /\ form = [kind |-> kind, phase |-> "open", loaded |-> FALSE, known |-> {},
                     typed |-> 0, name |-> Blank, contacts |-> <<EmptyContact>>,
                     original |-> [name |-> Blank, contacts |-> << >>], existing |-> << >>]
          /\ ocr = NoCard
          /\ run = [r \in Runs |-> NoRun]
          /\ badCalls = 0
    BY DEF CompanyInit
  <1>2. rows \in Seq(FullContact) /\ Len(rows) <= MaxContacts /\ (\A i, j \in DOMAIN rows : i # j => rows[i].email # rows[j].email)
    BY CompanyFormAssumption
  <1>3. form \in CompanyShape
    BY CompanyInvStarts DEF CompanyInv
  <1>4. EmptyContact \in Contact
    BY DEF EmptyContact, Contact
  <1>5. company \in Seq(CompanyRow) /\ Len(company) = 1
    <2> DEFINE row == [name |-> name, live |-> TRUE]
    <2>1. row \in CompanyRow
      BY DEF CompanyRow
    <2> HIDE DEF row
    <2> QED BY <1>1, <2>1 DEF row
  <1>6. Len(rows) \in Nat /\ DOMAIN rows = 1..Len(rows) /\ \A i \in 1..Len(rows) : rows[i] \in FullContact
    BY <1>2, LenProperties, ElementOfSeq
  <1>7. manager \in [1..Len(rows) -> ManagerRow(1)]
    BY <1>1, <1>6 DEF ManagerRow, FullContact
  <1>8. manager \in Seq(ManagerRow(1)) /\ Len(manager) = Len(rows) /\ DOMAIN manager = DOMAIN rows
    <2> HIDE DEF ManagerRow
    <2> QED BY <1>6, <1>7, ListOf
  <1>9. \A m, k \in DOMAIN manager : m # k => manager[m].email # manager[k].email
    BY <1>1, <1>2
  <1>10. form.contacts \in Seq(Contact) /\ Len(form.contacts) = 1 /\ form.known = {} /\ ~form.loaded
    <2> DEFINE contacts == <<EmptyContact>>
    <2>1. form.contacts = contacts /\ form.known = {} /\ form.loaded = FALSE
      BY <1>1
    <2> QED BY <1>4, <2>1
  <1>11. MaxContacts >= 1 /\ MaxContacts \in Nat /\ MaxFaults \in Nat
    BY CompanyFormAssumption
  <1>12. ocr \in [at : 0..MaxContacts, contact : Contact]
    BY <1>1, <1>4, <1>11 DEF NoCard
  <1>13. SaveOK(NoRun, 1, IsNew)
    <2> DEFINE none == << >>
    <2>1. none \in Seq(FullContact) /\ none \in Seq(CallOf(IsNew))
      BY EmptySeq
    <2> HIDE DEF none
    <2>2. NoRun = [phase |-> "idle", name |-> Blank, contacts |-> none, company |-> 0, calls |-> none, alone |-> TRUE]
      BY DEF NoRun, none
    <2> QED BY <2>1, <2>2 DEF SaveOK, RunPhase
  <1>14. SavesOK(run, 1, IsNew)
    BY <1>1, <1>13 DEF SavesOK
  <1>15. \A r \in Runs : run[r].phase = "idle"
    BY <1>1 DEF NoRun
  <1>16. TablesOK(company, manager)
    BY <1>5, <1>8, <1>9 DEF TablesOK
  <1>17. PeopleFormOK(form)
    BY <1>10, <1>11 DEF PeopleFormOK
  <1>18. Unfilled(form, manager, run)
    BY <1>2, <1>8, <1>15 DEF Unfilled
  <1>19. badCalls \in 0..MaxFaults
    BY <1>1, <1>11
  <1> QED BY <1>3, <1>5, <1>12, <1>14, <1>16, <1>17, <1>18, <1>19 DEF PeopleInv

\* Steps that change the form alone.
LEMMA PeopleFormKeeps ==
    ASSUME PeopleInv, UNCHANGED <<company, manager, run, badCalls>>,
           form' \in CompanyShape', form'.kind = form.kind, form.loaded => form'.loaded,
           PeopleFormOK(form'), ocr' \in [at : 0..MaxContacts, contact : Contact]
    PROVE  PeopleInv'
  <1>1. IsNew' = IsNew
    BY DEF IsNew
  <1>2. Unfilled(form', manager', run')
    BY DEF PeopleInv, Unfilled
  <1>3. SavesOK(run', Len(company'), IsNew')
    BY <1>1 DEF PeopleInv
  <1>4. TablesOK(company', manager')
    BY DEF PeopleInv
  <1> QED BY <1>2, <1>3, <1>4 DEF PeopleInv

LEMMA ListsArrive == ASSUME PeopleInv, NEW order \in SetToSeqs(ManagersOf(1)), Loaded(order) PROVE PeopleInv'
  <1> DEFINE names == {company[i].name : i \in {j \in DOMAIN company : company[j].live}}
             ids == ManagersOf(1)
             n == Cardinality(ids)
             contacts == [i \in DOMAIN order |-> [email |-> manager[order[i]].email, info |-> manager[order[i]].info]]
             name == company[1].name
             original == [name |-> company[1].name, contacts |-> contacts]
             existing == ById(ids)
  <1>1. form' = IF IsNew THEN [form EXCEPT !.loaded = TRUE, !.known = names]
                ELSE [form EXCEPT !.loaded = TRUE, !.known = names \ {name}, !.name = name, !.contacts = contacts,
                                  !.original = original, !.existing = existing]
    BY DEF Loaded
  <1>2. ~form.loaded /\ UNCHANGED <<company, manager, ocr, run, badCalls>>
    BY DEF Loaded
  <1>3. /\ company \in Seq(CompanyRow) /\ 1 \in DOMAIN company /\ manager \in Seq(ManagerRow(Len(company)))
        /\ DOMAIN company = 1..Len(company) /\ Len(manager) \in Nat /\ DOMAIN manager = 1..Len(manager)
    BY LenProperties DEF PeopleInv, TablesOK
  <1>4. \A i \in DOMAIN company : company[i].name \in Names
    <2>1. \A i \in DOMAIN company : company[i] \in CompanyRow
      BY <1>3, ElementOfSeq
    <2> QED BY <2>1 DEF CompanyRow
  <1>5. \A m \in DOMAIN manager : manager[m].email \in Emails /\ manager[m].info \in Infos
    <2>1. \A m \in DOMAIN manager : manager[m] \in ManagerRow(Len(company))
      BY <1>3, ElementOfSeq
    <2> QED BY <2>1 DEF ManagerRow
  <1>6. names \subseteq Names /\ name \in Names
    BY <1>3, <1>4
  <1>7. ids \in SUBSET Nat /\ ids \subseteq DOMAIN manager /\ IsFiniteSet(ids) /\ n \in Nat /\ n <= Len(manager)
    <2>1. ids \in SUBSET (1..Len(manager))
      BY <1>3 DEF ManagersOf
    <2>2. IsFiniteSet(1..Len(manager)) /\ Cardinality(1..Len(manager)) = Len(manager)
      BY <1>3, FirstNumbers
    <2> HIDE DEF ids
    <2>3. IsFiniteSet(ids) /\ n \in Nat
      BY <2>1, <2>2, FS_Subset, FS_CardinalityType
    <2>4. n <= Len(manager)
      BY <2>1, <2>2, FS_Subset
    <2>5. ids \in SUBSET Nat /\ ids \subseteq DOMAIN manager
      BY <1>3, <2>1
    <2> QED BY <2>3, <2>4, <2>5
  <1>8. order \in [1..n -> ids]
    <2>1. order \in SetToSeqs(ids)
      OBVIOUS
    <2> HIDE DEF ids
    <2> QED BY <2>1 DEF SetToSeqs
  <1>9. contacts \in Seq(FullContact) /\ Len(contacts) = n
    <2>1. \A i \in 1..n : order[i] \in DOMAIN manager
      <3> HIDE DEF ids, n
      <3> QED BY <1>7, <1>8
    <2>2. contacts \in [1..n -> FullContact]
      BY <1>5, <1>8, <2>1 DEF FullContact
    <2> HIDE DEF contacts, n
    <2> QED BY <1>7, <2>2, ListOf
  <1>10. existing \in Seq(Nat)
    <2>1. existing \in [1..n -> ids] /\ n \in Nat
      BY <1>7, ByIdIs
    <2> HIDE DEF existing, n, ids
    <2>2. existing \in [1..n -> Nat]
      BY <1>7, <2>1
    <2> QED BY <2>1, <2>2, ListOf
  <1>11. form \in CompanyShape /\ PeopleFormOK(form) /\ Unfilled(form, manager, run)
    BY DEF PeopleInv
  <1>12. form.kind \in Kind /\ (~IsNew <=> form.kind \in {"editCustomer", "editPartner"})
    BY <1>11 DEF CompanyShape, Kind, IsNew
  <1>13. ~IsNew => n <= MaxContacts
    <2>1. ~IsNew => Len(manager) <= MaxContacts
      BY <1>2, <1>11, <1>12 DEF Unfilled
    <2>2. MaxContacts \in Nat
      BY CompanyFormAssumption
    <2> HIDE DEF n
    <2> QED BY <1>3, <1>7, <2>1, <2>2
  <1>14. original = [name |-> name, contacts |-> contacts]
    OBVIOUS
  <1> HIDE DEF names, ids, n, contacts, name, original, existing
  <1>15. form' \in CompanyShape' /\ form'.kind = form.kind /\ form'.loaded
    BY <1>1, <1>11 DEF CompanyShape
  <1>16. CASE IsNew
    <2>1. form'.contacts = form.contacts /\ form'.known = names
      BY <1>1, <1>11, <1>16 DEF CompanyShape
    <2>2. PeopleFormOK(form')
      BY <1>6, <1>11, <1>12, <1>15, <1>16, <2>1 DEF PeopleFormOK
    <2> QED BY <1>2, <1>15, <2>2, PeopleFormKeeps DEF PeopleInv
  <1>17. CASE ~IsNew
    <2>1. form'.contacts = contacts /\ form'.known = names \ {name} /\ form'.original = original /\ form'.existing = existing
      BY <1>1, <1>11, <1>17 DEF CompanyShape
    <2>2. OriginalOK(form')
      BY <1>6, <1>9, <1>10, <1>14, <2>1 DEF OriginalOK
    <2>3. contacts \in Seq(Contact)
      BY <1>9, FullIsContact
    <2>4. PeopleFormOK(form')
      BY <1>6, <1>9, <1>13, <1>17, <2>1, <2>2, <2>3 DEF PeopleFormOK
    <2> QED BY <1>2, <1>15, <2>4, PeopleFormKeeps DEF PeopleInv
  <1> QED BY <1>16, <1>17

\* Contacts typed, added, removed or read from a card.
LEMMA ContactsKeep ==
    ASSUME PeopleInv, NEW contacts \in Seq(Contact), Len(contacts) <= MaxContacts,
           \/ form' = [form EXCEPT !.contacts = contacts, !.typed = @ + 1]
           \/ form' = [form EXCEPT !.contacts = contacts],
           UNCHANGED <<company, manager, run, badCalls>>, ocr' \in [at : 0..MaxContacts, contact : Contact]
    PROVE  PeopleInv'
  <1>1. form \in CompanyShape /\ PeopleFormOK(form)
    BY DEF PeopleInv
  <1>2. /\ form' \in CompanyShape' /\ form'.kind = form.kind /\ form'.contacts = contacts /\ form'.loaded = form.loaded
        /\ form'.known = form.known /\ form'.original = form.original /\ form'.existing = form.existing
    BY <1>1 DEF CompanyShape
  <1>3. PeopleFormOK(form')
    BY <1>1, <1>2 DEF PeopleFormOK, OriginalOK
  <1> QED BY <1>2, <1>3, PeopleFormKeeps

LEMMA TypedKeeps ==
    ASSUME PeopleInv,
           \/ \E name \in Names : EditName(name)
           \/ AddContact
           \/ \E i \in DOMAIN form.contacts :
                ReadCard(i) \/ RemoveContact(i) \/ \E contact \in Typed : EditContact(i, contact)
           \/ \E found \in Cards : CardRead(found)
    PROVE  PeopleInv'
  <1> DEFINE list == form.contacts
             Cells == [at : 0..MaxContacts, contact : Contact]
  <1>1. /\ form \in CompanyShape /\ PeopleFormOK(form) /\ ocr \in Cells
        /\ list \in Seq(Contact) /\ Len(list) \in Nat /\ DOMAIN list = 1..Len(list) /\ Len(list) <= MaxContacts
    BY LenProperties DEF PeopleInv, PeopleFormOK
  <1>2. MaxContacts \in Nat
    BY CompanyFormAssumption
  <1>3. ASSUME NEW name, EditName(name) PROVE PeopleInv'
    <2>1. /\ form' \in CompanyShape' /\ form'.kind = form.kind /\ form'.contacts = form.contacts /\ form'.loaded = form.loaded
          /\ form'.known = form.known /\ form'.original = form.original /\ form'.existing = form.existing
      BY <1>1, <1>3 DEF EditName, CompanyShape
    <2>2. PeopleFormOK(form')
      BY <1>1, <2>1 DEF PeopleFormOK, OriginalOK
    <2> QED BY <1>1, <1>3, <2>1, <2>2, PeopleFormKeeps DEF EditName
  <1>4. CASE AddContact
    <2> DEFINE contacts == Append(list, EmptyContact)
    <2>1. EmptyContact \in Contact
      BY DEF EmptyContact, Contact
    <2>2. contacts \in Seq(Contact) /\ Len(contacts) = Len(list) + 1
      BY <1>1, <2>1, AppendProperties
    <2>3. form' = [form EXCEPT !.contacts = contacts, !.typed = @ + 1] /\ UNCHANGED <<company, manager, ocr, run, badCalls>>
      BY <1>1, <1>4 DEF AddContact, CompanyShape
    <2>4. Len(list) < MaxContacts
      BY <1>4 DEF AddContact
    <2> HIDE DEF contacts
    <2>5. Len(contacts) <= MaxContacts
      BY <1>1, <1>2, <2>2, <2>4
    <2> QED BY <1>1, <2>2, <2>3, <2>5, ContactsKeep
  <1>5. ASSUME NEW i \in DOMAIN form.contacts, RemoveContact(i) PROVE PeopleInv'
    <2> DEFINE contacts == RemoveAt(list, i)
    <2>1. contacts \in Seq(Contact)
      BY <1>1, Removed
    <2>2. Len(contacts) = Len(list) - 1
      BY <1>1, WithoutOne, OfSomething
    <2>3. form' = [form EXCEPT !.contacts = contacts, !.typed = @ + 1] /\ UNCHANGED <<company, manager, ocr, run, badCalls>>
      BY <1>1, <1>5 DEF RemoveContact, CompanyShape
    <2> HIDE DEF contacts
    <2>4. Len(contacts) <= MaxContacts
      BY <1>1, <1>2, <2>2
    <2> QED BY <1>1, <2>1, <2>3, <2>4, ContactsKeep
  <1>6. ASSUME NEW i \in DOMAIN form.contacts, NEW contact \in Contact, ocr' \in Cells,
               form' = [form EXCEPT !.contacts[i] = contact, !.typed = @ + 1] \/ form' = [form EXCEPT !.contacts[i] = contact],
               UNCHANGED <<company, manager, run, badCalls>>
        PROVE  PeopleInv'
    <2> DEFINE contacts == [list EXCEPT ![i] = contact]
    <2>1. contacts \in Seq(Contact) /\ Len(contacts) = Len(list)
      BY <1>1, <1>6, ExceptSeq
    <2>2. form' = [form EXCEPT !.contacts = contacts, !.typed = @ + 1] \/ form' = [form EXCEPT !.contacts = contacts]
      BY <1>6, <1>1 DEF CompanyShape
    <2> HIDE DEF contacts
    <2> QED BY <1>1, <1>6, <2>1, <2>2, ContactsKeep
  <1>7. ASSUME NEW i \in DOMAIN form.contacts, NEW contact \in Typed, EditContact(i, contact) PROVE PeopleInv'
    <2>1. contact \in Contact
      BY CompanyFormAssumption
    <2>2. form' = [form EXCEPT !.contacts[i] = contact, !.typed = @ + 1] /\ UNCHANGED <<company, manager, ocr, run, badCalls>>
      BY <1>7 DEF EditContact
    <2> QED BY <1>1, <1>6, <2>1, <2>2
  <1>8. ASSUME NEW i \in DOMAIN form.contacts, ReadCard(i) PROVE PeopleInv'
    <2>1. /\ form' \in CompanyShape' /\ form'.kind = form.kind /\ form'.contacts = form.contacts /\ form'.loaded = form.loaded
          /\ form'.known = form.known /\ form'.original = form.original /\ form'.existing = form.existing
      BY <1>1, <1>8 DEF ReadCard, CompanyShape
    <2>2. PeopleFormOK(form')
      BY <1>1, <2>1 DEF PeopleFormOK, OriginalOK
    <2>3. ocr' = [at |-> i, contact |-> list[i]] /\ list[i] \in Contact
      BY <1>1, <1>8, ElementOfSeq DEF ReadCard
    <2>4. i \in 0..MaxContacts
      BY <1>1, <1>2
    <2>5. ocr' \in Cells
      BY <2>3, <2>4
    <2> QED BY <1>8, <2>1, <2>2, <2>5, PeopleFormKeeps DEF ReadCard
  <1>9. ASSUME NEW found \in Cards, CardRead(found) PROVE PeopleInv'
    <2> DEFINE next == [email |-> KeepExisting(ocr.contact.email, found.email), info |-> KeepExisting(ocr.contact.info, found.info)]
    <2>1. found \in Contact /\ ocr.contact \in Contact
      BY <1>1, CompanyFormAssumption
    <2>2. next \in Contact
      BY <2>1 DEF KeepExisting, Contact
    <2>3. ocr' = NoCard /\ UNCHANGED <<company, manager, run, badCalls>>
      BY <1>9 DEF CardRead
    <2>4. ocr' \in Cells
      <3>1. EmptyContact \in Contact
        BY DEF EmptyContact, Contact
      <3> QED BY <1>2, <2>3, <3>1 DEF NoCard
    <2>5. CASE form' = form
      <3>1. form' \in CompanyShape' /\ form'.kind = form.kind /\ PeopleFormOK(form') /\ form'.loaded = form.loaded
        BY <1>1, <2>5 DEF CompanyShape
      <3> QED BY <2>3, <2>4, <3>1, PeopleFormKeeps
    <2>6. CASE ocr.at \in DOMAIN form.contacts /\ form' = [form EXCEPT !.contacts[ocr.at] = next]
      <3> HIDE DEF next
      <3> QED BY <1>6, <2>2, <2>3, <2>4, <2>6
    <2>7. form' = form \/ (ocr.at \in DOMAIN form.contacts /\ form' = [form EXCEPT !.contacts[ocr.at] = next])
      BY <1>9 DEF CardRead
    <2> QED BY <2>5, <2>6, <2>7
  <1> QED BY <1>3, <1>4, <1>5, <1>7, <1>8, <1>9

\* The calls about one manager ...
LEMMA ManagerCallIs ==
    /\ \A new : \A contact \in FullContact : Call("createManager", 0, contact) \in CallOf(new)
    /\ \A new : \A contact \in FullContact, id \in Nat : Call("updateManager", id, contact) \in CallOf(new)
    /\ \A new : \A id \in Nat : Call("deleteManager", id, EmptyContact) \in CallOf(new)
  <1>1. FullContact \subseteq Contact /\ EmptyContact \in Contact
    BY FullIsContact DEF EmptyContact, Contact
  <1>2. \A contact \in FullContact : contact.info \in Infos
    BY DEF FullContact
  <1> HIDE DEF FullContact, Contact
  <1>3. \A new : \A contact \in FullContact : Call("createManager", 0, contact) \in CallOf(new)
    BY <1>1 DEF Call, CallOf, CallRow
  <1>4. \A new : \A contact \in FullContact, id \in Nat : Call("updateManager", id, contact) \in CallOf(new)
    BY <1>1, <1>2 DEF Call, CallOf, CallRow
  <1>5. \A new : \A id \in Nat : Call("deleteManager", id, EmptyContact) \in CallOf(new)
    BY <1>1 DEF Call, CallOf, CallRow
  <1> QED BY <1>3, <1>4, <1>5

\* ... and those about the company.
LEMMA CompanyCallIs ==
    /\ \A new : new => ThisCompany("createCompany") \in CallOf(new)
    /\ \A new : ThisCompany("deleteCompany") \in CallOf(new)
    /\ ThisCompany("createCompany").op = "createCompany"
    /\ \A op \in {"restoreCompany", "readManagers", "updateCompany"} :
         ThisCompany(op) \in CallOf(FALSE) /\ ThisCompany(op).op = op
  <1>1. EmptyContact \in Contact
    BY DEF EmptyContact, Contact
  <1> HIDE DEF Contact
  <1> QED BY <1>1 DEF ThisCompany, Call, CallOf, CallRow

LEMMA CreationsAre ==
    ASSUME NEW contacts \in Seq(FullContact), NEW new
    PROVE  CreateManagers(contacts) \in Seq(CallOf(new))
  <1> DEFINE n == Len(contacts)
             call(k) == Call("createManager", 0, contacts[k])
  <1>1. n \in Nat /\ DOMAIN contacts = 1..n /\ \A k \in 1..n : contacts[k] \in FullContact
    BY LenProperties, ElementOfSeq
  <1> HIDE DEF n
  <1>2. \A k \in 1..n : call(k) \in CallOf(new)
    BY <1>1, ManagerCallIs
  <1>3. CreateManagers(contacts) = [k \in 1..n |-> call(k)]
    BY <1>1 DEF CreateManagers
  <1> HIDE DEF call
  <1>4. CreateManagers(contacts) \in [1..n -> CallOf(new)]
    BY <1>2, <1>3
  <1> QED BY <1>1, <1>4, ListOf

LEMMA SynchronisingIs ==
    ASSUME NEW contacts \in Seq(FullContact), NEW ids \in Seq(Nat), NEW new
    PROVE  SyncManagers(ids, contacts) \in Seq(CallOf(new))
  <1> DEFINE n == Len(contacts)
             m == Len(ids)
             call(i) == IF i <= m THEN Call("updateManager", ids[i], contacts[i]) ELSE Call("createManager", 0, contacts[i])
             deletion(i) == Call("deleteManager", ids[n + i], EmptyContact)
             Calls == CallOf(new)
  <1>1. n \in Nat /\ \A k \in 1..n : contacts[k] \in FullContact
    BY LenProperties, ElementOfSeq
  <1>2. m \in Nat /\ \A k \in 1..m : ids[k] \in Nat
    BY LenProperties, ElementOfSeq
  <1>3. SyncManagers(ids, contacts) = [i \in 1..n |-> call(i)] \o [i \in 1..(m - n) |-> deletion(i)]
    BY DEF SyncManagers
  <1> HIDE DEF n, m
  <1>4. \A i \in 1..n : call(i) \in Calls
    <2> SUFFICES ASSUME NEW i \in 1..n PROVE call(i) \in Calls
      OBVIOUS
    <2>1. i <= m => ids[i] \in Nat
      BY <1>1, <1>2
    <2> QED BY <1>1, <2>1, ManagerCallIs
  <1>5. \A i \in 1..(m - n) : deletion(i) \in Calls
    <2> SUFFICES ASSUME NEW i \in 1..(m - n) PROVE deletion(i) \in Calls
      OBVIOUS
    <2>1. ids[n + i] \in Nat
      BY <1>1, <1>2
    <2> QED BY <2>1, ManagerCallIs
  <1> HIDE DEF call, deletion, Calls
  <1>6. [i \in 1..n |-> call(i)] \in Seq(Calls)
    <2>1. [i \in 1..n |-> call(i)] \in [1..n -> Calls]
      BY <1>4
    <2> QED BY <1>1, <2>1, ListOf
  <1>7. [i \in 1..(m - n) |-> deletion(i)] \in Seq(Calls)
    <2>1. CASE m - n \in Nat
      <3>1. [i \in 1..(m - n) |-> deletion(i)] \in [1..(m - n) -> Calls]
        BY <1>5
      <3> QED BY <2>1, <3>1, ListOf
    <2>2. CASE m - n \notin Nat
      <3>1. 1..(m - n) = 1..0
        BY <1>1, <1>2, <2>2
      <3>2. [i \in 1..(m - n) |-> deletion(i)] \in [1..0 -> Calls]
        BY <1>5, <3>1
      <3> QED BY <3>2, ListOf
    <2> QED BY <2>1, <2>2
  <1> DEFINE a == [i \in 1..n |-> call(i)]
             b == [i \in 1..(m - n) |-> deletion(i)]
  <1> HIDE DEF a, b
  <1>8. a \o b \in Seq(Calls)
    BY <1>6, <1>7, ConcatProperties DEF a, b
  <1> QED BY <1>3, <1>8 DEF a, b, Calls

\* What a list of calls begins with, and that it is one.
LEMMA CallsFollow ==
    ASSUME NEW S, NEW first \in S, NEW others \in Seq(S)
    PROVE  <<first>> \o others \in Seq(S) /\ <<first>> \o others # << >> /\ (<<first>> \o others)[1] = first
  <1> DEFINE whole == <<first>> \o others
  <1>1. <<first>> \in Seq(S) /\ Len(<<first>>) = 1 /\ <<first>>[1] = first /\ Len(others) \in Nat
    OBVIOUS
  <1>2. whole \in Seq(S) /\ Len(whole) = Len(others) + 1 /\ whole[1] = first
    BY <1>1
  <1> HIDE DEF whole
  <1>3. whole # << >>
    BY <1>1, <1>2, EmptySeq
  <1> QED BY <1>2, <1>3 DEF whole

LEMMA PairIs == ASSUME NEW S, NEW a \in S, NEW b \in S PROVE <<a, b>> \in Seq(S) /\ <<a, b>> # << >>
  <1>1. <<a, b>> \in Seq(S) /\ Len(<<a, b>>) = 2
    OBVIOUS
  <1> QED BY <1>1, EmptySeq

LEMMA SaveCalls ==
    ASSUME PeopleInv, Editable, NEW contacts \in Seq(FullContact)
    PROVE  /\ Chain(contacts) \in Seq(CallOf(IsNew)) /\ Chain(contacts) # << >>
           /\ IsNew => Chain(contacts)[1].op = "createCompany"
  <1>1. form.kind \in Kind /\ PeopleFormOK(form)
    BY DEF PeopleInv, CompanyShape
  <1>2. CASE IsNew
    <2>1. CreateManagers(contacts) \in Seq(CallOf(IsNew))
      BY CreationsAre
    <2>2. ThisCompany("createCompany") \in CallOf(IsNew) /\ ThisCompany("createCompany").op = "createCompany"
      BY <1>2, CompanyCallIs
    <2>3. Chain(contacts) = <<ThisCompany("createCompany")>> \o CreateManagers(contacts)
      BY <1>2 DEF Chain, IsNew
    <2> QED BY <2>1, <2>2, <2>3, CallsFollow
  <1>3. ASSUME ~IsNew PROVE IsNew = FALSE /\ OriginalOK(form) /\ form.kind \in {"editCustomer", "editPartner"}
    BY <1>1, <1>3 DEF IsNew, Kind, PeopleFormOK, Editable
  <1>4. CASE ~IsNew /\ form.kind = "editCustomer"
    <2>1. SyncManagers(form.existing, contacts) \in Seq(CallOf(FALSE))
      BY <1>3, <1>4, SynchronisingIs DEF OriginalOK
    <2>2. ThisCompany("updateCompany") \in CallOf(FALSE)
      BY CompanyCallIs
    <2>3. Chain(contacts) = <<ThisCompany("updateCompany")>> \o SyncManagers(form.existing, contacts)
      BY <1>4 DEF Chain, IsNew
    <2> DEFINE Calls == CallOf(FALSE)
    <2>4. Chain(contacts) \in Seq(Calls) /\ Chain(contacts) # << >>
      <3> HIDE DEF Calls
      <3>1. SyncManagers(form.existing, contacts) \in Seq(Calls) /\ ThisCompany("updateCompany") \in Calls
        BY <2>1, <2>2 DEF Calls
      <3> QED BY <2>3, <3>1, CallsFollow
    <2> QED BY <1>3, <1>4, <2>4, Zenon
  <1>5. CASE ~IsNew /\ form.kind = "editPartner"
    <2> DEFINE first == ThisCompany("readManagers")
               second == ThisCompany("updateCompany")
    <2>1. first \in CallOf(FALSE) /\ second \in CallOf(FALSE)
      BY CompanyCallIs
    <2>2. Chain(contacts) = <<first, second>>
      BY <1>5 DEF Chain, IsNew
    <2> HIDE DEF first, second
    <2>3. <<first, second>> \in Seq(CallOf(FALSE)) /\ <<first, second>> # << >>
      BY <2>1, PairIs
    <2> QED BY <1>3, <1>5, <2>2, <2>3, Zenon
  <1> QED BY <1>1, <1>2, <1>3, <1>4, <1>5

LEMMA UndoCalls ==
    ASSUME PeopleInv, NEW r \in Runs, Active(r)
    PROVE  Undo(run[r].company) \in Seq(CallOf(IsNew)) /\ (run[r].company = 0 /\ IsNew => Undo(run[r].company) = << >>)
  <1> DEFINE c == run[r].company
  <1>1. form.kind \in Kind /\ PeopleFormOK(form) /\ Unfilled(form, manager, run) /\ run[r].phase # "idle"
    BY DEF PeopleInv, CompanyShape, Active
  <1>2. CASE IsNew
    <2>1. Undo(c) = IF c = 0 THEN << >> ELSE <<ThisCompany("deleteCompany")>>
      BY <1>2 DEF Undo, UndoNew, IsNew
    <2>2. ThisCompany("deleteCompany") \in CallOf(IsNew)
      BY CompanyCallIs
    <2>3. << >> \in Seq(CallOf(IsNew)) /\ <<ThisCompany("deleteCompany")>> \in Seq(CallOf(IsNew))
      BY <2>2
    <2> QED BY <2>1, <2>3
  <1>3. ASSUME ~IsNew PROVE IsNew = FALSE /\ OriginalOK(form) /\ form.kind \in {"editCustomer", "editPartner"}
    <2>1. form.kind \in {"editCustomer", "editPartner"}
      BY <1>1, <1>3 DEF IsNew, Kind
    <2>2. form.loaded
      BY <1>1, <2>1 DEF Unfilled
    <2> QED BY <1>1, <1>3, <2>1, <2>2 DEF PeopleFormOK
  <1>4. CASE ~IsNew /\ form.kind = "editCustomer"
    <2>1. SyncManagers(form.existing, form.original.contacts) \in Seq(CallOf(FALSE))
      BY <1>3, <1>4, SynchronisingIs DEF OriginalOK
    <2>2. ThisCompany("restoreCompany") \in CallOf(FALSE)
      BY CompanyCallIs
    <2>3. Undo(c) = <<ThisCompany("restoreCompany")>> \o SyncManagers(form.existing, form.original.contacts)
      BY <1>4 DEF Undo, UndoCustomerEdit, IsNew
    <2> DEFINE Calls == CallOf(FALSE)
    <2>4. Undo(c) \in Seq(Calls)
      <3> HIDE DEF Calls
      <3>1. SyncManagers(form.existing, form.original.contacts) \in Seq(Calls) /\ ThisCompany("restoreCompany") \in Calls
        BY <2>1, <2>2 DEF Calls
      <3> QED BY <2>3, <3>1, CallsFollow
    <2> QED BY <1>3, <1>4, <2>4, Zenon
  <1>5. CASE ~IsNew /\ form.kind = "editPartner"
    <2> DEFINE first == ThisCompany("restoreCompany")
               second == ThisCompany("readManagers")
    <2>1. first \in CallOf(FALSE) /\ second \in CallOf(FALSE)
      BY CompanyCallIs
    <2>2. Undo(c) = <<first, second>>
      BY <1>5 DEF Undo, UndoPartnerEdit, IsNew
    <2> HIDE DEF first, second
    <2>3. <<first, second>> \in Seq(CallOf(FALSE))
      BY <2>1, PairIs
    <2> QED BY <1>3, <1>5, <2>2, <2>3, Zenon
  <1> QED BY <1>1, <1>2, <1>3, <1>4, <1>5

LEMMA SavesGrow ==
    ASSUME NEW saves, NEW n \in Nat, NEW m \in Nat, n <= m, NEW new, SavesOK(saves, n, new)
    PROVE  SavesOK(saves, m, new)
  <1>1. 0..n \subseteq 0..m
    OBVIOUS
  <1>2. ASSUME NEW r \in Runs PROVE SaveOK(saves[r], m, new)
    <2>1. SaveOK(saves[r], n, new)
      BY DEF SavesOK
    <2> QED BY <1>1, <2>1 DEF SaveOK
  <1> QED BY <1>2 DEF SavesOK

\* Pressing the button.
LEMMA SaveBegins == ASSUME PeopleInv, NEW kind, Start(kind) PROVE PeopleInv'
  <1> DEFINE contacts == Filled(form.contacts)
             first == IF IsNew THEN 0 ELSE 1
             chain == Chain(contacts)
             alone == ~Submitting
             n == Len(company)
  <1>1. PICK r \in Runs :
          /\ run[r].phase = "idle"
          /\ run' = [q \in Runs |->
               CASE q = r -> [phase |-> "forward", name |-> form.name, contacts |-> contacts, company |-> first, calls |-> chain,
                              alone |-> alone]
                 [] run[q].phase \in {"forward", "undo"} -> [run[q] EXCEPT !.alone = FALSE]
                 [] OTHER -> run[q]]
    BY DEF Start
  <1>2. Editable /\ form.name \in Names /\ ValidContacts(contacts) /\ UNCHANGED <<company, manager, form, ocr, badCalls>>
    BY DEF Start
  <1>3. contacts \in Seq(FullContact)
    <2>1. form.contacts \in Seq(Contact)
      BY DEF PeopleInv, PeopleFormOK
    <2>2. PICK m \in Nat : DOMAIN contacts = 1..m /\ contacts \in [1..m -> Contact]
      BY <2>1, FilledIs
    <2> HIDE DEF contacts
    <2>3. ASSUME NEW k \in 1..m PROVE contacts[k] \in FullContact
      <3>1. contacts[k] \in Contact /\ contacts[k].email # Blank /\ contacts[k].info # Blank
        BY <1>2, <2>2 DEF ValidContacts
      <3> QED BY <3>1 DEF Contact, FullContact
    <2>4. contacts \in [1..m -> FullContact]
      BY <2>2, <2>3
    <2> QED BY <2>4, ListOf
  <1>4. chain \in Seq(CallOf(IsNew)) /\ chain # << >> /\ (IsNew => chain[1].op = "createCompany")
    BY <1>2, <1>3, SaveCalls
  <1>5. alone \in BOOLEAN /\ n \in Nat /\ n >= 1 /\ first \in 0..n /\ (first = 0 => IsNew)
    BY LenProperties DEF PeopleInv, TablesOK
  <1> HIDE DEF contacts, first, chain, alone, n
  <1>6. ASSUME NEW q \in Runs PROVE SaveOK(run'[q], n, IsNew)
    <2>1. SaveOK(run[q], n, IsNew)
      BY DEF PeopleInv, SavesOK, n
    <2>2. CASE q = r
      <3>1. run'[q] = [phase |-> "forward", name |-> form.name, contacts |-> contacts, company |-> first, calls |-> chain, alone |-> alone]
        BY <1>1, <2>2
      <3>2. run'[q].company = 0 => chain[1].op = "createCompany"
        <4>1. run'[q].company = first
          BY <3>1
        <4> QED BY <1>4, <1>5, <4>1, Zenon
      <3>3. run'[q].calls = chain /\ run'[q].phase = "forward" /\ run'[q].name = form.name
        BY <3>1
      <3>4. run'[q] \in [phase : RunPhase, name : Names \union {Blank}, contacts : Seq(FullContact), company : 0..n,
                        calls : Seq(CallOf(IsNew)), alone : BOOLEAN]
        BY <1>2, <1>3, <1>4, <1>5, <3>1 DEF RunPhase
      <3> QED BY <1>2, <1>4, <3>2, <3>3, <3>4 DEF SaveOK
    <2>3. CASE q # r /\ run[q].phase \in {"forward", "undo"}
      <3>1. run'[q] = [run[q] EXCEPT !.alone = FALSE]
        BY <1>1, <2>3
      <3> QED BY <2>1, <3>1 DEF SaveOK
    <2>4. CASE q # r /\ run[q].phase \notin {"forward", "undo"}
      <3>1. run'[q] = run[q]
        BY <1>1, <2>4
      <3> QED BY <2>1, <3>1
    <2> QED BY <2>2, <2>3, <2>4
  <1>7. SavesOK(run', n, IsNew)
    <2>1. run' = [q \in Runs |-> run'[q]]
      BY <1>1
    <2> QED BY <1>6, <2>1 DEF SavesOK
  <1>8. form' \in CompanyShape' /\ IsNew' = IsNew /\ n' = n
    BY <1>2 DEF PeopleInv, CompanyShape, IsNew, n
  <1>9. Unfilled(form', manager', run')
    BY <1>2 DEF Unfilled, Editable, IsNew
  <1> QED BY <1>2, <1>7, <1>8, <1>9 DEF PeopleInv, n

\* What the call due is, and whom it is about.
LEMMA DueIs ==
    ASSUME PeopleInv, NEW r \in Runs, Active(r)
    PROVE  /\ run[r].calls \in Seq(CallOf(IsNew)) /\ run[r].calls # << >> /\ Due(r) = run[r].calls[1]
           /\ Due(r) \in CallOf(IsNew) /\ run[r].name \in Names /\ run[r].contacts \in Seq(FullContact)
           /\ run[r].company \in 0..Len(company) /\ (run[r].company = 0 => Due(r).op = "createCompany")
           /\ Due(r).op \in {"restoreCompany", "readManagers"} => OriginalOK(form)
  <1> DEFINE calls == run[r].calls
  <1>1. SaveOK(run[r], Len(company), IsNew) /\ run[r].phase \in {"forward", "undo"}
    BY DEF PeopleInv, SavesOK, Active
  <1>2. calls \in Seq(CallOf(IsNew)) /\ calls # << >>
    BY <1>1 DEF SaveOK
  <1>3. Due(r) = calls[1] /\ calls[1] \in CallOf(IsNew)
    <2>1. Due(r) = Head(calls)
      BY DEF Due
    <2> HIDE DEF calls
    <2> QED BY <1>2, <2>1, EmptySeq
  <1>4. Due(r).op \in {"restoreCompany", "readManagers"} => OriginalOK(form)
    <2> SUFFICES ASSUME Due(r).op \in {"restoreCompany", "readManagers"} PROVE OriginalOK(form)
      OBVIOUS
    <2>1. ~IsNew
      BY <1>3 DEF CallOf
    <2>2. form.kind \in {"editCustomer", "editPartner"}
      BY <2>1 DEF IsNew, PeopleInv, CompanyShape, Kind
    <2>3. form.loaded
      BY <1>1, <2>2 DEF PeopleInv, Unfilled
    <2> QED BY <2>2, <2>3 DEF PeopleInv, PeopleFormOK
  <1> QED BY <1>1, <1>2, <1>3, <1>4 DEF SaveOK

LEMMA ManagersOfMore == ASSUME NEW n \in Nat, NEW m \in Nat, n <= m PROVE Seq(ManagerRow(n)) \subseteq Seq(ManagerRow(m))
  <1>1. ManagerRow(n) \subseteq ManagerRow(m)
    BY DEF ManagerRow
  <1> HIDE DEF ManagerRow
  <1> QED BY <1>1

\* What the call does to the tables, whether its answer comes or not.
LEMMA TablesAfter ==
    ASSUME PeopleInv, NEW r \in Runs, Active(r), ~Rejected(Due(r)),
           NEW rows, rows = CompanyAfter(Due(r), r), NEW people, people = ManagersAfter(Due(r), r)
    PROVE  TablesOK(rows, people) /\ Len(rows) >= Len(company) /\ Len(rows) \in Nat
  <1> DEFINE due == Due(r)
             c == run[r].company
             n == Len(company)
  <1>1. /\ company \in Seq(CompanyRow) /\ n \in Nat /\ n >= 1 /\ DOMAIN company = 1..n
        /\ \A i \in 1..n : company[i] \in CompanyRow
    BY LenProperties, ElementOfSeq DEF PeopleInv, TablesOK
  <1>2. /\ manager \in Seq(ManagerRow(n)) /\ Len(manager) \in Nat /\ DOMAIN manager = 1..Len(manager)
        /\ \A m \in DOMAIN manager : manager[m] \in ManagerRow(n)
        /\ \A m, k \in DOMAIN manager : m # k => manager[m].email # manager[k].email
    BY LenProperties, ElementOfSeq DEF PeopleInv, TablesOK
  <1>3. /\ due \in CallOf(IsNew) /\ run[r].name \in Names /\ c \in 0..n /\ (c = 0 => due.op = "createCompany")
        /\ due.op = "restoreCompany" => form.original.name \in Names
    BY DueIs DEF OriginalOK
  <1>4. /\ due.op = "createManager" => due.contact \in FullContact
        /\ due.op = "updateManager" => due.contact.info \in Infos
        /\ due.op \in {"createCompany", "updateCompany", "restoreCompany", "deleteCompany",
                       "readManagers", "createManager", "updateManager", "deleteManager"}
    BY <1>3 DEF CallOf, CallRow
  <1>5. rows = CompanyAfter(due, r) /\ people = ManagersAfter(due, r) /\ ~Rejected(due)
    OBVIOUS
  <1> HIDE DEF due, c, n
  <1>6. CASE due.op = "createCompany"
    <2> DEFINE row == [name |-> run[r].name, live |-> TRUE]
    <2>1. row \in CompanyRow
      BY <1>3 DEF CompanyRow
    <2>2. rows = Append(company, row) /\ people = manager
      BY <1>5, <1>6 DEF CompanyAfter, ManagersAfter
    <2> HIDE DEF row
    <2>3. rows \in Seq(CompanyRow) /\ Len(rows) = n + 1
      BY <1>1, <2>1, <2>2, AppendProperties DEF n
    <2>4. people \in Seq(ManagerRow(Len(rows)))
      BY <1>1, <1>2, <2>2, <2>3, ManagersOfMore
    <2> QED BY <1>1, <1>2, <2>2, <2>3, <2>4 DEF TablesOK, n
  <1>7. ASSUME NEW row \in CompanyRow, c \in 1..n, rows = [company EXCEPT ![c] = row], people = manager
        PROVE  TablesOK(rows, people) /\ Len(rows) >= n /\ Len(rows) \in Nat
    <2>1. rows \in Seq(CompanyRow) /\ Len(rows) = n
      BY <1>1, <1>7, ExceptSeq DEF n
    <2> QED BY <1>1, <1>2, <1>7, <2>1 DEF TablesOK
  <1>8. CASE due.op \in {"updateCompany", "restoreCompany", "deleteCompany"}
    <2>1. c \in 1..n /\ people = manager /\ company[c] \in CompanyRow
      BY <1>1, <1>3, <1>5, <1>8 DEF ManagersAfter
    <2>2. ASSUME NEW name \in Names PROVE [company[c] EXCEPT !.name = name] \in CompanyRow
      BY <2>1 DEF CompanyRow
    <2>3. [company[c] EXCEPT !.live = FALSE] \in CompanyRow
      BY <2>1 DEF CompanyRow
    <2>4. CASE due.op = "updateCompany"
      <3>1. rows = [company EXCEPT ![c] = [company[c] EXCEPT !.name = run[r].name]]
        BY <1>5, <2>4 DEF CompanyAfter, c
      <3> QED BY <1>3, <1>7, <2>1, <2>2, <3>1 DEF n
    <2>5. CASE due.op = "restoreCompany"
      <3>1. rows = [company EXCEPT ![c] = [company[c] EXCEPT !.name = form.original.name]]
        BY <1>5, <2>5 DEF CompanyAfter, c
      <3> QED BY <1>3, <1>7, <2>1, <2>2, <2>5, <3>1 DEF n
    <2>6. CASE due.op = "deleteCompany"
      <3>1. rows = [company EXCEPT ![c] = [company[c] EXCEPT !.live = FALSE]]
        BY <1>5, <2>6 DEF CompanyAfter, c
      <3> QED BY <1>7, <2>1, <2>3, <3>1 DEF n
    <2> QED BY <1>8, <2>4, <2>5, <2>6
  <1>9. CASE due.op = "createManager"
    <2> DEFINE row == [company |-> c, email |-> due.contact.email, info |-> due.contact.info, live |-> TRUE]
    <2>1. row \in ManagerRow(n) /\ row.email = due.contact.email
      <3>1. c \in 1..n /\ due.contact.email \in Emails /\ due.contact.info \in Infos
        BY <1>1, <1>3, <1>4, <1>9 DEF FullContact
      <3> QED BY <3>1 DEF ManagerRow
    <2>2. rows = company /\ people = Append(manager, row)
      BY <1>5, <1>9 DEF CompanyAfter, ManagersAfter, CreateManager, c
    <2>3. \A m \in DOMAIN manager : manager[m].email # due.contact.email
      BY <1>5, <1>9 DEF Rejected, EmailTaken
    <2> HIDE DEF row
    <2>4. /\ people \in Seq(ManagerRow(n)) /\ Len(people) = Len(manager) + 1 /\ people[Len(manager) + 1] = row
          /\ \A m \in 1..Len(manager) : people[m] = manager[m]
      BY <1>2, <2>1, <2>2, AppendProperties
    <2>5. DOMAIN people = 1..(Len(manager) + 1)
      BY <2>4, LenProperties
    <2>6. ASSUME NEW m \in DOMAIN people, NEW k \in DOMAIN people, m # k PROVE people[m].email # people[k].email
      <3> DEFINE Old(j) == j \in DOMAIN manager /\ people[j] = manager[j]
                 New(j) == j = Len(manager) + 1 /\ people[j] = row
      <3>1. \A j \in DOMAIN people : Old(j) \/ New(j)
        BY <1>2, <2>4, <2>5
      <3>2. CASE Old(m) /\ Old(k)
        BY <1>2, <2>6, <3>2
      <3>3. CASE Old(m) /\ New(k)
        BY <2>1, <2>3, <3>3
      <3>4. CASE New(m) /\ Old(k)
        BY <2>1, <2>3, <3>4
      <3> QED BY <2>6, <3>1, <3>2, <3>3, <3>4
    <2> QED BY <1>1, <2>2, <2>4, <2>6 DEF TablesOK, n
  <1>10. ASSUME NEW id \in DOMAIN manager, NEW row \in ManagerRow(n), row.email = manager[id].email,
                rows = company, people = [manager EXCEPT ![id] = row]
         PROVE  TablesOK(rows, people) /\ Len(rows) >= n /\ Len(rows) \in Nat
    <2>1. /\ people \in Seq(ManagerRow(n)) /\ Len(people) = Len(manager) /\ DOMAIN people = DOMAIN manager
          /\ \A m \in DOMAIN manager : people[m] = IF m = id THEN row ELSE manager[m]
      BY <1>2, <1>10, ExceptSeq
    <2>2. \A m \in DOMAIN people : people[m].email = manager[m].email
      BY <1>10, <2>1
    <2>3. \A m, k \in DOMAIN people : m # k => people[m].email # people[k].email
      BY <1>2, <2>1, <2>2
    <2> QED BY <1>1, <1>10, <2>1, <2>3 DEF TablesOK, n
  <1>11. CASE due.op \in {"updateManager", "deleteManager"}
    <2>1. due.id \in DOMAIN manager /\ rows = company
      BY <1>5, <1>11 DEF Rejected, Missing, CompanyAfter
    <2>2. manager[due.id] \in ManagerRow(n)
      BY <1>2, <2>1
    <2>3. CASE due.op = "updateManager"
      <3> DEFINE row == [manager[due.id] EXCEPT !.info = due.contact.info]
      <3>1. people = [manager EXCEPT ![due.id] = row]
        BY <1>5, <2>3 DEF ManagersAfter, UpdateManager
      <3>2. row \in ManagerRow(n) /\ row.email = manager[due.id].email
        BY <1>4, <2>2, <2>3 DEF ManagerRow
      <3> HIDE DEF row
      <3> QED BY <1>10, <2>1, <3>1, <3>2 DEF n
    <2>4. CASE due.op = "deleteManager"
      <3> DEFINE row == [manager[due.id] EXCEPT !.live = FALSE]
      <3>1. people = [manager EXCEPT ![due.id] = row]
        BY <1>5, <2>4 DEF ManagersAfter, DeleteManager
      <3>2. row \in ManagerRow(n) /\ row.email = manager[due.id].email
        BY <2>2 DEF ManagerRow
      <3> HIDE DEF row
      <3> QED BY <1>10, <2>1, <3>1, <3>2 DEF n
    <2> QED BY <1>11, <2>3, <2>4
  <1>12. CASE due.op = "readManagers"
    <2>1. rows = company /\ people = manager
      BY <1>5, <1>12 DEF CompanyAfter, ManagersAfter
    <2> QED BY <1>1, <1>2, <2>1 DEF TablesOK, n
  <1> QED BY <1>4, <1>6, <1>8, <1>9, <1>11, <1>12

\* The calls that are left: those behind, and those about the managers just read.
LEMMA RestIs == ASSUME PeopleInv, NEW r \in Runs, Active(r) PROVE Rest(r) \in Seq(CallOf(IsNew))
  <1> DEFINE calls == run[r].calls
             ids == ManagersOf(run[r].company)
             contacts == IF run[r].phase = "forward" THEN run[r].contacts ELSE form.original.contacts
             more == SyncManagers(ById(ids), contacts)
             Calls == CallOf(IsNew)
  <1>1. calls \in Seq(Calls) /\ calls # << >> /\ run[r].contacts \in Seq(FullContact)
    BY DueIs
  <1>2. Due(r).op = "readManagers" => form.original.contacts \in Seq(FullContact)
    BY DueIs DEF OriginalOK
  <1>3. Rest(r) = IF Due(r).op # "readManagers" THEN Tail(calls) ELSE Tail(calls) \o more
    BY DEF Rest
  <1> HIDE DEF calls
  <1>4. Tail(calls) \in Seq(Calls)
    <2> HIDE DEF Calls
    <2> QED BY <1>1
  <1>5. CASE Due(r).op # "readManagers"
    BY <1>3, <1>4, <1>5
  <1>6. CASE Due(r).op = "readManagers"
    <2>1. ids \in SUBSET Nat /\ IsFiniteSet(ids)
      <3>1. Len(manager) \in Nat /\ DOMAIN manager = 1..Len(manager)
        BY LenProperties DEF PeopleInv, TablesOK
      <3>2. ids \in SUBSET (1..Len(manager)) /\ IsFiniteSet(1..Len(manager))
        BY <3>1, FirstNumbers DEF ManagersOf
      <3> HIDE DEF ids
      <3>3. IsFiniteSet(ids)
        BY <3>2, FS_Subset
      <3> QED BY <3>1, <3>2, <3>3
    <2> HIDE DEF ids
    <2>2. ById(ids) \in Seq(Nat)
      <3>1. ById(ids) \in [1..Cardinality(ids) -> ids] /\ Cardinality(ids) \in Nat
        BY <2>1, ByIdIs
      <3>2. ById(ids) \in [1..Cardinality(ids) -> Nat]
        BY <2>1, <3>1
      <3> QED BY <3>1, <3>2, ListOf
    <2>3. contacts \in Seq(FullContact)
      BY <1>1, <1>2, <1>6
    <2> HIDE DEF contacts
    <2>4. more \in Seq(Calls)
      BY <2>2, <2>3, SynchronisingIs
    <2> HIDE DEF more, Calls
    <2>5. Tail(calls) \o more \in Seq(Calls)
      BY <1>4, <2>4, ConcatProperties
    <2> QED BY <1>3, <1>6, <2>5 DEF Calls
  <1> QED BY <1>5, <1>6

\* A save that goes on to these calls, for this company, in this phase.
Continues(r, calls, c, phase) ==
  run' = [run EXCEPT ![r].calls = calls, ![r].company = c, ![r].phase = phase]

\* One run goes on.
LEMMA SaveGoesOn ==
    ASSUME PeopleInv, NEW r \in Runs, Active(r), NEW n \in Nat, n >= Len(company),
           NEW calls \in Seq(CallOf(IsNew)), NEW c \in 0..n, NEW phase \in {"forward", "undo", "saved", "failed"},
           phase \in {"forward", "undo"} => calls # << >> /\ c # 0,
           Continues(r, calls, c, phase)
    PROVE  SavesOK(run', n, IsNew) /\ \A q \in Runs : q # r => run'[q] = run[q]
  <1>1. SavesOK(run, Len(company), IsNew) /\ Len(company) \in Nat
    BY LenProperties DEF PeopleInv, TablesOK
  <1>2. SavesOK(run, n, IsNew)
    BY <1>1, SavesGrow
  <1>3. SaveOK(run[r], n, IsNew) /\ run[r].phase # "idle" /\ run = [q \in Runs |-> run[q]]
    BY <1>2 DEF SavesOK, Active
  <1> DEFINE Lists == Seq(CallOf(IsNew))
             People_ == Seq(FullContact)
             e == [run[r] EXCEPT !.calls = calls, !.company = c, !.phase = phase]
  <1>4. /\ run[r] \in [phase : RunPhase, name : Names \union {Blank}, contacts : People_, company : 0..n,
                       calls : Lists, alone : BOOLEAN]
        /\ run[r].name \in Names
    BY <1>3 DEF SaveOK
  <1> HIDE DEF Lists, People_
  <1>5. calls \in Lists
    BY DEF Lists
  <1>6. /\ e \in [phase : RunPhase, name : Names \union {Blank}, contacts : People_, company : 0..n, calls : Lists, alone : BOOLEAN]
        /\ e.name \in Names /\ e.phase = phase /\ e.calls = calls /\ e.company = c
    BY <1>4, <1>5 DEF RunPhase
  <1>7. run' = [run EXCEPT ![r] = e]
    BY <1>3, <1>4 DEF Continues
  <1> HIDE DEF e
  <1>8. SaveOK(e, n, IsNew)
    BY <1>6 DEF SaveOK, Lists, People_
  <1>9. run' = [q \in Runs |-> run'[q]] /\ run'[r] = e /\ \A q \in Runs : q # r => run'[q] = run[q]
    BY <1>3, <1>7
  <1>10. ASSUME NEW q \in Runs PROVE SaveOK(run'[q], n, IsNew)
    BY <1>2, <1>8, <1>9 DEF SavesOK
  <1> QED BY <1>9, <1>10 DEF SavesOK

\* Where a save runs, an edit page has been filled.
LEMMA FilledStays ==
    ASSUME PeopleInv, NEW r \in Runs, Active(r), form'.kind = form.kind, form'.loaded = form.loaded
    PROVE  Unfilled(form', manager', run')
  BY DEF PeopleInv, Unfilled, Active

LEMMA AnswerTyped == ASSUME PeopleInv, NEW r \in Runs, CallAnswered(r) PROVE PeopleInv'
  <1> DEFINE rest == Rest(r)
             c == IF Due(r).op = "createCompany" THEN Len(company') ELSE run[r].company
             phase == IF rest # << >> THEN run[r].phase ELSE IF run[r].phase = "forward" THEN "saved" ELSE "failed"
             n == Len(company')
  <1>1. /\ Active(r) /\ ~Rejected(Due(r)) /\ UNCHANGED <<ocr, badCalls>>
        /\ company' = CompanyAfter(Due(r), r) /\ manager' = ManagersAfter(Due(r), r)
    BY DEF CallAnswered
  <1>2. TablesOK(company', manager') /\ n >= Len(company) /\ n \in Nat
    BY <1>1, TablesAfter
  <1>3. rest \in Seq(CallOf(IsNew))
    BY <1>1, RestIs
  <1>4. run[r].company \in 0..Len(company) /\ (run[r].company = 0 => Due(r).op = "createCompany")
    BY <1>1, DueIs
  <1>5. Len(company) \in Nat /\ Len(company) >= 1
    BY LenProperties DEF PeopleInv, TablesOK
  <1>6. c \in 0..n /\ c # 0
    BY <1>2, <1>4, <1>5
  <1>7. run[r].phase \in {"forward", "undo"}
    BY <1>1 DEF Active
  <1>8. phase \in {"forward", "undo", "saved", "failed"} /\ (phase \in {"forward", "undo"} => rest # << >>)
    BY <1>7
  <1>9. run' = [run EXCEPT ![r].calls = rest, ![r].company = c, ![r].phase = phase]
    <2>1. run' = [run EXCEPT ![r].calls = rest, ![r].company = c,
                             ![r].phase = IF rest # << >> THEN @ ELSE IF @ = "forward" THEN "saved" ELSE "failed"]
      BY DEF CallAnswered, Finished
    <2>2. run = [q \in Runs |-> run[q]] /\ run[r] \in [phase : RunPhase, name : Names \union {Blank}, contacts : Seq(FullContact),
            company : 0..Len(company), calls : Seq(CallOf(IsNew)), alone : BOOLEAN]
      BY DEF PeopleInv, SavesOK, SaveOK
    <2> HIDE DEF rest, c
    <2> QED BY <2>1, <2>2
  <1> HIDE DEF rest, c, phase, n
  <1>10. SavesOK(run', n, IsNew)
    <2>1. Active(r) /\ n \in Nat /\ n >= Len(company)
      BY <1>1, <1>2
    <2>2. phase \in {"forward", "undo"} => rest # << >> /\ c # 0
      BY <1>6, <1>8
    <2>3. phase \in {"forward", "undo", "saved", "failed"} /\ c \in 0..n
      BY <1>6, <1>8
    <2>4. Continues(r, rest, c, phase)
      BY <1>9 DEF Continues
    <2> QED BY <1>3, <2>1, <2>2, <2>3, <2>4, SaveGoesOn
  <1>11. form' = [form EXCEPT !.phase = "left"] \/ form' = form
    BY DEF CallAnswered, Finished
  <1>12. /\ form' \in CompanyShape' /\ form'.kind = form.kind /\ form'.contacts = form.contacts /\ form'.loaded = form.loaded
         /\ form'.known = form.known /\ form'.original = form.original /\ form'.existing = form.existing
    BY <1>11 DEF PeopleInv, CompanyShape
  <1>13. PeopleFormOK(form') /\ IsNew' = IsNew
    BY <1>12 DEF PeopleInv, PeopleFormOK, OriginalOK, IsNew
  <1>14. Unfilled(form', manager', run')
    BY <1>1, <1>12, FilledStays
  <1> QED BY <1>1, <1>2, <1>10, <1>12, <1>13, <1>14 DEF PeopleInv, n

LEMMA CaughtTyped ==
    ASSUME PeopleInv, NEW r \in Runs, Active(r), Caught(r), UNCHANGED <<form, ocr>>, badCalls' \in 0..MaxFaults,
           \/ UNCHANGED <<company, manager>>
           \/ ~Rejected(Due(r)) /\ company' = CompanyAfter(Due(r), r) /\ manager' = ManagersAfter(Due(r), r)
    PROVE  PeopleInv'
  <1> DEFINE undo == IF run[r].phase = "undo" THEN << >> ELSE Undo(run[r].company)
             phase == IF undo = << >> THEN "failed" ELSE "undo"
             c == run[r].company
             n == Len(company')
  <1>1. run' = [run EXCEPT ![r].calls = undo, ![r].phase = phase]
    BY DEF Caught
  <1>2. TablesOK(company', manager') /\ n >= Len(company) /\ n \in Nat
    <2>1. CASE UNCHANGED <<company, manager>>
      BY <2>1, LenProperties DEF PeopleInv, TablesOK
    <2>2. CASE ~Rejected(Due(r)) /\ company' = CompanyAfter(Due(r), r) /\ manager' = ManagersAfter(Due(r), r)
      BY <2>2, TablesAfter
    <2> QED BY <2>1, <2>2
  <1>3. undo \in Seq(CallOf(IsNew)) /\ (c = 0 /\ IsNew => undo = << >>)
    <2>1. << >> \in Seq(CallOf(IsNew))
      BY EmptySeq
    <2>2. Undo(c) \in Seq(CallOf(IsNew)) /\ (c = 0 /\ IsNew => Undo(c) = << >>)
      BY UndoCalls
    <2> QED BY <2>1, <2>2
  <1>4. c \in 0..Len(company) /\ Len(company) \in Nat
    BY DueIs, LenProperties DEF PeopleInv, TablesOK
  <1>5. c = 0 => IsNew
    <2>1. (c = 0 => Due(r).op = "createCompany") /\ Due(r) \in CallOf(IsNew)
      BY DueIs
    <2> QED BY <2>1 DEF CallOf
  <1>6. phase \in {"failed", "undo"} /\ (phase = "undo" => undo # << >> /\ c # 0)
    BY <1>3, <1>5
  <1> HIDE DEF undo, phase, n
  <1>7. SavesOK(run', n, IsNew)
    <2>1. c \in 0..n /\ c = run[r].company
      BY <1>2, <1>4
    <2>2. run = [q \in Runs |-> run[q]] /\ run[r] \in [phase : RunPhase, name : Names \union {Blank}, contacts : Seq(FullContact),
            company : 0..Len(company), calls : Seq(CallOf(IsNew)), alone : BOOLEAN]
      BY DEF PeopleInv, SavesOK, SaveOK
    <2>3. Continues(r, undo, c, phase)
      BY <1>1, <2>2 DEF Continues
    <2> HIDE DEF c
    <2> QED BY <1>2, <1>3, <1>6, <2>1, <2>3, SaveGoesOn
  <1>8. form' \in CompanyShape' /\ form' = form /\ IsNew' = IsNew /\ PeopleFormOK(form')
    BY DEF PeopleInv, CompanyShape, IsNew
  <1>9. Unfilled(form', manager', run')
    BY <1>8, FilledStays
  <1> QED BY <1>2, <1>7, <1>8, <1>9 DEF PeopleInv, n

LEMMA PeopleInvStays == PeopleInv /\ CompanyNext => PeopleInv'
  <1> SUFFICES ASSUME PeopleInv, CompanyNext PROVE PeopleInv'
    OBVIOUS
  <1>0. badCalls \in 0..MaxFaults /\ MaxFaults \in Nat
    BY CompanyFormAssumption DEF PeopleInv
  <1>1. ASSUME NEW r \in Runs, CallRefused(r) PROVE PeopleInv'
    <2>1. Active(r) /\ Caught(r) /\ UNCHANGED <<company, manager, form, ocr, badCalls>>
      BY <1>1 DEF CallRefused
    <2> QED BY <1>0, <2>1, CaughtTyped
  <1>2. ASSUME NEW r \in Runs, CallFails(r) PROVE PeopleInv'
    <2>1. Active(r) /\ Caught(r) /\ UNCHANGED <<company, manager, form, ocr>> /\ badCalls < MaxFaults /\ badCalls' = badCalls + 1
      BY <1>2 DEF CallFails
    <2>2. badCalls' \in 0..MaxFaults
      BY <1>0, <2>1
    <2> QED BY <2>1, <2>2, CaughtTyped
  <1>3. ASSUME NEW r \in Runs, AnswerLost(r) PROVE PeopleInv'
    <2>1. /\ Active(r) /\ ~Rejected(Due(r)) /\ Caught(r) /\ UNCHANGED <<form, ocr>> /\ badCalls < MaxFaults /\ badCalls' = badCalls + 1
          /\ company' = CompanyAfter(Due(r), r) /\ manager' = ManagersAfter(Due(r), r)
      BY <1>3 DEF AnswerLost
    <2>2. badCalls' \in 0..MaxFaults
      BY <1>0, <2>1
    <2> QED BY <2>1, <2>2, CaughtTyped
  <1>4. CASE NewCustomerSubmit \/ NewPartnerSubmit \/ EditCustomerSave \/ EditPartnerSave
    BY <1>4, SaveBegins DEF NewCustomerSubmit, NewPartnerSubmit, EditCustomerSave, EditPartnerSave
  <1> QED BY <1>1, <1>2, <1>3, <1>4, ListsArrive, TypedKeeps, AnswerTyped DEF CompanyNext

LEMMA PeopleInvRests == PeopleInv /\ UNCHANGED companyVars => PeopleInv'
  <1> SUFFICES ASSUME PeopleInv, UNCHANGED companyVars PROVE PeopleInv'
    OBVIOUS
  <1>1. form' \in CompanyShape' /\ form' = form /\ UNCHANGED <<company, manager, run, badCalls, ocr>>
    BY DEF PeopleInv, CompanyShape, companyVars
  <1>2. PeopleFormOK(form')
    BY <1>1 DEF PeopleInv
  <1> QED BY <1>1, <1>2, PeopleFormKeeps DEF PeopleInv

-----------------------------------------------------------------------------
(* Proposals.                                                              *)

PropShape ==
    [kind : {"new", "edit"}, phase : {"open", "left"}, listed : BOOLEAN, taken : SUBSET Requests,
     request : {NoRequest} \union Requests, opp : {0} \union Opportunities, own : {NoRequest} \union Requests,
     chosen : Nat, newest : {NoRequest} \union Requests, detail : {"awaited", "shown", "failed"},
     stored : SUBSET Nat, files : 0..MaxFiles]

PropSendPhase == {"idle", "uploading", "completing", "undoing", "listing", "saved", "failed"}
PropSendShape ==
    [phase : PropSendPhase, opp : {0} \union Opportunities, request : {NoRequest} \union Requests, kept : SUBSET Nat,
     blind : BOOLEAN, files : Nat, sent : SUBSET Nat, row : Nat, spoilt : BOOLEAN]

PropTyped ==
    /\ propForm \in PropShape /\ send \in [Sends -> PropSendShape]
    /\ proposal \in Seq(ProposalRow) /\ uploads \in Nat /\ down \in 0..MaxDown
    /\ prefills \subseteq (1..MaxChoices) \X Requests

\* The row a registration has created exists, and is deleted when the registration failed.
NewSendInv(s) ==
    /\ send[s].row \in 0..Len(proposal)
    /\ send[s].phase \in {"idle", "uploading"} => send[s].row = 0
    /\ send[s].phase \in {"completing", "undoing", "listing"} => send[s].row # 0
    /\ send[s].phase = "completing" => FileIds(s) # {}
    /\ send[s].phase = "failed" /\ send[s].row # 0 /\ ~send[s].spoilt => ~Live(send[s].row)
    /\ ~send[s].blind

\* What an edit keeps are the files the proposal had when it arrived.
EditSendInv(s) ==
    /\ send[s].phase \notin {"completing", "undoing"}
    /\ send[s].phase # "idle" /\ ~send[s].blind => propForm.detail = "shown" /\ send[s].kept = propForm.stored

SendInv(s) ==
    /\ send[s].phase = "idle" => ~send[s].blind
    /\ send[s].phase # "idle" => send[s].opp \in Opportunities
    /\ send[s].sent \subseteq 1..uploads
    /\ IF propForm.kind = "new" THEN NewSendInv(s) ELSE EditSendInv(s)

\* The answer to the newest choice is awaited, or what it said is shown.
ChoiceInv ==
    /\ \A choice \in prefills : choice[1] <= propForm.chosen /\ (choice[1] = propForm.chosen => choice[2] = propForm.newest)
    /\ propForm.chosen > 0 =>
         \/ <<propForm.chosen, propForm.newest>> \in prefills
         \/ propForm.request = propForm.newest /\ propForm.opp = OpportunityOfRequest(propForm.newest)

ProposalInv ==
    /\ PropTyped
    /\ \A s \in Sends : SendInv(s)
    /\ propForm.kind = "edit" => Len(proposal) >= 1
    /\ propForm.kind = "new" => ChoiceInv
    /\ ~Careless => \A p \in DOMAIN proposal : proposal[p].completed => proposal[p].files # {}

LEMMA ProposalInvStarts == ProposalInit => ProposalInv
  <1> SUFFICES ASSUME ProposalInit PROVE ProposalInv
    OBVIOUS
  <1>1. PICK kind \in {"new", "edit"}, rows \in StoredProposals :
          /\ kind = "edit" => rows # << >>
          /\ proposal = rows
          /\ uploads = Cardinality(UNION {rows[p].files : p \in DOMAIN rows})
          /\ propForm = [kind |-> kind, phase |-> "open", listed |-> FALSE, taken |-> {},
                         request |-> NoRequest, opp |-> 0, own |-> NoRequest, chosen |-> 0, newest |-> NoRequest,
                         detail |-> "awaited", stored |-> {}, files |-> 0]
          /\ prefills = {} /\ send = [s \in Sends |-> NoSend] /\ down = 0
    BY DEF ProposalInit
  <1>2. /\ rows \in Seq(ProposalRow) /\ Len(rows) \in Nat /\ DOMAIN rows = 1..Len(rows)
        /\ \A p \in DOMAIN rows : IsFiniteSet(rows[p].files) /\ (rows[p].completed => rows[p].files # {})
    BY ProposalAssumption
  <1>3. uploads \in Nat
    <2> DEFINE filesOf == [p \in 1..Len(rows) |-> rows[p].files]
               all == {rows[p].files : p \in DOMAIN rows}
    <2>1. IsFiniteSet(1..Len(rows))
      BY <1>2, FS_Interval
    <2>2. filesOf \in Surjection(1..Len(rows), all)
      BY <1>2 DEF Surjection
    <2>3. \A T \in all : IsFiniteSet(T)
      BY <1>2
    <2>4. uploads = Cardinality(UNION all)
      BY <1>1
    <2> HIDE DEF filesOf, all
    <2>5. IsFiniteSet(all)
      BY <2>1, <2>2, FS_Surjection
    <2>6. IsFiniteSet(UNION all)
      BY <2>3, <2>5, FS_UNION
    <2> QED BY <2>4, <2>6, FS_CardinalityType
  <1>4. propForm \in PropShape
    BY <1>1, ProposalAssumption DEF PropShape
  <1>5. \A s \in Sends : send[s] = NoSend
    BY <1>1
  <1>6. send \in [Sends -> PropSendShape]
    <2>1. NoSend \in PropSendShape
      BY DEF NoSend, PropSendShape, PropSendPhase, NoRequest
    <2> QED BY <1>1, <2>1
  <1>7. PropTyped
    BY <1>1, <1>2, <1>3, <1>4, <1>6, ProposalAssumption DEF PropTyped
  <1>8. \A s \in Sends : SendInv(s)
    <2>1. 0 \in 0..Len(proposal)
      BY <1>1, <1>2
    <2> QED BY <1>5, <2>1 DEF SendInv, NewSendInv, EditSendInv, NoSend
  <1>9. propForm.kind = "edit" => Len(proposal) >= 1
    BY <1>1, <1>2, EmptySeq
  <1>10. ChoiceInv
    BY <1>1 DEF ChoiceInv
  <1> QED BY <1>1, <1>2, <1>7, <1>8, <1>9, <1>10 DEF ProposalInv

\* Steps of the form, while nothing is being sent by them.
LEMMA PropFormKeeps ==
    ASSUME ProposalInv, UNCHANGED <<proposal, uploads, send>>, PropTyped',
           propForm'.kind = propForm.kind,
           propForm.detail = "shown" => propForm'.detail = "shown" /\ propForm'.stored = propForm.stored,
           propForm.kind = "new" => ChoiceInv'
    PROVE  ProposalInv'
  <1>1. propForm.kind \in {"new", "edit"}
    BY DEF ProposalInv, PropTyped, PropShape
  <1>2. \A s \in Sends : SendInv(s)'
    BY DEF ProposalInv, SendInv, NewSendInv, EditSendInv, FileIds, Live
  <1>3. Careless => Careless'
    BY DEF Careless
  <1> QED BY <1>2, <1>3 DEF ProposalInv

LEMMA PropFormInv ==
    ASSUME ProposalInv,
           \/ ProposalListed \/ ProposalArrives \/ ChooseFile \/ RemoveFile
           \/ \E r \in Requests : ChooseRequest(r) \/ OpenTakenRequest(r)
           \/ \E choice \in prefills : PrefillArrives(choice)
    PROVE  ProposalInv'
  <1>0. PropTyped /\ (propForm.kind = "new" => ChoiceInv)
    BY DEF ProposalInv
  <1>1. CASE ProposalListed
    <2>1. propForm' = [propForm EXCEPT !.listed = TRUE, !.taken = TakenRequests] /\ TakenRequests \in SUBSET Requests
      BY <1>1 DEF ProposalListed, TakenRequests
    <2>2. PropTyped' /\ (propForm.kind = "new" => ChoiceInv')
      BY <1>0, <1>1, <2>1 DEF PropTyped, PropShape, ChoiceInv, ProposalListed
    <2> QED BY <1>0, <1>1, <2>1, <2>2, PropFormKeeps DEF ProposalListed, PropTyped, PropShape
  <1>2. CASE ProposalArrives
    <2>1. propForm.kind = "edit" /\ propForm.detail = "awaited" /\ UNCHANGED <<proposal, uploads, prefills, send>>
      BY <1>2 DEF ProposalArrives
    <2>2. proposal[1] \in ProposalRow
      BY <2>1, ElementOfSeq DEF ProposalInv, PropTyped
    <2>3. CASE /\ propForm' = [propForm EXCEPT !.detail = "shown", !.request = proposal[1].request,
                                 !.own = proposal[1].request, !.opp = proposal[1].opp,
                                 !.stored = proposal[1].files, !.files = 0]
               /\ UNCHANGED down
      <3>1. propForm' \in PropShape /\ propForm'.kind = propForm.kind
        <4> DEFINE chosen == proposal[1].request
                   o == proposal[1].opp
                   files == proposal[1].files
        <4>1. chosen \in {NoRequest} \union Requests /\ o \in {0} \union Opportunities /\ files \in SUBSET Nat
          BY <2>2 DEF ProposalRow
        <4>2. propForm' = [propForm EXCEPT !.detail = "shown", !.request = chosen, !.own = chosen, !.opp = o,
                             !.stored = files, !.files = 0]
          BY <2>3
        <4>3. propForm \in PropShape /\ 0 \in 0..MaxFiles
          BY <1>0, ProposalAssumption DEF PropTyped
        <4> HIDE DEF chosen, o, files
        <4> QED BY <4>1, <4>2, <4>3 DEF PropShape
      <3>2. PropTyped'
        BY <1>0, <2>1, <2>3, <3>1 DEF PropTyped
      <3> QED BY <2>1, <3>1, <3>2, PropFormKeeps
    <2>4. CASE down < MaxDown /\ down' = down + 1 /\ propForm' = [propForm EXCEPT !.detail = "failed"]
      <3>1. propForm' \in PropShape /\ propForm'.kind = propForm.kind
        BY <1>0, <2>4 DEF PropTyped, PropShape
      <3>2. down' \in 0..MaxDown
        BY <1>0, <2>4, ProposalAssumption DEF PropTyped
      <3>3. PropTyped'
        BY <1>0, <2>1, <3>1, <3>2 DEF PropTyped
      <3> QED BY <2>1, <3>1, <3>3, PropFormKeeps
    <2> QED BY <1>2, <2>3, <2>4 DEF ProposalArrives
  <1>3. CASE ChooseFile \/ RemoveFile
    <2>1. PICK n \in 0..MaxFiles : propForm' = [propForm EXCEPT !.files = n]
      BY <1>0, <1>3, ProposalAssumption DEF ChooseFile, RemoveFile, PropTyped, PropShape
    <2>2. UNCHANGED <<proposal, uploads, prefills, send, down>>
      BY <1>3 DEF ChooseFile, RemoveFile
    <2>3. PropTyped' /\ (propForm.kind = "new" => ChoiceInv')
      BY <1>0, <2>1, <2>2 DEF PropTyped, PropShape, ChoiceInv
    <2> QED BY <1>0, <2>1, <2>2, <2>3, PropFormKeeps DEF PropTyped, PropShape
  <1>4. ASSUME NEW r \in Requests, ChooseRequest(r) PROVE ProposalInv'
    <2> DEFINE n == propForm.chosen + 1
    <2>1. /\ propForm.chosen < MaxChoices /\ propForm.chosen \in Nat /\ n \in 1..MaxChoices
          /\ propForm' = [propForm EXCEPT !.chosen = n, !.newest = r] /\ prefills' = prefills \union {<<n, r>>}
          /\ UNCHANGED <<proposal, uploads, send, down>>
      <3>1. propForm.chosen < MaxChoices /\ propForm.chosen \in Nat /\ MaxChoices \in Nat
        BY <1>0, <1>4, ProposalAssumption DEF ChooseRequest, PropTyped, PropShape
      <3>2. n \in 1..MaxChoices
        BY <3>1
      <3>3. /\ propForm' = [propForm EXCEPT !.chosen = n, !.newest = r] /\ prefills' = prefills \union {<<n, r>>}
            /\ UNCHANGED <<proposal, uploads, send, down>>
        BY <1>4 DEF ChooseRequest
      <3> QED BY <3>1, <3>2, <3>3
    <2> HIDE DEF n
    <2>a. propForm.chosen < n /\ n \in Nat
      BY <2>1 DEF n
    <2>2. propForm' \in PropShape /\ propForm'.kind = propForm.kind /\ propForm'.chosen = n /\ propForm'.newest = r
          /\ propForm'.detail = propForm.detail /\ propForm'.stored = propForm.stored
      BY <1>0, <2>1, <2>a DEF PropTyped, PropShape
    <2>3. PropTyped'
      BY <1>0, <2>1, <2>2 DEF PropTyped
    <2>4. ASSUME ChoiceInv PROVE ChoiceInv'
      <3>1. ASSUME NEW choice \in prefills' PROVE choice[1] <= n /\ (choice[1] = n => choice[2] = r)
        <4>1. CASE choice = <<n, r>>
          BY <2>1, <4>1
        <4>2. CASE choice \in prefills
          <5>1. choice[1] <= propForm.chosen /\ choice[1] \in Nat
            BY <1>0, <2>4, <4>2 DEF ChoiceInv, PropTyped
          <5> QED BY <2>1, <2>a, <5>1
        <4> QED BY <2>1, <3>1, <4>1, <4>2
      <3>2. <<n, r>> \in prefills'
        BY <2>1
      <3> QED BY <2>2, <3>1, <3>2 DEF ChoiceInv
    <2> QED BY <1>0, <2>1, <2>2, <2>3, <2>4, PropFormKeeps
  <1>5. ASSUME NEW r \in Requests, OpenTakenRequest(r) PROVE ProposalInv'
    <2>1. propForm' = [propForm EXCEPT !.request = r] /\ propForm.chosen = 0 /\ UNCHANGED <<proposal, uploads, prefills, send, down>>
      BY <1>5 DEF OpenTakenRequest
    <2>2. PropTyped' /\ (propForm.kind = "new" => ChoiceInv')
      BY <1>0, <2>1 DEF PropTyped, PropShape, ChoiceInv
    <2> QED BY <1>0, <2>1, <2>2, PropFormKeeps DEF PropTyped, PropShape
  <1>6. ASSUME NEW choice \in prefills, PrefillArrives(choice) PROVE ProposalInv'
    <2> DEFINE r == choice[2]
    <2>1. /\ prefills' = prefills \ {choice} /\ UNCHANGED <<proposal, uploads, send, down>>
          /\ propForm' = IF choice[1] = propForm.chosen
                         THEN [propForm EXCEPT !.request = r, !.opp = OpportunityOfRequest(r)] ELSE propForm
      BY <1>6 DEF PrefillArrives, Newest
    <2>2. choice = <<choice[1], r>> /\ choice[1] \in 1..MaxChoices /\ r \in Requests
      BY <1>0 DEF PropTyped
    <2>3. OpportunityOfRequest(r) \in Opportunities
      BY <2>2 DEF OpportunityOfRequest, Opportunities
    <2> HIDE DEF r
    <2>4. /\ propForm' \in PropShape /\ propForm'.kind = propForm.kind /\ propForm'.chosen = propForm.chosen
          /\ propForm'.newest = propForm.newest /\ propForm'.detail = propForm.detail /\ propForm'.stored = propForm.stored
          /\ choice[1] = propForm.chosen => propForm'.request = r /\ propForm'.opp = OpportunityOfRequest(r)
          /\ choice[1] # propForm.chosen => propForm' = propForm
      BY <1>0, <2>1, <2>2, <2>3 DEF PropTyped, PropShape
    <2>5. PropTyped'
      BY <1>0, <2>1, <2>4 DEF PropTyped
    <2>6. ASSUME ChoiceInv PROVE ChoiceInv'
      <3>1. CASE choice[1] = propForm.chosen
        <4>1. r = propForm.newest
          BY <2>6, <3>1 DEF ChoiceInv, r
        <4> QED BY <2>1, <2>4, <2>6, <3>1, <4>1 DEF ChoiceInv
      <3>2. CASE choice[1] # propForm.chosen
        <4>1. <<propForm.chosen, propForm.newest>> # choice
          BY <3>2
        <4> QED BY <2>1, <2>4, <2>6, <3>2, <4>1 DEF ChoiceInv
      <3> QED BY <3>1, <3>2
    <2> QED BY <1>0, <2>1, <2>4, <2>5, <2>6, PropFormKeeps
  <1> QED BY <1>1, <1>2, <1>3, <1>4, <1>5, <1>6

\* A step of one sending: the others are as they were, and what is deleted stays deleted.
LEMMA PropSendKeeps ==
    ASSUME ProposalInv, NEW s \in Sends, PropTyped', SendInv(s)',
           \A t \in Sends : t # s => send'[t] = send[t], UNCHANGED prefills,
           /\ propForm'.kind = propForm.kind /\ propForm'.detail = propForm.detail /\ propForm'.stored = propForm.stored
           /\ propForm'.chosen = propForm.chosen /\ propForm'.newest = propForm.newest
           /\ propForm'.request = propForm.request /\ propForm'.opp = propForm.opp,
           uploads' >= uploads, Len(proposal') >= Len(proposal),
           \A p \in 1..Len(proposal) : ~proposal[p].live => ~proposal'[p].live,
           ~Careless' => \A p \in DOMAIN proposal' : proposal'[p].completed => proposal'[p].files # {}
    PROVE  ProposalInv'
  <1>1. Len(proposal) \in Nat /\ Len(proposal') \in Nat /\ uploads \in Nat /\ uploads' \in Nat
    BY DEF ProposalInv, PropTyped
  <1>2. ASSUME NEW t \in Sends, t # s PROVE SendInv(t)'
    <2>1. SendInv(t) /\ send'[t] = send[t]
      BY <1>2 DEF ProposalInv
    <2>2. send[t].sent \subseteq 1..uploads'
      BY <1>1, <2>1 DEF SendInv
    <2>3. ASSUME propForm.kind = "new" PROVE NewSendInv(t)'
      <3>1. NewSendInv(t)
        BY <2>1, <2>3 DEF SendInv
      <3> QED BY <1>1, <2>1, <3>1 DEF NewSendInv, FileIds, Live
    <2> QED BY <2>1, <2>2, <2>3 DEF SendInv, EditSendInv
  <1>3. \A t \in Sends : SendInv(t)'
    BY <1>2
  <1>4. propForm.kind = "new" => ChoiceInv'
    BY DEF ProposalInv, ChoiceInv
  <1> QED BY <1>1, <1>3, <1>4 DEF ProposalInv

LEMMA RowUpdated ==
    ASSUME PropTyped, NEW p \in 1..Len(proposal), NEW ids \in SUBSET Nat, proposal' = Updated(p, ids)
    PROVE  /\ proposal' \in Seq(ProposalRow) /\ Len(proposal') = Len(proposal)
           /\ \A q \in 1..Len(proposal) : proposal'[q].live = proposal[q].live /\ (q # p => proposal'[q] = proposal[q])
           /\ proposal'[p].files = ids
  <1> DEFINE row == [proposal[p] EXCEPT !.files = ids, !.completed = @ \/ ids # {}]
  <1>1. proposal[p] \in ProposalRow /\ proposal \in Seq(ProposalRow)
    BY ElementOfSeq DEF PropTyped
  <1>2. row \in ProposalRow /\ row.files = ids /\ row.live = proposal[p].live
    BY <1>1 DEF ProposalRow
  <1>3. proposal' = [proposal EXCEPT ![p] = row]
    BY <1>1 DEF Updated
  <1> HIDE DEF row
  <1> QED BY <1>1, <1>2, <1>3, ExceptSeq

LEMMA RowDeleted ==
    ASSUME PropTyped, NEW p \in 1..Len(proposal), proposal' = [proposal EXCEPT ![p].live = FALSE]
    PROVE  /\ proposal' \in Seq(ProposalRow) /\ Len(proposal') = Len(proposal) /\ ~proposal'[p].live
           /\ \A q \in 1..Len(proposal) : q # p => proposal'[q] = proposal[q]
           /\ proposal'[p].files = proposal[p].files /\ proposal'[p].completed = proposal[p].completed
  <1> DEFINE row == [proposal[p] EXCEPT !.live = FALSE]
  <1>1. proposal[p] \in ProposalRow /\ proposal \in Seq(ProposalRow)
    BY ElementOfSeq DEF PropTyped
  <1>2. row \in ProposalRow /\ ~row.live /\ row.files = proposal[p].files /\ row.completed = proposal[p].completed
    BY <1>1 DEF ProposalRow
  <1>3. proposal' = [proposal EXCEPT ![p] = row]
    BY <1>1
  <1> HIDE DEF row
  <1> DEFINE after == [proposal EXCEPT ![p] = row]
  <1>4. /\ after \in Seq(ProposalRow) /\ Len(after) = Len(proposal)
        /\ \A q \in 1..Len(proposal) : after[q] = IF q = p THEN row ELSE proposal[q]
    BY <1>1, <1>2, ExceptSeq
  <1>5. proposal' = after
    BY <1>3
  <1> HIDE DEF after
  <1>6. after[p] = row /\ \A q \in 1..Len(proposal) : q # p => after[q] = proposal[q]
    BY <1>4
  <1> QED BY <1>2, <1>4, <1>5, <1>6

LEMMA RowCreated ==
    ASSUME PropTyped, NEW s \in Sends, send[s].opp \in Opportunities, proposal' = NewProposal(s)
    PROVE  /\ proposal' \in Seq(ProposalRow) /\ Len(proposal') = Len(proposal) + 1
           /\ \A q \in 1..Len(proposal) : proposal'[q] = proposal[q]
           /\ ~proposal'[Len(proposal) + 1].completed
  <1> DEFINE row == [opp |-> send[s].opp, request |-> send[s].request, files |-> FileIds(s), completed |-> FALSE, live |-> TRUE]
  <1>1. row \in ProposalRow /\ ~row.completed
    BY DEF ProposalRow, PropTyped, PropSendShape, FileIds
  <1>2. proposal' = Append(proposal, row)
    BY DEF NewProposal
  <1> HIDE DEF row
  <1> QED BY <1>1, <1>2, AppendProperties DEF PropTyped

\* A sending goes from one phase to the next.
LEMMA PhaseAlone ==
    ASSUME PropTyped, NEW s \in Sends, NEW phase \in PropSendPhase, send' = [send EXCEPT ![s].phase = phase]
    PROVE  /\ send' \in [Sends -> PropSendShape]
           /\ \A t \in Sends : t # s => send'[t] = send[t]
           /\ send'[s].phase = phase /\ send'[s].row = send[s].row /\ send'[s].spoilt = send[s].spoilt
           /\ send'[s].sent = send[s].sent /\ send'[s].opp = send[s].opp /\ send'[s].kept = send[s].kept
           /\ send'[s].blind = send[s].blind /\ send'[s].files = send[s].files
  BY DEF PropTyped, PropSendShape

LEMMA CarelessStays ==
    ASSUME NEW s \in Sends, send[s].blind => send'[s].blind, \A t \in Sends : t # s => send'[t] = send[t],
           propForm'.kind = propForm.kind, propForm'.detail = propForm.detail, propForm'.stored = propForm.stored
    PROVE  Careless => Careless'
  BY DEF Careless

\* Steps of a sending after which the proposals are as they were.
LEMMA SendAlone ==
    ASSUME ProposalInv, NEW s \in Sends, UNCHANGED <<proposal, prefills, propForm>>, uploads' \in Nat, uploads' >= uploads,
           down' \in 0..MaxDown, send' \in [Sends -> PropSendShape], SendInv(s)',
           \A t \in Sends : t # s => send'[t] = send[t], send[s].blind => send'[s].blind
    PROVE  ProposalInv'
  <1>1. PropTyped'
    BY DEF ProposalInv, PropTyped
  <1>2. ~Careless' => \A p \in DOMAIN proposal' : proposal'[p].completed => proposal'[p].files # {}
    BY CarelessStays DEF ProposalInv
  <1>3. Len(proposal') >= Len(proposal)
    BY DEF ProposalInv, PropTyped
  <1> QED BY <1>1, <1>2, <1>3, PropSendKeeps

LEMMA CompleteKeeps == ASSUME ProposalInv, NEW s \in Sends, CompleteProposal(s) PROVE ProposalInv'
  <1> DEFINE next == [NoSend EXCEPT !.phase = "uploading", !.opp = propForm.opp, !.request = propForm.request,
                        !.kept = KeptFiles, !.blind = propForm.kind = "edit" /\ propForm.detail # "shown",
                        !.files = propForm.files]
  <1>1. /\ send[s].phase = "idle" /\ propForm.opp # 0 /\ send' = [send EXCEPT ![s] = next]
        /\ UNCHANGED <<proposal, uploads, propForm, prefills, down>>
    BY DEF CompleteProposal
  <1>2. PropTyped /\ SendInv(s)
    BY DEF ProposalInv
  <1>3. /\ propForm.opp \in Opportunities /\ propForm.request \in {NoRequest} \union Requests
        /\ propForm.stored \in SUBSET Nat /\ propForm.files \in Nat /\ propForm.kind \in {"new", "edit"}
    BY <1>1, <1>2, ProposalAssumption DEF PropTyped, PropShape
  <1>4. /\ next \in PropSendShape /\ next.phase = "uploading" /\ next.opp = propForm.opp /\ next.kept = propForm.stored
        /\ next.sent = {} /\ next.row = 0 /\ (next.blind <=> propForm.kind = "edit" /\ propForm.detail # "shown")
    BY <1>3 DEF NoSend, PropSendShape, PropSendPhase, KeptFiles
  <1> HIDE DEF next
  <1>5. send' \in [Sends -> PropSendShape] /\ send'[s] = next /\ \A t \in Sends : t # s => send'[t] = send[t]
    BY <1>1, <1>2, <1>4 DEF PropTyped
  <1>6. 0 \in 0..Len(proposal')
    BY <1>1, <1>2 DEF PropTyped
  <1>7. SendInv(s)'
    BY <1>1, <1>3, <1>4, <1>5, <1>6 DEF SendInv, NewSendInv, EditSendInv
  <1>8. send[s].blind => send'[s].blind
    BY <1>1, <1>2 DEF SendInv
  <1> QED BY <1>1, <1>2, <1>5, <1>7, <1>8, SendAlone DEF PropTyped

LEMMA UploadKeeps == ASSUME ProposalInv, NEW s \in Sends, FileUploaded(s) PROVE ProposalInv'
  <1>1. PropTyped /\ SendInv(s) /\ send[s].phase = "uploading" /\ UNCHANGED <<proposal, prefills, propForm>>
    BY DEF ProposalInv, FileUploaded, SendFails
  <1>2. CASE uploads' = uploads + 1 /\ send' = [send EXCEPT ![s].sent = @ \cup {uploads + 1}] /\ UNCHANGED down
    <2> DEFINE sent == send[s].sent \cup {uploads + 1}
    <2>1. sent \subseteq 1..uploads' /\ uploads' \in Nat /\ uploads' >= uploads /\ sent \in SUBSET Nat
      BY <1>1, <1>2 DEF PropTyped, SendInv
    <2>2. send' = [send EXCEPT ![s].sent = sent]
      BY <1>2
    <2> HIDE DEF sent
    <2>3. /\ send' \in [Sends -> PropSendShape] /\ \A t \in Sends : t # s => send'[t] = send[t]
          /\ send'[s].sent = sent /\ send'[s].phase = send[s].phase /\ send'[s].opp = send[s].opp
          /\ send'[s].row = send[s].row /\ send'[s].blind = send[s].blind /\ send'[s].kept = send[s].kept
      BY <1>1, <2>1, <2>2 DEF PropTyped, PropSendShape
    <2>4. SendInv(s)'
      BY <1>1, <2>1, <2>3 DEF SendInv, NewSendInv, EditSendInv
    <2> QED BY <1>1, <1>2, <2>1, <2>3, <2>4, SendAlone DEF PropTyped
  <1>3. CASE down' = down + 1 /\ down < MaxDown /\ send' = [send EXCEPT ![s].phase = "failed"] /\ UNCHANGED uploads
    <2>1. /\ send' \in [Sends -> PropSendShape] /\ \A t \in Sends : t # s => send'[t] = send[t]
          /\ send'[s].phase = "failed" /\ send'[s].row = send[s].row /\ send'[s].sent = send[s].sent
          /\ send'[s].opp = send[s].opp /\ send'[s].kept = send[s].kept /\ send'[s].blind = send[s].blind
      BY <1>1, <1>3, PhaseAlone DEF PropSendPhase
    <2>2. SendInv(s)'
      BY <1>1, <1>3, <2>1 DEF SendInv, NewSendInv, EditSendInv
    <2>3. down' \in 0..MaxDown
      BY <1>1, <1>3, ProposalAssumption DEF PropTyped
    <2>4. uploads' \in Nat /\ uploads' >= uploads
      BY <1>1, <1>3 DEF PropTyped
    <2> QED BY <1>1, <2>1, <2>2, <2>3, <2>4, SendAlone
  <1> QED BY <1>2, <1>3 DEF FileUploaded, SendFails

\* Steps of a sending that the server stores something for.
LEMMA SendWrites ==
    ASSUME ProposalInv, NEW s \in Sends, UNCHANGED <<uploads, prefills>>, propForm' \in PropShape,
           /\ propForm'.kind = propForm.kind /\ propForm'.detail = propForm.detail /\ propForm'.stored = propForm.stored
           /\ propForm'.chosen = propForm.chosen /\ propForm'.newest = propForm.newest
           /\ propForm'.request = propForm.request /\ propForm'.opp = propForm.opp,
           down' = down \/ (down < MaxDown /\ down' = down + 1),
           send' \in [Sends -> PropSendShape], \A t \in Sends : t # s => send'[t] = send[t], send'[s].blind = send[s].blind,
           SendInv(s)',
           proposal' \in Seq(ProposalRow), Len(proposal') >= Len(proposal),
           \A p \in 1..Len(proposal) : ~proposal[p].live => ~proposal'[p].live,
           ~Careless => \A p \in DOMAIN proposal' : proposal'[p].completed => proposal'[p].files # {}
    PROVE  ProposalInv'
  <1>1. down' \in 0..MaxDown
    BY ProposalAssumption DEF ProposalInv, PropTyped
  <1>2. PropTyped'
    BY <1>1 DEF ProposalInv, PropTyped
  <1>3. Careless => Careless'
    BY CarelessStays
  <1>4. uploads' >= uploads
    BY DEF ProposalInv, PropTyped
  <1> QED BY <1>2, <1>3, <1>4, PropSendKeeps

LEMMA CreatedKeeps ==
    ASSUME ProposalInv, NEW s \in Sends, ProposalCreated(s) \/ ProposalRefused(s) \/ CreateUnanswered(s)
    PROVE  ProposalInv'
  <1>1. /\ PropTyped /\ SendInv(s) /\ send[s].phase = "uploading" /\ propForm.kind = "new"
        /\ uploads' = uploads /\ propForm' = propForm /\ prefills' = prefills
        /\ down' = down \/ (down < MaxDown /\ down' = down + 1)
    BY DEF ProposalInv, ProposalCreated, ProposalRefused, CreateUnanswered, SendFails, Sendable
  <1>2. /\ send[s].opp \in Opportunities /\ send[s].row = 0 /\ ~send[s].blind /\ Len(proposal) \in Nat /\ propForm \in PropShape
        /\ send[s].sent \subseteq 1..uploads
        /\ ~Careless => \A p \in DOMAIN proposal : proposal[p].completed => proposal[p].files # {}
    BY <1>1 DEF SendInv, NewSendInv, PropTyped, ProposalInv
  <1>3. /\ proposal' \in Seq(ProposalRow) /\ Len(proposal') \in {Len(proposal), Len(proposal) + 1}
        /\ \A q \in 1..Len(proposal) : proposal'[q] = proposal[q]
        /\ Len(proposal') = Len(proposal) + 1 => ~proposal'[Len(proposal) + 1].completed
    <2>1. CASE proposal' = NewProposal(s)
      BY <1>1, <1>2, <2>1, RowCreated
    <2>2. CASE proposal' = proposal
      <3>1. Len(proposal) # Len(proposal) + 1
        BY <1>2
      <3> QED BY <1>1, <1>2, <2>2, <3>1 DEF PropTyped
    <2> QED BY <2>1, <2>2 DEF ProposalCreated, ProposalRefused, CreateUnanswered
  <1>4. /\ Len(proposal') >= Len(proposal)
        /\ \A p \in 1..Len(proposal) : ~proposal[p].live => ~proposal'[p].live
        /\ ~Careless => \A p \in DOMAIN proposal' : proposal'[p].completed => proposal'[p].files # {}
    <2>1. ASSUME NEW p \in DOMAIN proposal', p \notin 1..Len(proposal)
          PROVE  Len(proposal') = Len(proposal) + 1 /\ p = Len(proposal) + 1
      BY <1>2, <1>3, <2>1
    <2> QED BY <1>2, <1>3, <2>1 DEF PropTyped
  <1>5. CASE ProposalCreated(s)
    <2> DEFINE phase == IF FileIds(s) # {} THEN "completing" ELSE "listing"
    <2>1. send' = [send EXCEPT ![s].row = Len(proposal) + 1, ![s].phase = phase] /\ proposal' = NewProposal(s)
      BY <1>5 DEF ProposalCreated
    <2>2. phase \in {"completing", "listing"} /\ phase \in PropSendPhase /\ (phase = "completing" => FileIds(s) # {})
      BY DEF PropSendPhase
    <2> HIDE DEF phase
    <2> DEFINE n == Len(proposal) + 1
    <2>a. n \in Nat /\ n # 0
      BY <1>2
    <2>b. send' = [send EXCEPT ![s].row = n, ![s].phase = phase]
      BY <2>1
    <2> HIDE DEF n
    <2>3. /\ send' \in [Sends -> PropSendShape] /\ \A t \in Sends : t # s => send'[t] = send[t]
          /\ send'[s].phase = phase /\ send'[s].row = n /\ send'[s].opp = send[s].opp
          /\ send'[s].kept = send[s].kept /\ send'[s].sent = send[s].sent /\ send'[s].blind = send[s].blind
      BY <1>1, <2>a, <2>b, <2>2 DEF PropTyped, PropSendShape
    <2>4. Len(proposal') = Len(proposal) + 1
      BY <1>1, <1>2, <2>1, RowCreated
    <2>5. n \in 0..Len(proposal')
      BY <1>2, <2>4 DEF n
    <2>6. SendInv(s)'
      <3>1. NewSendInv(s)'
        BY <1>2, <2>2, <2>3, <2>a, <2>5 DEF NewSendInv, FileIds
      <3> QED BY <1>1, <1>2, <2>2, <2>3, <3>1 DEF SendInv
    <2>7. propForm' \in PropShape
      BY <1>1, <1>2
    <2> QED BY <1>1, <1>3, <1>4, <2>3, <2>6, <2>7, SendWrites
  <1>6. CASE send' = [send EXCEPT ![s].phase = "failed"]
    <2>1. /\ send' \in [Sends -> PropSendShape] /\ \A t \in Sends : t # s => send'[t] = send[t]
          /\ send'[s].phase = "failed" /\ send'[s].row = send[s].row /\ send'[s].sent = send[s].sent
          /\ send'[s].opp = send[s].opp /\ send'[s].kept = send[s].kept /\ send'[s].blind = send[s].blind
      BY <1>1, <1>6, PhaseAlone DEF PropSendPhase
    <2>2. 0 \in 0..Len(proposal')
      BY <1>2, <1>3
    <2>3. SendInv(s)'
      <3>1. NewSendInv(s)'
        BY <1>2, <2>1, <2>2 DEF NewSendInv
      <3> QED BY <1>1, <1>2, <2>1, <3>1 DEF SendInv
    <2>4. propForm' \in PropShape
      BY <1>1, <1>2
    <2> QED BY <1>1, <1>3, <1>4, <2>1, <2>3, <2>4, SendWrites
  <1> QED BY <1>5, <1>6 DEF ProposalRefused, CreateUnanswered, SendFails

\* A completion that fails is undone; one that comes through gives the row its files.
LEMMA CompletionKeeps == ASSUME ProposalInv, NEW s \in Sends, CompletionAnswered(s) PROVE ProposalInv'
  <1> DEFINE p == send[s].row
  <1>1. /\ PropTyped /\ SendInv(s) /\ send[s].phase = "completing"
        /\ uploads' = uploads /\ propForm' = propForm /\ prefills' = prefills
        /\ down' = down \/ (down < MaxDown /\ down' = down + 1)
    BY DEF ProposalInv, CompletionAnswered, SendFails
  <1>2. /\ send[s].opp \in Opportunities /\ send[s].sent \subseteq 1..uploads
        /\ Len(proposal) \in Nat /\ propForm \in PropShape /\ propForm.kind \in {"new", "edit"}
        /\ ~Careless => \A q \in DOMAIN proposal : proposal[q].completed => proposal[q].files # {}
        /\ FileIds(s) \in SUBSET Nat
    BY <1>1 DEF SendInv, PropTyped, ProposalInv, PropShape, PropSendShape, FileIds
  <1>3. PICK phase \in {"listing", "undoing"} :
          send' = [send EXCEPT ![s].phase = phase] /\ (proposal' = proposal \/ proposal' = Updated(p, FileIds(s)))
    BY DEF CompletionAnswered, SendFails, AfterFailedCompletion
  <1>4. /\ send' \in [Sends -> PropSendShape] /\ \A t \in Sends : t # s => send'[t] = send[t]
        /\ send'[s].phase = phase /\ send'[s].row = send[s].row /\ send'[s].sent = send[s].sent
        /\ send'[s].opp = send[s].opp /\ send'[s].kept = send[s].kept /\ send'[s].blind = send[s].blind
    <2>1. phase \in PropSendPhase
      BY DEF PropSendPhase
    <2> QED BY <1>1, <1>3, <2>1, PhaseAlone
  <1>5. propForm.kind = "new" /\ p \in 1..Len(proposal) /\ FileIds(s) # {} /\ ~send[s].blind
    BY <1>1, <1>2 DEF SendInv, NewSendInv, EditSendInv
  <1>6. /\ proposal' \in Seq(ProposalRow) /\ Len(proposal') = Len(proposal)
        /\ \A q \in 1..Len(proposal) : proposal'[q].live = proposal[q].live /\ (q # p => proposal'[q] = proposal[q])
        /\ proposal' = proposal \/ proposal'[p].files # {}
    <2>1. CASE proposal' = proposal
      BY <1>1, <2>1 DEF PropTyped
    <2>2. CASE proposal' = Updated(p, FileIds(s))
      BY <1>1, <1>2, <1>5, <2>2, RowUpdated
    <2> QED BY <1>3, <2>1, <2>2
  <1>7. ~Careless => \A q \in DOMAIN proposal' : proposal'[q].completed => proposal'[q].files # {}
    <2>1. ASSUME NEW q \in DOMAIN proposal' PROVE q \in 1..Len(proposal) /\ q \in DOMAIN proposal
      BY <1>1, <1>6 DEF PropTyped
    <2> QED BY <1>2, <1>6, <2>1
  <1>8. SendInv(s)'
    <2>1. NewSendInv(s)'
      BY <1>2, <1>4, <1>5, <1>6 DEF NewSendInv
    <2> QED BY <1>1, <1>2, <1>4, <1>5, <2>1 DEF SendInv
  <1>9. propForm' \in PropShape /\ Len(proposal') >= Len(proposal)
    BY <1>1, <1>2, <1>6
  <1> QED BY <1>1, <1>4, <1>6, <1>7, <1>8, <1>9, SendWrites

\* The row is deleted, or the deletion is spoilt.
LEMMA UndoneKeeps == ASSUME ProposalInv, NEW s \in Sends, CreationUndone(s) PROVE ProposalInv'
  <1> DEFINE p == send[s].row
  <1>1. /\ PropTyped /\ SendInv(s) /\ send[s].phase = "undoing"
        /\ uploads' = uploads /\ propForm' = propForm /\ prefills' = prefills
        /\ down' = down \/ (down < MaxDown /\ down' = down + 1)
    BY DEF ProposalInv, CreationUndone
  <1>2. /\ send[s].opp \in Opportunities /\ send[s].sent \subseteq 1..uploads
        /\ Len(proposal) \in Nat /\ propForm \in PropShape /\ propForm.kind \in {"new", "edit"}
        /\ ~Careless => \A q \in DOMAIN proposal : proposal[q].completed => proposal[q].files # {}
    BY <1>1 DEF SendInv, PropTyped, ProposalInv, PropShape
  <1>3. propForm.kind = "new" /\ p \in 1..Len(proposal) /\ ~send[s].blind
    BY <1>1, <1>2 DEF SendInv, NewSendInv, EditSendInv
  <1>4. \/ proposal' = [proposal EXCEPT ![p].live = FALSE] /\ send' = [send EXCEPT ![s].phase = "failed"]
        \/ proposal' = proposal /\ send' = [send EXCEPT ![s].phase = "failed", ![s].spoilt = TRUE]
    BY DEF CreationUndone
  <1>5. /\ send' \in [Sends -> PropSendShape] /\ \A t \in Sends : t # s => send'[t] = send[t]
        /\ send'[s].phase = "failed" /\ send'[s].row = send[s].row /\ send'[s].sent = send[s].sent
        /\ send'[s].opp = send[s].opp /\ send'[s].blind = send[s].blind
        /\ send'[s].spoilt \/ send' = [send EXCEPT ![s].phase = "failed"]
    <2>1. "failed" \in PropSendPhase
      BY DEF PropSendPhase
    <2>2. CASE send' = [send EXCEPT ![s].phase = "failed"]
      BY <1>1, <2>1, <2>2, PhaseAlone
    <2>3. CASE send' = [send EXCEPT ![s].phase = "failed", ![s].spoilt = TRUE]
      BY <1>1, <2>1, <2>3 DEF PropTyped, PropSendShape
    <2> QED BY <1>4, <2>2, <2>3
  <1>6. /\ proposal' \in Seq(ProposalRow) /\ Len(proposal') = Len(proposal)
        /\ \A q \in 1..Len(proposal) : ~proposal[q].live => ~proposal'[q].live
        /\ \A q \in 1..Len(proposal) : proposal'[q].files = proposal[q].files /\ proposal'[q].completed = proposal[q].completed
        /\ send'[s].spoilt \/ ~proposal'[p].live
    <2>1. CASE proposal' = [proposal EXCEPT ![p].live = FALSE]
      BY <1>1, <1>3, <2>1, RowDeleted
    <2>2. CASE proposal' = proposal /\ send' = [send EXCEPT ![s].phase = "failed", ![s].spoilt = TRUE]
      <3>1. send'[s].spoilt
        BY <1>1, <2>2 DEF PropTyped, PropSendShape
      <3> QED BY <1>1, <2>2, <3>1 DEF PropTyped
    <2> QED BY <1>4, <2>1, <2>2
  <1>7. ~Careless => \A q \in DOMAIN proposal' : proposal'[q].completed => proposal'[q].files # {}
    <2>1. ASSUME NEW q \in DOMAIN proposal' PROVE q \in 1..Len(proposal) /\ q \in DOMAIN proposal
      BY <1>1, <1>6 DEF PropTyped
    <2> QED BY <1>2, <1>6, <2>1
  <1>8. SendInv(s)'
    <2>1. NewSendInv(s)'
      BY <1>2, <1>3, <1>5, <1>6 DEF NewSendInv, Live
    <2> QED BY <1>1, <1>2, <1>3, <1>5, <2>1 DEF SendInv
  <1>9. propForm' \in PropShape /\ Len(proposal') >= Len(proposal)
    BY <1>1, <1>2, <1>6
  <1> QED BY <1>1, <1>5, <1>6, <1>7, <1>8, <1>9, SendWrites

\* An edit stores the files it keeps and those it sent: some, unless the edit is careless.
LEMMA EditStores ==
    ASSUME ProposalInv, NEW s \in Sends, Sendable(s), propForm.kind = "edit",
           UNCHANGED <<uploads, prefills, propForm>>, down' = down \/ (down < MaxDown /\ down' = down + 1),
           proposal' = proposal \/ proposal' = Updated(1, FileIds(s)),
           NEW phase \in PropSendPhase \ {"idle", "completing", "undoing"}, NEW n \in Nat,
           send' = [send EXCEPT ![s].row = n, ![s].phase = phase]
    PROVE  ProposalInv'
  <1>1. PropTyped /\ SendInv(s) /\ EditSendInv(s) /\ send[s].phase = "uploading" /\ Len(proposal) \in Nat /\ Len(proposal) >= 1
    BY DEF ProposalInv, PropTyped, SendInv, Sendable
  <1>2. /\ propForm \in PropShape /\ 1 \in 1..Len(proposal) /\ FileIds(s) \in SUBSET Nat
        /\ ~Careless => \A p \in DOMAIN proposal : proposal[p].completed => proposal[p].files # {}
    <2>1. FileIds(s) \in SUBSET Nat
      BY <1>1 DEF PropTyped, PropSendShape, FileIds
    <2>2. 1 \in 1..Len(proposal)
      BY <1>1
    <2> QED BY <2>1, <2>2 DEF ProposalInv, PropTyped
  <1>3. /\ send' \in [Sends -> PropSendShape] /\ \A t \in Sends : t # s => send'[t] = send[t]
        /\ send'[s].phase = phase /\ send'[s].sent = send[s].sent /\ send'[s].opp = send[s].opp
        /\ send'[s].kept = send[s].kept /\ send'[s].blind = send[s].blind
    BY <1>1 DEF PropTyped, PropSendShape
  <1>4. /\ proposal' \in Seq(ProposalRow) /\ Len(proposal') = Len(proposal)
        /\ \A q \in 1..Len(proposal) : proposal'[q].live = proposal[q].live /\ (q # 1 => proposal'[q] = proposal[q])
        /\ proposal' = proposal \/ proposal'[1].files = FileIds(s)
    <2>1. CASE proposal' = proposal
      BY <1>1, <2>1 DEF PropTyped
    <2>2. CASE proposal' = Updated(1, FileIds(s))
      BY <1>1, <1>2, <2>2, RowUpdated
    <2> QED BY <2>1, <2>2
  <1>5. ~Careless => FileIds(s) # {}
    BY <1>1 DEF Careless, EditSendInv, FileIds
  <1>6. ~Careless => \A q \in DOMAIN proposal' : proposal'[q].completed => proposal'[q].files # {}
    <2>1. ASSUME NEW q \in DOMAIN proposal' PROVE q \in 1..Len(proposal) /\ q \in DOMAIN proposal
      BY <1>1, <1>4 DEF PropTyped
    <2> QED BY <1>2, <1>4, <1>5, <2>1
  <1>7. SendInv(s)'
    BY <1>1, <1>3 DEF SendInv, EditSendInv
  <1>8. propForm' \in PropShape /\ Len(proposal') >= Len(proposal)
    BY <1>1, <1>2, <1>4
  <1> QED BY <1>1, <1>3, <1>4, <1>6, <1>7, <1>8, SendWrites

LEMMA UpdatedKeeps ==
    ASSUME ProposalInv, NEW s \in Sends, ProposalUpdated(s) \/ UpdateUnanswered(s)
    PROVE  ProposalInv'
  <1>1. PropTyped
    BY DEF ProposalInv
  <1>2. CASE ProposalUpdated(s)
    <2>1. PICK phase \in {"listing", "failed"}, n \in {1, send[s].row} :
            send' = [send EXCEPT ![s].row = n, ![s].phase = phase]
      <3>1. CASE send' = [send EXCEPT ![s].row = 1, ![s].phase = "listing"]
        BY <3>1
      <3>2. CASE send' = [send EXCEPT ![s].phase = "failed"]
        <4>1. send' = [send EXCEPT ![s].row = send[s].row, ![s].phase = "failed"]
          BY <1>1, <3>2 DEF PropTyped, PropSendShape
        <4> QED BY <4>1
      <3> QED BY <1>2, <3>1, <3>2 DEF ProposalUpdated
    <2>2. phase \in PropSendPhase \ {"idle", "completing", "undoing"} /\ n \in Nat
      BY <1>1 DEF PropSendPhase, PropTyped, PropSendShape
    <2> QED BY <1>2, <2>1, <2>2, EditStores DEF ProposalUpdated
  <1>3. CASE UpdateUnanswered(s)
    <2>1. send' = [send EXCEPT ![s].row = send[s].row, ![s].phase = "failed"]
      BY <1>1, <1>3 DEF UpdateUnanswered, SendFails, PropTyped, PropSendShape
    <2>2. "failed" \in PropSendPhase \ {"idle", "completing", "undoing"} /\ send[s].row \in Nat
      BY <1>1 DEF PropSendPhase, PropTyped, PropSendShape
    <2> QED BY <1>3, <2>1, <2>2, EditStores DEF UpdateUnanswered, SendFails
  <1> QED BY <1>2, <1>3

\* The list is read, or the saving is reported as failed for the want of it.
LEMMA SavedKeeps == ASSUME ProposalInv, NEW s \in Sends, ProposalSaved(s) PROVE ProposalInv'
  <1>1. PropTyped /\ SendInv(s) /\ send[s].phase = "listing" /\ UNCHANGED <<proposal, uploads, prefills>>
    BY DEF ProposalInv, ProposalSaved
  <1>2. /\ proposal' \in Seq(ProposalRow) /\ Len(proposal') >= Len(proposal) /\ Len(proposal) \in Nat
        /\ ~Careless => \A p \in DOMAIN proposal' : proposal'[p].completed => proposal'[p].files # {}
    BY <1>1 DEF ProposalInv, PropTyped
  <1>3. CASE send' = [send EXCEPT ![s].phase = "saved"] /\ propForm' = [propForm EXCEPT !.phase = "left"] /\ UNCHANGED down
    <2>1. /\ send' \in [Sends -> PropSendShape] /\ \A t \in Sends : t # s => send'[t] = send[t]
          /\ send'[s].phase = "saved" /\ send'[s].row = send[s].row /\ send'[s].sent = send[s].sent
          /\ send'[s].opp = send[s].opp /\ send'[s].kept = send[s].kept /\ send'[s].blind = send[s].blind
      BY <1>1, <1>3, PhaseAlone DEF PropSendPhase
    <2>2. /\ propForm' \in PropShape
          /\ propForm'.kind = propForm.kind /\ propForm'.detail = propForm.detail /\ propForm'.stored = propForm.stored
          /\ propForm'.chosen = propForm.chosen /\ propForm'.newest = propForm.newest
          /\ propForm'.request = propForm.request /\ propForm'.opp = propForm.opp
      BY <1>1, <1>3 DEF PropTyped, PropShape
    <2>3. SendInv(s)'
      BY <1>1, <2>1, <2>2 DEF SendInv, NewSendInv, EditSendInv
    <2> QED BY <1>1, <1>2, <1>3, <2>1, <2>2, <2>3, SendWrites
  <1>4. CASE /\ down < MaxDown /\ down' = down + 1 /\ UNCHANGED propForm
             /\ send' = [send EXCEPT ![s].phase = "failed", ![s].spoilt = TRUE]
    <2>1. /\ send' \in [Sends -> PropSendShape] /\ \A t \in Sends : t # s => send'[t] = send[t]
          /\ send'[s].phase = "failed" /\ send'[s].row = send[s].row /\ send'[s].sent = send[s].sent /\ send'[s].spoilt
          /\ send'[s].opp = send[s].opp /\ send'[s].kept = send[s].kept /\ send'[s].blind = send[s].blind
      BY <1>1, <1>4 DEF PropTyped, PropSendShape, PropSendPhase
    <2>2. SendInv(s)'
      BY <1>1, <1>4, <2>1 DEF SendInv, NewSendInv, EditSendInv
    <2>3. propForm' \in PropShape
      BY <1>1, <1>4 DEF PropTyped
    <2> QED BY <1>1, <1>2, <1>4, <2>1, <2>2, <2>3, SendWrites
  <1> QED BY <1>3, <1>4 DEF ProposalSaved

\* Another tab deletes a proposal: what is deleted stays so.
LEMMA DeletedKeeps == ASSUME ProposalInv, NEW p \in DOMAIN proposal, DeleteProposal(p) PROVE ProposalInv'
  <1>1. /\ PropTyped /\ proposal' = [proposal EXCEPT ![p].live = FALSE] /\ UNCHANGED <<uploads, propForm, prefills, send, down>>
        /\ DOMAIN proposal = 1..Len(proposal) /\ Len(proposal) \in Nat /\ proposal \in Seq(ProposalRow)
    BY LenProperties DEF ProposalInv, DeleteProposal, PropTyped
  <1>2. /\ proposal' \in Seq(ProposalRow) /\ Len(proposal') = Len(proposal) /\ DOMAIN proposal' = 1..Len(proposal)
        /\ \A q \in 1..Len(proposal) : q # p => proposal'[q] = proposal[q]
        /\ ~proposal'[p].live /\ proposal'[p].files = proposal[p].files /\ proposal'[p].completed = proposal[p].completed
    BY <1>1, RowDeleted, LenProperties
  <1>3. PropTyped'
    BY <1>1, <1>2 DEF PropTyped
  <1>4. ASSUME NEW t \in Sends PROVE SendInv(t)'
    <2>1. SendInv(t)
      BY DEF ProposalInv
    <2>2. ASSUME NewSendInv(t) PROVE NewSendInv(t)'
      BY <1>1, <1>2, <2>2 DEF NewSendInv, FileIds, Live
    <2> QED BY <1>1, <2>1, <2>2 DEF SendInv, EditSendInv
  <1>5. propForm.kind = "new" => ChoiceInv'
    BY <1>1 DEF ProposalInv, ChoiceInv
  <1>6. Careless => Careless'
    BY <1>1 DEF Careless
  <1>7. ~Careless' => \A q \in DOMAIN proposal' : proposal'[q].completed => proposal'[q].files # {}
    BY <1>1, <1>2, <1>6 DEF ProposalInv
  <1> QED BY <1>1, <1>2, <1>3, <1>4, <1>5, <1>7 DEF ProposalInv

LEMMA ProposalInvStays == ProposalInv /\ ProposalNext => ProposalInv'
  BY PropFormInv, CompleteKeeps, UploadKeeps, CreatedKeeps, CompletionKeeps, UndoneKeeps, UpdatedKeeps, SavedKeeps,
     DeletedKeeps DEF ProposalNext

LEMMA ProposalInvRests == ProposalInv /\ UNCHANGED propVars => ProposalInv'
  <1> SUFFICES ASSUME ProposalInv, UNCHANGED propVars PROVE ProposalInv'
    OBVIOUS
  <1>1. PropTyped' /\ (propForm.kind = "new" => ChoiceInv')
    BY DEF ProposalInv, PropTyped, propVars, ChoiceInv
  <1> QED BY <1>1, PropFormKeeps DEF propVars

LEMMA ProposalPromises == ProposalInv => FailedRegistrationGone /\ LastChoiceShown /\ ProposalTypeOK
  <1> SUFFICES ASSUME ProposalInv PROVE FailedRegistrationGone /\ LastChoiceShown /\ ProposalTypeOK
    OBVIOUS
  <1>1. FailedRegistrationGone
    BY DEF ProposalInv, SendInv, NewSendInv, FailedRegistrationGone
  <1>2. LastChoiceShown
    BY DEF ProposalInv, ChoiceInv, LastChoiceShown
  <1>3. ProposalTypeOK
    BY DEF ProposalInv, PropTyped, PropShape, SendInv, ProposalTypeOK
  <1> QED BY <1>1, <1>2, <1>3

-----------------------------------------------------------------------------
(* Activities.                                                             *)

Codes == {"CONSULTING", "DEMO", "ETC"}
Texts == {"", "counsel", "consulting", "demo", "other"}
Notes == {"", "note"}
Tokens == Attendable \union NamesOf(Attendable)
Fields == {"purpose", "people", "notes", "content"}

ActivityRow ==
    [is : {"none", "live", "deleted"}, deal : {"none"} \union Deals, purpose : Codes, people : SUBSET Attendable,
     notes : Notes, asked : {0} \union RequestIds]

RequestRow == [firm : {"none"} \union Firms, purpose : Codes, to : {"none"} \union Attendable, link : 0..Theirs]

Refs == {0} \union RequestIds

ActivityPage ==
    [on : {"closed", "new", "edit"}, id : {0} \union ActivityIds, from : Refs, picked : Refs,
     linked : [id : Refs, link : 0..Theirs], requests : {"asked", "here", "failed"},
     firms : BOOLEAN, firm : {"none"} \union Firms, deals : SUBSET Deals, loading : BOOLEAN, deal : {"none"} \union Deals,
     purpose : Texts, people : SUBSET Tokens, notes : Notes, told : BOOLEAN,
     shown : {"nothing", "list", "detail"}, touched : SUBSET Fields, calls : Nat]

\* Every request the page refers to has been registered.
PageInv(page) ==
    /\ page \in ActivityPage
    /\ page.on = "edit" => page.id \in ActivityIds
    /\ \A r \in {page.from, page.picked, page.linked.id} : r # 0 => Here(r)

Stored == {i \in ActivityIds : activity[i].is # "none"}

ActivityInv ==
    /\ activity \in [ActivityIds -> ActivityRow] /\ request \in [RequestIds -> RequestRow]
    /\ actRuns \in [count : Nat, overtaken : BOOLEAN]
    /\ PageInv(actPage)
    /\ \A i \in Stored : activity[i].deal \in Deals
    /\ \A r \in RequestIds : request[r].link # 0 => Here(r)
    /\ actPage.calls <= Cardinality(Stored)
    /\ RequestKeepsActivity

LEMMA UserFound == ASSUME NEW token, UsersOf(token) # {} PROVE FirstUser(token) \in Attendable
  <1>1. UsersOf(token) \in SUBSET Nat /\ Len(Colleagues) \in Nat /\ UsersOf(token) \subseteq 1..Len(Colleagues)
    BY ActivityAssumption, LenProperties DEF UsersOf
  <1>2. \E k \in UsersOf(token) : \A j \in UsersOf(token) : k <= j
    BY <1>1, LeastNumber
  <1> QED BY <1>1, <1>2 DEF FirstUser, Attendable

LEMMA AttendeesAreUsers ==
    ASSUME NEW tokens, NEW usersHere PROVE AttendeesSent(tokens, usersHere) \in SUBSET Attendable
  BY UserFound DEF AttendeesSent

\* A colleague is found by id and by name.
LEMMA ColleagueFound ==
    ASSUME NEW u \in Attendable
    PROVE  FirstUser(u) \in Attendable /\ FirstUser(CalledAs[u]) \in Attendable /\ CalledAs[u] \in NamesOf(Attendable)
  <1>1. PICK k \in 1..Len(Colleagues) : u = Colleagues[k]
    BY DEF Attendable
  <1>2. k \in UsersOf(u) /\ k \in UsersOf(CalledAs[u])
    BY <1>1 DEF UsersOf
  <1> QED BY <1>2, UserFound DEF NamesOf

LEMMA PurposesAreCodes ==
    /\ DOMAIN Option = Codes /\ DOMAIN Description = Codes
    /\ \A p \in Codes : Option[p] \in Texts /\ Description[p] \in Texts
    /\ \A text : Code(text) \in Codes
    /\ Purposes \subseteq Codes
  <1>1. DOMAIN Option = Codes /\ DOMAIN Description = Codes
    BY DEF Option, Description, Codes
  <1>2. ASSUME NEW p \in Codes PROVE Option[p] \in Texts /\ Description[p] \in Texts
    <2>1. Option["CONSULTING"] = "counsel" /\ Option["DEMO"] = "demo" /\ Option["ETC"] = "other"
      BY DEF Option
    <2>2. Description["CONSULTING"] = "consulting" /\ Description["DEMO"] = "demo" /\ Description["ETC"] = "other"
      BY DEF Description
    <2> QED BY <2>1, <2>2 DEF Codes, Texts
  <1>3. ASSUME NEW text PROVE Code(text) \in Codes
    <2>1. CASE \E p \in DOMAIN Option : Option[p] = text
      <3> DEFINE c == CHOOSE p \in DOMAIN Option : Option[p] = text
      <3>1. c \in DOMAIN Option
        BY <2>1
      <3>2. Code(text) = c
        BY <2>1 DEF Code
      <3> QED BY <1>1, <3>1, <3>2
    <2>2. CASE ~\E p \in DOMAIN Option : Option[p] = text
      BY <2>2 DEF Code, Codes
    <2> QED BY <2>1, <2>2
  <1> QED BY <1>1, <1>2, <1>3, ActivityAssumption DEF Codes

LEMMA FreeActivityIsFree ==
    ASSUME RoomForActivity
    PROVE  FreeActivity \in ActivityIds /\ activity[FreeActivity].is = "none"
  <1> DEFINE T == {i \in ActivityIds : activity[i].is = "none"}
  <1>1. T \in SUBSET Nat /\ T # {}
    BY ActivityAssumption DEF RoomForActivity, ActivityIds
  <1>2. PICK n \in T : \A m \in T : n <= m
    BY <1>1, LeastNumber
  <1>3. n \in ActivityIds /\ activity[n].is = "none" /\ \A j \in 1..(n - 1) : activity[j].is # "none"
    <2>1. ASSUME NEW j \in 1..(n - 1), activity[j].is = "none" PROVE FALSE
      <3>1. MaxActivities \in Nat /\ n \in 1..MaxActivities
        BY <1>2, ActivityAssumption DEF ActivityIds
      <3>2. j \in T /\ j < n /\ j \in Nat /\ n \in Nat
        BY <2>1, <3>1 DEF ActivityIds
      <3> QED BY <1>2, <3>2
    <2> QED BY <2>1
  <1> QED BY <1>3 DEF FreeActivity

\* Steps of the page, while the server stays as it is.
LEMMA ActPageKeeps ==
    ASSUME ActivityInv, UNCHANGED <<activity, request>>, PageInv(actPage'),
           actPage'.calls <= actPage.calls,
           actRuns' \in [count : Nat, overtaken : BOOLEAN], actRuns'.overtaken = actRuns.overtaken
    PROVE  ActivityInv'
  <1>1. PageInv(actPage)'
    BY DEF PageInv, Here
  <1>2. Stored' = Stored /\ actPage.calls \in Nat /\ actPage'.calls \in Nat
    BY DEF Stored, ActivityInv, PageInv, ActivityPage
  <1>3. Cardinality(Stored) \in Nat
    <2>1. IsFiniteSet(ActivityIds)
      BY ActivityAssumption, FS_Interval DEF ActivityIds
    <2> QED BY <2>1, FS_Subset, FS_CardinalityType DEF Stored
  <1>4. actPage'.calls <= Cardinality(Stored)
    BY <1>2, <1>3 DEF ActivityInv
  <1> QED BY <1>1, <1>2, <1>4 DEF ActivityInv, Here, RequestKeepsActivity

LEMMA ActRunIs ==
    ASSUME ActivityInv
    PROVE  /\ ActRun => actRuns' \in [count : Nat, overtaken : BOOLEAN] /\ actRuns'.overtaken = actRuns.overtaken
           /\ UNCHANGED actRuns => actRuns' \in [count : Nat, overtaken : BOOLEAN] /\ actRuns'.overtaken = actRuns.overtaken
  BY DEF ActRun, ActivityInv

LEMMA ClosedPageIs == PageInv(ClosedPage)
  BY ActivityAssumption DEF PageInv, ClosedPage, ActivityPage, NoLinked, NoDeals, Refs, Theirs, Texts, Notes

LEMMA DealsAskedFor == ASSUME NEW page, PageInv(page) PROVE PageInv(AskDeals(page)) /\ AskDeals(page).calls = page.calls
  BY DEF PageInv, AskDeals, ActivityPage, NoDeals, FirmKnown

LEMMA RequestLinked ==
    ASSUME ActivityInv, NEW page, PageInv(page) PROVE PageInv(LinkedNow(page)) /\ LinkedNow(page).calls = page.calls
  <1> DEFINE linked == IF page.picked = 0 THEN NoLinked ELSE [id |-> page.picked, link |-> request[page.picked].link]
  <1>1. page \in ActivityPage /\ page.picked \in Refs /\ (page.picked # 0 => Here(page.picked))
    BY DEF PageInv, ActivityPage
  <1>2. linked \in [id : Refs, link : 0..Theirs] /\ linked.id \in {0, page.picked}
    <2>1. CASE page.picked = 0
      BY <2>1, ActivityAssumption DEF NoLinked, Refs, Theirs
    <2>2. CASE page.picked # 0
      <3>1. request[page.picked].link \in 0..Theirs
        BY <1>1, <2>2 DEF ActivityInv, RequestRow, Refs
      <3> QED BY <1>1, <2>2, <3>1
    <2> QED BY <2>1, <2>2
  <1>3. LinkedNow(page) = [page EXCEPT !.linked = linked]
    BY DEF LinkedNow
  <1> HIDE DEF linked
  <1> QED BY <1>1, <1>2, <1>3 DEF PageInv, ActivityPage

LEMMA RequestFills ==
    ASSUME ActivityInv, NEW page, PageInv(page)
    PROVE  PageInv(FilledFromRequest(page)) /\ FilledFromRequest(page).calls = page.calls
  <1> DEFINE r == page.linked.id
             firm == request[r].firm
             text == PurposeShown(request[r].purpose)
             next == [page EXCEPT !.firm = firm, !.deal = "none", !.purpose = text]
  <1>1. CASE page.from = 0 \/ r = 0
    BY <1>1 DEF FilledFromRequest
  <1>2. CASE ~(page.from = 0 \/ r = 0)
    <2>1. page \in ActivityPage /\ r \in RequestIds
      BY <1>2 DEF PageInv, ActivityPage, Refs
    <2>2. request[r] \in RequestRow
      BY <2>1 DEF ActivityInv
    <2>3. firm \in {"none"} \union Firms /\ text \in Texts
      BY <2>2, PurposesAreCodes DEF RequestRow, PurposeShown
    <2>4. FilledFromRequest(page) = AskDeals(next)
      BY <1>2 DEF FilledFromRequest
    <2>5. next = [page EXCEPT !.firm = firm, !.deal = "none", !.purpose = text]
      OBVIOUS
    <2> HIDE DEF firm, text, next
    <2>6. PageInv(next) /\ next.calls = page.calls
      BY <2>1, <2>3, <2>5 DEF PageInv, ActivityPage
    <2> QED BY <2>4, <2>6, DealsAskedFor
  <1> QED BY <1>1, <1>2

\* The new page, while nothing is sent.
LEMMA NewPageKeeps ==
    ASSUME ActivityInv,
           \/ FirmsArrive \/ GoToActivity \/ Leave \/ OpenNew(0)
           \/ \E r \in RequestIds : OpenNew(r) \/ PickRequest(r)
           \/ \E ok \in BOOLEAN : RequestsArrive(ok) \/ DealsArrive(ok) \/ SavedNew(ok)
           \/ \E firm \in Firms : ChooseFirm(firm)
           \/ \E o \in Deals : ChooseDeal(o)
    PROVE  ActivityInv'
  <1>0. PageInv(actPage) /\ actPage \in ActivityPage /\ actPage.calls \in Nat /\ 0 <= actPage.calls
    BY DEF ActivityInv, PageInv, ActivityPage
  <1>1. CASE FirmsArrive
    <2> DEFINE next == [actPage EXCEPT !.firms = TRUE]
    <2>1. PageInv(next) /\ next.calls = actPage.calls
      BY <1>0 DEF PageInv, ActivityPage
    <2>2. actPage' = AskDeals(next) /\ UNCHANGED <<activity, request, actRuns>>
      BY <1>1 DEF FirmsArrive, Change
    <2> HIDE DEF next
    <2> QED BY <1>0, <2>1, <2>2, DealsAskedFor, ActRunIs, ActPageKeeps
  <1>2. CASE GoToActivity \/ Leave
    <2>1. actPage' = ClosedPage /\ UNCHANGED <<activity, request, actRuns>>
      BY <1>2 DEF GoToActivity, Leave, Change
    <2>2. ClosedPage.calls = 0
      BY DEF ClosedPage
    <2> QED BY <1>0, <2>1, <2>2, ClosedPageIs, ActRunIs, ActPageKeeps
  <1>3. ASSUME NEW r \in Refs, OpenNew(r) PROVE ActivityInv'
    <2>1. actPage' = [ClosedPage EXCEPT !.on = "new", !.from = r, !.picked = r] /\ UNCHANGED <<activity, request>> /\ ActRun
          /\ (r # 0 => Here(r))
      BY <1>3 DEF OpenNew
    <2>2. PageInv(actPage') /\ actPage'.calls = 0
      <3>1. 0 \in 0..Theirs
        BY ActivityAssumption DEF Theirs
      <3> QED BY <2>1, <3>1 DEF PageInv, ClosedPage, ActivityPage, NoLinked, NoDeals, Refs, Texts, Notes
    <2> QED BY <1>0, <2>1, <2>2, ActRunIs, ActPageKeeps
  <1>4. ASSUME NEW r \in RequestIds, PickRequest(r) PROVE ActivityInv'
    <2>1. actPage' = [actPage EXCEPT !.picked = r, !.requests = "asked"] /\ UNCHANGED <<activity, request>> /\ ActRun /\ Here(r)
      BY <1>4 DEF PickRequest
    <2>2. PageInv(actPage') /\ actPage'.calls = actPage.calls
      BY <1>0, <2>1 DEF PageInv, ActivityPage, Refs
    <2> QED BY <1>0, <2>1, <2>2, ActRunIs, ActPageKeeps
  <1>5. ASSUME NEW ok \in BOOLEAN, RequestsArrive(ok) PROVE ActivityInv'
    <2>1. CASE ok
      <3> DEFINE next == [LinkedNow(actPage) EXCEPT !.requests = "here"]
      <3>1. actPage' = FilledFromRequest(next) /\ UNCHANGED <<activity, request, actRuns>>
        BY <1>5, <2>1 DEF RequestsArrive
      <3>2. PageInv(LinkedNow(actPage)) /\ LinkedNow(actPage).calls = actPage.calls
        BY <1>0, RequestLinked
      <3>3. PageInv(next) /\ next.calls = actPage.calls
        BY <3>2 DEF PageInv, ActivityPage
      <3> HIDE DEF next
      <3> QED BY <1>0, <3>1, <3>3, RequestFills, ActRunIs, ActPageKeeps
    <2>2. CASE ~ok
      <3>1. actPage' = [actPage EXCEPT !.requests = "failed", !.linked = NoLinked] /\ ActRun /\ UNCHANGED <<activity, request>>
        BY <1>5, <2>2 DEF RequestsArrive
      <3>2. NoLinked \in [id : Refs, link : 0..Theirs] /\ NoLinked.id = 0
        BY ActivityAssumption DEF NoLinked, Refs, Theirs
      <3>3. PageInv(actPage') /\ actPage'.calls = actPage.calls
        BY <1>0, <3>1, <3>2 DEF PageInv, ActivityPage
      <3> QED BY <1>0, <3>1, <3>3, ActRunIs, ActPageKeeps
    <2> QED BY <2>1, <2>2
  <1>6. ASSUME NEW ok \in BOOLEAN, DealsArrive(ok) PROVE ActivityInv'
    <2> DEFINE deals == IF ok THEN DealsOf(actPage.firm) ELSE NoDeals
    <2>1. deals \in SUBSET Deals
      BY DEF DealsOf, NoDeals
    <2>2. actPage' = [actPage EXCEPT !.loading = FALSE, !.deals = deals] /\ UNCHANGED <<activity, request>>
          /\ (ActRun \/ UNCHANGED actRuns)
      BY <1>6 DEF DealsArrive
    <2> HIDE DEF deals
    <2>3. PageInv(actPage') /\ actPage'.calls = actPage.calls
      BY <1>0, <2>1, <2>2 DEF PageInv, ActivityPage
    <2> QED BY <1>0, <2>2, <2>3, ActRunIs, ActPageKeeps
  <1>7. ASSUME NEW ok \in BOOLEAN, SavedNew(ok) PROVE ActivityInv'
    <2>1. UNCHANGED <<activity, request>> /\ actPage.calls > 0 /\ (ActRun \/ UNCHANGED actRuns)
      BY <1>7 DEF SavedNew
    <2>2. CASE actPage' = ClosedPage
      <3>1. ClosedPage.calls = 0
        BY DEF ClosedPage
      <3> QED BY <1>0, <2>1, <2>2, <3>1, ClosedPageIs, ActRunIs, ActPageKeeps
    <2>3. CASE actPage' = [actPage EXCEPT !.calls = @ - 1]
      <3> DEFINE n == actPage.calls - 1
      <3>1. n \in Nat /\ n <= actPage.calls
        BY <1>0, <2>1
      <3>2. actPage' = [actPage EXCEPT !.calls = n]
        BY <2>3
      <3> HIDE DEF n
      <3>3. PageInv(actPage') /\ actPage'.calls = n
        BY <1>0, <3>1, <3>2 DEF PageInv, ActivityPage
      <3> QED BY <2>1, <3>1, <3>3, ActRunIs, ActPageKeeps
    <2> QED BY <1>7, <2>2, <2>3 DEF SavedNew
  <1>8. ASSUME NEW firm \in Firms, ChooseFirm(firm) PROVE ActivityInv'
    <2> DEFINE next == [actPage EXCEPT !.firm = firm, !.deal = "none"]
    <2>1. PageInv(next) /\ next.calls = actPage.calls
      BY <1>0 DEF PageInv, ActivityPage
    <2>2. actPage' = AskDeals(next) /\ UNCHANGED <<activity, request, actRuns>>
      BY <1>8 DEF ChooseFirm, Change
    <2> HIDE DEF next
    <2> QED BY <1>0, <2>1, <2>2, DealsAskedFor, ActRunIs, ActPageKeeps
  <1>9. ASSUME NEW o \in Deals, ChooseDeal(o) PROVE ActivityInv'
    <2>1. actPage' = [actPage EXCEPT !.deal = o] /\ UNCHANGED <<activity, request, actRuns>>
      BY <1>9 DEF ChooseDeal, Change
    <2>2. PageInv(actPage') /\ actPage'.calls = actPage.calls
      BY <1>0, <2>1 DEF PageInv, ActivityPage
    <2> QED BY <1>0, <2>1, <2>2, ActRunIs, ActPageKeeps
  <1> QED BY <1>1, <1>2, <1>3, <1>4, <1>5, <1>6, <1>7, <1>8, <1>9 DEF Refs

LEMMA FormIs ==
    ASSUME ActivityInv, NEW page, PageInv(page), page.on = "edit", activity[page.id].is = "live", NEW from \in {"list", "detail"}
    PROVE  PageInv(FormOf(page, from)) /\ FormOf(page, from).calls = page.calls
  <1> DEFINE a == activity[page.id]
             deal == a.deal
             firm == FirmOf[a.deal]
             text == PurposeShown(a.purpose)
             people == IF from = "detail" THEN NamesOf(a.people) ELSE {}
             notes == IF from = "detail" THEN a.notes ELSE ""
             told == from = "detail"
  <1>1. page \in ActivityPage /\ page.id \in ActivityIds /\ page.id \in Stored
    BY DEF PageInv, Stored
  <1>2. a \in ActivityRow /\ a.deal \in Deals
    BY <1>1 DEF ActivityInv
  <1>3. firm \in Firms /\ text \in Texts /\ deal \in Deals /\ told \in BOOLEAN
    BY <1>2, ActivityAssumption, PurposesAreCodes DEF ActivityRow, PurposeShown
  <1>4. people \in SUBSET Tokens /\ notes \in Notes
    BY <1>2 DEF ActivityRow, NamesOf, Tokens, Notes
  <1>5. FormOf(page, from) = [page EXCEPT !.shown = from, !.touched = {}, !.deal = deal, !.firm = firm, !.purpose = text,
                                !.people = people, !.notes = notes, !.told = told]
    BY DEF FormOf
  <1> DEFINE next == FormOf(page, from)
  <1> HIDE DEF deal, firm, text, people, notes, told, next
  <1>6. next = [page EXCEPT !.shown = from, !.touched = {}, !.deal = deal, !.firm = firm, !.purpose = text,
                  !.people = people, !.notes = notes, !.told = told]
    BY <1>5 DEF next
  <1>7. next \in ActivityPage /\ next.on = page.on /\ next.id = page.id /\ next.from = page.from /\ next.picked = page.picked
        /\ next.linked = page.linked /\ next.calls = page.calls
    BY <1>1, <1>3, <1>4, <1>6 DEF ActivityPage
  <1>8. PageInv(next)
    BY <1>7 DEF PageInv
  <1> QED BY <1>7, <1>8 DEF next

\* The edit page and the fields both pages have, while nothing is sent.
LEMMA EditPageKeeps ==
    ASSUME ActivityInv,
           \/ ListArrives \/ DetailArrives \/ TypeNotes \/ TypeContent
           \/ \E i \in ActivityIds : OpenEdit(i)
           \/ \E p \in Purposes : ChoosePurpose(p)
           \/ \E u \in Attendable : AddAttendee(u)
    PROVE  ActivityInv'
  <1>0. PageInv(actPage) /\ actPage \in ActivityPage /\ actPage.calls \in Nat /\ 0 <= actPage.calls
    BY DEF ActivityInv, PageInv, ActivityPage
  <1>1. CASE ListArrives \/ DetailArrives
    <2>1. PICK from \in {"list", "detail"} :
            OnEdit /\ activity[actPage.id].is = "live" /\ actPage' = FormOf(actPage, from) /\ UNCHANGED <<activity, request, actRuns>>
      BY <1>1 DEF ListArrives, DetailArrives, Change
    <2>2. PageInv(actPage') /\ actPage'.calls = actPage.calls
      <3>1. actPage.on = "edit"
        BY <2>1 DEF OnEdit
      <3> QED BY <1>0, <2>1, <3>1, FormIs
    <2> QED BY <1>0, <2>1, <2>2, ActRunIs, ActPageKeeps
  <1>2. ASSUME NEW i \in ActivityIds, OpenEdit(i) PROVE ActivityInv'
    <2>1. actPage' = [ClosedPage EXCEPT !.on = "edit", !.id = i] /\ UNCHANGED <<activity, request>> /\ ActRun
      BY <1>2 DEF OpenEdit
    <2>2. PageInv(actPage') /\ actPage'.calls = 0
      <3>1. 0 \in 0..Theirs
        BY ActivityAssumption DEF Theirs
      <3> QED BY <2>1, <3>1 DEF PageInv, ClosedPage, ActivityPage, NoLinked, NoDeals, Refs, Texts, Notes
    <2> QED BY <1>0, <2>1, <2>2, ActRunIs, ActPageKeeps
  <1>3. ASSUME NEW field \in Fields, NEW page, PageInv(page), page.calls = actPage.calls, Touch(field, page) PROVE ActivityInv'
    <2>1. actPage' = [page EXCEPT !.touched = page.touched \union {field}] /\ UNCHANGED <<activity, request, actRuns>>
      BY <1>3 DEF Touch, Change
    <2>2. PageInv(actPage') /\ actPage'.calls = actPage.calls
      <3> DEFINE fields == page.touched \union {field}
      <3>1. fields \in SUBSET Fields
        BY <1>3 DEF PageInv, ActivityPage
      <3>2. actPage' = [page EXCEPT !.touched = fields]
        BY <2>1
      <3> HIDE DEF fields
      <3> QED BY <1>3, <3>1, <3>2 DEF PageInv, ActivityPage
    <2> QED BY <1>0, <2>1, <2>2, ActRunIs, ActPageKeeps
  <1>4. ASSUME NEW p \in Purposes, ChoosePurpose(p) PROVE ActivityInv'
    <2> DEFINE text == Option[p]
               next == [actPage EXCEPT !.purpose = text]
    <2>1. text \in Texts
      BY PurposesAreCodes
    <2>2. Touch("purpose", next)
      BY <1>4 DEF ChoosePurpose
    <2> HIDE DEF text
    <2>3. PageInv(next) /\ next.calls = actPage.calls
      BY <1>0, <2>1 DEF PageInv, ActivityPage
    <2> HIDE DEF next
    <2> QED BY <1>3, <2>2, <2>3 DEF Fields
  <1>5. ASSUME NEW u \in Attendable, AddAttendee(u) PROVE ActivityInv'
    <2> DEFINE people == actPage.people \union {u}
               next == [actPage EXCEPT !.people = people]
    <2>1. people \in SUBSET Tokens
      BY <1>0 DEF ActivityPage, Tokens
    <2>2. Touch("people", next)
      BY <1>5 DEF AddAttendee
    <2> HIDE DEF people
    <2>3. PageInv(next) /\ next.calls = actPage.calls
      BY <1>0, <2>1 DEF PageInv, ActivityPage
    <2> HIDE DEF next
    <2> QED BY <1>3, <2>2, <2>3 DEF Fields
  <1>6. CASE TypeNotes
    <2> DEFINE next == [actPage EXCEPT !.notes = "note"]
    <2>1. PageInv(next) /\ next.calls = actPage.calls
      BY <1>0 DEF PageInv, ActivityPage, Notes
    <2>2. Touch("notes", next)
      BY <1>6 DEF TypeNotes
    <2> HIDE DEF next
    <2> QED BY <1>3, <2>1, <2>2 DEF Fields
  <1>7. CASE TypeContent
    <2> DEFINE next == [actPage EXCEPT !.told = TRUE]
    <2>1. PageInv(next) /\ next.calls = actPage.calls
      BY <1>0 DEF PageInv, ActivityPage
    <2>2. Touch("content", next)
      BY <1>7 DEF TypeContent
    <2> HIDE DEF next
    <2> QED BY <1>3, <2>1, <2>2 DEF Fields
  <1> QED BY <1>1, <1>2, <1>4, <1>5, <1>6, <1>7

LEMMA StoredIsCounted == IsFiniteSet(Stored) /\ Cardinality(Stored) \in Nat
  <1>1. IsFiniteSet(ActivityIds)
    BY ActivityAssumption, FS_Interval DEF ActivityIds
  <1> QED BY <1>1, FS_Subset, FS_CardinalityType DEF Stored

\* An activity changes, and what it was asked for and whether it is stored do not.
LEMMA RowChangeKeeps ==
    ASSUME ActivityInv, NEW i \in ActivityIds, activity[i].is # "none",
           NEW row \in ActivityRow, row.is # "none", row.deal = activity[i].deal, row.asked = activity[i].asked,
           activity' = [activity EXCEPT ![i] = row], UNCHANGED request, PageInv(actPage'), actPage'.calls <= actPage.calls,
           actRuns' \in [count : Nat, overtaken : BOOLEAN], actRuns'.overtaken = actRuns.overtaken
    PROVE  ActivityInv'
  <1>1. /\ activity' \in [ActivityIds -> ActivityRow] /\ activity'[i] = row
        /\ \A j \in ActivityIds : j # i => activity'[j] = activity[j]
    BY DEF ActivityInv
  <1>2. Stored' = Stored
    BY <1>1 DEF Stored
  <1>3. PageInv(actPage)'
    BY DEF PageInv, Here
  <1>4. actPage'.calls <= Cardinality(Stored)
    <2>1. actPage.calls \in Nat /\ actPage'.calls \in Nat
      BY DEF ActivityInv, PageInv, ActivityPage
    <2> QED BY <2>1, StoredIsCounted DEF ActivityInv
  <1>5. \A j \in Stored' : activity'[j].deal \in Deals
    BY <1>1, <1>2 DEF ActivityInv, Stored
  <1>6. RequestKeepsActivity'
    BY <1>1 DEF ActivityInv, RequestKeepsActivity
  <1> QED BY <1>1, <1>2, <1>3, <1>4, <1>5, <1>6 DEF ActivityInv, Here

LEMMA ActivityChanges ==
    ASSUME ActivityInv, (\E i \in ActivityIds : DeleteActivity(i)) \/ (\E ok \in BOOLEAN : SaveEdit(ok))
    PROVE  ActivityInv'
  <1>0. PageInv(actPage) /\ actPage \in ActivityPage /\ actPage.calls \in Nat /\ 0 <= actPage.calls
    BY DEF ActivityInv, PageInv, ActivityPage
  <1>1. ASSUME NEW i \in ActivityIds, DeleteActivity(i) PROVE ActivityInv'
    <2> DEFINE row == [activity[i] EXCEPT !.is = "deleted"]
    <2>1. activity[i] \in ActivityRow /\ activity[i].is = "live" /\ activity' = [activity EXCEPT ![i] = row]
          /\ UNCHANGED <<request, actPage>> /\ ActRun
      BY <1>1 DEF ActivityInv, DeleteActivity
    <2>2. row \in ActivityRow /\ row.is = "deleted" /\ row.deal = activity[i].deal /\ row.asked = activity[i].asked
      BY <2>1 DEF ActivityRow
    <2>3. PageInv(actPage') /\ actPage'.calls <= actPage.calls
      BY <1>0, <2>1
    <2> HIDE DEF row
    <2> QED BY <2>1, <2>2, <2>3, ActRunIs, RowChangeKeeps
  <1>2. ASSUME NEW ok \in BOOLEAN, SaveEdit(ok) PROVE ActivityInv'
    <2> DEFINE i == actPage.id
               row == Update(activity[i], actPage, ok)
    <2>1. i \in ActivityIds
      BY <1>0, <1>2 DEF SaveEdit, OnEdit, PageInv
    <2>2. activity[i] \in ActivityRow /\ activity[i].is = "live" /\ activity' = [activity EXCEPT ![i] = row]
          /\ UNCHANGED request /\ actPage' = ClosedPage /\ (ActRun \/ UNCHANGED actRuns)
      BY <1>2, <2>1 DEF ActivityInv, SaveEdit
    <2>3. row \in ActivityRow /\ row.is = "live" /\ row.deal = activity[i].deal /\ row.asked = activity[i].asked
      <3> DEFINE code == Code(actPage.purpose)
                 people == AttendeesSent(actPage.people, ok)
                 notes == actPage.notes
      <3>1. code \in Codes /\ people \in SUBSET Attendable /\ notes \in Notes
        BY <1>0, PurposesAreCodes, AttendeesAreUsers DEF ActivityPage
      <3>2. row = [activity[i] EXCEPT !.purpose = code, !.people = people, !.notes = notes]
        BY DEF Update
      <3> HIDE DEF code, people, notes, row
      <3> QED BY <2>2, <3>1, <3>2 DEF ActivityRow
    <2>4. ClosedPage.calls = 0
      BY DEF ClosedPage
    <2>5. PageInv(actPage') /\ actPage'.calls <= actPage.calls
      BY <1>0, <2>2, <2>4, ClosedPageIs
    <2>6. actRuns' \in [count : Nat, overtaken : BOOLEAN] /\ actRuns'.overtaken = actRuns.overtaken
      BY <2>2, ActRunIs
    <2>7. activity[i].is # "none" /\ row.is # "none" /\ UNCHANGED request
      BY <2>2, <2>3
    <2> HIDE DEF row, i
    <2> QED BY <2>1, <2>2, <2>3, <2>5, <2>6, <2>7, RowChangeKeeps
  <1> QED BY <1>1, <1>2

\* Somebody else takes a request up, or registers one.
LEMMA RequestChanges ==
    ASSUME ActivityInv,
           \/ \E r \in RequestIds : RegisteredElsewhere(r)
           \/ \E firm \in Firms, u \in Attendable, p \in Purposes : RegisterRequest(firm, u, p)
    PROVE  ActivityInv'
  <1>0. PageInv(actPage) /\ \A r \in RequestIds : request[r] \in RequestRow
    BY DEF ActivityInv
  <1>1. PICK r \in RequestIds, row \in RequestRow :
          /\ request' = [request EXCEPT ![r] = row] /\ UNCHANGED <<activity, actPage>> /\ ActRun
          /\ request[r].link = 0 /\ row.firm # "none" /\ row.link \in {0, Theirs}
    <2>1. ASSUME NEW r \in RequestIds, RegisteredElsewhere(r)
          PROVE  \E row \in RequestRow :
                   /\ request' = [request EXCEPT ![r] = row] /\ UNCHANGED <<activity, actPage>> /\ ActRun
                   /\ request[r].link = 0 /\ row.firm # "none" /\ row.link \in {0, Theirs}
      <3> DEFINE row == [request[r] EXCEPT !.link = Theirs]
      <3>1. Theirs \in 0..Theirs
        BY ActivityAssumption DEF Theirs
      <3>2. request[r] \in RequestRow /\ request[r].firm # "none" /\ request[r].link = 0
        BY <1>0, <2>1 DEF RegisteredElsewhere, Here
      <3>3. row \in RequestRow /\ row.firm = request[r].firm /\ row.link = Theirs
        BY <3>1, <3>2 DEF RequestRow
      <3>4. request' = [request EXCEPT ![r] = row] /\ UNCHANGED <<activity, actPage>> /\ ActRun
        BY <2>1 DEF RegisteredElsewhere
      <3> HIDE DEF row
      <3> QED BY <3>2, <3>3, <3>4
    <2>2. ASSUME NEW firm \in Firms, NEW u \in Attendable, NEW p \in Purposes, RegisterRequest(firm, u, p)
          PROVE  \E r \in RequestIds, row \in RequestRow :
                   /\ request' = [request EXCEPT ![r] = row] /\ UNCHANGED <<activity, actPage>> /\ ActRun
                   /\ request[r].link = 0 /\ row.firm # "none" /\ row.link \in {0, Theirs}
      <3> DEFINE code == Code(Option[p])
                 to == FirstUser(CalledAs[u])
                 row == [firm |-> firm, purpose |-> code, to |-> to, link |-> 0]
      <3>1. PICK r \in RequestIds : ~Here(r) /\ request' = [request EXCEPT ![r] = row]
        BY <2>2 DEF RegisterRequest
      <3>2. code \in Codes /\ to \in Attendable /\ 0 \in 0..Theirs /\ firm # "none"
        BY PurposesAreCodes, ColleagueFound, ActivityAssumption DEF Theirs
      <3>3. request[r].link = 0
        BY <3>1 DEF ActivityInv
      <3>4. UNCHANGED <<activity, actPage>> /\ ActRun
        BY <2>2 DEF RegisterRequest
      <3> HIDE DEF code, to
      <3>5. row \in RequestRow /\ row.firm = firm /\ row.link = 0
        BY <3>2 DEF RequestRow
      <3> HIDE DEF row
      <3> QED BY <3>1, <3>2, <3>3, <3>4, <3>5
    <2> QED BY <2>1, <2>2
  <1>2. /\ request' \in [RequestIds -> RequestRow] /\ request'[r] = row
        /\ \A q \in RequestIds : q # r => request'[q] = request[q]
    BY <1>1 DEF ActivityInv
  <1>3. \A q \in RequestIds : Here(q) => Here(q)'
    BY <1>1, <1>2 DEF Here
  <1>4. PageInv(actPage)'
    <2>1. actPage' = actPage
      BY <1>1
    <2>2. \A q \in {actPage.from, actPage.picked, actPage.linked.id} : q # 0 => q \in RequestIds /\ Here(q)
      BY <1>0 DEF PageInv, Here
    <2> QED BY <1>0, <1>3, <2>1, <2>2 DEF PageInv
  <1>5. \A q \in RequestIds : request'[q].link # 0 => Here(q)'
    BY <1>1, <1>2, <1>3 DEF ActivityInv, Here
  <1>6. RequestKeepsActivity'
    <2>1. actRuns'.overtaken = actRuns.overtaken /\ activity' = activity
      BY <1>1, ActRunIs
    <2>2. ASSUME ~actRuns.overtaken, NEW i \in ActivityIds, activity[i].asked # 0 PROVE request'[activity[i].asked].link = i
      <3>1. request[activity[i].asked].link = i /\ i # 0
        BY <2>2, ActivityAssumption DEF ActivityInv, RequestKeepsActivity, ActivityIds
      <3>2. activity[i].asked \in RequestIds /\ activity[i].asked # r
        BY <1>1, <2>2, <3>1 DEF ActivityInv, ActivityRow
      <3> QED BY <1>2, <3>1, <3>2
    <2> QED BY <2>1, <2>2 DEF RequestKeepsActivity
  <1>7. actRuns' \in [count : Nat, overtaken : BOOLEAN] /\ Stored' = Stored
    BY <1>1, ActRunIs DEF Stored
  <1> QED BY <1>1, <1>2, <1>4, <1>5, <1>6, <1>7 DEF ActivityInv

LEMMA DealIsKnown ==
    ASSUME NEW page \in ActivityPage, DealReady(page) PROVE DealSent(page) \in Deals
  <1>1. ASSUME page.deal = "none", Cardinality(DealsOf(page.firm)) = 1 PROVE \E o \in DealsOf(page.firm) : TRUE
    BY <1>1, FS_EmptySet
  <1> QED BY <1>1 DEF DealReady, DealSent, DealsOf, ActivityPage

\* The activity registered is linked to the request it answers; whoever was linked before is
\* overtaken, and only then.
LEMMA SubmitKeeps == ASSUME ActivityInv, NEW ok \in BOOLEAN, SubmitNew(ok) PROVE ActivityInv'
  <1> DEFINE i == FreeActivity
             r == RequestSent(actPage)
             deal == DealSent(actPage)
             code == Code(actPage.purpose)
             people == AttendeesSent(actPage.people, ok)
             notes == actPage.notes
             row == [is |-> "live", deal |-> deal, purpose |-> code, people |-> people, notes |-> notes, asked |-> r]
  <1>0. PageInv(actPage) /\ actPage \in ActivityPage /\ actPage.calls \in Nat
    BY DEF ActivityInv, PageInv, ActivityPage
  <1>1. /\ i \in ActivityIds /\ activity[i].is = "none" /\ deal \in Deals /\ actPage.linked.link = 0
    BY <1>0, FreeActivityIsFree, DealIsKnown DEF SubmitNew, DealReady
  <1>2. r \in Refs /\ (r # 0 => Here(r) /\ r \in RequestIds)
    BY <1>0 DEF PageInv, RequestSent, ActivityPage, Here
  <1>3. /\ activity' = [activity EXCEPT ![i] = row]
        /\ request' = IF r = 0 THEN request ELSE [request EXCEPT ![r].link = i]
        /\ actPage' = [actPage EXCEPT !.calls = actPage.calls + 1]
    BY DEF SubmitNew
  <1>4. /\ actRuns' \in [count : Nat, overtaken : BOOLEAN]
        /\ actRuns'.overtaken <=> actRuns.overtaken \/ (r # 0 /\ request[r].link # 0)
    <2> DEFINE n == actRuns.count + (IF ok THEN 0 ELSE 1)
               late == actRuns.overtaken \/ (r # 0 /\ request[r].link # 0 /\ actPage.linked.link = 0)
    <2>1. n \in Nat /\ late \in BOOLEAN /\ (late <=> actRuns.overtaken \/ (r # 0 /\ request[r].link # 0))
      BY <1>1 DEF ActivityInv
    <2>2. actRuns' = [count |-> n, overtaken |-> late]
      BY DEF SubmitNew
    <2> HIDE DEF n, late
    <2> QED BY <2>1, <2>2
  <1>5. row \in ActivityRow /\ row.is = "live" /\ row.deal = deal /\ row.asked = r
    <2>1. code \in Codes /\ people \in SUBSET Attendable /\ notes \in Notes
      BY <1>0, PurposesAreCodes, AttendeesAreUsers DEF ActivityPage
    <2> HIDE DEF code, people, notes, deal, r
    <2> QED BY <1>1, <1>2, <2>1 DEF ActivityRow, Refs
  <1> HIDE DEF i, r, deal, row
  <1>6. /\ activity' \in [ActivityIds -> ActivityRow] /\ activity'[i] = row
        /\ \A j \in ActivityIds : j # i => activity'[j] = activity[j]
    BY <1>1, <1>3, <1>5 DEF ActivityInv
  <1>7. i \in 0..Theirs /\ i # 0
    BY <1>1, ActivityAssumption DEF ActivityIds, Theirs
  <1>8. /\ request' \in [RequestIds -> RequestRow]
        /\ \A q \in RequestIds : request'[q].firm = request[q].firm
        /\ \A q \in RequestIds : request'[q].link = IF q = r THEN i ELSE request[q].link
    <2>1. CASE r = 0
      <3>1. 0 \notin RequestIds
        BY ActivityAssumption DEF RequestIds
      <3> QED BY <1>3, <2>1, <3>1 DEF ActivityInv
    <2>2. CASE r # 0
      <3> DEFINE taken == [request[r] EXCEPT !.link = i]
      <3>1. r \in RequestIds /\ request[r] \in RequestRow /\ request' = [request EXCEPT ![r] = taken]
        BY <1>2, <1>3, <2>2 DEF ActivityInv
      <3>2. taken \in RequestRow /\ taken.firm = request[r].firm /\ taken.link = i
        BY <1>7, <3>1 DEF RequestRow
      <3> HIDE DEF taken
      <3> QED BY <3>1, <3>2 DEF ActivityInv
    <2> QED BY <2>1, <2>2
  <1>9. PageInv(actPage)' /\ actPage'.calls = actPage.calls + 1
    <2> DEFINE n == actPage.calls + 1
    <2>1. n \in Nat /\ actPage' = [actPage EXCEPT !.calls = n]
      BY <1>0, <1>3
    <2> HIDE DEF n
    <2>2. /\ actPage' \in ActivityPage /\ actPage'.calls = n /\ actPage'.on = actPage.on /\ actPage'.id = actPage.id
          /\ actPage'.from = actPage.from /\ actPage'.picked = actPage.picked /\ actPage'.linked = actPage.linked
      BY <1>0, <2>1 DEF ActivityPage
    <2>3. PageInv(actPage)'
      BY <1>0, <1>8, <2>2 DEF PageInv, Here
    <2> QED BY <2>2, <2>3 DEF n
  <1>10. actPage'.calls <= Cardinality(Stored')
    <2>1. Stored' = Stored \union {i} /\ i \notin Stored
      BY <1>1, <1>5, <1>6 DEF Stored
    <2>2. Cardinality(Stored') = Cardinality(Stored) + 1
      BY <2>1, StoredIsCounted, FS_AddElement
    <2> QED BY <1>0, <1>9, <2>2, StoredIsCounted DEF ActivityInv
  <1>11. \A j \in Stored' : activity'[j].deal \in Deals
    BY <1>1, <1>5, <1>6 DEF ActivityInv, Stored
  <1>12. \A q \in RequestIds : request'[q].link # 0 => Here(q)'
    <2>1. 0 \notin RequestIds
      BY ActivityAssumption DEF RequestIds
    <2> QED BY <1>2, <1>8, <2>1 DEF ActivityInv, Here
  <1>13. RequestKeepsActivity'
    <2> SUFFICES ASSUME ~actRuns'.overtaken, NEW j \in ActivityIds, activity'[j].asked # 0
                 PROVE  request'[activity'[j].asked].link = j
      BY DEF RequestKeepsActivity
    <2>1. ~actRuns.overtaken /\ (r # 0 => request[r].link = 0)
      BY <1>4
    <2>2. CASE j = i
      BY <1>2, <1>5, <1>6, <1>8, <2>2
    <2>3. CASE j # i
      <3>1. activity[j].asked # 0 /\ activity[j].asked \in RequestIds /\ activity'[j] = activity[j]
        BY <1>6, <2>3 DEF ActivityInv, ActivityRow
      <3>2. request[activity[j].asked].link = j /\ j # 0
        BY <2>1, <3>1, ActivityAssumption DEF ActivityInv, RequestKeepsActivity, ActivityIds
      <3> QED BY <1>8, <2>1, <3>1, <3>2
    <2> QED BY <2>2, <2>3
  <1> QED BY <1>4, <1>6, <1>8, <1>9, <1>10, <1>11, <1>12, <1>13 DEF ActivityInv

LEMMA ActivityInvStarts == ActivityInit => ActivityInv
  <1> SUFFICES ASSUME ActivityInit PROVE ActivityInv
    OBVIOUS
  <1>1. PICK p \in Purposes, o \in Deals, asked \in {0} \union 1..Len(OpenRequests) :
          /\ activity = [i \in ActivityIds |-> IF i > 1 THEN NoActivity ELSE
                [is |-> "live", deal |-> o, purpose |-> p, people |-> {FirstUser(Colleagues[1])},
                 notes |-> "note", asked |-> asked]]
          /\ request = [r \in RequestIds |->
                IF r > Len(OpenRequests) THEN NoRequestYet
                ELSE [NoRequestYet EXCEPT !.firm = OpenRequests[r], !.purpose = p, !.link = IF r = asked THEN 1 ELSE 0]]
          /\ asked # 0 => OpenRequests[asked] = FirmOf[o]
          /\ actPage = ClosedPage
          /\ actRuns = [count |-> 0, overtaken |-> FALSE]
    BY Zenon DEF ActivityInit
  <1>2. /\ Len(OpenRequests) \in Nat /\ MaxRequests \in Nat /\ Len(OpenRequests) <= MaxRequests
        /\ \A r \in 1..Len(OpenRequests) : OpenRequests[r] \in Firms
        /\ MaxActivities \in Nat /\ MaxActivities > 0 /\ 1 \in ActivityIds /\ 0 \in 0..Theirs /\ 1 \in 0..Theirs
    <2>1. Len(OpenRequests) \in Nat /\ \A r \in 1..Len(OpenRequests) : OpenRequests[r] \in Firms
      BY ActivityAssumption, ElementOfSeq, LenProperties
    <2> QED BY <2>1, ActivityAssumption DEF ActivityIds, Theirs
  <1>3. asked \in {0} \union RequestIds
    BY <1>2 DEF RequestIds
  <1>4. p \in Codes /\ "ETC" \in Codes /\ FirstUser(Colleagues[1]) \in Attendable
    <2>1. Len(Colleagues) \in Nat \ {0}
      BY ActivityAssumption, EmptySeq
    <2>2. Colleagues[1] \in Attendable
      BY <2>1 DEF Attendable
    <2> QED BY <2>2, ColleagueFound, PurposesAreCodes DEF Codes
  <1>5. activity \in [ActivityIds -> ActivityRow]
    <2> DEFINE first == [is |-> "live", deal |-> o, purpose |-> p, people |-> {FirstUser(Colleagues[1])},
                         notes |-> "note", asked |-> asked]
    <2>1. first \in ActivityRow /\ NoActivity \in ActivityRow
      BY <1>3, <1>4 DEF NoActivity, ActivityRow, Notes
    <2>2. activity = [i \in ActivityIds |-> IF i > 1 THEN NoActivity ELSE first]
      BY <1>1
    <2> HIDE DEF first
    <2> QED BY <2>1, <2>2
  <1>6. request \in [RequestIds -> RequestRow]
    <2>1. NoRequestYet \in RequestRow
      BY <1>2, <1>4 DEF NoRequestYet, RequestRow
    <2>2. ASSUME NEW r \in RequestIds, ~(r > Len(OpenRequests))
          PROVE  [NoRequestYet EXCEPT !.firm = OpenRequests[r], !.purpose = p, !.link = IF r = asked THEN 1 ELSE 0] \in RequestRow
      <3> DEFINE link == IF r = asked THEN 1 ELSE 0
                 firm == OpenRequests[r]
      <3>1. link \in 0..Theirs /\ firm \in Firms
        BY <1>2, <2>2 DEF RequestIds
      <3> DEFINE row == [NoRequestYet EXCEPT !.firm = OpenRequests[r], !.purpose = p, !.link = IF r = asked THEN 1 ELSE 0]
      <3>2. row = [NoRequestYet EXCEPT !.firm = firm, !.purpose = p, !.link = link]
        OBVIOUS
      <3> HIDE DEF link, firm, row
      <3>3. row \in RequestRow
        BY <1>4, <2>1, <3>1, <3>2 DEF RequestRow
      <3> QED BY <3>3 DEF row
    <2> QED BY <1>1, <2>1, <2>2
  <1>7. PageInv(actPage) /\ actPage.calls = 0
    BY <1>1, ClosedPageIs DEF ClosedPage
  <1>8. /\ \A i \in ActivityIds : activity[i].is # "none" => i = 1 /\ activity[i].deal = o
        /\ \A i \in ActivityIds : activity[i].asked # 0 => i = 1 /\ activity[i].asked = asked
    <2>1. \A i \in ActivityIds : i \in Nat /\ (~(i > 1) => i = 1)
      BY <1>2 DEF ActivityIds
    <2> QED BY <1>1, <2>1 DEF NoActivity
  <1>9. \A r \in RequestIds : request[r].link # 0 => r = asked /\ Here(r)
    <2> SUFFICES ASSUME NEW r \in RequestIds, request[r].link # 0 PROVE r = asked /\ Here(r)
      OBVIOUS
    <2>1. ~(r > Len(OpenRequests))
      BY <1>1 DEF NoRequestYet
    <2>2. request[r].firm = OpenRequests[r] /\ request[r].link = IF r = asked THEN 1 ELSE 0
      BY <1>1, <2>1 DEF NoRequestYet
    <2>3. OpenRequests[r] \in Firms
      BY <1>2, <2>1 DEF RequestIds
    <2> QED BY <2>2, <2>3, ActivityAssumption DEF Here
  <1>10. RequestKeepsActivity
    <2>1. asked # 0 => request[asked].link = 1
      <3> SUFFICES ASSUME asked # 0 PROVE request[asked].link = 1
        OBVIOUS
      <3>1. asked \in RequestIds /\ ~(asked > Len(OpenRequests))
        BY <1>2, <1>3
      <3> QED BY <1>1, <3>1 DEF NoRequestYet
    <2> QED BY <1>8, <2>1 DEF RequestKeepsActivity
  <1>11. actPage.calls <= Cardinality(Stored)
    BY <1>7, StoredIsCounted
  <1> QED BY <1>1, <1>5, <1>6, <1>7, <1>8, <1>9, <1>10, <1>11 DEF ActivityInv, Stored

LEMMA ActivityInvStays == ActivityInv /\ ActivityNext => ActivityInv'
  BY NewPageKeeps, EditPageKeeps, ActivityChanges, RequestChanges, SubmitKeeps DEF ActivityNext

LEMMA ActivityInvRests == ActivityInv /\ UNCHANGED activityVars => ActivityInv'
  <1> SUFFICES ASSUME ActivityInv, UNCHANGED activityVars PROVE ActivityInv'
    OBVIOUS
  <1>1. PageInv(actPage') /\ actPage'.calls <= actPage.calls
    BY DEF ActivityInv, activityVars, PageInv, ActivityPage
  <1> QED BY <1>1, ActRunIs, ActPageKeeps DEF activityVars

LEMMA ActivityPromises == ActivityInv => RequestKeepsActivity /\ ActivityTypeOK
  <1> SUFFICES ASSUME ActivityInv PROVE ActivityTypeOK
    BY DEF ActivityInv
  <1>1. Cardinality(Stored) <= MaxActivities
    <2>1. IsFiniteSet(ActivityIds) /\ Cardinality(ActivityIds) = MaxActivities
      BY ActivityAssumption, FS_Interval DEF ActivityIds
    <2>2. Stored \subseteq ActivityIds
      BY DEF Stored
    <2> QED BY <2>1, <2>2, FS_Subset
  <1>2. actPage.calls \in 0..MaxActivities
    BY <1>1, StoredIsCounted, ActivityAssumption DEF ActivityInv, PageInv, ActivityPage
  <1> QED BY <1>2 DEF ActivityInv, ActivityTypeOK, Stored, ActivityRow, RequestRow

-----------------------------------------------------------------------------
(* RFP analyses.                                                           *)

RowTexts == RfpTexts \union {BlankRow, "monitoring", "collection"}
DealOrNone == RfpDeals \union {NoDeal}

RfpTable == [RfpDeals -> [state : {"none", "live", "deleted"}, rows : Seq(RowTexts), about : DealOrNone]]

SheetShape ==
    [mode : {"closed", "new", "loading", "stored", "failed"}, customer : RfpCustomers \union {NoCustomer},
     options : SUBSET RfpDeals, list : Nat, deal : DealOrNone, filled : DealOrNone, read : Nat,
     rows : Seq(RowTexts), stored : Seq(RowTexts), touched : BOOLEAN]

\* A call whose answer the page still takes is about what the page shows.
RfpCallInv(call) ==
    /\ call.n \in 1..rfpRuns
    /\ call.kind = "list" /\ call.n = rfpSheet.list => call.customer = rfpSheet.customer
    /\ call.kind \in {"load", "deal"} /\ call.n = rfpSheet.read => call.deal = rfpSheet.deal
    /\ call.kind \in {"load", "deal", "save", "delete"} => call.deal \in RfpDeals
    /\ call.kind = "save" => call.rows \in Seq(RowTexts) /\ call.about \in DealOrNone

RfpSheetInv ==
    /\ rfpSheet \in SheetShape
    /\ rfpSheet.mode = "new" /\ rfpSheet.list = 0 => \A o \in rfpSheet.options : RfpOwner[o] = rfpSheet.customer
    /\ rfpSheet.mode = "stored" => rfpSheet.deal \in RfpDeals
    /\ DealOfCustomer /\ FieldsOfDeal

RfpInv ==
    /\ rfps \in RfpTable /\ rfpRuns \in Nat
    /\ RfpSheetInv
    /\ \A call \in rfpCalls : RfpCallInv(call)

LEMMA ClosedSheetIs ==
    /\ ClosedSheet \in SheetShape /\ ClosedSheet.mode = "closed" /\ ClosedSheet.read = 0 /\ ClosedSheet.list = 0
    /\ ClosedSheet.deal = NoDeal /\ ClosedSheet.filled = NoDeal
  <1>1. << >> \in Seq(RowTexts)
    BY EmptySeq
  <1> QED BY <1>1 DEF ClosedSheet, SheetShape, DealOrNone

\* What the page no longer waits for, or waits for anew, an earlier call cannot answer.
LEMMA RfpKeeps ==
    ASSUME RfpInv, rfps' \in RfpTable, RfpSheetInv', rfpRuns' \in {rfpRuns, rfpRuns + 1},
           rfpSheet'.list \in {0, rfpRuns + 1} \/ (rfpSheet'.list = rfpSheet.list /\ rfpSheet'.customer = rfpSheet.customer),
           rfpSheet'.read \in {0, rfpRuns + 1} \/ (rfpSheet'.read = rfpSheet.read /\ rfpSheet'.deal = rfpSheet.deal),
           \A call \in rfpCalls' \ rfpCalls : RfpCallInv(call)'
    PROVE  RfpInv'
  <1>1. rfpRuns \in Nat /\ rfpRuns' \in Nat
    BY DEF RfpInv
  <1>2. ASSUME NEW call \in rfpCalls PROVE RfpCallInv(call)'
    <2>1. RfpCallInv(call)
      BY DEF RfpInv
    <2>2. call.n \in 1..rfpRuns' /\ call.n # 0 /\ call.n # rfpRuns + 1
      BY <1>1, <2>1 DEF RfpCallInv
    <2> QED BY <2>1, <2>2 DEF RfpCallInv
  <1> QED BY <1>1, <1>2 DEF RfpInv

\* The page is left, or a step of it asks nothing.
LEMMA RfpSheetKeeps ==
    ASSUME RfpInv,
           \/ OpenNewRfp \/ LeaveSheet \/ AddRow
           \/ \E i \in 1..MaxRows, text \in RfpTexts : TypeRow(i, text)
    PROVE  RfpInv'
  <1>0. rfpSheet \in SheetShape /\ RfpSheetInv /\ rfpRuns \in Nat
    BY DEF RfpInv, RfpSheetInv
  <1>1. UNCHANGED <<rfps, rfpCalls, rfpRuns>> /\ rfps' \in RfpTable /\ rfpRuns' \in {rfpRuns, rfpRuns + 1}
    BY DEF RfpInv, OpenNewRfp, LeaveSheet, AddRow, TypeRow, NoRfpCall
  <1>2. \A call \in rfpCalls' \ rfpCalls : RfpCallInv(call)'
    BY <1>1
  <1>3. CASE OpenNewRfp
    <2> DEFINE rows == <<BlankRow>>
    <2>1. rows \in Seq(RowTexts)
      BY DEF RowTexts
    <2>2. rfpSheet' = [ClosedSheet EXCEPT !.mode = "new", !.rows = rows]
      BY <1>3 DEF OpenNewRfp
    <2> HIDE DEF rows
    <2>3. rfpSheet' \in SheetShape /\ rfpSheet'.read = 0 /\ rfpSheet'.list = 0 /\ rfpSheet'.options = {}
          /\ rfpSheet'.deal = NoDeal /\ rfpSheet'.filled = NoDeal /\ rfpSheet'.mode = "new"
      BY <2>1, <2>2, ClosedSheetIs DEF SheetShape, ClosedSheet
    <2>4. RfpSheetInv'
      BY <2>3 DEF RfpSheetInv, DealOfCustomer, FieldsOfDeal
    <2> QED BY <1>1, <1>2, <2>3, <2>4, RfpKeeps
  <1>4. CASE LeaveSheet
    <2>1. rfpSheet' = ClosedSheet
      BY <1>4 DEF LeaveSheet
    <2>2. RfpSheetInv'
      BY <2>1, ClosedSheetIs DEF RfpSheetInv, DealOfCustomer, FieldsOfDeal, SheetShown
    <2> QED BY <1>1, <1>2, <2>1, <2>2, ClosedSheetIs, RfpKeeps
  <1>5. ASSUME NEW rows \in Seq(RowTexts), rfpSheet' = [rfpSheet EXCEPT !.rows = rows, !.touched = TRUE] PROVE RfpInv'
    <2>1. /\ rfpSheet' \in SheetShape /\ rfpSheet'.read = rfpSheet.read /\ rfpSheet'.list = rfpSheet.list
          /\ rfpSheet'.options = rfpSheet.options /\ rfpSheet'.deal = rfpSheet.deal /\ rfpSheet'.filled = rfpSheet.filled
          /\ rfpSheet'.mode = rfpSheet.mode /\ rfpSheet'.customer = rfpSheet.customer
      BY <1>0, <1>5 DEF SheetShape
    <2>2. RfpSheetInv'
      BY <1>0, <2>1 DEF RfpSheetInv, DealOfCustomer, FieldsOfDeal, SheetShown
    <2> QED BY <1>1, <1>2, <2>1, <2>2, RfpKeeps
  <1>6. CASE AddRow
    <2> DEFINE rows == Append(rfpSheet.rows, BlankRow)
    <2>1. rows \in Seq(RowTexts)
      BY <1>0 DEF SheetShape, RowTexts
    <2>2. rfpSheet' = [rfpSheet EXCEPT !.rows = rows, !.touched = TRUE]
      BY <1>6 DEF AddRow
    <2> HIDE DEF rows
    <2> QED BY <1>5, <2>1, <2>2
  <1>7. ASSUME NEW i \in 1..MaxRows, NEW text \in RfpTexts, TypeRow(i, text) PROVE RfpInv'
    <2> DEFINE rows == [rfpSheet.rows EXCEPT ![i] = text]
    <2>1. rows \in Seq(RowTexts)
      <3>1. rfpSheet.rows \in Seq(RowTexts) /\ text \in RowTexts /\ i \in 1..Len(rfpSheet.rows)
        BY <1>0, <1>7, LenProperties DEF SheetShape, RowTexts, TypeRow
      <3> QED BY <3>1, ExceptSeq
    <2>2. rfpSheet' = [rfpSheet EXCEPT !.rows = rows, !.touched = TRUE]
      BY <1>0, <1>7 DEF TypeRow, SheetShape
    <2> HIDE DEF rows
    <2> QED BY <1>5, <2>1, <2>2
  <1> QED BY <1>3, <1>4, <1>6, <1>7

\* A step that asks.
LEMMA RfpAsksKeeps ==
    ASSUME RfpInv,
           \/ DeleteSheet
           \/ \E o \in RfpDeals : OpenRfp(o) \/ PickDeal(o)
           \/ \E c \in RfpCustomers \union {NoCustomer} : PickRfpCustomer(c)
           \/ \E done \in BOOLEAN : SaveSheet(done)
    PROVE  RfpInv'
  <1> DEFINE n == rfpRuns + 1
  <1>0. /\ rfpSheet \in SheetShape /\ RfpSheetInv /\ rfpRuns \in Nat /\ n \in Nat /\ n \in 1..n /\ n # 0
        /\ UNCHANGED rfps /\ rfps' \in RfpTable
    <2>1. rfpSheet \in SheetShape /\ RfpSheetInv /\ rfpRuns \in Nat /\ rfps \in RfpTable
      BY DEF RfpInv, RfpSheetInv
    <2>2. n \in Nat /\ n \in 1..n /\ n # 0
      BY <2>1
    <2>3. UNCHANGED rfps
      BY DEF DeleteSheet, OpenRfp, PickDeal, PickRfpCustomer, SaveSheet
    <2> QED BY <2>1, <2>2, <2>3
  <1>1. ASSUME NEW call, RfpAsks(call) PROVE rfpRuns' = n /\ rfpRuns' \in {rfpRuns, rfpRuns + 1} /\ rfpCalls' \ rfpCalls \subseteq {call}
    BY <1>1 DEF RfpAsks
  <1>2. ASSUME NEW call, RfpAsks(call), UNCHANGED rfpSheet, RfpCallInv(call)' PROVE RfpInv'
    <2>1. RfpSheetInv'
      BY <1>0, <1>2 DEF RfpSheetInv, DealOfCustomer, FieldsOfDeal, SheetShown
    <2> QED BY <1>0, <1>1, <1>2, <2>1, RfpKeeps
  <1>3. CASE DeleteSheet
    <2>1. PICK call : /\ call = [kind |-> "delete", n |-> NextRfpCall, deal |-> rfpSheet.deal]
                      /\ RfpAsks(call) /\ UNCHANGED rfpSheet /\ rfpSheet.mode = "stored"
      BY <1>3 DEF DeleteSheet
    <2>2. call.kind = "delete" /\ call.n = n /\ call.deal = rfpSheet.deal /\ rfpSheet.deal \in RfpDeals
      BY <1>0, <2>1 DEF NextRfpCall, RfpSheetInv
    <2>3. RfpCallInv(call)'
      BY <1>0, <1>1, <2>1, <2>2 DEF RfpCallInv
    <2> QED BY <1>2, <2>1, <2>3
  <1>4. ASSUME NEW done \in BOOLEAN, SaveSheet(done) PROVE RfpInv'
    <2>1. PICK call :
            /\ call = [kind |-> "save", n |-> NextRfpCall, deal |-> rfpSheet.deal, about |-> rfpSheet.filled, rows |-> rfpSheet.rows,
                       new |-> rfpSheet.mode = "new", done |-> done, stored |-> rfpSheet.stored, touched |-> rfpSheet.touched]
            /\ RfpAsks(call) /\ UNCHANGED rfpSheet /\ rfpSheet.deal # NoDeal
      BY <1>4 DEF SaveSheet
    <2>2. /\ call.kind = "save" /\ call.n = n /\ call.deal = rfpSheet.deal /\ rfpSheet.deal \in RfpDeals
          /\ call.rows \in Seq(RowTexts) /\ call.about \in DealOrNone
      BY <1>0, <2>1 DEF NextRfpCall, SheetShape, DealOrNone
    <2>3. RfpCallInv(call)'
      BY <1>0, <1>1, <2>1, <2>2 DEF RfpCallInv
    <2> QED BY <1>2, <2>1, <2>3
  <1>5. ASSUME NEW o \in RfpDeals, OpenRfp(o) PROVE RfpInv'
    <2>1. PICK call : call = [kind |-> "load", n |-> NextRfpCall, deal |-> o] /\ RfpAsks(call)
      BY <1>5 DEF OpenRfp
    <2>a. rfpSheet' = [ClosedSheet EXCEPT !.mode = "loading", !.deal = o, !.read = n]
      BY <1>5 DEF OpenRfp, NextRfpCall
    <2>2. call.kind = "load" /\ call.n = n /\ call.deal = o
      BY <2>1 DEF NextRfpCall
    <2> HIDE DEF n
    <2>3. rfpSheet' \in SheetShape /\ rfpSheet'.list = 0 /\ rfpSheet'.read = n /\ rfpSheet'.deal = o /\ rfpSheet'.mode = "loading"
      BY <1>0, <2>a, ClosedSheetIs DEF SheetShape, DealOrNone
    <2>4. RfpSheetInv'
      BY <2>3 DEF RfpSheetInv, DealOfCustomer, FieldsOfDeal, SheetShown
    <2>5. RfpCallInv(call)'
      BY <1>0, <1>1, <2>1, <2>2, <2>3 DEF RfpCallInv
    <2> QED BY <1>0, <1>1, <2>1, <2>3, <2>4, <2>5, RfpKeeps DEF n
  <1>6. ASSUME NEW o \in RfpDeals, PickDeal(o) PROVE RfpInv'
    <2>1. PICK call : call = [kind |-> "deal", n |-> NextRfpCall, deal |-> o] /\ RfpAsks(call)
      BY <1>6 DEF PickDeal
    <2>a. /\ rfpSheet' = [rfpSheet EXCEPT !.deal = o, !.read = n]
          /\ rfpSheet.mode = "new" /\ rfpSheet.list = 0 /\ o \in rfpSheet.options
      BY <1>6 DEF PickDeal, NextRfpCall
    <2>2. call.kind = "deal" /\ call.n = n /\ call.deal = o
      BY <2>1 DEF NextRfpCall
    <2> HIDE DEF n
    <2>3. /\ rfpSheet' \in SheetShape /\ rfpSheet'.list = 0 /\ rfpSheet'.read = n /\ rfpSheet'.deal = o /\ rfpSheet'.mode = "new"
          /\ rfpSheet'.customer = rfpSheet.customer /\ rfpSheet'.options = rfpSheet.options
      BY <1>0, <2>a DEF SheetShape, DealOrNone
    <2>4. RfpSheetInv'
      BY <1>0, <2>a, <2>3 DEF RfpSheetInv, DealOfCustomer, FieldsOfDeal, SheetShown
    <2>5. RfpCallInv(call)'
      BY <1>0, <1>1, <2>1, <2>2, <2>3 DEF RfpCallInv
    <2> QED BY <1>0, <1>1, <2>1, <2>3, <2>4, <2>5, RfpKeeps DEF n
  <1>7. ASSUME NEW c \in RfpCustomers \union {NoCustomer}, PickRfpCustomer(c) PROVE RfpInv'
    <2>1. /\ WithCustomer(c) \in SheetShape /\ WithCustomer(c).mode = "new" /\ WithCustomer(c).customer = c
          /\ WithCustomer(c).deal = NoDeal /\ WithCustomer(c).filled = NoDeal /\ WithCustomer(c).read = 0
          /\ WithCustomer(c).options = rfpSheet.options /\ WithCustomer(c).list = rfpSheet.list
      BY <1>0, <1>7 DEF PickRfpCustomer, WithCustomer, SheetShape, DealOrNone
    <2>2. CASE c = rfpSheet.customer
      <3>1. rfpSheet' = WithCustomer(c) /\ UNCHANGED <<rfpCalls, rfpRuns>> /\ rfpSheet.mode = "new"
        BY <1>7, <2>2 DEF PickRfpCustomer, NoRfpCall
      <3>2. RfpSheetInv'
        BY <1>0, <2>1, <2>2, <3>1 DEF RfpSheetInv, DealOfCustomer, FieldsOfDeal
      <3> QED BY <1>0, <2>1, <2>2, <3>1, <3>2, RfpKeeps
    <2>3. CASE c # rfpSheet.customer /\ c = NoCustomer
      <3>1. rfpSheet' = [WithCustomer(c) EXCEPT !.options = {}, !.list = 0] /\ UNCHANGED <<rfpCalls, rfpRuns>>
        BY <1>7, <2>3 DEF PickRfpCustomer, NoRfpCall
      <3>2. /\ rfpSheet' \in SheetShape /\ rfpSheet'.list = 0 /\ rfpSheet'.read = 0 /\ rfpSheet'.options = {}
            /\ rfpSheet'.deal = NoDeal /\ rfpSheet'.filled = NoDeal /\ rfpSheet'.mode = "new"
        BY <2>1, <3>1 DEF SheetShape
      <3>3. RfpSheetInv'
        BY <3>2 DEF RfpSheetInv, DealOfCustomer, FieldsOfDeal, SheetShown, NoDeal
      <3> QED BY <1>0, <3>1, <3>2, <3>3, RfpKeeps
    <2>4. CASE c # rfpSheet.customer /\ c # NoCustomer
      <3>1. PICK call : /\ call = [kind |-> "list", n |-> NextRfpCall, customer |-> c]
                        /\ RfpAsks(call) /\ rfpSheet' = [WithCustomer(c) EXCEPT !.list = n]
        BY <1>7, <2>4 DEF PickRfpCustomer, NextRfpCall
      <3>2. call.kind = "list" /\ call.n = n /\ call.customer = c
        BY <3>1 DEF NextRfpCall
      <3> HIDE DEF n
      <3>3. /\ rfpSheet' \in SheetShape /\ rfpSheet'.list = n /\ rfpSheet'.read = 0 /\ rfpSheet'.customer = c
            /\ rfpSheet'.deal = NoDeal /\ rfpSheet'.filled = NoDeal /\ rfpSheet'.mode = "new"
        BY <1>0, <2>1, <3>1 DEF SheetShape
      <3>4. RfpSheetInv'
        BY <1>0, <3>3 DEF RfpSheetInv, DealOfCustomer, FieldsOfDeal
      <3>5. RfpCallInv(call)'
        BY <1>0, <1>1, <3>1, <3>2, <3>3 DEF RfpCallInv
      <3> QED BY <1>0, <1>1, <3>1, <3>3, <3>4, <3>5, RfpKeeps DEF n
    <2> QED BY <2>2, <2>3, <2>4
  <1> QED BY <1>3, <1>4, <1>5, <1>6, <1>7

\* A step that takes an answer.
LEMMA RfpAnswerKeeps ==
    ASSUME RfpInv, NEW call \in rfpCalls,
           \/ DealArrives(call) \/ SaveLost(call) \/ DeletionArrives(call)
           \/ \E ok \in BOOLEAN : RfpArrives(call, ok) \/ RfpDealsArrive(call, ok) \/ SaveArrives(call, ok)
    PROVE  RfpInv'
  <1>0. rfpSheet \in SheetShape /\ RfpSheetInv /\ rfpRuns \in Nat /\ RfpCallInv(call) /\ rfps \in RfpTable
    BY DEF RfpInv, RfpSheetInv
  <1>1. rfpRuns' \in {rfpRuns, rfpRuns + 1} /\ rfpCalls' \subseteq rfpCalls
    BY DEF DealArrives, SaveLost, DeletionArrives, RfpArrives, RfpDealsArrive, SaveArrives, RfpEnds
  <1>2. \A c \in rfpCalls' \ rfpCalls : RfpCallInv(c)'
    BY <1>1
  <1>3. ASSUME UNCHANGED rfpSheet, rfps' \in RfpTable PROVE RfpInv'
    <2>1. RfpSheetInv'
      BY <1>0, <1>3 DEF RfpSheetInv, DealOfCustomer, FieldsOfDeal, SheetShown
    <2> QED BY <1>1, <1>2, <1>3, <2>1, RfpKeeps
  <1>4. CASE DealArrives(call)
    <2>1. CASE rfpSheet.read = call.n
      <3> DEFINE o == call.deal
      <3>1. rfpSheet' = [rfpSheet EXCEPT !.filled = o, !.read = 0] /\ UNCHANGED rfps /\ o = rfpSheet.deal /\ o \in DealOrNone
        BY <1>0, <1>4, <2>1 DEF DealArrives, DealTaken, RfpCallInv, DealOrNone
      <3> HIDE DEF o
      <3>2. /\ rfpSheet' \in SheetShape /\ rfpSheet'.filled = rfpSheet'.deal /\ rfpSheet'.deal = rfpSheet.deal /\ rfpSheet'.read = 0
            /\ rfpSheet'.list = rfpSheet.list /\ rfpSheet'.customer = rfpSheet.customer /\ rfpSheet'.mode = rfpSheet.mode
            /\ rfpSheet'.options = rfpSheet.options
        BY <1>0, <3>1 DEF SheetShape
      <3>3. RfpSheetInv'
        BY <1>0, <3>2 DEF RfpSheetInv, DealOfCustomer, FieldsOfDeal
      <3> QED BY <1>0, <1>1, <1>2, <3>1, <3>2, <3>3, RfpKeeps
    <2>2. CASE rfpSheet.read # call.n
      BY <1>0, <1>3, <1>4, <2>2 DEF DealArrives, DealTaken
    <2> QED BY <2>1, <2>2
  <1>5. CASE SaveLost(call)
    BY <1>0, <1>3, <1>5 DEF SaveLost
  <1>6. CASE DeletionArrives(call)
    <2> DEFINE o == call.deal
               state == IF rfps[o].state = "live" THEN "deleted" ELSE rfps[o].state
    <2>1. o \in RfpDeals
      BY <1>0, <1>6 DEF DeletionArrives, RfpCallInv
    <2>2. state \in {"none", "live", "deleted"}
      BY <1>0, <2>1 DEF RfpTable
    <2>3. rfps' = [rfps EXCEPT ![o].state = state] /\ UNCHANGED rfpSheet
      BY <1>6 DEF DeletionArrives
    <2> HIDE DEF o, state
    <2> QED BY <1>0, <1>3, <2>1, <2>2, <2>3 DEF RfpTable
  <1>7. ASSUME NEW ok \in BOOLEAN, RfpArrives(call, ok) PROVE RfpInv'
    <2> DEFINE o == call.deal
               stored == rfps[o].rows
               rows == RowsFor(stored)
    <2>0. call.kind = "load" /\ o \in RfpDeals /\ o \in DealOrNone /\ UNCHANGED rfps
      BY <1>0, <1>7 DEF RfpArrives, RfpCallInv, DealOrNone
    <2>1. stored \in Seq(RowTexts) /\ rows \in Seq(RowTexts)
      <3>1. stored \in Seq(RowTexts)
        BY <1>0, <2>0 DEF RfpTable
      <3>2. DefaultRows \in Seq(RowTexts)
        BY DEF DefaultRows, RowTexts
      <3> QED BY <3>1, <3>2 DEF RowsFor
    <2>2. CASE rfpSheet.read # call.n
      BY <1>0, <1>3, <1>7, <2>2 DEF RfpArrives
    <2>3. CASE rfpSheet.read = call.n /\ ok /\ rfps[o].state = "live"
      <3>1. rfpSheet' = [rfpSheet EXCEPT !.mode = "stored", !.read = 0, !.filled = o, !.rows = rows, !.stored = stored]
        BY <1>7, <2>3 DEF RfpArrives
      <3>2. o = rfpSheet.deal
        BY <1>0, <2>0, <2>3 DEF RfpCallInv
      <3> HIDE DEF o, stored, rows
      <3>3. /\ rfpSheet' \in SheetShape /\ rfpSheet'.filled = o /\ rfpSheet'.deal = o /\ rfpSheet'.read = 0
            /\ rfpSheet'.list = rfpSheet.list /\ rfpSheet'.customer = rfpSheet.customer /\ rfpSheet'.mode = "stored"
        BY <1>0, <2>0, <2>1, <3>1, <3>2 DEF SheetShape
      <3>4. RfpSheetInv'
        BY <2>0, <3>3 DEF RfpSheetInv, DealOfCustomer, FieldsOfDeal
      <3> QED BY <1>0, <1>1, <1>2, <2>0, <3>3, <3>4, RfpKeeps
    <2>4. CASE rfpSheet.read = call.n /\ ~(ok /\ rfps[o].state = "live")
      <3>1. rfpSheet' = [rfpSheet EXCEPT !.mode = "failed", !.read = 0]
        BY <1>7, <2>4 DEF RfpArrives
      <3>2. /\ rfpSheet' \in SheetShape /\ rfpSheet'.read = 0
            /\ rfpSheet'.list = rfpSheet.list /\ rfpSheet'.customer = rfpSheet.customer /\ rfpSheet'.mode = "failed"
        BY <1>0, <3>1 DEF SheetShape
      <3>3. RfpSheetInv'
        BY <3>2 DEF RfpSheetInv, DealOfCustomer, FieldsOfDeal, SheetShown
      <3> QED BY <1>0, <1>1, <1>2, <2>0, <3>2, <3>3, RfpKeeps
    <2> QED BY <2>2, <2>3, <2>4
  <1>8. ASSUME NEW ok \in BOOLEAN, RfpDealsArrive(call, ok) PROVE RfpInv'
    <2>1. CASE rfpSheet.list = call.n
      <3> DEFINE options == IF ok THEN {o \in RfpDeals : RfpOwner[o] = call.customer} ELSE {}
      <3>1. rfpSheet' = [rfpSheet EXCEPT !.list = 0, !.options = options] /\ UNCHANGED rfps
        BY <1>8, <2>1 DEF RfpDealsArrive, ListTaken
      <3>2. options \in SUBSET RfpDeals /\ \A o \in options : RfpOwner[o] = rfpSheet.customer
        BY <1>0, <1>8, <2>1 DEF RfpDealsArrive, RfpCallInv
      <3> HIDE DEF options
      <3>3. /\ rfpSheet' \in SheetShape /\ rfpSheet'.filled = rfpSheet.filled /\ rfpSheet'.deal = rfpSheet.deal /\ rfpSheet'.read = rfpSheet.read
            /\ rfpSheet'.list = 0 /\ rfpSheet'.customer = rfpSheet.customer /\ rfpSheet'.mode = rfpSheet.mode
            /\ rfpSheet'.options = options
        BY <1>0, <3>1, <3>2 DEF SheetShape
      <3>4. RfpSheetInv'
        BY <1>0, <3>2, <3>3 DEF RfpSheetInv, DealOfCustomer, FieldsOfDeal, SheetShown
      <3> QED BY <1>0, <1>1, <1>2, <3>1, <3>3, <3>4, RfpKeeps
    <2>2. CASE rfpSheet.list # call.n
      BY <1>0, <1>3, <1>8, <2>2 DEF RfpDealsArrive, ListTaken
    <2> QED BY <2>1, <2>2
  <1>9. ASSUME NEW ok \in BOOLEAN, SaveArrives(call, ok) PROVE RfpInv'
    <2>1. rfps' \in RfpTable
      <3> DEFINE o == call.deal
                 row == [state |-> "live", rows |-> MergedRows(rfps[o].rows, call.rows), about |-> call.about]
      <3>1. o \in RfpDeals /\ row \in [state : {"none", "live", "deleted"}, rows : Seq(RowTexts), about : DealOrNone]
        BY <1>0, <1>9 DEF SaveArrives, RfpCallInv, MergedRows
      <3>2. rfps' = rfps \/ rfps' = [rfps EXCEPT ![o] = row]
        BY <1>9 DEF SaveArrives
      <3> HIDE DEF o, row
      <3> QED BY <1>0, <3>1, <3>2 DEF RfpTable
    <2>2. CASE rfpSheet' = ClosedSheet
      <3>1. RfpSheetInv'
        BY <2>2, ClosedSheetIs DEF RfpSheetInv, DealOfCustomer, FieldsOfDeal, SheetShown
      <3> QED BY <1>1, <1>2, <2>1, <2>2, <3>1, ClosedSheetIs, RfpKeeps
    <2>3. CASE rfpSheet' = rfpSheet
      BY <1>3, <2>1, <2>3
    <2> QED BY <1>9, <2>2, <2>3 DEF SaveArrives
  <1> QED BY <1>4, <1>5, <1>6, <1>7, <1>8, <1>9

LEMMA RfpInvStarts == RfpInit => RfpInv
  <1> SUFFICES ASSUME RfpInit PROVE RfpInv
    OBVIOUS
  <1>1. Seq(RfpTexts) \subseteq Seq(RowTexts)
    <2>1. RfpTexts \subseteq RowTexts
      BY DEF RowTexts
    <2> QED BY <2>1
  <1>2. rfps \in RfpTable
    BY <1>1, RfpAssumption DEF RfpInit, RfpTable, DealOrNone
  <1>3. RfpSheetInv
    BY ClosedSheetIs DEF RfpInit, RfpSheetInv, DealOfCustomer, FieldsOfDeal, SheetShown
  <1> QED BY <1>2, <1>3 DEF RfpInit, RfpInv

LEMMA RfpInvStays == RfpInv /\ RfpNext => RfpInv'
  BY RfpSheetKeeps, RfpAsksKeeps, RfpAnswerKeeps DEF RfpNext

LEMMA RfpInvRests == RfpInv /\ UNCHANGED rfpVars => RfpInv'
  BY DEF rfpVars, RfpInv, RfpSheetInv, RfpCallInv, DealOfCustomer, FieldsOfDeal, SheetShown

-----------------------------------------------------------------------------
(* Bid results.                                                            *)

BidShape ==
    [kind : {"new", "edit"}, phase : {"open", "left"}, proposals : BOOLEAN, results : BOOLEAN,
     registered : SUBSET BidProposals, taken : SUBSET BidProposals, record : {0, 1}, own : BidProposals \union {None},
     read : BidTexts, proposal : BidProposals \union {None}, customer : Customers \union {None},
     opp : DOMAIN OpportunityName \union {None}, factors : BidTexts, reason : BidTexts, item : Items, changes : Nat]

BidSendShape == [phase : {"idle", "sent", "saved", "failed"}, payload : SUBSET BidRow, typed : BidTexts, item : Items, read : BidTexts]

\* Told apart from the other proposals by its customer and by the name of its opportunity.
Unmistakable(p) ==
    ~NameShared(ProposalOf[p].opp) /\ \A q \in BidProposals : ProposalOf[q].customer = ProposalOf[p].customer => q = p

\* The rows are of their names and of different opportunities and proposals.
BidRowsInv ==
    /\ bid \in Seq(BidRow)
    /\ \A r \in DOMAIN bid : OfItsName(bid[r])
    /\ \A r, q \in DOMAIN bid : r # q => bid[r].opp # bid[q].opp /\ bid[r].proposal # bid[q].proposal

\* What a new form has read of the results tells which proposals have one.
BidFormInv ==
    /\ bidForm \in BidShape
    /\ bidForm.kind = "new" => bidForm.record = None /\ bidForm.own = None
    /\ bidForm.kind = "edit" => Len(bid) >= 1
    /\ bidForm.results /\ bidForm.kind = "new" =>
         \A p \in BidProposals : Unmistakable(p) => (p \in bidForm.registered <=> p \in bidForm.taken)

BidInv ==
    /\ BidRowsInv /\ BidFormInv
    /\ bidPrefill \subseteq BidProposals /\ bidFaults \in 0..MaxBidFaults
    /\ bidSend \in [BidSends -> BidSendShape]
    /\ \A s \in BidSends : \A row \in bidSend[s].payload : OfItsName(row)

LEMMA FirstIsOne == ASSUME NEW S \in SUBSET Nat, S # {} PROVE FirstOf(S) \in S
  BY LeastNumber DEF FirstOf

\* The proposal a result is taken for, when it cannot be mistaken for another.
LEMMA LinkedRight ==
    ASSUME BidRowsInv, NEW r \in DOMAIN bid
    PROVE  /\ LinkedProposal(r) \in BidProposals /\ Customer(r) \in Customers
           /\ Unmistakable(LinkedProposal(r)) => bid[r].proposal = LinkedProposal(r)
           /\ Unmistakable(bid[r].proposal) => LinkedProposal(r) = bid[r].proposal
  <1> DEFINE o == bid[r].opp
             made == bid[r].proposal
             p0 == CHOOSE p \in BidProposals : ProposalOf[p].opp = bid[r].opp
             cands == {p \in BidProposals : ProposalOf[p].opp = bid[r].opp \/ ProposalOf[p].customer = Customer(r)}
  <1>1. o \in DOMAIN OpportunityName /\ made \in BidProposals /\ OpportunityName[o] = OpportunityName[ProposalOf[made].opp]
    <2>1. bid[r] \in BidRow
      BY ElementOfSeq, LenProperties DEF BidRowsInv
    <2>2. OfItsName(bid[r])
      BY DEF BidRowsInv
    <2>3. bid[r].opp \in DOMAIN OpportunityName /\ bid[r].proposal \in BidProposals
      BY <2>1 DEF BidRow
    <2> QED BY <2>2, <2>3 DEF OfItsName
  <1>2. p0 \in BidProposals /\ ProposalOf[p0].opp = o
    <2>1. \E p \in BidProposals : ProposalOf[p].opp = o
      BY <1>1, BidAssumption
    <2> QED BY <2>1
  <1>3. Customer(r) = ProposalOf[p0].customer /\ Customer(r) \in Customers
    BY <1>2 DEF Customer, Customers
  <1>4. p0 \in cands /\ cands \in SUBSET Nat /\ LinkedProposal(r) = FirstOf(cands)
    BY <1>2, BidAssumption DEF LinkedProposal
  <1>5. LinkedProposal(r) \in cands
    BY <1>4, FirstIsOne
  <1>6. ASSUME NEW p \in cands, Unmistakable(p) PROVE made = p /\ o = ProposalOf[p].opp
    <2>1. o = ProposalOf[p].opp
      <3>1. CASE ProposalOf[p].customer = Customer(r)
        <4>1. p0 = p
          BY <1>2, <1>3, <1>6, <3>1 DEF Unmistakable
        <4> QED BY <1>2, <4>1
      <3> QED BY <1>6, <3>1
    <2>2. ProposalOf[made].opp \in DOMAIN OpportunityName
      BY <1>1, BidAssumption
    <2>3. ProposalOf[made].opp = ProposalOf[p].opp
      BY <1>1, <1>6, <2>1, <2>2 DEF Unmistakable, NameShared
    <2> QED BY <1>1, <2>1, <2>3, BidAssumption
  <1>7. ASSUME Unmistakable(made) PROVE LinkedProposal(r) = made
    <2>1. ProposalOf[made].opp = o
      BY <1>1, <1>7 DEF Unmistakable, NameShared
    <2>2. p0 = made
      BY <1>1, <1>2, <2>1, BidAssumption
    <2>3. \A p \in cands : p = made
      <3> SUFFICES ASSUME NEW p \in cands PROVE p = made
        OBVIOUS
      <3>1. CASE ProposalOf[p].opp = o
        BY <1>2, <2>2, <3>1, BidAssumption
      <3>2. CASE ProposalOf[p].customer = Customer(r)
        <4>1. ProposalOf[p].customer = ProposalOf[made].customer
          BY <1>3, <2>2, <3>2
        <4> QED BY <1>7, <4>1 DEF Unmistakable
      <3> QED BY <3>1, <3>2
    <2> HIDE DEF cands, made
    <2> QED BY <1>5, <2>3
  <1> QED BY <1>3, <1>5, <1>6, <1>7

LEMMA ResolvedName ==
    ASSUME NEW o \in DOMAIN OpportunityName
    PROVE  ResolvedOpportunity(o) \in DOMAIN OpportunityName /\ OpportunityName[ResolvedOpportunity(o)] = OpportunityName[o]
  <1> DEFINE S == {q \in DOMAIN OpportunityName : q = o \/ OpportunityName[q] = OpportunityName[o]}
  <1>1. S \in SUBSET Nat /\ o \in S
    BY BidAssumption
  <1>2. ResolvedOpportunity(o) = FirstOf(S)
    BY DEF ResolvedOpportunity
  <1>3. FirstOf(S) \in S
    BY <1>1, FirstIsOne
  <1> QED BY <1>2, <1>3

LEMMA ProposalsAre ==
    ASSUME NEW p \in BidProposals
    PROVE  ProposalOf[p].opp \in DOMAIN OpportunityName /\ ProposalOf[p].customer \in Customers
  BY BidAssumption DEF Customers

\* Steps of the form, while the results stay as they are.
LEMMA BidFormKeeps ==
    ASSUME BidInv, UNCHANGED <<bid, bidSend>>, bidPrefill' \subseteq BidProposals, bidFaults' \in 0..MaxBidFaults, BidFormInv'
    PROVE  BidInv'
  BY DEF BidInv, BidRowsInv

\* A change of the fields leaves what has been read of the lists.
LEMMA BidTyped ==
    ASSUME BidInv, UNCHANGED bid, bidForm' \in BidShape, bidForm'.kind = bidForm.kind,
           bidForm'.results = bidForm.results, bidForm'.registered = bidForm.registered, bidForm'.taken = bidForm.taken,
           bidForm.kind = "new" => bidForm'.record = bidForm.record /\ bidForm'.own = bidForm.own
    PROVE  BidFormInv'
  BY DEF BidInv, BidFormInv

\* The effect that fills the form with the result edited.
LEMMA BidFills ==
    ASSUME BidInv, NEW next \in BidShape, next.record # None => Len(bid) >= 1
    PROVE  /\ BidFilled(next) \in BidShape
           /\ BidFilled(next).kind = next.kind /\ BidFilled(next).results = next.results /\ BidFilled(next).own = next.own
           /\ BidFilled(next).registered = next.registered /\ BidFilled(next).taken = next.taken
           /\ BidFilled(next).record = next.record
  <1>1. CASE next.record = None
    BY <1>1 DEF BidFilled
  <1>2. CASE next.record # None
    <2> DEFINE r == bid[next.record]
               own == next.own
               customer == Customer(next.record)
               o == r.opp
               read == next.read
               item == r.item
    <2>1. next.record = 1 /\ 1 \in DOMAIN bid
      <3>1. next.record = 1 /\ Len(bid) \in Nat
        BY <1>2 DEF BidShape, None, BidInv, BidRowsInv
      <3> QED BY <1>2, <3>1, LenProperties DEF BidInv, BidRowsInv
    <2>2. r \in BidRow /\ customer \in Customers
      BY <2>1, LinkedRight, ElementOfSeq, LenProperties DEF BidInv, BidRowsInv
    <2>3. o \in DOMAIN OpportunityName /\ item \in Items /\ own \in BidProposals \union {None} /\ read \in BidTexts
      BY <2>2 DEF BidRow, BidShape
    <2>4. BidFilled(next) = [next EXCEPT !.proposal = own, !.customer = customer, !.opp = o, !.factors = read, !.reason = read, !.item = item]
      BY <1>2 DEF BidFilled
    <2>5. own \in BidProposals \union {None} /\ customer \in Customers \union {None} /\ o \in DOMAIN OpportunityName \union {None}
      BY <2>2, <2>3
    <2> HIDE DEF r, own, customer, o, read, item
    <2>6. next.own = own
      BY DEF own
    <2> QED BY <2>3, <2>4, <2>5, <2>6 DEF BidShape
  <1> QED BY <1>1, <1>2

LEMMA BidArrivals ==
    ASSUME BidInv, BidProposalsArrive \/ BidResultsArrive \/ BidRecordArrives \/ (\E p \in BidProposals : BidPrefillArrives(p))
    PROVE  BidInv'
  <1>0. /\ bidForm \in BidShape /\ BidFormInv /\ BidRowsInv /\ MaxBidFaults \in Nat
        /\ bidForm.record # None => Len(bid) >= 1
    BY BidAssumption DEF BidInv, BidFormInv, BidShape
  <1>1. CASE BidProposalsArrive
    <2> DEFINE next == [bidForm EXCEPT !.proposals = TRUE]
    <2>1. next \in BidShape /\ next.kind = bidForm.kind /\ next.results = bidForm.results /\ next.own = bidForm.own
          /\ next.registered = bidForm.registered /\ next.taken = bidForm.taken /\ next.record = bidForm.record
      BY <1>0 DEF BidShape
    <2>2. bidForm' = BidFilled(next) /\ UNCHANGED <<bid, bidPrefill, bidSend, bidFaults>>
      BY <1>1 DEF BidProposalsArrive
    <2> HIDE DEF next
    <2>3. BidFormInv'
      BY <1>0, <2>1, <2>2, BidFills, BidTyped
    <2> QED BY <2>2, <2>3, BidFormKeeps DEF BidInv
  <1>2. CASE BidResultsArrive
    <2> DEFINE taken == {bid[r].proposal : r \in {q \in DOMAIN bid : bid[q].live}}
               registered == RegisteredProposals
               next == [bidForm EXCEPT !.results = TRUE, !.registered = registered, !.taken = taken]
    <2>1. taken \in SUBSET BidProposals /\ registered \in SUBSET BidProposals
      <3>1. \A r \in DOMAIN bid : bid[r] \in BidRow
        BY ElementOfSeq, LenProperties DEF BidInv, BidRowsInv
      <3>2. taken \in SUBSET BidProposals
        BY <3>1 DEF BidRow
      <3>3. registered \in SUBSET BidProposals
        BY <1>0, LinkedRight DEF RegisteredProposals
      <3> QED BY <3>2, <3>3
    <2>2. ASSUME NEW p \in BidProposals, Unmistakable(p) PROVE p \in registered <=> p \in taken
      <3>1. ASSUME p \in registered PROVE p \in taken
        BY <1>0, <2>2, <3>1, LinkedRight DEF RegisteredProposals
      <3>2. ASSUME p \in taken PROVE p \in registered
        BY <1>0, <2>2, <3>2, LinkedRight DEF RegisteredProposals
      <3> QED BY <3>1, <3>2
    <2>3. bidForm' = BidFilled(next) /\ UNCHANGED <<bid, bidPrefill, bidSend, bidFaults>>
      BY <1>2 DEF BidResultsArrive
    <2> HIDE DEF taken, registered
    <2>4. next \in BidShape /\ next.kind = bidForm.kind /\ next.own = bidForm.own
          /\ next.registered = registered /\ next.taken = taken /\ next.record = bidForm.record
      BY <1>0, <2>1 DEF BidShape
    <2> HIDE DEF next
    <2>5. BidFormInv'
      BY <1>0, <2>2, <2>3, <2>4, BidFills DEF BidFormInv
    <2> QED BY <2>3, <2>5, BidFormKeeps DEF BidInv
  <1>3. CASE BidRecordArrives
    <2> DEFINE own == LinkedProposal(1)
               read == bid[1].factors
               next == [bidForm EXCEPT !.record = 1, !.own = own, !.read = read]
    <2>0. bidForm.kind = "edit" /\ Len(bid) >= 1 /\ 1 \in DOMAIN bid
      <3>1. bidForm.kind = "edit" /\ Len(bid) >= 1 /\ Len(bid) \in Nat
        BY <1>0, <1>3 DEF BidRecordArrives, BidFormInv, BidRowsInv
      <3> QED BY <1>0, <3>1, LenProperties DEF BidRowsInv
    <2>1. own \in BidProposals /\ read \in BidTexts
      <3>1. bid[1] \in BidRow
        BY <1>0, <2>0, ElementOfSeq, LenProperties DEF BidRowsInv
      <3> QED BY <1>0, <2>0, <3>1, LinkedRight DEF BidRow
    <2>3. bidForm' = BidFilled(next) /\ UNCHANGED <<bid, bidPrefill, bidSend, bidFaults>>
      BY <1>3 DEF BidRecordArrives
    <2> HIDE DEF own, read
    <2>4. next \in BidShape /\ next.kind = bidForm.kind /\ next.results = bidForm.results
          /\ next.registered = bidForm.registered /\ next.taken = bidForm.taken
      BY <1>0, <2>1 DEF BidShape
    <2> HIDE DEF next
    <2>5. BidFormInv'
      BY <2>0, <2>3, <2>4, BidFills, BidTyped
    <2> QED BY <2>3, <2>5, BidFormKeeps DEF BidInv
  <1>4. ASSUME NEW p \in BidProposals, BidPrefillArrives(p) PROVE BidInv'
    <2> DEFINE c == ProposalOf[p].customer
               o == ProposalOf[p].opp
    <2>1. c \in Customers /\ o \in DOMAIN OpportunityName
      BY ProposalsAre
    <2>2. PICK offer \in BidProposals \union {None} :
            bidForm' = [bidForm EXCEPT !.proposal = offer, !.customer = c, !.opp = o]
      <3>1. CASE bidForm' = [bidForm EXCEPT !.proposal = p, !.customer = c, !.opp = o]
        BY <3>1
      <3>2. CASE bidForm' = [bidForm EXCEPT !.customer = c, !.opp = o]
        <4> DEFINE same == bidForm.proposal
        <4>1. same \in BidProposals \union {None} /\ bidForm' = [bidForm EXCEPT !.proposal = same, !.customer = c, !.opp = o]
          BY <1>0, <3>2 DEF BidShape
        <4> QED BY <4>1
      <3> QED BY <1>4, <3>1, <3>2 DEF BidPrefillArrives
    <2>3. /\ UNCHANGED <<bid, bidSend>> /\ bidPrefill' \subseteq BidProposals
          /\ bidFaults' = bidFaults \/ (bidFaults < MaxBidFaults /\ bidFaults' = bidFaults + 1)
      BY <1>4 DEF BidPrefillArrives, BidInv
    <2>4. bidFaults' \in 0..MaxBidFaults
      BY <1>0, <2>3 DEF BidInv
    <2> HIDE DEF c, o
    <2>5. /\ bidForm' \in BidShape /\ bidForm'.kind = bidForm.kind /\ bidForm'.results = bidForm.results
          /\ bidForm'.registered = bidForm.registered /\ bidForm'.taken = bidForm.taken
          /\ bidForm'.record = bidForm.record /\ bidForm'.own = bidForm.own
      BY <1>0, <2>1, <2>2 DEF BidShape
    <2>6. BidFormInv'
      BY <2>3, <2>5, BidTyped
    <2> QED BY <2>3, <2>4, <2>6, BidFormKeeps
  <1> QED BY <1>1, <1>2, <1>3, <1>4

\* The fields of the form change; what was read of the lists stays.
BidTouched(next) ==
    /\ next \in BidShape /\ next.kind = bidForm.kind /\ next.results = bidForm.results
    /\ next.registered = bidForm.registered /\ next.taken = bidForm.taken
    /\ next.record = bidForm.record /\ next.own = bidForm.own

LEMMA BidChangeKeeps ==
    ASSUME BidInv, NEW next, BidTouched(next), ChangeBid(next), bidPrefill' \subseteq BidProposals
    PROVE  BidInv'
  <1> DEFINE n == next.changes + 1
  <1>1. n \in Nat /\ bidForm' = [next EXCEPT !.changes = n] /\ UNCHANGED <<bid, bidSend, bidFaults>>
    BY DEF BidTouched, BidShape, ChangeBid
  <1> HIDE DEF n
  <1>2. /\ bidForm' \in BidShape /\ bidForm'.kind = next.kind /\ bidForm'.results = next.results
        /\ bidForm'.registered = next.registered /\ bidForm'.taken = next.taken
        /\ bidForm'.record = next.record /\ bidForm'.own = next.own
    BY <1>1 DEF BidShape, BidTouched
  <1>3. BidFormInv'
    BY <1>1, <1>2, BidTyped DEF BidTouched
  <1> QED BY <1>1, <1>3, BidFormKeeps DEF BidInv

LEMMA BidChanges ==
    ASSUME BidInv,
           \/ \E p \in BidProposals : ChooseBidProposal(p)
           \/ \E c \in Customers : ChooseCustomer(c)
           \/ \E o \in DOMAIN OpportunityName : ChooseOpportunity(o)
           \/ \E text \in BidTexts : TypeFactors(text)
           \/ \E item \in Items : ScoreItem(item)
    PROVE  BidInv'
  <1>0. bidForm \in BidShape /\ bidPrefill \subseteq BidProposals
    BY DEF BidInv, BidFormInv
  <1>1. ASSUME NEW offer \in BidProposals \union {None}, NEW c \in Customers \union {None},
               NEW o \in DOMAIN OpportunityName \union {None}
        PROVE  BidTouched([bidForm EXCEPT !.proposal = offer, !.customer = c, !.opp = o])
    BY <1>0 DEF BidShape, BidTouched
  <1>2. ASSUME NEW p \in BidProposals, ChooseBidProposal(p) PROVE BidInv'
    <2> DEFINE c == ProposalOf[p].customer
               o == ProposalOf[p].opp
               next == [bidForm EXCEPT !.proposal = p, !.customer = c, !.opp = o]
    <2>1. ChangeBid(next) /\ bidPrefill' = bidPrefill \cup {p}
      BY <1>2 DEF ChooseBidProposal
    <2>2. c \in Customers /\ o \in DOMAIN OpportunityName
      BY ProposalsAre
    <2> HIDE DEF c, o
    <2>3. BidTouched(next)
      BY <1>1, <2>2
    <2> HIDE DEF next
    <2> QED BY <1>0, <2>1, <2>3, BidChangeKeeps
  <1>3. ASSUME NEW c \in Customers, ChooseCustomer(c) PROVE BidInv'
    <2> DEFINE candidates == {p \in AvailableProposals : ProposalOf[p].customer = c}
               found == IF bidForm.proposal \in candidates THEN {bidForm.proposal}
                        ELSE {p \in candidates : ProposalOf[p].opp = bidForm.opp}
               offer == IF found # {} THEN FirstOf(found) ELSE bidForm.proposal
               o == IF found # {} THEN ProposalOf[FirstOf(found)].opp ELSE bidForm.opp
               next == [bidForm EXCEPT !.proposal = offer, !.customer = c, !.opp = o]
    <2>1. ChangeBid(next) /\ UNCHANGED bidPrefill
      <3>1. ChangeBid([bidForm EXCEPT !.customer = c, !.proposal = offer, !.opp = o]) /\ UNCHANGED bidPrefill
        BY <1>3 DEF ChooseCustomer
      <3> HIDE DEF offer, o
      <3>2. [bidForm EXCEPT !.customer = c, !.proposal = offer, !.opp = o] = next
        BY <1>0 DEF BidShape
      <3> QED BY <3>1, <3>2
    <2>2. found \in SUBSET BidProposals /\ found \in SUBSET Nat
      BY BidAssumption DEF AvailableProposals
    <2>3. found # {} => FirstOf(found) \in BidProposals
      BY <2>2, FirstIsOne
    <2>4. offer \in BidProposals \union {None} /\ o \in DOMAIN OpportunityName \union {None}
      BY <1>0, <2>3, ProposalsAre DEF BidShape
    <2> HIDE DEF offer, o
    <2>5. BidTouched(next)
      BY <1>1, <2>4
    <2> HIDE DEF next
    <2> QED BY <1>0, <2>1, <2>5, BidChangeKeeps
  <1>4. ASSUME NEW o \in DOMAIN OpportunityName, ChooseOpportunity(o) PROVE BidInv'
    <2> DEFINE candidates == {p \in AvailableProposals :
                                ProposalOf[p].opp = o /\ bidForm.customer \in {None, ProposalOf[p].customer}}
               offer == FirstOf(candidates)
               c == ProposalOf[FirstOf(candidates)].customer
               next == [bidForm EXCEPT !.proposal = offer, !.customer = c, !.opp = o]
    <2>1. ChangeBid(next) /\ UNCHANGED bidPrefill
      <3>1. ChangeBid([bidForm EXCEPT !.opp = o, !.proposal = offer, !.customer = c]) /\ UNCHANGED bidPrefill
        BY <1>4 DEF ChooseOpportunity
      <3> HIDE DEF offer, c
      <3>2. [bidForm EXCEPT !.opp = o, !.proposal = offer, !.customer = c] = next
        BY <1>0 DEF BidShape
      <3> QED BY <3>1, <3>2
    <2>2. candidates \in SUBSET BidProposals /\ candidates \in SUBSET Nat /\ candidates # {}
      BY <1>4, BidAssumption DEF AvailableProposals, ChooseOpportunity
    <2>3. FirstOf(candidates) \in BidProposals
      BY <2>2, FirstIsOne
    <2>4. offer \in BidProposals /\ c \in Customers
      BY <2>3, ProposalsAre
    <2> HIDE DEF candidates, offer, c
    <2>5. BidTouched(next)
      BY <1>1, <2>4
    <2> HIDE DEF next
    <2> QED BY <1>0, <2>1, <2>5, BidChangeKeeps
  <1>5. ASSUME NEW text \in BidTexts, TypeFactors(text) PROVE BidInv'
    <2> DEFINE next == [bidForm EXCEPT !.factors = text]
    <2>1. ChangeBid(next) /\ UNCHANGED bidPrefill
      BY <1>5 DEF TypeFactors
    <2>2. BidTouched(next)
      BY <1>0 DEF BidShape, BidTouched
    <2> HIDE DEF next
    <2> QED BY <1>0, <2>1, <2>2, BidChangeKeeps
  <1>6. ASSUME NEW item \in Items, ScoreItem(item) PROVE BidInv'
    <2> DEFINE next == [bidForm EXCEPT !.item = item]
    <2>1. ChangeBid(next) /\ UNCHANGED bidPrefill
      BY <1>6 DEF ScoreItem
    <2>2. BidTouched(next)
      BY <1>0 DEF BidShape, BidTouched
    <2> HIDE DEF next
    <2> QED BY <1>0, <2>1, <2>2, BidChangeKeeps
  <1> QED BY <1>2, <1>3, <1>4, <1>5, <1>6

\* What may be sent: the proposal of the form, under the name of its opportunity.
LEMMA BidPayloadIs ==
    ASSUME BidInv, NEW p \in BidProposals
    PROVE  BidPayload(p) \in BidRow /\ OfItsName(BidPayload(p))
  <1> DEFINE o == ResolvedOpportunity(ProposalOf[p].opp)
             text == SentFactors
             item == IF bidForm.item = "remarked" THEN "blank" ELSE bidForm.item
  <1>1. o \in DOMAIN OpportunityName /\ OpportunityName[o] = OpportunityName[ProposalOf[p].opp]
    BY ProposalsAre, ResolvedName
  <1>2. text \in BidTexts /\ item \in Items
    <2>1. bidForm.factors \in BidTexts /\ bidForm.reason \in BidTexts /\ bidForm.item \in Items
      BY DEF BidInv, BidFormInv, BidShape
    <2> QED BY <2>1 DEF SentFactors, Items
  <1>3. BidPayload(p) = [proposal |-> p, opp |-> o, factors |-> text, item |-> item, live |-> TRUE]
    BY DEF BidPayload
  <1> HIDE DEF o, text, item
  <1> QED BY <1>1, <1>2, <1>3 DEF BidRow, OfItsName

LEMMA CompleteBidKeeps ==
    ASSUME BidInv, NEW s \in BidSends, CompleteBid(s)
    PROVE  BidInv'
  <1> DEFINE payload == {BidPayload(p) : p \in MatchingProposal}
             typed == bidForm.factors
             item == bidForm.item
             read == bidForm.read
             entry == [phase |-> "sent", payload |-> payload, typed |-> typed, item |-> item, read |-> read]
  <1>1. bidSend' = [bidSend EXCEPT ![s] = entry] /\ UNCHANGED <<bid, bidForm, bidPrefill, bidFaults>>
    BY DEF CompleteBid
  <1>2. payload \in SUBSET BidRow /\ \A row \in payload : OfItsName(row)
    BY BidPayloadIs DEF MatchingProposal, AvailableProposals
  <1>3. typed \in BidTexts /\ item \in Items /\ read \in BidTexts
    BY DEF BidInv, BidFormInv, BidShape
  <1> HIDE DEF payload, typed, item, read
  <1>4. entry \in BidSendShape /\ entry.payload = payload
    BY <1>2, <1>3 DEF BidSendShape
  <1> HIDE DEF entry
  <1>5. bidSend' \in [BidSends -> BidSendShape]
    BY <1>1, <1>4 DEF BidInv
  <1>6. \A q \in BidSends : \A row \in bidSend'[q].payload : OfItsName(row)
    BY <1>1, <1>2, <1>4 DEF BidInv
  <1> QED BY <1>1, <1>5, <1>6 DEF BidInv, BidRowsInv, BidFormInv

\* A row the service accepts leaves the results of different opportunities and proposals.
LEMMA BidWrites ==
    ASSUME BidInv, NEW row \in BidRow, OfItsName(row), ~BidRefused(row), bid' = BidWritten(row)
    PROVE  BidRowsInv' /\ Len(bid') >= 1
  <1>1. /\ bid \in Seq(BidRow) /\ Len(bid) \in Nat /\ DOMAIN bid = 1..Len(bid)
        /\ \A r \in DOMAIN bid : bid[r] \in BidRow /\ OfItsName(bid[r])
        /\ \A r, q \in DOMAIN bid : r # q => bid[r].opp # bid[q].opp /\ bid[r].proposal # bid[q].proposal
    BY ElementOfSeq, LenProperties DEF BidInv, BidRowsInv
  <1>2. CASE bidForm.kind = "new"
    <2>1. /\ bid' \in Seq(BidRow) /\ DOMAIN bid' = 1..(Len(bid) + 1) /\ Len(bid') = Len(bid) + 1
          /\ bid'[Len(bid) + 1] = row /\ \A r \in 1..Len(bid) : bid'[r] = bid[r]
      BY <1>1, <1>2, AppendProperties DEF BidWritten
    <2>2. \A r \in 1..Len(bid) : bid[r].opp # row.opp /\ bid[r].proposal # row.proposal
      BY <1>1, <1>2 DEF BidRefused
    <2>3. \A r \in DOMAIN bid' : r \in 1..Len(bid) \/ r = Len(bid) + 1
      BY <1>1, <2>1
    <2>4. \A r \in DOMAIN bid' : OfItsName(bid'[r])
      BY <1>1, <2>1, <2>3
    <2>5. \A r, q \in DOMAIN bid' : r # q => bid'[r].opp # bid'[q].opp /\ bid'[r].proposal # bid'[q].proposal
      BY <1>1, <2>1, <2>2, <2>3
    <2> QED BY <1>1, <2>1, <2>4, <2>5 DEF BidRowsInv, OfItsName
  <1>3. CASE bidForm.kind # "new"
    <2>1. Len(bid) >= 1 /\ 1 \in 1..Len(bid)
      <3>1. Len(bid) >= 1
        BY <1>3 DEF BidInv, BidFormInv, BidShape
      <3> QED BY <1>1, <3>1
    <2>2. bid' \in Seq(BidRow) /\ Len(bid') = Len(bid) /\ bid' = [bid EXCEPT ![1] = row]
      BY <1>1, <1>3, <2>1, ExceptSeq DEF BidWritten
    <2>3. DOMAIN bid' = 1..Len(bid) /\ bid'[1] = row /\ \A r \in 1..Len(bid) : r # 1 => bid'[r] = bid[r]
      BY <1>1, <2>1, <2>2
    <2>4. \A r \in 1..Len(bid) : r # 1 => bid[r].opp # row.opp /\ bid[r].proposal # row.proposal
      <3>1. \A r \in 2..Len(bid) : bid[r].opp # row.opp /\ bid[r].proposal # row.proposal
        BY <1>3 DEF BidRefused
      <3> QED BY <1>1, <3>1
    <2>5. \A r \in DOMAIN bid' : OfItsName(bid'[r])
      BY <1>1, <2>3
    <2>6. \A r, q \in DOMAIN bid' : r # q => bid'[r].opp # bid'[q].opp /\ bid'[r].proposal # bid'[q].proposal
      BY <1>1, <2>3, <2>4
    <2> QED BY <2>1, <2>2, <2>5, <2>6 DEF BidRowsInv, OfItsName
  <1> QED BY <1>2, <1>3

LEMMA BidAnswerKeeps ==
    ASSUME BidInv, NEW s \in BidSends, BidAnswered(s)
    PROVE  BidInv'
  <1>0. bidForm \in BidShape /\ BidFormInv /\ BidRowsInv /\ bidSend[s] \in BidSendShape /\ MaxBidFaults \in Nat
    BY BidAssumption DEF BidInv, BidFormInv
  <1>1. PICK row \in bidSend[s].payload :
          /\ bid' = bid \/ (~BidRefused(row) /\ bid' = BidWritten(row))
          /\ \E phase \in {"saved", "failed"} : bidSend' = [bidSend EXCEPT ![s].phase = phase]
          /\ bidForm' = bidForm \/ bidForm' = [bidForm EXCEPT !.phase = "left"]
          /\ bidFaults' = bidFaults \/ (bidFaults < MaxBidFaults /\ bidFaults' = bidFaults + 1)
    BY DEF BidAnswered
  <1>2. row \in BidRow /\ OfItsName(row)
    BY <1>0 DEF BidInv, BidSendShape
  <1>3. BidRowsInv' /\ (Len(bid) >= 1 => Len(bid') >= 1)
    <2>1. CASE bid' = bid
      BY <1>0, <2>1 DEF BidRowsInv, OfItsName
    <2>2. CASE ~BidRefused(row) /\ bid' = BidWritten(row)
      BY <1>2, <2>2, BidWrites
    <2> QED BY <1>1, <2>1, <2>2
  <1>4. /\ bidForm' \in BidShape /\ bidForm'.kind = bidForm.kind /\ bidForm'.results = bidForm.results
        /\ bidForm'.registered = bidForm.registered /\ bidForm'.taken = bidForm.taken
        /\ bidForm'.record = bidForm.record /\ bidForm'.own = bidForm.own
    BY <1>0, <1>1 DEF BidShape
  <1>5. BidFormInv'
    BY <1>0, <1>3, <1>4 DEF BidFormInv, Unmistakable, NameShared
  <1>6. /\ bidSend' \in [BidSends -> BidSendShape]
        /\ \A q \in BidSends : bidSend'[q].payload = bidSend[q].payload
    <2>1. PICK phase \in {"saved", "failed"} : bidSend' = [bidSend EXCEPT ![s].phase = phase]
      BY <1>1
    <2> DEFINE entry == [bidSend[s] EXCEPT !.phase = phase]
    <2>2. entry \in BidSendShape /\ entry.payload = bidSend[s].payload
      BY <1>0 DEF BidSendShape
    <2>3. bidSend' = [bidSend EXCEPT ![s] = entry]
      BY <2>1
    <2> HIDE DEF entry
    <2> QED BY <2>2, <2>3 DEF BidInv
  <1>7. bidFaults' \in 0..MaxBidFaults
    BY <1>0, <1>1 DEF BidInv
  <1>8. UNCHANGED bidPrefill
    BY DEF BidAnswered
  <1> QED BY <1>3, <1>5, <1>6, <1>7, <1>8 DEF BidInv, OfItsName

LEMMA DeleteBidKeeps ==
    ASSUME BidInv, NEW r \in DOMAIN bid, DeleteBidResult(r)
    PROVE  BidInv'
  <1> DEFINE row == [bid[r] EXCEPT !.live = FALSE]
  <1>0. /\ bid \in Seq(BidRow) /\ Len(bid) \in Nat /\ DOMAIN bid = 1..Len(bid)
        /\ \A q \in DOMAIN bid : bid[q] \in BidRow /\ OfItsName(bid[q])
    BY ElementOfSeq, LenProperties DEF BidInv, BidRowsInv
  <1>1. row \in BidRow /\ row.opp = bid[r].opp /\ row.proposal = bid[r].proposal
    BY <1>0 DEF BidRow
  <1>2. bid' = [bid EXCEPT ![r] = row] /\ UNCHANGED <<bidForm, bidPrefill, bidSend, bidFaults>>
    BY DEF DeleteBidResult
  <1> HIDE DEF row
  <1>3. bid' \in Seq(BidRow) /\ Len(bid') = Len(bid) /\ DOMAIN bid' = DOMAIN bid
    BY <1>0, <1>1, <1>2, ExceptSeq
  <1>4. \A q \in DOMAIN bid : bid'[q].opp = bid[q].opp /\ bid'[q].proposal = bid[q].proposal
    BY <1>0, <1>1, <1>2
  <1>5. BidRowsInv'
    <2>1. \A q \in DOMAIN bid : OfItsName(bid'[q])
      BY <1>0, <1>4 DEF OfItsName
    <2>2. \A p, q \in DOMAIN bid : p # q => bid'[p].opp # bid'[q].opp /\ bid'[p].proposal # bid'[q].proposal
      BY <1>4 DEF BidInv, BidRowsInv
    <2> QED BY <1>3, <2>1, <2>2 DEF BidRowsInv, OfItsName
  <1>6. BidFormInv'
    BY <1>2, <1>3 DEF BidInv, BidFormInv, Unmistakable, NameShared
  <1> QED BY <1>2, <1>5, <1>6 DEF BidInv, OfItsName

LEMMA BidInvStarts == BidInit => BidInv
  <1> SUFFICES ASSUME BidInit PROVE BidInv
    OBVIOUS
  <1>1. PICK kind \in {"new", "edit"}, rows \in StoredResults, reason \in BidTexts :
          /\ kind = "edit" => rows # << >>
          /\ bid = rows
          /\ bidForm = [kind |-> kind, phase |-> "open", proposals |-> FALSE, results |-> FALSE,
                      registered |-> {}, taken |-> {}, record |-> None, own |-> None, read |-> NoFactors,
                      proposal |-> None, customer |-> None, opp |-> None, factors |-> NoFactors,
                      reason |-> reason, item |-> "blank", changes |-> 0]
          /\ bidPrefill = {} /\ bidSend = [s \in BidSends |-> NoBidSend] /\ bidFaults = 0
    BY Zenon DEF BidInit
  <1>2. BidRowsInv
    BY <1>1, BidAssumption DEF BidRowsInv
  <1>3. BidFormInv
    <2>1. bidForm \in BidShape
      BY <1>1 DEF BidShape, BidTexts, Items, None
    <2>2. bidForm.kind = "edit" => Len(bid) >= 1
      <3>1. bidForm.kind = "edit" => bid # << >>
        BY <1>1
      <3>2. bid \in Seq(BidRow) /\ Len(bid) \in Nat
        BY <1>2, LenProperties DEF BidRowsInv
      <3>3. bid # << >> => Len(bid) # 0
        BY <3>2, EmptySeq
      <3> QED BY <3>1, <3>2, <3>3
    <2> QED BY <1>1, <2>1, <2>2 DEF BidFormInv
  <1>4. NoBidSend \in BidSendShape /\ NoBidSend.payload = {}
    BY DEF NoBidSend, BidSendShape, BidTexts, Items
  <1>5. bidSend \in [BidSends -> BidSendShape] /\ \A s \in BidSends : bidSend[s].payload = {}
    BY <1>1, <1>4
  <1>6. bidFaults \in 0..MaxBidFaults
    BY <1>1, BidAssumption
  <1> QED BY <1>1, <1>2, <1>3, <1>5, <1>6 DEF BidInv

LEMMA BidInvStays == BidInv /\ BidNext => BidInv'
  <1> SUFFICES ASSUME BidInv, BidNext PROVE BidInv'
    OBVIOUS
  <1> QED BY BidArrivals, BidChanges, CompleteBidKeeps, BidAnswerKeeps, DeleteBidKeeps DEF BidNext

LEMMA BidInvRests == BidInv /\ UNCHANGED bidVars => BidInv'
  BY DEF bidVars, BidInv, BidRowsInv, BidFormInv, Unmistakable, NameShared, OfItsName

LEMMA BidPromises == BidInv => OffersUnresulted /\ BidTypeOK
  <1> SUFFICES ASSUME BidInv PROVE OffersUnresulted /\ BidTypeOK
    OBVIOUS
  <1>1. bidForm \in BidShape /\ None \notin BidProposals
    BY BidAssumption DEF BidInv, BidFormInv
  <1>2. OffersUnresulted
    <2> SUFFICES ASSUME NEW p \in BidProposals, bidForm.proposals, bidForm.results, bidForm.kind = "new", Unmistakable(p)
                 PROVE  p \in AvailableProposals <=> p \notin bidForm.taken
      BY Zenon DEF OffersUnresulted, Unmistakable
    <2>1. p \in bidForm.registered <=> p \in bidForm.taken
      BY DEF BidInv, BidFormInv
    <2>2. bidForm.own # p
      BY <1>1 DEF BidInv, BidFormInv
    <2> QED BY <2>1, <2>2 DEF AvailableProposals
  <1>3. BidTypeOK
    <2>1. bidForm.proposal \in BidProposals \cup {None} /\ bidForm.registered \subseteq BidProposals
      BY <1>1 DEF BidShape
    <2> QED BY <2>1 DEF BidInv, BidRowsInv, BidTypeOK
  <1> QED BY <1>2, <1>3

-----------------------------------------------------------------------------
(* Results of PRB meetings.                                                *)

ShownTexts == ResultTexts \cup {NoText}
ReportOrNone == {NoReport} \cup Reports

ResFields ==
    {"kind", "phase", "chosen", "about", "asked", "text", "rows", "version", "detail", "listed", "changes", "elsewhere"}

\* A record with the fields of the form, about a report there is.
IsResForm(f) ==
    /\ f = [x \in ResFields |-> f[x]]
    /\ f.chosen \in ReportOrNone /\ f.about \in ReportOrNone /\ f.text \in ShownTexts

\* The parts of the form that a look at the reports leaves alone.
SameTurn(f, g) ==
    /\ f.kind = g.kind /\ f.phase = g.phase /\ f.version = g.version /\ f.detail = g.detail /\ f.listed = g.listed
    /\ f.changes = g.changes /\ f.elsewhere = g.elsewhere

IsContent(c) == c.about \in Reports /\ c.text \in ShownTexts

IsResult(row) ==
    /\ row = [x \in {"live", "now", "past"} |-> row[x]]
    /\ IsContent(row.now) /\ InOrder(row.past)
    /\ \A v \in DOMAIN row.past : IsContent(row.past[v])

\* At most one result; none exactly while a new one is written.
ResultsInv ==
    /\ resForm.kind # "new" => DOMAIN result = {1}
    /\ result = [q \in DOMAIN result |-> result[q]] /\ DOMAIN result \subseteq {1}
    /\ \A q \in DOMAIN result : IsResult(result[q])

ResFormInv ==
    /\ IsResForm(resForm) /\ resForm.kind \in {"new", "edit", "detail"}
    /\ resForm.changes \in Nat /\ resForm.elsewhere \in Nat
    /\ resForm.changes + resForm.elsewhere <= MaxResultSteps
    /\ resForm.listed \in Nat
    /\ resForm.listed # 0 => 1 \in DOMAIN result /\ resForm.listed <= Len(result[1].past)

\* A version that is still wanted is the one chosen.
ResReadsInv ==
    /\ resReads \subseteq [version : 1..resForm.listed, step : {"reports", "version"}, wanted : BOOLEAN]
    /\ \A q \in resReads : q.wanted => q.version = resForm.version
    /\ ChosenVersionShown

ResSendFields == {"phase", "text", "shown", "rows", "said", "known"}
IsResSend(e) == e = [x \in ResSendFields |-> e[x]] /\ e.text \in ShownTexts

ResSendsInv ==
    /\ resSend = [s \in ResultSends |-> resSend[s]]
    /\ \A s \in ResultSends : IsResSend(resSend[s])

ResInv ==
    /\ ResultsInv /\ ResFormInv /\ ResReadsInv
    /\ resFaults \in 0..MaxResultFaults
    /\ ResSendsInv

LEMMA ReportsCount == ASSUME NEW own \in SUBSET Reports PROVE IsFiniteSet(own) /\ Cardinality(own) \in Nat /\ (Cardinality(own) = 0 <=> own = {})
  <1>1. Len(RepresentedBy) \in Nat /\ Reports = 1..Len(RepresentedBy)
    BY LenProperties, PrbResultAssumption DEF Reports
  <1>2. IsFiniteSet(1..Len(RepresentedBy))
    BY <1>1, FS_Interval
  <1>3. IsFiniteSet(own)
    BY <1>1, <1>2, FS_Subset
  <1> QED BY <1>3, FS_CardinalityType, FS_EmptySet

LEMMA LooksAgain ==
    ASSUME NEW f, IsResForm(f), NEW seen
    PROVE  IsResForm(LookedAgain(f, seen)) /\ SameTurn(LookedAgain(f, seen), f)
  <1> DEFINE own == Candidates(seen)
             one == CHOOSE r \in own : TRUE
             again == LookedAgain(f, seen)
  <1>1. own \in SUBSET Reports
    BY DEF Candidates
  <1>2. Cardinality(own) \in Nat /\ (Cardinality(own) = 0 <=> own = {})
    BY <1>1, ReportsCount
  <1>3. CASE Cardinality(own) = 1
    <2>1. one \in ReportOrNone
      BY <1>1, <1>2, <1>3 DEF ReportOrNone
    <2>2. again = [f EXCEPT !.chosen = one, !.about = one, !.asked = FALSE]
      BY <1>2, <1>3 DEF LookedAgain
    <2> HIDE DEF one, again
    <2>3. IsResForm(again) /\ SameTurn(again, f)
      BY <2>1, <2>2 DEF IsResForm, ResFields, SameTurn
    <2> QED BY <2>3 DEF again
  <1>4. CASE Cardinality(own) > 1
    <2>1. again = [f EXCEPT !.chosen = NoReport, !.asked = TRUE]
      BY <1>2, <1>4 DEF LookedAgain
    <2> HIDE DEF again
    <2>2. IsResForm(again) /\ SameTurn(again, f)
      BY <2>1 DEF IsResForm, ResFields, SameTurn, ReportOrNone
    <2> QED BY <2>2 DEF again
  <1>5. CASE Cardinality(own) = 0
    <2>1. again = [f EXCEPT !.chosen = NoReport, !.about = NoReport, !.text = NoText, !.rows = NoRows]
      BY <1>2, <1>5 DEF LookedAgain
    <2> HIDE DEF again
    <2>2. IsResForm(again) /\ SameTurn(again, f)
      BY <2>1 DEF IsResForm, ResFields, SameTurn, ReportOrNone, ShownTexts
    <2> QED BY <2>2 DEF again
  <1> QED BY <1>2, <1>3, <1>4, <1>5

\* The form with other contents, in the same turn; what is asked for is still to come.
LEMMA ResFormKeeps ==
    ASSUME ResInv, IsResForm(resForm'), resForm'.kind = resForm.kind, resForm'.listed = resForm.listed,
           resForm'.version = resForm.version, resForm'.detail = resForm.detail \/ resForm'.detail \in {0, resForm.version},
           resForm'.changes \in Nat, resForm'.elsewhere \in Nat, resForm'.changes + resForm'.elsewhere <= MaxResultSteps,
           UNCHANGED <<result, resReads, resFaults, resSend>>
    PROVE  ResInv'
  <1>1. ResultsInv'
    BY DEF ResInv, ResultsInv
  <1>2. ResFormInv'
    BY DEF ResInv, ResFormInv, IsResForm
  <1>3. ResReadsInv'
    BY DEF ResInv, ResReadsInv, ChosenVersionShown
  <1> QED BY <1>1, <1>2, <1>3 DEF ResInv, ResSendsInv

LEMMA ResChanges ==
    ASSUME ResInv,
           \/ RefreshReports
           \/ \E r \in Reports : ReportChanges(r) \/ ChooseReport(r)
           \/ \E text \in ResultTexts : TypeResult(text)
           \/ \E i \in AttendeeRows : \/ \E u \in Attenders : PickAttendee(i, u)
                                      \/ \E text \in ResultTexts : TypeAttendeeOpinion(i, text)
    PROVE  ResInv'
  <1>0. /\ IsResForm(resForm) /\ resForm.changes \in Nat /\ resForm.elsewhere \in Nat
        /\ MaxResultSteps \in Nat
    BY PrbResultAssumption DEF ResInv, ResFormInv
  <1>1. ASSUME NEW next, IsResForm(next), SameTurn(next, resForm),
               StepsLeft, resForm' = [next EXCEPT !.elsewhere = @ + 1] \/ resForm' = [next EXCEPT !.changes = @ + 1],
               UNCHANGED <<result, resReads, resFaults, resSend>>
        PROVE  ResInv'
    <2>1. IsResForm(resForm')
      BY <1>1 DEF IsResForm, ResFields
    <2>2. /\ resForm'.kind = resForm.kind /\ resForm'.listed = resForm.listed
          /\ resForm'.version = resForm.version /\ resForm'.detail = resForm.detail
      BY <1>1 DEF IsResForm, ResFields, SameTurn
    <2>3. \/ resForm'.changes = resForm.changes + 1 /\ resForm'.elsewhere = resForm.elsewhere
          \/ resForm'.changes = resForm.changes /\ resForm'.elsewhere = resForm.elsewhere + 1
      BY <1>1 DEF IsResForm, ResFields, SameTurn
    <2>4. resForm'.changes \in Nat /\ resForm'.elsewhere \in Nat /\ resForm'.changes + resForm'.elsewhere <= MaxResultSteps
      BY <1>0, <1>1, <2>3 DEF StepsLeft
    <2> QED BY <1>1, <2>1, <2>2, <2>4, ResFormKeeps
  <1>2. CASE RefreshReports
    <2> DEFINE next == LookedAgain(resForm, report)
    <2>1. IsResForm(next) /\ SameTurn(next, resForm)
      BY <1>0, LooksAgain
    <2>2. StepsLeft /\ resForm' = [next EXCEPT !.elsewhere = @ + 1] /\ UNCHANGED <<result, resReads, resFaults, resSend>>
      BY <1>2 DEF RefreshReports
    <2> HIDE DEF next
    <2> QED BY <1>1, <2>1, <2>2
  <1>3. ASSUME NEW r \in Reports, ReportChanges(r) PROVE ResInv'
    <2>1. SameTurn(resForm, resForm)
      BY DEF SameTurn
    <2> QED BY <1>0, <1>1, <1>3, <2>1 DEF ReportChanges
  <1>4. ASSUME NEW next, IsResForm(next), SameTurn(next, resForm), ChangeResult(next) PROVE ResInv'
    BY <1>1, <1>4 DEF ChangeResult
  <1>5. ASSUME NEW r \in Reports, ChooseReport(r) PROVE ResInv'
    <2> DEFINE next == [resForm EXCEPT !.chosen = r, !.about = r, !.asked = FALSE]
    <2>1. IsResForm(next) /\ SameTurn(next, resForm)
      BY <1>0 DEF IsResForm, ResFields, SameTurn, ReportOrNone
    <2>2. ChangeResult(next)
      BY <1>5 DEF ChooseReport
    <2> HIDE DEF next
    <2> QED BY <1>4, <2>1, <2>2
  <1>6. ASSUME NEW text \in ResultTexts, TypeResult(text) PROVE ResInv'
    <2> DEFINE next == [resForm EXCEPT !.text = text]
    <2>1. IsResForm(next) /\ SameTurn(next, resForm)
      BY <1>0 DEF IsResForm, ResFields, SameTurn, ShownTexts
    <2>2. ChangeResult(next)
      BY <1>6 DEF TypeResult
    <2> HIDE DEF next
    <2> QED BY <1>4, <2>1, <2>2
  <1>7. ASSUME NEW rows, ChangeResult([resForm EXCEPT !.rows = rows]) PROVE ResInv'
    <2> DEFINE next == [resForm EXCEPT !.rows = rows]
    <2>1. IsResForm(next) /\ SameTurn(next, resForm)
      BY <1>0 DEF IsResForm, ResFields, SameTurn
    <2>2. ChangeResult(next)
      BY <1>7
    <2> HIDE DEF next
    <2> QED BY <1>4, <2>1, <2>2
  <1>8. ASSUME NEW i \in AttendeeRows, NEW u \in Attenders, PickAttendee(i, u) PROVE ResInv'
    <2> DEFINE rows == [resForm.rows EXCEPT ![i].who = u, ![i].named = FALSE]
    <2>1. ChangeResult([resForm EXCEPT !.rows = rows])
      BY <1>8, <1>0 DEF PickAttendee, IsResForm, ResFields
    <2> HIDE DEF rows
    <2> QED BY <1>7, <2>1
  <1>9. ASSUME NEW i \in AttendeeRows, NEW text \in ResultTexts, TypeAttendeeOpinion(i, text) PROVE ResInv'
    <2> DEFINE rows == [resForm.rows EXCEPT ![i].text = text]
    <2>1. ChangeResult([resForm EXCEPT !.rows = rows])
      BY <1>9 DEF TypeAttendeeOpinion
    <2> HIDE DEF rows
    <2> QED BY <1>7, <2>1
  <1> QED BY <1>2, <1>3, <1>5, <1>6, <1>8, <1>9

\* The results stay, and the form in its turn but for the version.
LEMMA ResTurnKeeps ==
    ASSUME ResInv, UNCHANGED <<result, resSend>>, resFaults' \in 0..MaxResultFaults, ResReadsInv',
           IsResForm(resForm'), resForm'.kind = resForm.kind, resForm'.listed = resForm.listed,
           resForm'.changes \in Nat, resForm'.elsewhere \in Nat, resForm'.changes + resForm'.elsewhere <= MaxResultSteps
    PROVE  ResInv'
  <1>1. ResultsInv'
    BY DEF ResInv, ResultsInv
  <1>2. ResFormInv'
    BY DEF ResInv, ResFormInv, IsResForm
  <1> QED BY <1>1, <1>2 DEF ResInv, ResSendsInv

LEMMA PastIsList == ASSUME ResInv, 1 \in DOMAIN result PROVE Len(result[1].past) \in Nat /\ DOMAIN result[1].past = 1..Len(result[1].past)
  BY Added DEF ResInv, ResultsInv, IsResult

LEMMA VersionsListedKeeps ==
    ASSUME ResInv, VersionsListed
    PROVE  ResInv'
  <1> DEFINE n == Len(result[1].past)
  <1>0. /\ IsResForm(resForm) /\ resForm.listed = 0 /\ resForm.kind = "detail" /\ resForm' = [resForm EXCEPT !.listed = n]
        /\ UNCHANGED <<report, reportSeen, result, resReads, resSend, resFaults>>
    BY DEF VersionsListed, ResInv, ResFormInv
  <1>1. 1 \in DOMAIN result /\ n \in Nat
    <2>1. 1 \in DOMAIN result
      BY <1>0 DEF ResInv, ResultsInv
    <2> QED BY <2>1, PastIsList
  <1> HIDE DEF n
  <1>2. /\ IsResForm(resForm') /\ resForm'.kind = resForm.kind /\ resForm'.listed = n
        /\ resForm'.version = resForm.version /\ resForm'.detail = resForm.detail
        /\ resForm'.changes = resForm.changes /\ resForm'.elsewhere = resForm.elsewhere
    BY <1>0 DEF IsResForm, ResFields
  <1>3. ResultsInv'
    BY <1>0, <1>2 DEF ResInv, ResultsInv
  <1>4. ResFormInv'
    BY <1>0, <1>1, <1>2 DEF ResInv, ResFormInv, IsResForm, n
  <1>5. resReads = {}
    <2>1. 1..0 = {}
      OBVIOUS
    <2> QED BY <1>0, <2>1 DEF ResInv, ResReadsInv
  <1>6. ResReadsInv'
    BY <1>0, <1>2, <1>5 DEF ResInv, ResReadsInv, ChosenVersionShown
  <1> QED BY <1>0, <1>3, <1>4, <1>6 DEF ResInv, ResSendsInv

LEMMA OpenVersionKeeps ==
    ASSUME ResInv, NEW v \in 1..resForm.listed, OpenResultVersion(v)
    PROVE  ResInv'
  <1> DEFINE n == resForm.changes + 1
             ask == [version |-> v, step |-> "reports", wanted |-> TRUE]
             asked == [version : 1..resForm.listed, step : {"reports", "version"}, wanted : BOOLEAN]
  <1>0. /\ IsResForm(resForm) /\ resForm.changes \in Nat /\ resForm.elsewhere \in Nat /\ MaxResultSteps \in Nat
        /\ resForm.changes + resForm.elsewhere < MaxResultSteps
        /\ resForm' = [resForm EXCEPT !.version = v, !.changes = n]
        /\ resReads' = Cancelled(resReads) \cup {ask} /\ UNCHANGED <<result, resSend, resFaults>>
    BY PrbResultAssumption DEF ResInv, ResFormInv, OpenResultVersion, StepsLeft
  <1>1. n \in Nat /\ n + resForm.elsewhere <= MaxResultSteps
    BY <1>0
  <1> HIDE DEF n
  <1>2. /\ IsResForm(resForm') /\ resForm'.kind = resForm.kind /\ resForm'.listed = resForm.listed
        /\ resForm'.version = v /\ resForm'.changes = n /\ resForm'.elsewhere = resForm.elsewhere
    BY <1>0 DEF IsResForm, ResFields
  <1>3. ask \in asked /\ ask.wanted /\ ask.version = v
    OBVIOUS
  <1>4. \A q \in Cancelled(resReads) : q \in asked /\ ~q.wanted
    <2>1. \A q \in resReads : [q EXCEPT !.wanted = FALSE] \in asked /\ ~[q EXCEPT !.wanted = FALSE].wanted
      BY DEF ResInv, ResReadsInv
    <2> QED BY <2>1 DEF Cancelled
  <1> HIDE DEF ask, asked
  <1>5. ResReadsInv'
    <2>1. resReads' \subseteq asked /\ \A q \in resReads' : q.wanted => q.version = v
      BY <1>0, <1>3, <1>4
    <2>2. \E q \in resReads' : q.wanted /\ q.version = v
      BY <1>0, <1>3
    <2> QED BY <1>2, <2>1, <2>2 DEF ResReadsInv, ChosenVersionShown, asked
  <1> QED BY <1>0, <1>1, <1>2, <1>5, ResTurnKeeps DEF ResInv

LEMMA VersionAnswersKeep ==
    ASSUME ResInv, NEW q \in resReads, VersionReports(q) \/ ResultVersionArrives(q) \/ ResultVersionFails(q)
    PROVE  ResInv'
  <1> DEFINE asked == [version : 1..resForm.listed, step : {"reports", "version"}, wanted : BOOLEAN]
  <1>0. /\ IsResForm(resForm) /\ resForm.changes \in Nat /\ resForm.elsewhere \in Nat /\ MaxResultFaults \in Nat
        /\ resForm.changes + resForm.elsewhere <= MaxResultSteps
        /\ resReads \subseteq asked /\ q \in asked /\ (q.wanted => q.version = resForm.version)
        /\ \A p \in resReads : p.wanted => p.version = resForm.version
        /\ resFaults \in 0..MaxResultFaults
    BY PrbResultAssumption DEF ResInv, ResFormInv, ResReadsInv
  <1>1. CASE VersionReports(q)
    <2> DEFINE next == [q EXCEPT !.step = "version"]
    <2>1. next \in asked /\ next.wanted = q.wanted /\ next.version = q.version
      BY <1>0
    <2>2. /\ resForm' = LookedAgain(resForm, report) /\ resReads' = (resReads \ {q}) \cup {next}
          /\ UNCHANGED <<result, resSend, resFaults>>
      BY <1>1 DEF VersionReports
    <2> HIDE DEF next
    <2>3. IsResForm(resForm') /\ SameTurn(resForm', resForm)
      BY <1>0, <2>2, LooksAgain
    <2>4. ResReadsInv'
      <3>1. resReads' \subseteq asked /\ \A p \in resReads' : p.wanted => p.version = resForm.version
        BY <1>0, <2>1, <2>2
      <3>2. ChosenVersionShown'
        BY <1>0, <2>1, <2>2, <2>3 DEF ResInv, ResReadsInv, ChosenVersionShown, SameTurn
      <3> QED BY <2>3, <3>1, <3>2 DEF ResReadsInv, SameTurn
    <2> QED BY <1>0, <2>2, <2>3, <2>4, ResTurnKeeps DEF SameTurn
  <1>2. ASSUME IsResForm(resForm'), resForm'.kind = resForm.kind, resForm'.listed = resForm.listed, resForm'.version = resForm.version,
               resForm'.changes = resForm.changes, resForm'.elsewhere = resForm.elsewhere,
               q.wanted => resForm'.detail \in {0, resForm.version},
               ~q.wanted => resForm'.detail = resForm.detail,
               resReads' = resReads \ {q}, UNCHANGED <<result, resSend>>, resFaults' \in 0..MaxResultFaults
        PROVE  ResInv'
    <2>1. ResReadsInv'
      <3>1. resReads' \subseteq asked /\ \A p \in resReads' : p.wanted => p.version = resForm.version
        BY <1>0, <1>2
      <3>2. ChosenVersionShown'
        BY <1>0, <1>2 DEF ResInv, ResReadsInv, ChosenVersionShown
      <3> QED BY <1>2, <3>1, <3>2 DEF ResReadsInv
    <2> QED BY <1>0, <1>2, <2>1, ResTurnKeeps
  <1>3. CASE ResultVersionArrives(q)
    <2> DEFINE content == result[1].past[q.version]
               detail == q.version
               text == content.text
               rows == RowsOf(content)
               about == content.about
               chosen == IF reportSeen[content.about] = "gone" THEN NoReport ELSE content.about
    <2>1. resReads' = resReads \ {q} /\ UNCHANGED <<result, resSend, resFaults>>
      BY <1>3 DEF ResultVersionArrives
    <2>2. CASE q.wanted
      <3>1. resForm' = [resForm EXCEPT !.detail = detail, !.text = text, !.rows = rows, !.about = about, !.chosen = chosen]
        BY <1>3, <2>2 DEF ResultVersionArrives, StillWanted
      <3>2. IsContent(content)
        <4>1. q.version \in 1..resForm.listed /\ resForm.listed \in Nat
          BY <1>0 DEF ResInv, ResFormInv
        <4>2. 1 \in DOMAIN result /\ resForm.listed <= Len(result[1].past)
          BY <4>1 DEF ResInv, ResFormInv
        <4>3. q.version \in DOMAIN result[1].past
          BY <4>1, <4>2, PastIsList
        <4> QED BY <4>2, <4>3 DEF ResInv, ResultsInv, IsResult
      <3>3. text \in ShownTexts /\ about \in ReportOrNone /\ chosen \in ReportOrNone
        BY <3>2 DEF IsContent, ReportOrNone
      <3>4. detail = resForm.version
        BY <1>0, <2>2
      <3> HIDE DEF detail, text, rows, about, chosen
      <3>5. /\ IsResForm(resForm') /\ resForm'.kind = resForm.kind /\ resForm'.listed = resForm.listed /\ resForm'.version = resForm.version
            /\ resForm'.changes = resForm.changes /\ resForm'.elsewhere = resForm.elsewhere /\ resForm'.detail = detail
        BY <1>0, <3>1, <3>3 DEF IsResForm, ResFields
      <3> QED BY <1>0, <1>2, <2>1, <2>2, <3>4, <3>5
    <2>3. CASE ~q.wanted
      <3>1. resForm' = resForm
        BY <1>3, <2>3 DEF ResultVersionArrives, StillWanted
      <3> QED BY <1>0, <1>2, <2>1, <2>3, <3>1
    <2> QED BY <2>2, <2>3
  <1>4. CASE ResultVersionFails(q)
    <2>1. resReads' = resReads \ {q} /\ UNCHANGED <<result, resSend>> /\ resFaults < MaxResultFaults /\ resFaults' = resFaults + 1
      BY <1>4 DEF ResultVersionFails
    <2>2. resFaults' \in 0..MaxResultFaults
      BY <1>0, <2>1
    <2>3. CASE q.wanted
      <3>1. resForm' = [resForm EXCEPT !.detail = 0]
        BY <1>4, <2>3 DEF ResultVersionFails, StillWanted
      <3>2. /\ IsResForm(resForm') /\ resForm'.kind = resForm.kind /\ resForm'.listed = resForm.listed /\ resForm'.version = resForm.version
            /\ resForm'.changes = resForm.changes /\ resForm'.elsewhere = resForm.elsewhere /\ resForm'.detail = 0
        BY <1>0, <3>1 DEF IsResForm, ResFields
      <3> QED BY <1>2, <2>1, <2>2, <2>3, <3>2
    <2>4. CASE ~q.wanted
      <3>1. resForm' = resForm
        BY <1>4, <2>4 DEF ResultVersionFails, StillWanted
      <3> QED BY <1>0, <1>2, <2>1, <2>2, <2>4, <3>1
    <2> QED BY <2>3, <2>4
  <1> QED BY <1>1, <1>3, <1>4

LEMMA CloseVersionKeeps ==
    ASSUME ResInv, CloseResultVersion
    PROVE  ResInv'
  <1> DEFINE asked == [version : 1..resForm.listed, step : {"reports", "version"}, wanted : BOOLEAN]
  <1>0. /\ IsResForm(resForm) /\ resForm.changes \in Nat /\ resForm.elsewhere \in Nat
        /\ resForm.changes + resForm.elsewhere <= MaxResultSteps
        /\ resForm' = [resForm EXCEPT !.version = 0, !.detail = 0]
        /\ resReads' = Cancelled(resReads) /\ UNCHANGED <<result, resSend, resFaults>>
    BY DEF ResInv, ResFormInv, CloseResultVersion
  <1>1. /\ IsResForm(resForm') /\ resForm'.kind = resForm.kind /\ resForm'.listed = resForm.listed /\ resForm'.detail = 0
        /\ resForm'.changes = resForm.changes /\ resForm'.elsewhere = resForm.elsewhere
    BY <1>0 DEF IsResForm, ResFields
  <1>2. \A q \in Cancelled(resReads) : q \in asked /\ ~q.wanted
    <2>1. \A q \in resReads : [q EXCEPT !.wanted = FALSE] \in asked /\ ~[q EXCEPT !.wanted = FALSE].wanted
      BY DEF ResInv, ResReadsInv
    <2> QED BY <2>1 DEF Cancelled
  <1> HIDE DEF asked
  <1>3. resReads' \subseteq asked /\ \A q \in resReads' : ~q.wanted
    BY <1>0, <1>2
  <1>4. ResReadsInv'
    BY <1>1, <1>3 DEF ResReadsInv, ChosenVersionShown, asked
  <1> QED BY <1>0, <1>1, <1>4, ResTurnKeeps DEF ResInv

\* Sending changes the form only where a look at the reports does, or closes it.
LEMMA ResSendKeeps ==
    ASSUME ResInv, ResSendsInv', resFaults' = resFaults \/ (resFaults < MaxResultFaults /\ resFaults' = resFaults + 1),
           resForm' \in {resForm, [resForm EXCEPT !.phase = "left"], LookedAgain(resForm, report)},
           UNCHANGED <<result, resReads>>
    PROVE  ResInv'
  <1>0. /\ IsResForm(resForm) /\ resForm.changes \in Nat /\ resForm.elsewhere \in Nat /\ MaxResultFaults \in Nat
        /\ resForm.changes + resForm.elsewhere <= MaxResultSteps
    BY PrbResultAssumption DEF ResInv, ResFormInv
  <1>1. /\ IsResForm(resForm') /\ resForm'.kind = resForm.kind /\ resForm'.version = resForm.version /\ resForm'.detail = resForm.detail
        /\ resForm'.listed = resForm.listed /\ resForm'.changes = resForm.changes /\ resForm'.elsewhere = resForm.elsewhere
    <2>1. CASE resForm' = resForm
      BY <1>0, <2>1
    <2>2. CASE resForm' = [resForm EXCEPT !.phase = "left"]
      BY <1>0, <2>2 DEF IsResForm, ResFields
    <2>3. CASE resForm' = LookedAgain(resForm, report)
      BY <1>0, <2>3, LooksAgain DEF SameTurn
    <2> QED BY <2>1, <2>2, <2>3
  <1>2. ResultsInv'
    BY <1>1 DEF ResInv, ResultsInv
  <1>3. ResFormInv'
    BY <1>0, <1>1 DEF ResInv, ResFormInv, IsResForm
  <1>4. ResReadsInv'
    BY <1>1 DEF ResInv, ResReadsInv, ChosenVersionShown
  <1>5. resFaults' \in 0..MaxResultFaults
    BY <1>0 DEF ResInv
  <1> QED BY <1>2, <1>3, <1>4, <1>5 DEF ResInv

LEMMA ResEntry ==
    ASSUME ResInv, NEW s \in ResultSends, NEW e, IsResSend(e), resSend' = [resSend EXCEPT ![s] = e]
    PROVE  ResSendsInv'
  BY DEF ResInv, ResSendsInv, IsResSend

LEMMA SavingResult ==
    ASSUME ResInv, NEW s \in ResultSends, SaveResult(s) \/ SaveReports(s) \/ UserTold(s)
    PROVE  ResInv'
  <1> DEFINE was == resSend[s]
  <1>0. IsResSend(was) /\ resForm.text \in ShownTexts
    BY DEF ResInv, ResSendsInv, ResFormInv, IsResForm
  <1>1. CASE SaveResult(s)
    <2> DEFINE text == resForm.text
               rows == resForm.rows
               e == [was EXCEPT !.phase = "reports", !.text = text, !.shown = text, !.rows = rows]
    <2>1. resSend' = [resSend EXCEPT ![s] = e] /\ UNCHANGED <<result, resForm, resReads, resFaults>>
      BY <1>1, <1>0 DEF SaveResult, ResInv, ResSendsInv, IsResSend, ResSendFields
    <2>2. text \in ShownTexts
      BY <1>0
    <2> HIDE DEF text, rows, was
    <2>3. IsResSend(e)
      BY <1>0, <2>2 DEF IsResSend, ResSendFields
    <2> HIDE DEF e
    <2> QED BY <2>1, <2>3, ResEntry, ResSendKeeps
  <1>2. CASE SaveReports(s)
    <2> DEFINE e == [was EXCEPT !.phase = "user"]
    <2>1. /\ resSend' = [resSend EXCEPT ![s] = e] /\ resForm' = LookedAgain(resForm, report)
          /\ UNCHANGED <<result, resReads, resFaults>>
      BY <1>2 DEF SaveReports
    <2> HIDE DEF was
    <2>2. IsResSend(e)
      BY <1>0 DEF IsResSend, ResSendFields
    <2> HIDE DEF e
    <2> QED BY <2>1, <2>2, ResEntry, ResSendKeeps
  <1>3. ASSUME NEW known \in BOOLEAN,
               IF known THEN UNCHANGED resFaults ELSE resFaults < MaxResultFaults /\ resFaults' = resFaults + 1,
               resSend' = [resSend EXCEPT ![s].phase = "sent", ![s].known = known,
                             ![s].text = TextSent(s), ![s].said = RowsSent(resSend[s].rows, known)],
               UNCHANGED <<result, resForm, resReads>>
        PROVE  ResInv'
    <2> DEFINE text == TextSent(s)
               said == RowsSent(was.rows, known)
               e == [was EXCEPT !.phase = "sent", !.known = known, !.text = text, !.said = said]
    <2>1. resSend' = [resSend EXCEPT ![s] = e]
      BY <1>3, <1>0 DEF ResInv, ResSendsInv, IsResSend, ResSendFields
    <2>2. text \in ShownTexts
      BY <1>0 DEF TextSent, IsResSend
    <2> HIDE DEF text, said, was
    <2>3. IsResSend(e)
      BY <1>0, <2>2 DEF IsResSend, ResSendFields
    <2> HIDE DEF e
    <2> QED BY <1>3, <2>1, <2>3, ResEntry, ResSendKeeps
  <1> QED BY <1>1, <1>2, <1>3 DEF UserTold

\* What is written keeps the former content as a version.
LEMMA ResultWrites ==
    ASSUME ResInv, NEW s \in ResultSends, ~ResultRefused(s)
    PROVE  /\ 1 \in DOMAIN result /\ Len(ResultWritten(s)[1].past) = Len(result[1].past) + 1
           /\ DOMAIN ResultWritten(s) = DOMAIN result
           /\ ResultWritten(s) = [q \in DOMAIN result |-> ResultWritten(s)[q]]
           /\ \A q \in DOMAIN result : IsResult(ResultWritten(s)[q])
  <1> DEFINE row == result[1]
             now == [about |-> row.now.about, text |-> resSend[s].text, said |-> resSend[s].said]
             past == Append(row.past, row.now)
             next == [row EXCEPT !.past = past, !.now = now]
             written == ResultWritten(s)
  <1>1. /\ 1 \in DOMAIN result /\ result = [q \in DOMAIN result |-> result[q]] /\ DOMAIN result \subseteq {1}
        /\ IsResult(row) /\ resSend[s].text \in ShownTexts
    BY DEF ResInv, ResultsInv, ResultRefused, ResSendsInv, IsResSend
  <1>2. written = [result EXCEPT ![1] = next]
    BY DEF ResultWritten, Overwritten
  <1>3. IsContent(now)
    BY <1>1 DEF IsContent, IsResult
  <1>4. InOrder(past) /\ Len(past) = Len(row.past) + 1 /\ \A v \in DOMAIN past : IsContent(past[v])
    <2>1. InOrder(row.past) /\ IsContent(row.now) /\ \A v \in DOMAIN row.past : IsContent(row.past[v])
      BY <1>1 DEF IsResult
    <2> DEFINE old == row.past
               last == row.now
               all == Append(old, last)
    <2>2. /\ InOrder(all) /\ Len(old) \in Nat /\ DOMAIN old = 1..Len(old) /\ Len(all) = Len(old) + 1
          /\ \A k \in 1..Len(old) : all[k] = old[k]
          /\ all[Len(old) + 1] = last
      <3> HIDE DEF old, last
      <3> QED BY <2>1, Added DEF old
    <2>3. DOMAIN all = 1..Len(all) /\ Len(all) \in Nat
      <3> HIDE DEF all
      <3> QED BY <2>2, Added
    <2>4. ASSUME NEW v \in DOMAIN all PROVE IsContent(all[v])
      <3>1. v \in 1..Len(old) \/ v = Len(old) + 1
        BY <2>2, <2>3, <2>4
      <3> QED BY <2>1, <2>2, <3>1
    <2> QED BY <2>2, <2>4
  <1> HIDE DEF now, past
  <1>5. IsResult(next) /\ next.past = past
    <2>1. /\ next = [x \in {"live", "now", "past"} |-> next[x]] /\ next.now = now /\ next.past = past
      BY <1>1 DEF IsResult
    <2> HIDE DEF next
    <2> QED BY <1>3, <1>4, <2>1 DEF IsResult
  <1> HIDE DEF next, written
  <1>6. /\ DOMAIN written = DOMAIN result /\ written = [q \in DOMAIN result |-> written[q]] /\ written[1] = next
        /\ \A q \in DOMAIN result : IsResult(written[q])
    BY <1>1, <1>2, <1>5
  <1> QED BY <1>1, <1>4, <1>5, <1>6 DEF written

LEMMA WrittenKeeps ==
    ASSUME ResInv, NEW s \in ResultSends, ~ResultRefused(s), result' = ResultWritten(s), ResSendsInv',
           resFaults' = resFaults \/ (resFaults < MaxResultFaults /\ resFaults' = resFaults + 1),
           resForm' \in {resForm, [resForm EXCEPT !.phase = "left"]}, UNCHANGED resReads
    PROVE  ResInv'
  <1>0. /\ IsResForm(resForm) /\ resForm.listed \in Nat /\ MaxResultFaults \in Nat
        /\ resForm.listed # 0 => 1 \in DOMAIN result /\ resForm.listed <= Len(result[1].past)
    BY PrbResultAssumption DEF ResInv, ResFormInv
  <1>1. /\ IsResForm(resForm') /\ resForm'.kind = resForm.kind /\ resForm'.version = resForm.version /\ resForm'.detail = resForm.detail
        /\ resForm'.listed = resForm.listed /\ resForm'.changes = resForm.changes /\ resForm'.elsewhere = resForm.elsewhere
    BY <1>0 DEF IsResForm, ResFields
  <1>2. /\ 1 \in DOMAIN result /\ Len(result'[1].past) = Len(result[1].past) + 1
        /\ DOMAIN result' = DOMAIN result /\ result' = [q \in DOMAIN result |-> result'[q]]
        /\ \A q \in DOMAIN result : IsResult(result'[q])
    BY ResultWrites
  <1>3. ResultsInv'
    BY <1>1, <1>2 DEF ResInv, ResultsInv
  <1>4. ResFormInv'
    <2>1. resForm.listed # 0 => resForm.listed <= Len(result'[1].past)
      BY <1>0, <1>2, PastIsList
    <2> QED BY <1>1, <1>2, <2>1 DEF ResInv, ResFormInv, IsResForm
  <1>5. ResReadsInv'
    BY <1>1 DEF ResInv, ResReadsInv, ChosenVersionShown
  <1>6. resFaults' \in 0..MaxResultFaults
    BY <1>0 DEF ResInv
  <1> QED BY <1>3, <1>4, <1>5, <1>6 DEF ResInv

LEMMA ResultAnswers ==
    ASSUME ResInv, NEW s \in ResultSends, ResultAnswered(s) \/ ResultFails(s)
    PROVE  ResInv'
  <1>1. PICK phase : /\ resSend' = [resSend EXCEPT ![s].phase = phase] /\ UNCHANGED resReads
                     /\ result' = result \/ (~ResultRefused(s) /\ result' = ResultWritten(s))
                     /\ resForm' \in {resForm, [resForm EXCEPT !.phase = "left"]}
                     /\ resFaults' = resFaults \/ (resFaults < MaxResultFaults /\ resFaults' = resFaults + 1)
    BY DEF ResultAnswered, ResultFails
  <1> DEFINE was == resSend[s]
             e == [was EXCEPT !.phase = phase]
  <1>2. IsResSend(was) /\ resSend' = [resSend EXCEPT ![s] = e]
    BY <1>1 DEF ResInv, ResSendsInv
  <1> HIDE DEF was
  <1>3. IsResSend(e)
    BY <1>2 DEF IsResSend, ResSendFields
  <1> HIDE DEF e
  <1>4. ResSendsInv'
    BY <1>2, <1>3, ResEntry
  <1>5. CASE result' = result
    BY <1>1, <1>4, <1>5, ResSendKeeps
  <1>6. CASE ~ResultRefused(s) /\ result' = ResultWritten(s)
    BY <1>1, <1>4, <1>6, WrittenKeeps
  <1> QED BY <1>1, <1>5, <1>6

LEMMA DeleteResultKeeps ==
    ASSUME ResInv, DeleteResult
    PROVE  ResInv'
  <1> DEFINE row == [result[1] EXCEPT !.live = FALSE]
  <1>0. /\ IsResForm(resForm) /\ resForm.kind = "detail" /\ 1 \in DOMAIN result /\ IsResult(result[1])
        /\ result = [q \in DOMAIN result |-> result[q]] /\ DOMAIN result \subseteq {1}
    BY DEF DeleteResult, ResInv, ResFormInv, ResultsInv
  <1>1. IsResult(row) /\ row.past = result[1].past
    <2>1. /\ row = [x \in {"live", "now", "past"} |-> row[x]] /\ row.now = result[1].now /\ row.past = result[1].past
      BY <1>0 DEF IsResult
    <2> HIDE DEF row
    <2> QED BY <1>0, <2>1 DEF IsResult
  <1>2. result' = [result EXCEPT ![1] = row] /\ resForm' = [resForm EXCEPT !.phase = "left"] /\ UNCHANGED <<resReads, resSend, resFaults>>
    BY DEF DeleteResult
  <1> HIDE DEF row
  <1>3. /\ DOMAIN result' = DOMAIN result /\ result' = [q \in DOMAIN result |-> result'[q]] /\ result'[1].past = result[1].past
        /\ \A q \in DOMAIN result : IsResult(result'[q])
    BY <1>0, <1>1, <1>2
  <1>4. /\ IsResForm(resForm') /\ resForm'.kind = resForm.kind /\ resForm'.version = resForm.version /\ resForm'.detail = resForm.detail
        /\ resForm'.listed = resForm.listed /\ resForm'.changes = resForm.changes /\ resForm'.elsewhere = resForm.elsewhere
    BY <1>0, <1>2 DEF IsResForm, ResFields
  <1>5. ResultsInv'
    BY <1>0, <1>3, <1>4 DEF ResultsInv, ResInv
  <1>6. ResFormInv'
    BY <1>3, <1>4 DEF ResInv, ResFormInv, IsResForm
  <1>7. ResReadsInv'
    BY <1>2, <1>4 DEF ResInv, ResReadsInv, ChosenVersionShown
  <1> QED BY <1>2, <1>5, <1>6, <1>7 DEF ResInv, ResSendsInv

LEMMA ResInvStarts == PrbResultInit => ResInv
  <1> SUFFICES ASSUME PrbResultInit PROVE ResInv
    OBVIOUS
  <1>1. PICK kind \in {"new", "edit", "detail"}, rows \in FirstResults, reports \in FirstReports :
          LET blank == [kind |-> kind, phase |-> "open", chosen |-> NoReport, about |-> NoReport, asked |-> FALSE,
                       text |-> NoText, rows |-> NoRows, version |-> 0, detail |-> 0, listed |-> 0,
                       changes |-> 0, elsewhere |-> 0] IN
          /\ kind = "new" <=> rows = << >>
          /\ report = reports.server /\ reportSeen = reports.browser
          /\ result = rows
          /\ \E filled \in {blank} \cup {Prefilled(blank, text) : text \in {x \in ResultTexts : kind = "new"}} :
                resForm = LookedAgain(filled, reports.browser)
          /\ resReads = {}
          /\ resSend = [s \in ResultSends |-> NoResultSend]
          /\ resFaults = 0
    BY Zenon DEF PrbResultInit
  <1> DEFINE form0 == [kind |-> kind, phase |-> "open", chosen |-> NoReport, about |-> NoReport, asked |-> FALSE,
                       text |-> NoText, rows |-> NoRows, version |-> 0, detail |-> 0, listed |-> 0,
                       changes |-> 0, elsewhere |-> 0]
  <1>2. PICK filled \in {form0} \cup {Prefilled(form0, text) : text \in {x \in ResultTexts : kind = "new"}} :
          resForm = LookedAgain(filled, reports.browser)
    BY <1>1
  <1>3. IsResForm(filled) /\ SameTurn(filled, form0)
    <2>1. IsResForm(form0)
      BY DEF IsResForm, ResFields, ReportOrNone, ShownTexts
    <2>2. ASSUME NEW text \in ResultTexts PROVE IsResForm(Prefilled(form0, text)) /\ SameTurn(Prefilled(form0, text), form0)
      BY DEF Prefilled, IsResForm, ResFields, ReportOrNone, ShownTexts, SameTurn
    <2>3. SameTurn(form0, form0)
      BY DEF SameTurn
    <2> HIDE DEF form0
    <2> QED BY <1>2, <2>1, <2>2, <2>3
  <1>4. IsResForm(resForm) /\ SameTurn(resForm, filled)
    BY <1>2, <1>3, LooksAgain
  <1>5. /\ resForm.kind = kind /\ resForm.version = 0 /\ resForm.detail = 0 /\ resForm.listed = 0
        /\ resForm.changes = 0 /\ resForm.elsewhere = 0
    BY <1>3, <1>4 DEF SameTurn
  <1>6. result \in Seq([live : BOOLEAN, now : ResultContents, past : Seq(ResultContents)]) /\ Len(result) <= 1
    BY <1>1, PrbResultAssumption
  <1>7. ResultsInv
    <2>1. Len(result) \in Nat /\ DOMAIN result = 1..Len(result) /\ (result # << >> => Len(result) # 0)
      BY <1>6, LenProperties, EmptySeq
    <2>2. DOMAIN result \subseteq {1} /\ (result # << >> => DOMAIN result = {1})
      BY <1>6, <2>1
    <2>3. ASSUME NEW q \in DOMAIN result PROVE IsResult(result[q])
      <3>1. result[q] \in [live : BOOLEAN, now : ResultContents, past : Seq(ResultContents)]
        BY <1>6, <2>1, <2>3, ElementOfSeq
      <3>2. \A c \in ResultContents : IsContent(c)
        BY DEF ResultContents, IsContent, ShownTexts
      <3>3. result[q].past \in Seq(ResultContents) /\ result[q].now \in ResultContents
            /\ result[q] = [x \in {"live", "now", "past"} |-> result[q][x]]
        BY <3>1
      <3>4. \A v \in DOMAIN result[q].past : result[q].past[v] \in ResultContents
        BY <3>3, ElementOfSeq, LenProperties
      <3> QED BY <3>2, <3>3, <3>4, OfSomething DEF IsResult
    <2>4. result = [q \in DOMAIN result |-> result[q]]
      BY <1>6, LenProperties
    <2> QED BY <1>1, <1>5, <2>2, <2>3, <2>4 DEF ResultsInv
  <1>8. ResFormInv
    BY <1>1, <1>4, <1>5, PrbResultAssumption DEF ResFormInv
  <1>9. ResReadsInv
    BY <1>1, <1>5 DEF ResReadsInv, ChosenVersionShown
  <1>10. ResSendsInv
    <2>1. IsResSend(NoResultSend)
      BY DEF IsResSend, NoResultSend, ResSendFields, ShownTexts
    <2> QED BY <1>1, <2>1 DEF ResSendsInv
  <1> QED BY <1>1, <1>7, <1>8, <1>9, <1>10, PrbResultAssumption DEF ResInv

LEMMA ResInvStays == ResInv /\ PrbResultNext => ResInv'
  <1> SUFFICES ASSUME ResInv, PrbResultNext PROVE ResInv'
    OBVIOUS
  <1>1. CASE \/ RefreshReports
             \/ \E r \in Reports : ReportChanges(r) \/ ChooseReport(r)
             \/ \E text \in ResultTexts : TypeResult(text)
             \/ \E i \in AttendeeRows : \/ \E u \in Attenders : PickAttendee(i, u)
                                        \/ \E text \in ResultTexts : TypeAttendeeOpinion(i, text)
    BY <1>1, ResChanges
  <1>2. CASE \/ VersionsListed \/ CloseResultVersion \/ DeleteResult
             \/ \E v \in 1..resForm.listed : OpenResultVersion(v)
             \/ \E q \in resReads : VersionReports(q) \/ ResultVersionArrives(q) \/ ResultVersionFails(q)
    BY <1>2, VersionsListedKeeps, CloseVersionKeeps, DeleteResultKeeps, OpenVersionKeeps, VersionAnswersKeep
  <1>3. CASE \E s \in ResultSends : SaveResult(s) \/ SaveReports(s) \/ UserTold(s) \/ ResultAnswered(s) \/ ResultFails(s)
    BY <1>3, SavingResult, ResultAnswers
  <1> QED BY <1>1, <1>2, <1>3 DEF PrbResultNext

LEMMA ResInvRests == ResInv /\ UNCHANGED resVars => ResInv'
  <1> SUFFICES ASSUME ResInv, UNCHANGED resVars PROVE ResInv'
    OBVIOUS
  <1>1. ResSendsInv'
    BY DEF ResInv, ResSendsInv, resVars
  <1> QED BY <1>1, ResSendKeeps DEF resVars

LEMMA PrbResultPromises == ResInv => ChosenVersionShown /\ PrbResultTypeOK
  <1> SUFFICES ASSUME ResInv PROVE ChosenVersionShown /\ PrbResultTypeOK
    OBVIOUS
  <1>1. resForm.changes + resForm.elsewhere \in 0..MaxResultSteps
    BY PrbResultAssumption DEF ResInv, ResFormInv
  <1>2. \A q \in DOMAIN result : result[q].now.text \in ResultTexts \cup {NoText}
    BY DEF ResInv, ResultsInv, IsResult, IsContent, ShownTexts
  <1>3. resForm.chosen \in {NoReport} \cup Reports /\ resForm.about \in {NoReport} \cup Reports
    BY DEF ResInv, ResFormInv, IsResForm, ReportOrNone
  <1> QED BY <1>1, <1>2, <1>3 DEF ResInv, ResReadsInv, PrbResultTypeOK

-----------------------------------------------------------------------------
(* Quotations.                                                             *)

LEMMA OneQuotient ==
    ASSUME NEW n \in Nat, NEW d \in Nat, d > 0, NEW s \in Nat, NEW q \in Nat, q < d, n = s * d + q
    PROVE  n \div d = s
  OBVIOUS

\* Dividing the price of the whole line by the quantity gives the price of a unit back.
LEMMA UnitOfLine == ASSUME NEW s \in Nat, NEW q \in Nat \ {0} PROVE Rounded(s * q, q) = s
  <1> DEFINE d == 2 * q
             n == 2 * (s * q) + q
  <1>1. d \in Nat /\ d > 0 /\ n \in Nat /\ n = s * d + q /\ q < d /\ q \in Nat
    OBVIOUS
  <1>2. Rounded(s * q, q) = n \div d
    BY DEF Rounded
  <1> HIDE DEF n, d
  <1> QED BY <1>1, <1>2, OneQuotient

LEMMA RoundedIsNumber == ASSUME NEW n \in Nat, NEW d \in Nat \ {0} PROVE Rounded(n, d) \in Nat
  <1> DEFINE a == 2 * n + d
             b == 2 * d
  <1>1. a \in Nat /\ b \in Nat /\ b > 0 /\ Rounded(n, d) = a \div b
    BY DEF Rounded
  <1> HIDE DEF a, b
  <1>2. a \div b \in Nat
    BY <1>1
  <1> QED BY <1>1, <1>2

LEMMA UnitPriceIsNumber == ASSUME NEW row \in QuoteRow PROVE UnitPrice(row) \in Nat
  BY RoundedIsNumber DEF UnitPrice, QuoteRow

LEMMA CappedBelow ==
    ASSUME NEW c \in Nat, NEW o \in Nat
    PROVE  Capped(c, o) \in Nat /\ (c > 0 => Capped(c, o) < c)
  BY DEF Capped

QuoteSheetShape ==
    [phase : {"closed", "open"}, of : Nat, products : BOOLEAN, listed : Nat, quantity : Nat \ {0},
     offer : Nat, consumer : Nat, untouched : BOOLEAN]

\* The price shown for the row when it was saved is the one read back.
ReadsBack(row) == row.listed > 0 /\ row.consumer >= row.listed => UnitPrice(row) = row.shown

QuotesInv ==
    /\ quote \in Seq(QuoteRow)
    /\ \A q \in DOMAIN quote : ReadsBack(quote[q])

QuoteSheetInv == sheet \in QuoteSheetShape /\ sheet.of \in 0..Len(quote)

CopiesInv ==
    /\ cache \subseteq DOMAIN quote
    /\ listing \in [phase : {"idle", "sent", "listed"}, rows : SUBSET DOMAIN quote, overlapped : SUBSET DOMAIN quote]

CountsInv ==
    price \in Prices /\ repriced \in 0..MaxRepricing /\ lost \in 0..MaxLost /\ entries \in 0..MaxEntries

QuoteInv == QuotesInv /\ QuoteSheetInv /\ CopiesInv /\ CountsInv

LEMMA QuotesList == ASSUME QuotesInv PROVE Len(quote) \in Nat /\ DOMAIN quote = 1..Len(quote) /\ \A q \in DOMAIN quote : quote[q] \in QuoteRow
  BY LenProperties, ElementOfSeq DEF QuotesInv

LEMMA NoSheetIs == NoSheet \in QuoteSheetShape /\ NoSheet.of = 0
  BY DEF NoSheet, QuoteSheetShape

LEMMA SyncedIs ==
    ASSUME NEW next \in QuoteSheetShape, NEW listPrice \in Nat
    PROVE  Synced(next, listPrice) \in QuoteSheetShape /\ Synced(next, listPrice).of = next.of
  <1> DEFINE offer == Capped(listPrice, next.offer)
  <1>1. offer \in Nat
    BY CappedBelow DEF QuoteSheetShape
  <1>2. Synced(next, listPrice) = [next EXCEPT !.consumer = listPrice, !.offer = offer]
    BY DEF Synced
  <1> HIDE DEF offer
  <1> QED BY <1>1, <1>2 DEF QuoteSheetShape

\* What is saved lies below the list price the sheet knew, so that it is not taken for the
\* price of the whole line unless the list price has fallen.
LEMMA RowReadsBack == ASSUME QuoteInv PROVE Row \in QuoteRow /\ ReadsBack(Row)
  <1> DEFINE offer == Capped(sheet.consumer, sheet.offer)
             quantity == sheet.quantity
             consumer == sheet.consumer
  <1>1. consumer \in Nat /\ quantity \in Nat \ {0} /\ offer \in Nat /\ (consumer > 0 => offer < consumer) /\ price \in Nat
    BY CappedBelow, QuoteAssumption DEF QuoteInv, QuoteSheetInv, QuoteSheetShape, CountsInv
  <1>2. Row = [quantity |-> quantity, consumer |-> price, supply |-> offer, shown |-> offer, listed |-> consumer, live |-> TRUE]
    BY DEF Row
  <1> HIDE DEF offer, quantity, consumer
  <1>3. Row \in QuoteRow
    BY <1>1, <1>2 DEF QuoteRow
  <1>4. ReadsBack(Row)
    BY <1>1, <1>2 DEF ReadsBack, UnitPrice, LegacyLine
  <1> QED BY <1>3, <1>4

\* Steps that leave the rows alone.
LEMMA QuoteKeeps ==
    ASSUME QuoteInv, UNCHANGED quote, sheet' \in QuoteSheetShape, sheet'.of \in 0..Len(quote), cache' \subseteq DOMAIN quote,
           listing' \in [phase : {"idle", "sent", "listed"}, rows : SUBSET DOMAIN quote, overlapped : SUBSET DOMAIN quote],
           CountsInv'
    PROVE  QuoteInv'
  <1>1. QuotesInv'
    BY DEF QuoteInv, QuotesInv, ReadsBack, UnitPrice, LegacyLine, Rounded
  <1> QED BY <1>1 DEF QuoteInv, QuoteSheetInv, CopiesInv

LEMMA QuoteSheetSteps ==
    ASSUME QuoteInv,
           \/ NewSheet \/ ProductsLoaded \/ CloseSheet \/ SaveRejected
           \/ \E q \in DOMAIN quote : OpenSheet(q)
           \/ \E n \in Quantities : EnterQuantity(n)
           \/ \E n \in Offers : EnterOffer(n)
    PROVE  QuoteInv'
  <1>0. /\ sheet \in QuoteSheetShape /\ sheet.of \in 0..Len(quote) /\ CountsInv /\ CopiesInv /\ QuotesInv
        /\ price \in Nat /\ MaxEntries \in Nat /\ MaxLost \in Nat
        /\ Len(quote) \in Nat /\ DOMAIN quote = 1..Len(quote) /\ \A q \in DOMAIN quote : quote[q] \in QuoteRow
    BY QuotesList, QuoteAssumption DEF QuoteInv, QuoteSheetInv, CountsInv
  <1>1. ASSUME UNCHANGED <<price, repriced, quote, cache, listing>>, sheet' \in QuoteSheetShape, sheet'.of \in 0..Len(quote),
               \/ UNCHANGED lost /\ (entries' = entries \/ (entries < MaxEntries /\ entries' = entries + 1))
               \/ UNCHANGED entries /\ lost < MaxLost /\ lost' = lost + 1
        PROVE  QuoteInv'
    <2>1. CountsInv'
      BY <1>0, <1>1 DEF CountsInv
    <2> QED BY <1>0, <1>1, <2>1, QuoteKeeps DEF CopiesInv
  <1>2. CASE NewSheet
    <2>1. sheet' \in QuoteSheetShape /\ sheet'.of = 0
      BY <1>2, NoSheetIs DEF NewSheet, QuoteSheetShape
    <2> QED BY <1>0, <1>1, <1>2, <2>1 DEF NewSheet
  <1>3. CASE ProductsLoaded
    <2> DEFINE next == [sheet EXCEPT !.products = TRUE, !.listed = price]
    <2>1. next \in QuoteSheetShape /\ next.of = sheet.of
      BY <1>0 DEF QuoteSheetShape
    <2>2. sheet' = Synced(next, price)
      BY <1>3 DEF ProductsLoaded
    <2> HIDE DEF next
    <2>3. sheet' \in QuoteSheetShape /\ sheet'.of = sheet.of
      BY <1>0, <2>1, <2>2, SyncedIs
    <2> QED BY <1>0, <1>1, <1>3, <2>3 DEF ProductsLoaded
  <1>4. CASE CloseSheet
    BY <1>0, <1>1, <1>4, NoSheetIs DEF CloseSheet
  <1>5. CASE SaveRejected
    BY <1>0, <1>1, <1>5 DEF SaveRejected
  <1>6. ASSUME NEW q \in DOMAIN quote, OpenSheet(q) PROVE QuoteInv'
    <2> DEFINE quantity == quote[q].quantity
               offer == UnitPrice(quote[q])
               consumer == quote[q].consumer
    <2>1. quantity \in Nat \ {0} /\ offer \in Nat /\ consumer \in Nat /\ q \in Nat
      BY <1>0, UnitPriceIsNumber DEF QuoteRow
    <2>2. sheet' = [NoSheet EXCEPT !.phase = "open", !.of = q, !.quantity = quantity, !.offer = offer, !.consumer = consumer]
      BY <1>6 DEF OpenSheet
    <2> HIDE DEF quantity, offer, consumer
    <2>3. sheet' \in QuoteSheetShape /\ sheet'.of = q
      BY <2>1, <2>2, NoSheetIs DEF QuoteSheetShape
    <2>4. /\ UNCHANGED <<price, repriced, quote, cache, listing, lost>>
          /\ entries < MaxEntries /\ entries' = entries + 1
      BY <1>6 DEF OpenSheet
    <2>5. sheet'.of \in 0..Len(quote)
      BY <1>0, <1>6, <2>3
    <2> QED BY <1>1, <2>3, <2>4, <2>5
  <1>7. ASSUME NEW next \in QuoteSheetShape, next.of = sheet.of, Entry(next) PROVE QuoteInv'
    <2> DEFINE known == [next EXCEPT !.untouched = FALSE]
               listPrice == IF sheet.products THEN sheet.listed ELSE sheet.consumer
    <2>1. known \in QuoteSheetShape /\ known.of = sheet.of
      BY <1>7 DEF QuoteSheetShape
    <2>2. listPrice \in Nat
      BY <1>0 DEF QuoteSheetShape
    <2>3. sheet' = Synced(known, listPrice)
      BY <1>7 DEF Entry
    <2> HIDE DEF known, listPrice
    <2>4. sheet' \in QuoteSheetShape /\ sheet'.of = sheet.of
      BY <2>1, <2>2, <2>3, SyncedIs
    <2> QED BY <1>0, <1>1, <1>7, <2>4 DEF Entry
  <1>8. ASSUME NEW n \in Quantities, EnterQuantity(n) PROVE QuoteInv'
    <2> DEFINE next == [sheet EXCEPT !.quantity = n]
    <2>1. next \in QuoteSheetShape /\ next.of = sheet.of
      BY <1>0, QuoteAssumption DEF QuoteSheetShape
    <2>2. Entry(next)
      BY <1>8 DEF EnterQuantity
    <2> HIDE DEF next
    <2> QED BY <1>7, <2>1, <2>2
  <1>9. ASSUME NEW n \in Offers, EnterOffer(n) PROVE QuoteInv'
    <2> DEFINE next == [sheet EXCEPT !.offer = n]
    <2>1. next \in QuoteSheetShape /\ next.of = sheet.of
      BY <1>0, QuoteAssumption DEF QuoteSheetShape
    <2>2. Entry(next)
      BY <1>9 DEF EnterOffer
    <2> HIDE DEF next
    <2> QED BY <1>7, <2>1, <2>2
  <1> QED BY <1>2, <1>3, <1>4, <1>5, <1>6, <1>8, <1>9

\* The list is read, and the prices change.
LEMMA ListSteps ==
    ASSUME QuoteInv,
           ListQuotations \/ QuotationsListed \/ QuotationsMerged \/ ListRejected \/ (\E n \in Prices : Reprice(n))
    PROVE  QuoteInv'
  <1>0. /\ sheet \in QuoteSheetShape /\ sheet.of \in 0..Len(quote) /\ CountsInv /\ CopiesInv
        /\ MaxRepricing \in Nat /\ MaxLost \in Nat
    BY QuoteAssumption DEF QuoteInv, QuoteSheetInv
  <1>1. UNCHANGED <<quote, sheet>>
    BY DEF ListQuotations, QuotationsListed, QuotationsMerged, ListRejected, Reprice
  <1>2. CountsInv'
    <2>1. CASE UNCHANGED <<price, repriced, entries>> /\ (lost' = lost \/ (lost < MaxLost /\ lost' = lost + 1))
      BY <1>0, <2>1 DEF CountsInv
    <2>2. ASSUME NEW n \in Prices, Reprice(n) PROVE CountsInv'
      BY <1>0, <2>2 DEF CountsInv, Reprice
    <2> QED BY <2>1, <2>2 DEF ListQuotations, QuotationsListed, QuotationsMerged, ListRejected
  <1>3. /\ cache' \subseteq DOMAIN quote
        /\ listing' \in [phase : {"idle", "sent", "listed"}, rows : SUBSET DOMAIN quote, overlapped : SUBSET DOMAIN quote]
    <2>1. CASE ListQuotations
      BY <1>0, <2>1 DEF ListQuotations, CopiesInv
    <2>2. CASE QuotationsListed
      <3> DEFINE rows == {q \in DOMAIN quote : quote[q].live}
      <3>1. rows \in SUBSET DOMAIN quote /\ listing' = [listing EXCEPT !.phase = "listed", !.rows = rows] /\ UNCHANGED cache
        BY <2>2 DEF QuotationsListed
      <3> HIDE DEF rows
      <3> QED BY <1>0, <3>1 DEF CopiesInv
    <2>3. CASE QuotationsMerged
      BY <1>0, <2>3 DEF QuotationsMerged, CopiesInv, NoListing
    <2>4. CASE ListRejected
      BY <1>0, <2>4 DEF ListRejected, CopiesInv, NoListing
    <2>5. ASSUME NEW n \in Prices, Reprice(n) PROVE UNCHANGED <<cache, listing>>
      BY <2>5 DEF Reprice
    <2> QED BY <1>0, <2>1, <2>2, <2>3, <2>4, <2>5 DEF CopiesInv
  <1> QED BY <1>0, <1>1, <1>2, <1>3, QuoteKeeps

\* Rows are added and replaced.
LEMMA RowSteps ==
    ASSUME QuoteInv, CreateQuotation \/ UpdateQuotation \/ (\E q \in DOMAIN quote : DeleteQuotation(q))
    PROVE  QuoteInv'
  <1>0. /\ sheet \in QuoteSheetShape /\ sheet.of \in 0..Len(quote) /\ CountsInv /\ CopiesInv /\ QuotesInv
        /\ Len(quote) \in Nat /\ DOMAIN quote = 1..Len(quote) /\ quote \in Seq(QuoteRow)
        /\ \A q \in DOMAIN quote : quote[q] \in QuoteRow /\ ReadsBack(quote[q])
    BY QuotesList DEF QuoteInv, QuoteSheetInv, QuotesInv
  <1>1. ASSUME NEW n \in Nat, Len(quote) <= n, DOMAIN quote' = 1..n, Len(quote') = n,
               NEW q \in 1..n, Saves(q), QuotesInv'
        PROVE  QuoteInv'
    <2>1. CountsInv'
      BY <1>0, <1>1 DEF Saves, CountsInv
    <2>2. sheet' \in QuoteSheetShape /\ sheet'.of \in 0..Len(quote')
      BY <1>1, NoSheetIs DEF Saves
    <2>3. DOMAIN quote \subseteq 1..n
      BY <1>0, <1>1
    <2>4. CopiesInv'
      <3>1. cache' \subseteq 1..n
        BY <1>0, <1>1, <2>3 DEF Saves, Kept, CopiesInv
      <3>2. listing' \in [phase : {"idle", "sent", "listed"}, rows : SUBSET (1..n), overlapped : SUBSET (1..n)]
        <4>1. listing \in [phase : {"idle", "sent", "listed"}, rows : SUBSET (1..n), overlapped : SUBSET (1..n)]
          BY <1>0, <2>3 DEF CopiesInv
        <4> DEFINE overlapped == listing.overlapped \cup {q}
        <4>2. overlapped \in SUBSET (1..n)
          BY <4>1
        <4>3. listing' = listing \/ listing' = [listing EXCEPT !.overlapped = overlapped]
          BY <1>1 DEF Saves
        <4> HIDE DEF overlapped
        <4> QED BY <4>1, <4>2, <4>3
      <3> QED BY <1>1, <3>1, <3>2 DEF CopiesInv
    <2> QED BY <1>1, <2>1, <2>2, <2>4 DEF QuoteInv, QuoteSheetInv
  <1>2. Row \in QuoteRow /\ ReadsBack(Row)
    BY RowReadsBack
  <1>3. CASE CreateQuotation
    <2> DEFINE n == Len(quote) + 1
    <2>1. quote' = Append(quote, Row) /\ Saves(Len(quote'))
      BY <1>3 DEF CreateQuotation
    <2>2. /\ quote' \in Seq(QuoteRow) /\ Len(quote') = n /\ DOMAIN quote' = 1..n /\ quote'[n] = Row
          /\ \A q \in 1..Len(quote) : quote'[q] = quote[q]
      BY <1>0, <1>2, <2>1, AppendProperties
    <2>3. \A q \in 1..n : q \in 1..Len(quote) \/ q = n
      BY <1>0
    <2>4. \A q \in DOMAIN quote' : ReadsBack(quote'[q])
      BY <1>0, <1>2, <2>2, <2>3
    <2>5. QuotesInv'
      BY <2>2, <2>4 DEF QuotesInv
    <2>6. n \in Nat /\ Len(quote) <= n /\ n \in 1..n /\ Saves(n)
      BY <1>0, <2>1, <2>2
    <2> HIDE DEF n
    <2> QED BY <1>1, <2>2, <2>5, <2>6
  <1>4. CASE UpdateQuotation
    <2> DEFINE q0 == sheet.of
    <2>1. quote' = [quote EXCEPT ![q0] = Row] /\ Saves(q0) /\ q0 \in 1..Len(quote)
      BY <1>0, <1>4 DEF UpdateQuotation
    <2> HIDE DEF q0
    <2>2. quote' \in Seq(QuoteRow) /\ Len(quote') = Len(quote)
      BY <1>0, <1>2, <2>1, ExceptSeq
    <2>3. DOMAIN quote' = 1..Len(quote) /\ \A q \in 1..Len(quote) : quote'[q] = Row \/ quote'[q] = quote[q]
      BY <1>0, <2>1
    <2>4. \A q \in DOMAIN quote' : ReadsBack(quote'[q])
      BY <1>0, <1>2, <2>3
    <2>5. QuotesInv'
      BY <2>2, <2>4 DEF QuotesInv
    <2> DEFINE n == Len(quote)
    <2>6. n \in Nat /\ Len(quote) <= n /\ DOMAIN quote' = 1..n /\ Len(quote') = n /\ q0 \in 1..n
      BY <1>0, <2>1, <2>2, <2>3
    <2> HIDE DEF n
    <2> QED BY <1>1, <2>1, <2>5, <2>6
  <1>5. ASSUME NEW d \in DOMAIN quote, DeleteQuotation(d) PROVE QuoteInv'
    <2> DEFINE row == [quote[d] EXCEPT !.live = FALSE]
    <2>1. row \in QuoteRow /\ ReadsBack(row)
      <3>1. quote[d] \in QuoteRow /\ ReadsBack(quote[d])
        BY <1>0
      <3>2. /\ row \in QuoteRow /\ row.listed = quote[d].listed /\ row.consumer = quote[d].consumer /\ row.shown = quote[d].shown
            /\ row.supply = quote[d].supply /\ row.quantity = quote[d].quantity
        BY <3>1 DEF QuoteRow
      <3> HIDE DEF row
      <3> QED BY <3>1, <3>2 DEF ReadsBack, UnitPrice, LegacyLine
    <2>2. /\ quote' = [quote EXCEPT ![d] = row] /\ sheet = NoSheet
          /\ cache' = cache \ {d} /\ UNCHANGED <<price, repriced, sheet, listing, lost, entries>>
      BY <1>5 DEF DeleteQuotation
    <2> HIDE DEF row
    <2>3. quote' \in Seq(QuoteRow) /\ Len(quote') = Len(quote)
      BY <1>0, <1>5, <2>1, <2>2, ExceptSeq
    <2>4. DOMAIN quote' = DOMAIN quote /\ \A q \in DOMAIN quote : quote'[q] = row \/ quote'[q] = quote[q]
      BY <1>0, <2>2
    <2>5. \A q \in DOMAIN quote' : ReadsBack(quote'[q])
      BY <1>0, <2>1, <2>4
    <2>6. QuotesInv'
      BY <2>3, <2>5 DEF QuotesInv
    <2>7. QuoteSheetInv'
      BY <1>0, <2>2, <2>3 DEF QuoteSheetInv
    <2>8. CopiesInv'
      BY <1>0, <2>2, <2>4 DEF CopiesInv
    <2>9. CountsInv'
      BY <1>0, <2>2 DEF CountsInv
    <2> QED BY <2>6, <2>7, <2>8, <2>9 DEF QuoteInv
  <1> QED BY <1>3, <1>4, <1>5

LEMMA QuoteInvStarts == QuoteInit => QuoteInv
  <1> SUFFICES ASSUME QuoteInit PROVE QuoteInv
    OBVIOUS
  <1>1. ASSUME NEW row \in LegacyRows PROVE row \in QuoteRow /\ ReadsBack(row)
    <2>1. row \in QuoteRow /\ row.quantity > 1 /\ row.supply = row.shown * row.quantity /\ row.supply >= row.consumer
      BY <1>1, QuoteAssumption
    <2>2. row.quantity \in Nat \ {0} /\ row.shown \in Nat
      BY <2>1 DEF QuoteRow
    <2>3. LegacyLine(row)
      BY <2>1 DEF LegacyLine
    <2>4. Rounded(row.supply, row.quantity) = row.shown
      BY <2>1, <2>2, UnitOfLine
    <2> QED BY <2>1, <2>3, <2>4 DEF ReadsBack, UnitPrice
  <1>2. QuotesInv
    <2>1. CASE quote = << >>
      BY <2>1 DEF QuotesInv
    <2>2. ASSUME NEW row \in LegacyRows, quote = <<row>> PROVE QuotesInv
      BY <1>1, <2>2 DEF QuotesInv
    <2> QED BY <2>1, <2>2 DEF QuoteInit
  <1>3. Len(quote) \in Nat /\ sheet = NoSheet
    BY <1>2, QuotesList DEF QuoteInit
  <1>4. QuoteSheetInv
    BY <1>3, NoSheetIs DEF QuoteSheetInv
  <1>5. CopiesInv
    BY DEF QuoteInit, CopiesInv, NoListing
  <1>6. CountsInv
    BY QuoteAssumption DEF QuoteInit, CountsInv
  <1> QED BY <1>2, <1>4, <1>5, <1>6 DEF QuoteInv

LEMMA QuoteInvStays == QuoteInv /\ QuoteNext => QuoteInv'
  <1> SUFFICES ASSUME QuoteInv, QuoteNext PROVE QuoteInv'
    OBVIOUS
  <1> QED BY QuoteSheetSteps, ListSteps, RowSteps DEF QuoteNext

LEMMA QuoteInvRests == QuoteInv /\ UNCHANGED quoteVars => QuoteInv'
  BY QuoteKeeps DEF quoteVars, QuoteInv, QuoteSheetInv, CopiesInv, CountsInv

LEMMA QuotePromises == QuoteInv => PriceReadsBack /\ QuoteTypeOK
  <1> SUFFICES ASSUME QuoteInv PROVE PriceReadsBack /\ QuoteTypeOK
    OBVIOUS
  <1>1. PriceReadsBack
    BY DEF QuoteInv, QuotesInv, ReadsBack, PriceReadsBack
  <1>2. \A q \in DOMAIN quote : quote[q] \in QuoteRow
    BY QuotesList DEF QuoteInv
  <1>3. sheet.offer \in Nat /\ sheet.consumer \in Nat /\ sheet.of \in 0..Len(quote)
    BY DEF QuoteInv, QuoteSheetInv, QuoteSheetShape
  <1>4. cache \cup listing.rows \cup listing.overlapped \subseteq DOMAIN quote
    BY DEF QuoteInv, CopiesInv
  <1> QED BY <1>1, <1>2, <1>3, <1>4 DEF QuoteTypeOK, QuoteInv, CountsInv

-----------------------------------------------------------------------------
(* Opportunities.                                                          *)

LEMMA ListedOnce ==
    ASSUME NEW S, IsFiniteSet(S)
    PROVE  SetToSeq(S) \in [1..Cardinality(S) -> S] /\ Cardinality(S) \in Nat
  <1>1. PICK n \in Nat : ExistsBijection(1..n, S)
    BY FS_NatBijection
  <1>2. Cardinality(S) = n
    BY <1>1, FS_CountingElements
  <1>3. PICK f \in [1..n -> S] : \A a, b \in 1..n : f[a] = f[b] => a = b
    BY <1>1 DEF ExistsBijection, Bijection, Injection, IsInjective
  <1>4. IsInjective(f)
    BY <1>3 DEF IsInjective
  <1> QED BY <1>2, <1>3, <1>4 DEF SetToSeq
Grows(f, g) == \A k \in DOMAIN f : k \in DOMAIN g /\ g[k] = f[k]

\* An attachment taken from a stored file is of the document of that file.
TracedIn(a, f) ==
    /\ a \in [id : Nat, file : Nat, document : Documents, summarized : BOOLEAN]
    /\ a.file # 0 => a.file \in DOMAIN f /\ f[a.file] = a.document
AttachedIn(list, f) == InOrder(list) /\ \A i \in DOMAIN list : TracedIn(list[i], f)

OppFields ==
    {"kind", "phase", "loaded", "known", "partners", "modules", "attachments", "summarizing", "touched", "changes"}

OppFormIn(g, f) ==
    /\ g = [x \in OppFields |-> g[x]]
    /\ g.kind \in {"new", "edit"} /\ g.known \subseteq Partners /\ g.changes \in Nat
    /\ AttachedIn(g.attachments, f) /\ Len(g.attachments) <= MaxAttachments
    /\ g.summarizing \in {0} \cup {g.attachments[i].id : i \in DOMAIN g.attachments}

SubFields == {"phase", "partners", "names", "attachments", "ids", "modules"}

\* The file uploaded for an attachment is of its document, and all have been when it is saved.
SubIn(e, f) ==
    /\ e = [x \in SubFields |-> e[x]]
    /\ e.phase \in {"idle", "uploading", "failed", "saved"} /\ e.partners \subseteq Partners
    /\ AttachedIn(e.attachments, f)
    /\ e.ids = [i \in DOMAIN e.attachments |-> e.ids[i]]
    /\ \A i \in DOMAIN e.attachments :
         e.ids[i] # 0 => e.ids[i] \in DOMAIN f /\ f[e.ids[i]] = e.attachments[i].document
    /\ e.phase = "saved" => \A i \in DOMAIN e.attachments : e.ids[i] # 0

SummaryIn(r, f) == r.file \in DOMAIN f /\ r.document = f[r.file]

\* A stored opportunity is taken over before anything is sent.
NotTakenOver ==
    /\ \A s \in Subs : sub[s].phase = "idle"
    /\ oppForm.summarizing = 0
    /\ IsFiniteSet(opp[1].files) /\ Cardinality(opp[1].files) <= MaxAttachments

OppRowsIn(rows, f) ==
    /\ rows \in Seq(OppRow) /\ 1 \in DOMAIN rows
    /\ \A o \in DOMAIN rows : rows[o].files \subseteq DOMAIN f

SubsIn(list, f) == list = [s \in Subs |-> list[s]] /\ \A s \in Subs : SubIn(list[s], f)

OppInv ==
    /\ file \in Seq(Documents) /\ OppRowsIn(opp, file)
    /\ gone \subseteq Partners /\ bad \in 0..MaxBad
    /\ OppFormIn(oppForm, file) /\ SubsIn(sub, file)
    /\ \A r \in summaries : SummaryIn(r, file)
    /\ oppForm.kind = "edit" /\ ~oppForm.loaded => NotTakenOver

\* Uploading one more document leaves what is known of the others.
LEMMA GrownStays ==
    ASSUME NEW f, NEW g, Grows(f, g)
    PROVE  /\ \A e : SubIn(e, f) => SubIn(e, g)
           /\ \A h : OppFormIn(h, f) => OppFormIn(h, g)
           /\ \A rows : OppRowsIn(rows, f) => OppRowsIn(rows, g)
           /\ \A r : SummaryIn(r, f) => SummaryIn(r, g)
  <1>1. \A a : TracedIn(a, f) => TracedIn(a, g)
    BY DEF Grows, TracedIn
  <1>2. \A list : AttachedIn(list, f) => AttachedIn(list, g)
    BY <1>1 DEF AttachedIn
  <1>3. \A e : SubIn(e, f) => SubIn(e, g)
    BY <1>2 DEF SubIn, Grows
  <1>4. \A h : OppFormIn(h, f) => OppFormIn(h, g)
    BY <1>2 DEF OppFormIn
  <1>5. \A rows : OppRowsIn(rows, f) => OppRowsIn(rows, g)
    BY DEF OppRowsIn, Grows
  <1>6. \A r : SummaryIn(r, f) => SummaryIn(r, g)
    BY DEF SummaryIn, Grows
  <1> QED BY <1>3, <1>4, <1>5, <1>6

LEMMA OppRowIs ==
    ASSUME OppInv
    PROVE  /\ \A o \in DOMAIN opp : opp[o] \in OppRow
           /\ Len(opp) \in Nat /\ DOMAIN opp = 1..Len(opp) /\ Len(file) \in Nat /\ DOMAIN file = 1..Len(file)
           /\ \A k \in DOMAIN file : file[k] \in Documents
  BY LenProperties, ElementOfSeq DEF OppInv, OppRowsIn

\* The form changes; what has been taken over stays so.
LEMMA OppFormKeeps ==
    ASSUME OppInv, OppFormIn(oppForm', file), oppForm'.kind = oppForm.kind, oppForm'.loaded = oppForm.loaded \/ oppForm'.loaded = TRUE,
           oppForm'.loaded = oppForm.loaded /\ oppForm.kind = "edit" => oppForm.loaded \/ oppForm' = oppForm,
           UNCHANGED <<opp, gone, file, summaries, sub, bad>>
    PROVE  OppInv'
  BY DEF OppInv, NotTakenOver, SubsIn, OppFormIn

LEMMA TakenOver ==
    ASSUME OppInv, OppLoaded
    PROVE  OppInv'
  <1> DEFINE known == Listed
             files == SetToSeq(opp[1].files)
             partners == {PartnerNames[p] : p \in opp[1].partners}
             modules == {ModuleNames[m] : m \in opp[1].modules}
             attachments == [i \in DOMAIN files |-> Stocked(files[i])]
  <1>0. OppFormIn(oppForm, file) /\ known \subseteq Partners /\ UNCHANGED <<opp, gone, file, summaries, sub, bad>> /\ ~oppForm.loaded
    BY DEF OppInv, OppLoaded, Listed
  <1>1. CASE oppForm.kind = "new"
    <2>1. oppForm' = [oppForm EXCEPT !.loaded = TRUE, !.known = known]
      BY <1>1 DEF OppLoaded
    <2> HIDE DEF known
    <2>2. OppFormIn(oppForm', file) /\ oppForm'.kind = oppForm.kind /\ oppForm'.loaded = TRUE
      BY <1>0, <2>1 DEF OppFormIn, OppFields
    <2> QED BY <1>0, <1>1, <2>2, OppFormKeeps
  <1>2. CASE oppForm.kind = "edit"
    <2>1. oppForm' = [oppForm EXCEPT !.loaded = TRUE, !.known = known, !.partners = partners, !.modules = modules, !.attachments = attachments]
      BY <1>2 DEF OppLoaded
    <2>2. AttachedIn(attachments, file) /\ Len(attachments) <= MaxAttachments /\ oppForm.summarizing = 0
      <3>1. NotTakenOver /\ 1 \in DOMAIN opp /\ opp[1].files \subseteq DOMAIN file
        BY <1>0, <1>2 DEF OppInv, OppRowsIn
      <3> DEFINE n == Cardinality(opp[1].files)
      <3>2. files \in [1..n -> opp[1].files] /\ n \in Nat /\ n <= MaxAttachments
        BY <3>1, ListedOnce DEF NotTakenOver
      <3>3. \A k \in opp[1].files : TracedIn(Stocked(k), file)
        <4>1. DOMAIN file \subseteq Nat /\ \A k \in DOMAIN file : file[k] \in Documents
          BY OppRowIs
        <4> QED BY <3>1, <4>1 DEF TracedIn, Stocked
      <3> HIDE DEF files, n
      <3>4. attachments \in [1..n -> {Stocked(k) : k \in opp[1].files}]
        BY <3>2
      <3>5. InOrder(attachments) /\ Len(attachments) = n /\ DOMAIN attachments = 1..n
        <4> HIDE DEF attachments
        <4> QED BY <3>2, <3>4, ListInOrder
      <3>6. \A i \in DOMAIN attachments : TracedIn(attachments[i], file)
        BY <3>2, <3>3, <3>5
      <3> HIDE DEF attachments
      <3> QED BY <3>1, <3>2, <3>5, <3>6 DEF AttachedIn, NotTakenOver
    <2> HIDE DEF known, files, partners, modules, attachments
    <2>3. OppFormIn(oppForm', file) /\ oppForm'.kind = oppForm.kind /\ oppForm'.loaded = TRUE
      BY <1>0, <2>1, <2>2 DEF OppFormIn, OppFields
    <2> QED BY <1>0, <2>3, OppFormKeeps
  <1> QED BY <1>0, <1>1, <1>2 DEF OppFormIn

LEMMA AttachmentChanges ==
    ASSUME OppInv,
           \/ Summarized
           \/ \E n \in Range(PartnerNames) : TogglePartner(n)
           \/ \E n \in Range(ModuleNames) : ToggleModule(n)
           \/ \E document \in Documents : AttachRfp(document)
           \/ \E i \in DOMAIN oppForm.attachments : DetachRfp(i) \/ Summarize(i)
    PROVE  OppInv'
  <1> DEFINE list == oppForm.attachments
  <1>0. /\ OppFormIn(oppForm, file) /\ AttachedIn(list, file) /\ InOrder(list) /\ Filling /\ MaxAttachments \in Nat
        /\ Len(list) \in Nat /\ DOMAIN list = 1..Len(list) /\ Len(list) <= MaxAttachments
    <2>1. OppFormIn(oppForm, file) /\ AttachedIn(list, file) /\ InOrder(list) /\ MaxAttachments \in Nat /\ Len(list) <= MaxAttachments
      BY OpportunityAssumption DEF OppInv, OppFormIn, AttachedIn
    <2>2. Filling
      BY DEF Summarized, TogglePartner, ToggleModule, AttachRfp, DetachRfp, Summarize, Changing
    <2> HIDE DEF list
    <2> QED BY <2>1, <2>2, Added
  <1>1. ASSUME OppFormIn(oppForm', file), oppForm'.kind = oppForm.kind, oppForm'.loaded = oppForm.loaded,
               UNCHANGED <<opp, gone, file, summaries, sub, bad>>
        PROVE  OppInv'
    BY <1>0, <1>1, OppFormKeeps DEF Filling
  <1>2. ASSUME NEW next, OppFormIn(next, file), next.kind = oppForm.kind, next.loaded = oppForm.loaded, NEW part, Changed(next, part)
        PROVE  OppInv'
    <2> DEFINE n == next.changes + 1
               touched == next.touched \cup {part}
    <2>1. oppForm' = [next EXCEPT !.changes = n, !.touched = touched] /\ UNCHANGED <<opp, gone, file, summaries, sub, bad>>
      BY <1>2 DEF Changed
    <2>2. n \in Nat
      BY <1>2 DEF OppFormIn
    <2> HIDE DEF n, touched
    <2>3. OppFormIn(oppForm', file) /\ oppForm'.kind = oppForm.kind /\ oppForm'.loaded = oppForm.loaded
      BY <1>2, <2>1, <2>2 DEF OppFormIn, OppFields
    <2> QED BY <1>1, <2>1, <2>3
  <1>3. ASSUME NEW n \in Range(PartnerNames), TogglePartner(n) PROVE OppInv'
    <2> DEFINE names == (oppForm.partners \ {n}) \cup ({n} \ oppForm.partners)
               next == [oppForm EXCEPT !.partners = names]
    <2>1. Changed(next, "partners")
      BY <1>3 DEF TogglePartner
    <2> HIDE DEF names
    <2>2. OppFormIn(next, file) /\ next.kind = oppForm.kind /\ next.loaded = oppForm.loaded
      BY <1>0 DEF OppFormIn, OppFields
    <2> HIDE DEF next
    <2> QED BY <1>2, <2>1, <2>2
  <1>4. ASSUME NEW n \in Range(ModuleNames), ToggleModule(n) PROVE OppInv'
    <2> DEFINE names == (oppForm.modules \ {n}) \cup ({n} \ oppForm.modules)
               next == [oppForm EXCEPT !.modules = names]
    <2>1. Changed(next, "modules")
      BY <1>4 DEF ToggleModule
    <2> HIDE DEF names
    <2>2. OppFormIn(next, file) /\ next.kind = oppForm.kind /\ next.loaded = oppForm.loaded
      BY <1>0 DEF OppFormIn, OppFields
    <2> HIDE DEF next
    <2> QED BY <1>2, <2>1, <2>2
  <1>5. ASSUME NEW document \in Documents, AttachRfp(document) PROVE OppInv'
    <2> DEFINE new == Fresh(MaxAttachments + oppForm.changes + 1, document)
               all == Append(list, new)
               next == [oppForm EXCEPT !.attachments = all]
    <2>1. Changed(next, "files") /\ oppForm.summarizing = 0 /\ Len(list) < MaxAttachments
      BY <1>5 DEF AttachRfp
    <2>2. TracedIn(new, file)
      BY <1>0 DEF TracedIn, Fresh, OppFormIn
    <2> HIDE DEF new, list
    <2>3. /\ InOrder(all) /\ Len(all) = Len(list) + 1 /\ all[Len(list) + 1] = new
          /\ \A k \in 1..Len(list) : all[k] = list[k]
      BY <1>0, Added
    <2>4. DOMAIN all = 1..(Len(list) + 1)
      <3> HIDE DEF all
      <3> QED BY <1>0, <2>3, Added
    <2>5. AttachedIn(all, file) /\ Len(all) <= MaxAttachments
      <3>1. \A k \in DOMAIN all : k \in 1..Len(list) \/ k = Len(list) + 1
        BY <1>0, <2>4
      <3>2. \A k \in DOMAIN all : TracedIn(all[k], file)
        BY <1>0, <2>2, <2>3, <3>1 DEF AttachedIn
      <3> HIDE DEF all
      <3> QED BY <1>0, <2>1, <2>3, <3>2 DEF AttachedIn
    <2> HIDE DEF all
    <2>6. OppFormIn(next, file) /\ next.kind = oppForm.kind /\ next.loaded = oppForm.loaded
      BY <1>0, <2>1, <2>5 DEF OppFormIn, OppFields
    <2> HIDE DEF next
    <2> QED BY <1>2, <2>1, <2>6
  <1>6. ASSUME NEW i \in DOMAIN list, DetachRfp(i) PROVE OppInv'
    <2> DEFINE left == RemoveAt(list, i)
               next == [oppForm EXCEPT !.attachments = left]
    <2>1. Changed(next, "files") /\ oppForm.summarizing # list[i].id
      BY <1>6 DEF DetachRfp
    <2>2. /\ InOrder(left) /\ Len(left) = Len(list) - 1
          /\ \A k \in DOMAIN left : \E j \in DOMAIN list : left[k] = list[j]
          /\ \A j \in DOMAIN list : j # i => \E k \in DOMAIN left : left[k] = list[j]
      <3> HIDE DEF list
      <3> QED BY <1>0, <1>6, WithoutOne
    <2>3. oppForm.summarizing \in {0} \cup {list[j].id : j \in DOMAIN list}
      BY <1>0 DEF OppFormIn
    <2> HIDE DEF left
    <2>4. AttachedIn(left, file) /\ Len(left) <= MaxAttachments
      <3>1. \A k \in DOMAIN left : TracedIn(left[k], file)
        BY <1>0, <2>2 DEF AttachedIn
      <3> HIDE DEF list
      <3> QED BY <1>0, <2>2, <3>1 DEF AttachedIn
    <2>5. oppForm.summarizing \in {0} \cup {left[k].id : k \in DOMAIN left}
      <3>1. ASSUME NEW j \in DOMAIN list, oppForm.summarizing = list[j].id PROVE \E k \in DOMAIN left : oppForm.summarizing = left[k].id
        BY <2>1, <2>2, <3>1
      <3> QED BY <2>3, <3>1
    <2>6. OppFormIn(next, file) /\ next.kind = oppForm.kind /\ next.loaded = oppForm.loaded
      BY <1>0, <2>4, <2>5 DEF OppFormIn, OppFields
    <2> HIDE DEF next
    <2> QED BY <1>2, <2>1, <2>6
  <1>7. ASSUME NEW i \in DOMAIN list, Summarize(i) PROVE OppInv'
    <2> DEFINE id == list[i].id
    <2>1. oppForm' = [oppForm EXCEPT !.summarizing = id] /\ UNCHANGED <<opp, gone, file, summaries, sub, bad>>
      BY <1>7 DEF Summarize
    <2>2. id \in {list[j].id : j \in DOMAIN list}
      BY <1>7
    <2> HIDE DEF id
    <2>3. OppFormIn(oppForm', file) /\ oppForm'.kind = oppForm.kind /\ oppForm'.loaded = oppForm.loaded
      BY <1>0, <2>1, <2>2 DEF OppFormIn, OppFields
    <2> QED BY <1>1, <2>1, <2>3
  <1>8. CASE Summarized
    <2>1. PICK ok \in BOOLEAN :
            oppForm' = [oppForm EXCEPT !.summarizing = 0,
              !.attachments = [i \in DOMAIN @ |->
                 IF @[i].id = oppForm.summarizing THEN [@[i] EXCEPT !.summarized = ok] ELSE @[i]]]
      BY <1>8 DEF Summarized
    <2> DEFINE all == [i \in DOMAIN list |-> IF list[i].id = oppForm.summarizing THEN [list[i] EXCEPT !.summarized = ok] ELSE list[i]]
    <2>2. oppForm' = [oppForm EXCEPT !.summarizing = 0, !.attachments = all] /\ UNCHANGED <<opp, gone, file, summaries, sub, bad>>
      BY <1>8, <2>1 DEF Summarized
    <2>3. ASSUME NEW i \in DOMAIN list PROVE TracedIn(all[i], file)
      <3>1. TracedIn(list[i], file)
        BY <1>0, <2>3 DEF AttachedIn
      <3>2. TracedIn([list[i] EXCEPT !.summarized = ok], file)
        <4> DEFINE a == list[i]
                   b == [a EXCEPT !.summarized = ok]
        <4>1. a \in [id : Nat, file : Nat, document : Documents, summarized : BOOLEAN]
          BY <3>1 DEF TracedIn
        <4> HIDE DEF a
        <4>2. b \in [id : Nat, file : Nat, document : Documents, summarized : BOOLEAN] /\ b.file = a.file /\ b.document = a.document
          BY <4>1
        <4> QED BY <3>1, <4>2 DEF TracedIn, a
      <3> QED BY <3>1, <3>2
    <2>4. InOrder(all) /\ Len(all) = Len(list) /\ DOMAIN all = DOMAIN list
      <3>1. all \in [1..Len(list) -> {all[i] : i \in 1..Len(list)}]
        BY <1>0
      <3> DEFINE n == Len(list)
      <3> HIDE DEF all, n
      <3>2. InOrder(all) /\ Len(all) = n /\ DOMAIN all = 1..n
        BY <1>0, <3>1, ListInOrder DEF n
      <3> QED BY <1>0, <3>2 DEF n
    <2> HIDE DEF all
    <2>5. AttachedIn(all, file) /\ Len(all) <= MaxAttachments
      BY <1>0, <2>3, <2>4 DEF AttachedIn
    <2>6. OppFormIn(oppForm', file) /\ oppForm'.kind = oppForm.kind /\ oppForm'.loaded = oppForm.loaded
      BY <1>0, <2>2, <2>5 DEF OppFormIn, OppFields
    <2> QED BY <1>1, <2>2, <2>6
  <1> QED BY <1>3, <1>4, <1>5, <1>6, <1>7, <1>8
\* One submission changes, and the form stays; a form not yet filled sends nothing.
LEMMA SubKeeps ==
    ASSUME OppInv, NEW s \in Subs, NEW e, SubIn(e, file'), sub' = [sub EXCEPT ![s] = e],
           OppRowsIn(opp', file'), file' \in Seq(Documents), Grows(file, file'),
           oppForm.loaded \/ oppForm.kind = "new",
           oppForm' \in {oppForm, [oppForm EXCEPT !.phase = "left"]},
           \A r \in summaries' : SummaryIn(r, file'),
           bad' = bad \/ (bad < MaxBad /\ bad' = bad + 1), UNCHANGED gone
    PROVE  OppInv'
  <1>1. OppFormIn(oppForm, file) /\ SubsIn(sub, file) /\ OppRowsIn(opp, file) /\ MaxBad \in Nat /\ bad \in 0..MaxBad
    BY OpportunityAssumption DEF OppInv
  <1>2. OppFormIn(oppForm, file') /\ \A q \in Subs : SubIn(sub[q], file')
    BY <1>1, GrownStays DEF SubsIn
  <1>3. OppFormIn(oppForm', file') /\ oppForm'.kind = oppForm.kind /\ oppForm'.loaded = oppForm.loaded
    BY <1>2 DEF OppFormIn, OppFields
  <1>4. SubsIn(sub', file')
    BY <1>1, <1>2 DEF SubsIn
  <1>5. bad' \in 0..MaxBad
    BY <1>1
  <1>6. OppFormIn(oppForm', file') /\ (oppForm'.loaded \/ oppForm'.kind = "new")
    BY <1>3
  <1>7. ~(oppForm'.kind = "edit" /\ ~oppForm'.loaded)
    BY <1>6
  <1> QED BY <1>3, <1>4, <1>5, <1>7 DEF OppInv

LEMMA OppSubmitKeeps ==
    ASSUME OppInv, OpportunitySubmit \/ OpportunitySave
    PROVE  OppInv'
  <1>1. PICK s \in Subs :
          sub' = [sub EXCEPT ![s] =
             [phase |-> "uploading", partners |-> PartnerIds(oppForm.partners, oppForm.known),
              names |-> oppForm.modules, attachments |-> oppForm.attachments,
              ids |-> [i \in DOMAIN oppForm.attachments |-> oppForm.attachments[i].file],
              modules |-> "unread"]]
    BY DEF OpportunitySubmit, OpportunitySave, Submit
  <1>2. UNCHANGED <<opp, gone, file, summaries, oppForm, bad>> /\ (oppForm.loaded \/ oppForm.kind = "new")
    BY DEF OpportunitySubmit, OpportunitySave, Submit, Filling
  <1> DEFINE partners == PartnerIds(oppForm.partners, oppForm.known)
             names == oppForm.modules
             list == oppForm.attachments
             ids == [i \in DOMAIN list |-> list[i].file]
             e == [phase |-> "uploading", partners |-> partners, names |-> names, attachments |-> list, ids |-> ids, modules |-> "unread"]
  <1>3. partners \subseteq Partners /\ AttachedIn(list, file)
    BY DEF OppInv, OppFormIn, PartnerIds
  <1>4. /\ ids = [i \in DOMAIN list |-> ids[i]]
        /\ \A i \in DOMAIN list : ids[i] # 0 => ids[i] \in DOMAIN file /\ file[ids[i]] = list[i].document
    BY <1>3 DEF AttachedIn, TracedIn
  <1>5. sub' = [sub EXCEPT ![s] = e]
    BY <1>1
  <1> HIDE DEF partners, names, list, ids
  <1>6. SubIn(e, file)
    BY <1>3, <1>4 DEF SubIn, SubFields
  <1> HIDE DEF e
  <1>7. Grows(file, file)
    BY DEF Grows
  <1> QED BY <1>2, <1>5, <1>6, <1>7, SubKeeps DEF OppInv

\* Only a form that has been taken over is being sent.
LEMMA SendingIsTakenOver ==
    ASSUME OppInv, NEW s \in Subs, sub[s].phase # "idle"
    PROVE  oppForm.loaded \/ oppForm.kind = "new"
  BY DEF OppInv, NotTakenOver, OppFormIn

LEMMA PhaseKeeps ==
    ASSUME OppInv, NEW s \in Subs, sub[s].phase # "idle", NEW phase \in {"uploading", "failed", "saved"},
           phase = "saved" => Ready(s),
           sub' = [sub EXCEPT ![s].phase = phase], UNCHANGED <<gone, file>>, OppRowsIn(opp', file),
           \A r \in summaries' : SummaryIn(r, file),
           oppForm' \in {oppForm, [oppForm EXCEPT !.phase = "left"]},
           bad' = bad \/ (bad < MaxBad /\ bad' = bad + 1)
    PROVE  OppInv'
  <1> DEFINE was == sub[s]
             e == [was EXCEPT !.phase = phase]
  <1>1. SubIn(was, file) /\ sub' = [sub EXCEPT ![s] = e]
    BY DEF OppInv, SubsIn
  <1>2. phase = "saved" => \A i \in DOMAIN was.attachments : was.ids[i] # 0
    BY <1>1 DEF Ready, SubIn
  <1> HIDE DEF was
  <1>3. SubIn(e, file)
    BY <1>1, <1>2 DEF SubIn, SubFields
  <1> HIDE DEF e
  <1>4. Grows(file, file)
    BY DEF Grows
  <1> QED BY <1>1, <1>3, <1>4, SendingIsTakenOver, SubKeeps DEF OppInv

LEMMA OppUploadKeeps ==
    ASSUME OppInv, NEW s \in Subs, NEW i \in DOMAIN sub[s].ids, UploadAnswered(s, i)
    PROVE  OppInv'
  <1> DEFINE was == sub[s]
             n == Len(file) + 1
             document == was.attachments[i].document
             ids == [was.ids EXCEPT ![i] = n]
             e == [was EXCEPT !.ids = ids]
  <1>1. /\ SubIn(was, file) /\ was.phase = "uploading" /\ i \in DOMAIN was.attachments /\ document \in Documents
        /\ file \in Seq(Documents) /\ Len(file) \in Nat /\ DOMAIN file = 1..Len(file)
        /\ file' = Append(file, document) /\ sub' = [sub EXCEPT ![s].ids[i] = Len(file')]
        /\ UNCHANGED <<opp, gone, summaries, oppForm, bad>>
    <2>1. SubIn(was, file)
      BY DEF OppInv, SubsIn
    <2>2. i \in DOMAIN was.attachments
      BY <2>1 DEF SubIn
    <2>3. document \in Documents
      BY <2>1, <2>2 DEF SubIn, AttachedIn, TracedIn
    <2> QED BY <2>1, <2>2, <2>3, OppRowIs DEF UploadAnswered, OppInv
  <1>2. /\ file' \in Seq(Documents) /\ Len(file') = n /\ DOMAIN file' = 1..n /\ file'[n] = document
        /\ \A k \in 1..Len(file) : file'[k] = file[k]
    <2> HIDE DEF document
    <2> QED BY <1>1, AppendProperties, LenProperties
  <1>3. Grows(file, file') /\ n \in DOMAIN file'
    BY <1>1, <1>2 DEF Grows
  <1>4. sub' = [sub EXCEPT ![s] = e]
    BY <1>1, <1>2 DEF OppInv, SubsIn
  <1>5. SubIn(was, file')
    BY <1>1, <1>3, GrownStays
  <1>6. /\ ids = [k \in DOMAIN was.attachments |-> ids[k]]
        /\ \A k \in DOMAIN was.attachments : ids[k] # 0 => ids[k] \in DOMAIN file' /\ file'[ids[k]] = was.attachments[k].document
    <2>1. was.ids = [k \in DOMAIN was.attachments |-> was.ids[k]]
      BY <1>5 DEF SubIn
    <2>2. \A k \in DOMAIN was.attachments : was.ids[k] # 0 => was.ids[k] \in DOMAIN file' /\ file'[was.ids[k]] = was.attachments[k].document
      BY <1>5 DEF SubIn
    <2> HIDE DEF was, n
    <2>3. ids = [k \in DOMAIN was.attachments |-> ids[k]] /\ ids[i] = n /\ \A k \in DOMAIN was.attachments : k # i => ids[k] = was.ids[k]
      BY <1>1, <2>1
    <2> HIDE DEF ids
    <2> QED BY <1>2, <1>3, <2>2, <2>3
  <1> HIDE DEF was, ids
  <1>7. SubIn(e, file')
    BY <1>1, <1>5, <1>6 DEF SubIn, SubFields
  <1> HIDE DEF e
  <1>8. OppRowsIn(opp', file') /\ \A r \in summaries' : SummaryIn(r, file')
    BY <1>1, <1>3, GrownStays DEF OppInv
  <1>9. oppForm.loaded \/ oppForm.kind = "new"
    BY <1>1, SendingIsTakenOver DEF was
  <1> QED BY <1>1, <1>2, <1>3, <1>4, <1>7, <1>8, <1>9, SubKeeps

LEMMA ModulesReadKeeps ==
    ASSUME OppInv, NEW s \in Subs, ModulesRead(s)
    PROVE  OppInv'
  <1>1. PICK answer : sub' = [sub EXCEPT ![s].modules = answer] /\ (bad' = bad \/ (bad < MaxBad /\ bad' = bad + 1))
    BY DEF ModulesRead
  <1>2. UNCHANGED <<opp, gone, file, summaries, oppForm>> /\ sub[s].phase = "uploading"
    BY DEF ModulesRead
  <1> DEFINE was == sub[s]
             e == [was EXCEPT !.modules = answer]
  <1>3. SubIn(was, file) /\ sub' = [sub EXCEPT ![s] = e] /\ (oppForm.loaded \/ oppForm.kind = "new")
    BY <1>1, <1>2, SendingIsTakenOver DEF OppInv, SubsIn
  <1> HIDE DEF was
  <1>4. SubIn(e, file)
    BY <1>3 DEF SubIn, SubFields
  <1> HIDE DEF e
  <1>5. Grows(file, file)
    BY DEF Grows
  <1> QED BY <1>1, <1>2, <1>3, <1>4, <1>5, SubKeeps DEF OppInv

\* What is sent refers to partners, modules and files there are.
LEMMA PayloadIs ==
    ASSUME OppInv, NEW s \in Subs
    PROVE  Payload(s) \in OppRow /\ Payload(s).files \subseteq DOMAIN file
  <1> DEFINE partners == sub[s].partners
             modules == ModuleIds(sub[s].names, IF sub[s].modules = "read" THEN Modules ELSE {})
             files == {sub[s].ids[i] : i \in DOMAIN sub[s].ids} \ {0}
  <1>1. SubIn(sub[s], file) /\ DOMAIN file \subseteq Nat
    BY OppRowIs DEF OppInv, SubsIn
  <1>2. partners \subseteq Partners
    BY <1>1 DEF SubIn
  <1>3. modules \subseteq Modules
    BY DEF ModuleIds
  <1>4. files \subseteq DOMAIN file
    BY <1>1 DEF SubIn
  <1>5. Payload(s) = [partners |-> partners, modules |-> modules, files |-> files, live |-> TRUE]
    BY DEF Payload
  <1> HIDE DEF partners, modules, files
  <1> QED BY <1>1, <1>2, <1>3, <1>4, <1>5 DEF OppRow

LEMMA WrittenIs ==
    ASSUME OppInv, NEW s \in Subs
    PROVE  OppRowsIn(Written(s), file)
  <1> DEFINE row == Payload(s)
  <1>1. row \in OppRow /\ row.files \subseteq DOMAIN file
    BY PayloadIs
  <1>2. opp \in Seq(OppRow) /\ Len(opp) \in Nat /\ DOMAIN opp = 1..Len(opp) /\ 1 \in DOMAIN opp
        /\ \A o \in DOMAIN opp : opp[o].files \subseteq DOMAIN file
    BY OppRowIs DEF OppInv, OppRowsIn
  <1> DEFINE longer == Append(opp, row)
             other == [opp EXCEPT ![1] = row]
  <1>3. Written(s) = longer \/ Written(s) = other
    BY DEF Written
  <1> HIDE DEF row
  <1>4. OppRowsIn(longer, file)
    <2>1. /\ longer \in Seq(OppRow) /\ Len(longer) = Len(opp) + 1 /\ longer[Len(opp) + 1] = row
          /\ \A o \in 1..Len(opp) : longer[o] = opp[o]
      BY <1>1, <1>2, AppendProperties
    <2>2. DOMAIN longer = 1..(Len(opp) + 1)
      <3> HIDE DEF longer
      <3> QED BY <2>1, LenProperties
    <2>3. \A o \in 1..(Len(opp) + 1) : o \in 1..Len(opp) \/ o = Len(opp) + 1
      BY <1>2
    <2> HIDE DEF longer
    <2> QED BY <1>1, <1>2, <2>1, <2>2, <2>3 DEF OppRowsIn
  <1>5. OppRowsIn(other, file)
    <2>1. other \in Seq(OppRow) /\ Len(other) = Len(opp)
      BY <1>1, <1>2, ExceptSeq
    <2>2. DOMAIN other = DOMAIN opp /\ \A o \in DOMAIN opp : other[o] = row \/ other[o] = opp[o]
      BY <1>2
    <2> HIDE DEF other
    <2> QED BY <1>1, <1>2, <2>1, <2>2 DEF OppRowsIn
  <1> QED BY <1>3, <1>4, <1>5

\* The summaries kept go with the files uploaded for their documents.
LEMMA SummariesAre ==
    ASSUME OppInv, NEW s \in Subs, Ready(s), NEW o
    PROVE  \A r \in SummariesSaved(s, o) : SummaryIn(r, file)
  <1>1. SubIn(sub[s], file)
    BY DEF OppInv, SubsIn
  <1>2. \A r \in SummaryRecords(s, o) : SummaryIn(r, file)
    BY <1>1 DEF SummaryRecords, SummaryIn, SubIn, Ready
  <1>3. SummariesSaved(s, o) \subseteq summaries \cup SummaryRecords(s, o)
    BY DEF SummariesSaved
  <1> QED BY <1>2, <1>3 DEF OppInv

LEMMA SubAnswers ==
    ASSUME OppInv, NEW s \in Subs,
           \/ Saved(s) \/ SaveRefused(s) \/ SaveFails(s) \/ SaveAnswerLost(s)
           \/ \E i \in DOMAIN sub[s].ids : UploadFails(s, i)
    PROVE  OppInv'
  <1>0. OppRowsIn(opp, file) /\ \A r \in summaries : SummaryIn(r, file)
    BY DEF OppInv
  <1>1. sub[s].phase = "uploading"
    BY DEF Saved, SaveRefused, SaveFails, SaveAnswerLost, UploadFails, Ready
  <1>2. CASE Saved(s)
    <2>1. /\ sub' = [sub EXCEPT ![s].phase = "saved"] /\ UNCHANGED <<gone, file, bad>> /\ opp' = Written(s) /\ Ready(s)
          /\ oppForm' = [oppForm EXCEPT !.phase = "left"]
      BY <1>2 DEF Saved
    <2>2. \A r \in summaries' : SummaryIn(r, file)
      BY <1>2, SummariesAre DEF Saved
    <2> QED BY <1>1, <2>1, <2>2, WrittenIs, PhaseKeeps
  <1>3. CASE SaveRefused(s)
    BY <1>0, <1>1, <1>3, PhaseKeeps DEF SaveRefused
  <1>4. CASE Fails(s)
    BY <1>0, <1>1, <1>4, PhaseKeeps DEF Fails
  <1>5. CASE SaveAnswerLost(s)
    BY <1>0, <1>1, <1>5, WrittenIs, PhaseKeeps DEF SaveAnswerLost
  <1> QED BY <1>2, <1>3, <1>4, <1>5 DEF SaveFails, UploadFails

LEMMA DeletionsKeep ==
    ASSUME OppInv, DeleteOpportunity \/ (\E p \in Partners : DeletePartner(p))
    PROVE  OppInv'
  <1>1. CASE DeleteOpportunity
    <2> DEFINE row == [opp[1] EXCEPT !.live = FALSE]
    <2>1. /\ opp \in Seq(OppRow) /\ DOMAIN opp = 1..Len(opp) /\ 1 \in DOMAIN opp /\ opp[1] \in OppRow
          /\ \A o \in DOMAIN opp : opp[o].files \subseteq DOMAIN file
      BY OppRowIs DEF OppInv, OppRowsIn
    <2>2. row \in OppRow /\ row.files = opp[1].files
      BY <2>1 DEF OppRow
    <2>3. opp' = [opp EXCEPT ![1] = row] /\ oppForm.loaded /\ UNCHANGED <<gone, file, summaries, oppForm, sub, bad>>
      BY <1>1 DEF DeleteOpportunity
    <2> HIDE DEF row
    <2>4. opp' \in Seq(OppRow) /\ DOMAIN opp' = DOMAIN opp
      BY <2>1, <2>2, <2>3, ExceptSeq
    <2>5. OppRowsIn(opp', file)
      BY <2>1, <2>2, <2>3, <2>4 DEF OppRowsIn
    <2> QED BY <2>3, <2>5 DEF OppInv, SubsIn
  <1>2. ASSUME NEW p \in Partners, DeletePartner(p) PROVE OppInv'
    BY <1>2 DEF DeletePartner, OppInv, NotTakenOver, SubsIn
  <1> QED BY <1>1, <1>2

LEMMA OppInvStarts == OpportunityInit => OppInv
  <1> SUFFICES ASSUME OpportunityInit PROVE OppInv
    OBVIOUS
  <1>1. PICK kind \in {"new", "edit"}, documents \in StoredFiles :
        /\ file = documents
        /\ \E partners \in SUBSET Partners, modules \in SUBSET Modules :
             /\ kind = "new" => partners = {} /\ modules = {}
             /\ opp = <<[partners |-> partners, modules |-> modules, files |-> DOMAIN documents,
                         live |-> TRUE]>>
        /\ gone = {} /\ summaries = {} /\ bad = 0
        /\ oppForm = [kind |-> kind, phase |-> "open", loaded |-> FALSE, known |-> {},
                      partners |-> {}, modules |-> {}, attachments |-> << >>, summarizing |-> 0,
                      touched |-> {}, changes |-> 0]
        /\ sub = [s \in Subs |-> NoSub]
    BY Zenon DEF OpportunityInit
  <1>2. /\ documents \in Seq(Documents) /\ Len(documents) \in Nat /\ DOMAIN documents = 1..Len(documents)
        /\ Len(documents) <= MaxAttachments /\ MaxAttachments \in Nat
    BY OpportunityAssumption, LenProperties
  <1>3. IsFiniteSet(DOMAIN documents) /\ Cardinality(DOMAIN documents) <= MaxAttachments
    <2> DEFINE n == Len(documents)
    <2>1. n \in Nat /\ DOMAIN documents = 1..n
      BY <1>2
    <2> HIDE DEF n
    <2>2. IsFiniteSet(1..n) /\ Cardinality(1..n) = n
      BY <2>1, FS_Interval
    <2> QED BY <1>2, <2>1, <2>2 DEF n
  <1>4. PICK partners \in SUBSET Partners, modules \in SUBSET Modules :
          opp = <<[partners |-> partners, modules |-> modules, files |-> DOMAIN documents, live |-> TRUE]>>
    BY <1>1
  <1> DEFINE files == DOMAIN documents
             row == [partners |-> partners, modules |-> modules, files |-> files, live |-> TRUE]
  <1>5. row \in OppRow /\ row.files = files /\ opp = <<row>>
    <2>1. files \subseteq Nat /\ opp = <<row>>
      BY <1>2, <1>4
    <2> HIDE DEF files
    <2> QED BY <2>1 DEF OppRow
  <1> HIDE DEF row
  <1>6. OppRowsIn(opp, file)
    <2>1. opp \in Seq(OppRow) /\ DOMAIN opp = {1} /\ opp[1] = row
      <3>1. row \in OppRow /\ opp = <<row>>
        BY <1>5
      <3> QED BY <3>1
    <2>2. file = documents
      BY <1>1
    <2>3. opp[1].files = DOMAIN file
      BY <1>5, <2>1, <2>2 DEF files
    <2> QED BY <2>1, <2>3 DEF OppRowsIn
  <1>7. InOrder(<< >>) /\ Len(<< >>) = 0 /\ DOMAIN << >> = {}
    <2> DEFINE none == << >>
    <2>1. none \in Seq({}) /\ Len(none) = 0
      OBVIOUS
    <2>2. DOMAIN none = {}
      OBVIOUS
    <2> HIDE DEF none
    <2>3. InOrder(none)
      BY <2>1, OfSomething
    <2> QED BY <2>1, <2>2, <2>3 DEF none
  <1>8. OppFormIn(oppForm, file)
    <2> DEFINE none == << >>
    <2>1. oppForm = [kind |-> kind, phase |-> "open", loaded |-> FALSE, known |-> {},
                      partners |-> {}, modules |-> {}, attachments |-> none, summarizing |-> 0,
                      touched |-> {}, changes |-> 0]
      BY <1>1
    <2>2. InOrder(none) /\ Len(none) = 0 /\ DOMAIN none = {}
      BY <1>7
    <2> HIDE DEF none
    <2>3. oppForm = [x \in OppFields |-> oppForm[x]]
      BY <2>1 DEF OppFields
    <2>4. /\ oppForm.kind \in {"new", "edit"} /\ oppForm.known = {} /\ oppForm.changes = 0
          /\ oppForm.attachments = none /\ oppForm.summarizing = 0
      BY <2>1
    <2>5. AttachedIn(none, file) /\ Len(none) <= MaxAttachments
      BY <1>2, <2>2 DEF AttachedIn
    <2> QED BY <2>3, <2>4, <2>5 DEF OppFormIn
  <1>9. SubIn(NoSub, file)
    BY <1>7 DEF SubIn, NoSub, SubFields, AttachedIn
  <1>10. NotTakenOver
    BY <1>1, <1>3, <1>5 DEF NotTakenOver, NoSub
  <1> QED BY <1>1, <1>2, <1>6, <1>8, <1>9, <1>10, OpportunityAssumption DEF OppInv, SubsIn

LEMMA OppInvStays == OppInv /\ OpportunityNext => OppInv'
  <1> SUFFICES ASSUME OppInv, OpportunityNext PROVE OppInv'
    OBVIOUS
  <1>1. CASE OppLoaded \/ OpportunitySubmit \/ OpportunitySave \/ DeleteOpportunity \/ (\E p \in Partners : DeletePartner(p))
    BY <1>1, TakenOver, OppSubmitKeeps, DeletionsKeep
  <1>2. CASE \E s \in Subs :
               \/ ModulesRead(s) \/ Saved(s) \/ SaveRefused(s) \/ SaveFails(s) \/ SaveAnswerLost(s)
               \/ \E i \in DOMAIN sub[s].ids : UploadAnswered(s, i) \/ UploadFails(s, i)
    BY <1>2, ModulesReadKeeps, SubAnswers, OppUploadKeeps
  <1> QED BY <1>1, <1>2, AttachmentChanges DEF OpportunityNext

LEMMA OppInvRests == OppInv /\ UNCHANGED oppVars => OppInv'
  BY DEF oppVars, OppInv, NotTakenOver, SubsIn

LEMMA OpportunityPromises == OppInv => SummaryFollowsFile /\ OpportunityTypeOK
  <1> SUFFICES ASSUME OppInv PROVE SummaryFollowsFile /\ OpportunityTypeOK
    OBVIOUS
  <1>1. SummaryFollowsFile
    BY DEF OppInv, SummaryIn, SummaryFollowsFile
  <1>2. \A o \in DOMAIN opp : opp[o] \in OppRow /\ opp[o].files \subseteq DOMAIN file
    BY OppRowIs DEF OppInv, OppRowsIn
  <1>3. \A s \in Subs : SubIn(sub[s], file)
    BY DEF OppInv, SubsIn
  <1>4. \A s \in Subs : sub[s].phase = "saved" => 0 \notin Range(sub[s].ids)
    BY <1>3 DEF SubIn, Range
  <1>5. \A s \in Subs : sub[s].phase \in {"idle", "uploading", "failed", "saved"}
    BY <1>3 DEF SubIn
  <1> QED BY <1>1, <1>2, <1>4, <1>5 DEF OppInv, OppFormIn, OpportunityTypeOK

-----------------------------------------------------------------------------
(* PRB reports: which report the form shows.                               *)

\* Of a short list the entries that name products are kept ...
LEMMA ShortPurchases ==
    ASSUME NEW list, DOMAIN list \subseteq {1, 2}
    PROVE  Purchased(list) \in Seq(Purchases) /\ Len(Purchased(list)) <= 2
  <1> DEFINE at == {i \in DOMAIN list : list[i] \in Purchases}
             upto(i) == {j \in at : j <= i}
             value(k) == list[CHOOSE i \in at : Cardinality(upto(i)) = k]
             n == Cardinality(at)
  <1>1. at = {} \/ at = {1} \/ at = {2} \/ at = {1, 2}
    <2>1. at \subseteq {1, 2}
      OBVIOUS
    <2> HIDE DEF at
    <2> QED BY <2>1
  <1>2. Cardinality({}) = 0 /\ Cardinality({1}) = 1 /\ Cardinality({2}) = 1 /\ Cardinality({1, 2}) = 2
    <2>1. IsFiniteSet({1}) /\ Cardinality({1}) = 1 /\ Cardinality({2}) = 1
      BY FS_Singleton
    <2>2. Cardinality({1} \union {2}) = IF 2 \in {1} THEN Cardinality({1}) ELSE Cardinality({1}) + 1
      BY <2>1, FS_AddElement
    <2>3. {1} \union {2} = {1, 2}
      OBVIOUS
    <2> QED BY <2>1, <2>2, <2>3, FS_EmptySet
  <1>3. n \in Nat /\ n <= 2
    BY <1>1, <1>2
  <1>4. ASSUME NEW k \in 1..n PROVE \E i \in at : Cardinality(upto(i)) = k
    <2>1. CASE at = {1}
      <3>1. upto(1) = {1} /\ k = 1
        BY <1>2, <2>1
      <3> QED BY <1>2, <2>1, <3>1
    <2>2. CASE at = {2}
      <3>1. upto(2) = {2} /\ k = 1
        BY <1>2, <2>2
      <3> QED BY <1>2, <2>2, <3>1
    <2>3. CASE at = {1, 2}
      <3>1. upto(1) = {1} /\ upto(2) = {1, 2} /\ (k = 1 \/ k = 2)
        BY <1>2, <2>3
      <3> QED BY <1>2, <2>3, <3>1
    <2> QED BY <1>1, <1>2, <2>1, <2>2, <2>3
  <1>5. \A k \in 1..n : value(k) \in Purchases
    <2> SUFFICES ASSUME NEW k \in 1..n PROVE value(k) \in Purchases
      OBVIOUS
    <2> DEFINE chosen == CHOOSE i \in at : Cardinality(upto(i)) = k
    <2>1. chosen \in at
      BY <1>4
    <2> HIDE DEF chosen
    <2>2. list[chosen] \in Purchases
      BY <2>1
    <2> QED BY <2>2 DEF chosen
  <1>6. Purchased(list) = [k \in 1..n |-> value(k)]
    BY DEF Purchased
  <1> HIDE DEF value, n
  <1>7. Purchased(list) \in [1..n -> Purchases]
    BY <1>5, <1>6
  <1> QED BY <1>3, <1>7

\* ... and of a list that begins with them just these.
LEMMA LeadingPurchases ==
    ASSUME NEW list, NEW n \in Nat, {i \in DOMAIN list : list[i] \in Purchases} = 1..n
    PROVE  Purchased(list) = [k \in 1..n |-> list[k]]
  <1> DEFINE at == {i \in DOMAIN list : list[i] \in Purchases}
             upto(i) == {j \in at : j <= i}
             value(k) == list[CHOOSE i \in at : Cardinality(upto(i)) = k]
  <1>1. at = 1..n
    OBVIOUS
  <1>2. Cardinality(at) = n
    <2>1. Cardinality(1..n) = n
      BY FS_Interval
    <2> QED BY <1>1, <2>1
  <1>3. Purchased(list) = [k \in 1..Cardinality(at) |-> value(k)]
    BY DEF Purchased
  <1> HIDE DEF at
  <1>4. ASSUME NEW i \in at PROVE Cardinality(upto(i)) = i
    <2>1. i \in Nat /\ upto(i) = 1..i
      BY <1>1
    <2>2. Cardinality(1..i) = i
      BY <2>1, FS_Interval
    <2> QED BY <2>1, <2>2
  <1>5. ASSUME NEW k \in 1..n PROVE value(k) = list[k]
    <2>1. k \in at /\ Cardinality(upto(k)) = k
      BY <1>1, <1>4
    <2>2. \A i \in at : Cardinality(upto(i)) = k => i = k
      BY <1>4
    <2> HIDE DEF upto
    <2>3. (CHOOSE i \in at : Cardinality(upto(i)) = k) = k
      BY <2>1, <2>2
    <2> QED BY <2>3
  <1> HIDE DEF value
  <1> QED BY <1>2, <1>3, <1>5

\* The form has been filled from a report, or one of its versions.
Fills(g, d) ==
    g.opp = d.opp /\ g.opinion = d.opinion /\ g.fifth = FifthService(d.products) /\ g.products = ShownProducts(d.products)

LEMMA FilledShows ==
    ASSUME NEW g, NEW d, Fills(g, d), d.products \in Seq(Purchases), Len(d.products) <= 3
    PROVE  Shown(g) = Content(d)
  <1> DEFINE products == d.products
             n == Len(products)
             S == Purchases \union {NoPurchase, Subtotal, NoRow}
             first == FifthService(products)
             others == ShownProducts(products)
             list == <<first>> \o others
  <1>1. /\ n \in Nat /\ n <= 3 /\ DOMAIN products = 1..n /\ (products # << >> => n # 0)
        /\ \A k \in 1..n : products[k] \in Purchases
        /\ products = [k \in 1..n |-> products[k]]
    BY LenProperties, ElementOfSeq, EmptySeq
  <1>2. products = << >> => n = 0
    <2>1. Len(<< >>) = 0
      BY EmptySeq
    <2> QED BY <2>1
  <1>3. first \in S /\ (n = 0 => first = NoRow) /\ (n # 0 => first = products[1])
    BY <1>1, <1>2 DEF FifthService
  <1>4. others \in [1..2 -> S] /\ \A i \in 1..2 : others[i] = IF i < n THEN products[i + 1] ELSE NoPurchase
    <2>1. others = [i \in 1..2 |-> IF i < n THEN products[i + 1] ELSE NoPurchase]
      BY DEF ShownProducts, ProductRows
    <2>2. \A i \in 1..2 : (IF i < n THEN products[i + 1] ELSE NoPurchase) \in S
      BY <1>1
    <2> HIDE DEF others, products, n, S
    <2> QED BY <2>1, <2>2
  <1>5. others \in Seq(S) /\ Len(others) = 2
    <2>1. others \in [1..2 -> S]
      BY <1>4
    <2> HIDE DEF others, S
    <2> QED BY <2>1, ListOf
  <1> HIDE DEF first, others, products, n, S
  <1>6. <<first>> \in Seq(S) /\ Len(<<first>>) = 1 /\ <<first>>[1] = first
    BY <1>3
  <1>7. /\ list \in Seq(S) /\ Len(list) = 3
        /\ \A i \in 1..3 : list[i] = IF i <= 1 THEN <<first>>[i] ELSE others[i - 1]
    <2>1. /\ list \in Seq(S) /\ Len(list) = Len(<<first>>) + Len(others)
          /\ \A i \in 1..(Len(<<first>>) + Len(others)) :
                list[i] = IF i <= Len(<<first>>) THEN <<first>>[i] ELSE others[i - Len(<<first>>)]
      BY <1>5, <1>6, ConcatProperties
    <2> QED BY <1>5, <1>6, <2>1
  <1>8. DOMAIN list = 1..3
    BY <1>7, LenProperties
  <1> HIDE DEF list
  <1>9. list[1] = first /\ list[2] = others[1] /\ list[3] = others[2]
    BY <1>6, <1>7
  <1>10. others[1] = (IF 1 < n THEN products[2] ELSE NoPurchase) /\ others[2] = (IF 2 < n THEN products[3] ELSE NoPurchase)
    BY <1>4
  <1>11. \A i \in 1..3 : (i <= n => list[i] = products[i]) /\ (i > n => list[i] \in {NoPurchase, NoRow})
    BY <1>1, <1>3, <1>9, <1>10
  <1>12. NoPurchase \notin Purchases /\ NoRow \notin Purchases
    BY PrbAssumption
  <1>13. {i \in DOMAIN list : list[i] \in Purchases} = 1..n
    BY <1>1, <1>8, <1>11, <1>12
  <1>14. Purchased(list) = [k \in 1..n |-> list[k]]
    BY <1>1, <1>13, LeadingPurchases
  <1>15. \A k \in 1..n : list[k] = products[k]
    BY <1>1, <1>11
  <1>16. Purchased(list) = products
    BY <1>1, <1>14, <1>15
  <1>17. Named(g) = products
    <2>1. <<g.fifth>> \o g.products = list
      BY DEF Fills, list, first, others, products
    <2> QED BY <1>16, <2>1 DEF Named
  <1> QED BY <1>17 DEF Shown, Content, Fills, products

PrbFields == {"opp", "rep", "reviewer", "products", "opinion", "live", "status", "versions"}

IsVersion(d) ==
    d.opp \in DOMAIN OpportunityNamed /\ d.rep \in Users /\ d.products \in Seq(Purchases) /\ d.opinion \in Opinions

IsPrb(d) ==
    /\ d = [x \in PrbFields |-> d[x]]
    /\ IsVersion(d) /\ d.reviewer \in Users /\ Len(d.products) <= 3
    /\ InOrder(d.versions) /\ \A v \in DOMAIN d.versions : IsVersion(d.versions[v])

PrbFormFields ==
    {"kind", "phase", "source", "opp", "rep", "reviewer", "opinion", "fifth", "products", "version", "detail",
     "old", "broken", "typed", "loaded", "overtaken", "changes"}

IsPrbForm(g) ==
    /\ g = [x \in PrbFormFields |-> g[x]]
    /\ g.kind \in {"new", "edit", "clone"} /\ g.overtaken \in BOOLEAN
    /\ g.opp \in {NoOpportunity} \union DOMAIN OpportunityNamed
    /\ g.rep \in Users \union {NoUser} /\ g.reviewer \in Users \union {NoUser} /\ g.opinion \in Opinions
    /\ g.products \in [1..2 -> Purchases \union {NoPurchase}]
    /\ g.changes \in 0..MaxPrbChanges[g.kind]
    /\ \A row \in g.source : IsPrb(row)

PrbsIn(rows) == InOrder(rows) /\ \A r \in DOMAIN rows : IsPrb(rows[r])

\* Versions are looked at in the form of a stored report only, and are versions of it.
VersionsIn(g, v, rows) ==
    IF g.kind = "edit" THEN 1 \in DOMAIN rows /\ {g.version, g.detail, v} \subseteq {0} \union DOMAIN rows[1].versions
    ELSE g.version = 0 /\ v = 0

\* Unless it is overtaken, what the form was filled from last, and goes back to from a version, has
\* the content in force.
InForce(g, rows) ==
    g.kind = "edit" /\ g.loaded /\ ~g.overtaken =>
       /\ \A row \in g.source : Content(row) = Content(rows[1])
       /\ ~g.typed /\ ~g.old => Fills(g, rows[1])

ReadsFields == {"list", "rows", "record", "version", "again"}

PrbReadsIn(reads, g) ==
    /\ reads = [x \in ReadsFields |-> reads[x]]
    /\ \A row \in reads.rows : IsPrb(row)
    /\ g.kind = "new" => reads.record = "idle"

IsPayload(p) ==
    /\ p.opp \in DOMAIN OpportunityNamed /\ p.rep \in Users \union {NoUser} /\ p.reviewer \in Users
    /\ p.products \in Seq(Purchases) /\ Len(p.products) <= 2 /\ p.opinion \in Opinions

PrbSendsIn(sends) == sends = [s \in PrbSends |-> sends[s]] /\ \A s \in PrbSends : \A p \in sends[s].payload : IsPayload(p)

PrbInv ==
    /\ PrbsIn(prb) /\ IsPrbForm(prbForm) /\ PrbReadsIn(prbReads, prbForm) /\ PrbSendsIn(prbSend)
    /\ prbFaults \in 0..MaxPrbFaults
    /\ VersionsIn(prbForm, prbReads.version, prb) /\ InForce(prbForm, prb)
    \* A stored report is opened, and stays the first row.
    /\ prbForm.kind # "new" => 1 \in DOMAIN prb

\* Filling the form from a report or a version keeps what it does not fill.
LEMMA FormFilled ==
    ASSUME NEW g, IsPrbForm(g), NEW d, IsVersion(d)
    PROVE  /\ IsPrbForm(FilledFrom(g, d)) /\ Fills(FilledFrom(g, d), d)
           /\ ~FilledFrom(g, d).typed /\ ~FilledFrom(g, d).old
           /\ \A x \in {"kind", "phase", "source", "version", "detail", "broken", "loaded", "overtaken", "changes"} :
                FilledFrom(g, d)[x] = g[x]
  <1> DEFINE o == d.opp
             rep == d.rep
             opinion == d.opinion
             fifth == FifthService(d.products)
             products == ShownProducts(d.products)
             next == [g EXCEPT !.opp = o, !.rep = rep, !.reviewer = rep, !.opinion = opinion, !.fifth = fifth,
                               !.products = products, !.typed = FALSE, !.old = FALSE]
  <1>1. FilledFrom(g, d) = next
    BY DEF FilledFrom
  <1>2. o \in DOMAIN OpportunityNamed /\ rep \in Users /\ opinion \in Opinions
    BY DEF IsVersion
  <1>3. products \in [1..2 -> Purchases \union {NoPurchase}]
    <2> DEFINE list == d.products
               n == Len(list)
    <2>1. n \in Nat /\ \A k \in 1..n : list[k] \in Purchases
      BY LenProperties, ElementOfSeq DEF IsVersion
    <2>2. products = [i \in 1..2 |-> IF i < n THEN list[i + 1] ELSE NoPurchase]
      BY DEF ShownProducts, ProductRows
    <2> HIDE DEF list, n, products
    <2>3. \A i \in 1..2 : (IF i < n THEN list[i + 1] ELSE NoPurchase) \in Purchases \union {NoPurchase}
      BY <2>1
    <2> QED BY <2>2, <2>3
  <1>4. g = [x \in PrbFormFields |-> g[x]]
    BY DEF IsPrbForm
  <1>5. next.opp = o /\ next.opinion = opinion /\ next.fifth = fifth /\ next.products = products
    <2> HIDE DEF o, rep, opinion, fifth, products
    <2> QED BY <1>4 DEF PrbFormFields
  <1>6. Fills(next, d)
    <2> HIDE DEF next
    <2> QED BY <1>5 DEF Fills
  <1> HIDE DEF o, rep, opinion, fifth, products
  <1>7. IsPrbForm(next)
    BY <1>2, <1>3 DEF IsPrbForm, PrbFormFields
  <1>8. ~next.typed /\ ~next.old
    BY <1>4 DEF PrbFormFields
  <1>9. \A x \in {"kind", "phase", "source", "version", "detail", "broken", "loaded", "overtaken", "changes"} : next[x] = g[x]
    BY <1>4 DEF PrbFormFields
  <1> HIDE DEF next
  <1> QED BY <1>1, <1>6, <1>7, <1>8, <1>9

LEMMA FormApplied ==
    ASSUME NEW g, IsPrbForm(g), NEW row, IsPrb(row)
    PROVE  /\ IsPrbForm(Applied(g, row)) /\ Fills(Applied(g, row), row) /\ Applied(g, row).source = {row}
           /\ ~Applied(g, row).typed /\ ~Applied(g, row).old
           /\ \A x \in {"kind", "phase", "version", "detail", "broken", "loaded", "overtaken", "changes"} :
                Applied(g, row)[x] = g[x]
  <1> DEFINE filled == FilledFrom(g, row)
             source == {row}
             next == [filled EXCEPT !.source = source]
  <1>1. /\ IsPrbForm(filled) /\ Fills(filled, row) /\ ~filled.typed /\ ~filled.old
        /\ \A x \in {"kind", "phase", "source", "version", "detail", "broken", "loaded", "overtaken", "changes"} :
             filled[x] = g[x]
    BY FormFilled DEF IsPrb
  <1>2. Applied(g, row) = next
    BY DEF Applied
  <1>3. \A r \in source : IsPrb(r)
    OBVIOUS
  <1>4. source = {row}
    OBVIOUS
  <1> HIDE DEF filled, source
  <1>5. IsPrbForm(next)
    BY <1>1, <1>3 DEF IsPrbForm, PrbFormFields
  <1>6. next.source = source /\ \A x \in PrbFormFields \ {"source"} : next[x] = filled[x]
    BY <1>1 DEF IsPrbForm, PrbFormFields
  <1> HIDE DEF next
  <1>7. Fills(next, row)
    BY <1>1, <1>6 DEF Fills, PrbFormFields
  <1>8. ~next.typed /\ ~next.old
    BY <1>1, <1>6 DEF PrbFormFields
  <1>9. \A x \in {"kind", "phase", "version", "detail", "broken", "loaded", "overtaken", "changes"} : next[x] = g[x]
    BY <1>1, <1>6 DEF PrbFormFields
  <1> QED BY <1>2, <1>4, <1>5, <1>6, <1>7, <1>8, <1>9

\* What a form shows depends on the content it was filled from only.
LEMMA SameContentFills ==
    ASSUME NEW g, NEW d, NEW e, Fills(g, d), Content(d) = Content(e)
    PROVE  Fills(g, e)
  <1>1. d.opp = e.opp /\ d.products = e.products /\ d.opinion = e.opinion
    BY DEF Content
  <1> QED BY <1>1 DEF Fills

\* The page changes, the reports and what was sent stay.
LEMMA PrbPageKeeps ==
    ASSUME PrbInv, UNCHANGED <<prb, prbSend>>, IsPrbForm(prbForm'), prbForm'.kind = prbForm.kind,
           PrbReadsIn(prbReads', prbForm'), prbFaults' \in 0..MaxPrbFaults,
           VersionsIn(prbForm', prbReads'.version, prb), InForce(prbForm', prb)
    PROVE  PrbInv'
  <1>1. PrbsIn(prb') /\ PrbSendsIn(prbSend')
    BY DEF PrbInv
  <1>2. VersionsIn(prbForm', prbReads'.version, prb') /\ InForce(prbForm', prb')
    OBVIOUS
  <1>3. prbForm'.kind # "new" => 1 \in DOMAIN prb'
    BY DEF PrbInv
  <1> QED BY <1>1, <1>2, <1>3 DEF PrbInv

LEMMA FirstPrb == ASSUME PrbInv, prbForm.kind # "new" PROVE 1 \in DOMAIN prb /\ IsPrb(prb[1])
  BY DEF PrbInv, PrbsIn

LEMMA PrbListKeeps == ASSUME PrbInv, PrbListRead \/ PrbListFails \/ RefreshPrb PROVE PrbInv'
  <1>0. /\ PrbsIn(prb) /\ IsPrbForm(prbForm) /\ PrbReadsIn(prbReads, prbForm) /\ prbFaults \in 0..MaxPrbFaults
        /\ VersionsIn(prbForm, prbReads.version, prb) /\ InForce(prbForm, prb)
    BY DEF PrbInv
  <1>1. UNCHANGED <<prb, prbSend, prbForm>>
    BY DEF PrbListRead, PrbListFails, RefreshPrb
  <1>2. prbFaults' \in 0..MaxPrbFaults
    BY <1>0, PrbAssumption DEF PrbListRead, PrbListFails, RefreshPrb
  <1>3. PrbReadsIn(prbReads', prbForm) /\ prbReads'.version = prbReads.version
    <2>1. CASE PrbListRead
      <3> DEFINE rows == {prb[r] : r \in {q \in DOMAIN prb : q = 1 /\ prb[q].live}}
      <3>1. \A row \in rows : IsPrb(row)
        BY <1>0 DEF PrbsIn
      <3>2. prbReads' = [prbReads EXCEPT !.list = "read", !.rows = rows]
        BY <2>1 DEF PrbListRead
      <3> HIDE DEF rows
      <3> QED BY <1>0, <3>1, <3>2 DEF PrbReadsIn, ReadsFields
    <2>2. CASE PrbListFails
      BY <1>0, <2>2 DEF PrbListFails, PrbReadsIn, ReadsFields
    <2>3. CASE RefreshPrb
      BY <1>0, <2>3 DEF RefreshPrb, PrbReadsIn, ReadsFields
    <2> QED BY <2>1, <2>2, <2>3
  <1>4. /\ IsPrbForm(prbForm') /\ prbForm'.kind = prbForm.kind /\ PrbReadsIn(prbReads', prbForm')
        /\ VersionsIn(prbForm', prbReads'.version, prb) /\ InForce(prbForm', prb)
    BY <1>0, <1>1, <1>3
  <1> QED BY <1>1, <1>2, <1>4, PrbPageKeeps

LEMMA PrbListArrivesKeeps == ASSUME PrbInv, PrbListArrives PROVE PrbInv'
  <1>0. /\ PrbsIn(prb) /\ IsPrbForm(prbForm) /\ PrbReadsIn(prbReads, prbForm) /\ prbFaults \in 0..MaxPrbFaults
        /\ VersionsIn(prbForm, prbReads.version, prb) /\ InForce(prbForm, prb)
    BY DEF PrbInv
  <1> DEFINE version == IF prbReads.rows # {} THEN prbForm.version ELSE prbReads.version
             record == IF prbForm.kind # "new" /\ prbReads.record = "idle" THEN "sent" ELSE prbReads.record
  <1>1. /\ prbReads' = [prbReads EXCEPT !.list = "done", !.rows = {}, !.version = version, !.record = record]
        /\ UNCHANGED <<prb, prbSend, prbFaults>>
    BY DEF PrbListArrives
  <1>2. VersionsIn(prbForm, version, prb)
    BY <1>0 DEF VersionsIn
  <1>3. prbForm.kind = "new" => record = "idle"
    BY <1>0 DEF PrbReadsIn
  <1> HIDE DEF version, record
  <1>4. PrbReadsIn(prbReads', prbForm) /\ prbReads'.version = version
    BY <1>0, <1>1, <1>3 DEF PrbReadsIn, ReadsFields
  <1>5. CASE UNCHANGED prbForm
    <2>1. /\ IsPrbForm(prbForm') /\ prbForm'.kind = prbForm.kind /\ PrbReadsIn(prbReads', prbForm')
          /\ VersionsIn(prbForm', prbReads'.version, prb) /\ InForce(prbForm', prb)
      BY <1>0, <1>2, <1>4, <1>5
    <2> QED BY <1>0, <1>1, <2>1, PrbPageKeeps
  <1>6. CASE \E row \in prbReads.rows :
                prbForm' = [Applied(prbForm, row) EXCEPT !.overtaken = Content(row) # Content(prb[1])]
    <2>1. PICK row \in prbReads.rows :
             prbForm' = [Applied(prbForm, row) EXCEPT !.overtaken = Content(row) # Content(prb[1])]
      BY <1>6
    <2> DEFINE applied == Applied(prbForm, row)
               late == Content(row) # Content(prb[1])
    <2>2. IsPrb(row)
      BY <1>0 DEF PrbReadsIn
    <2>3. /\ IsPrbForm(applied) /\ Fills(applied, row) /\ applied.source = {row}
          /\ applied.kind = prbForm.kind /\ applied.version = prbForm.version /\ applied.detail = prbForm.detail
      BY <1>0, <2>2, FormApplied
    <2>4. late \in BOOLEAN /\ prbForm' = [applied EXCEPT !.overtaken = late]
      BY <2>1
    <2>5. ~late => Content(row) = Content(prb[1])
      OBVIOUS
    <2> HIDE DEF applied, late
    <2>6. /\ IsPrbForm(prbForm') /\ prbForm'.overtaken = late
          /\ \A x \in PrbFormFields \ {"overtaken"} : prbForm'[x] = applied[x]
      BY <2>3, <2>4 DEF IsPrbForm, PrbFormFields
    <2>7. /\ prbForm'.kind = prbForm.kind /\ prbForm'.version = prbForm.version /\ prbForm'.detail = prbForm.detail
          /\ prbForm'.source = {row} /\ Fills(prbForm', row)
      BY <2>3, <2>6 DEF PrbFormFields, Fills
    <2>8. InForce(prbForm', prb)
      BY <2>5, <2>6, <2>7, SameContentFills DEF InForce
    <2>9. PrbReadsIn(prbReads', prbForm') /\ VersionsIn(prbForm', prbReads'.version, prb)
      BY <1>2, <1>4, <2>7 DEF PrbReadsIn, VersionsIn
    <2> QED BY <1>0, <1>1, <2>6, <2>7, <2>8, <2>9, PrbPageKeeps
  <1> QED BY <1>5, <1>6 DEF PrbListArrives

LEMMA PrbRecordKeeps == ASSUME PrbInv, PrbRecordArrives PROVE PrbInv'
  <1>0. /\ PrbsIn(prb) /\ IsPrbForm(prbForm) /\ PrbReadsIn(prbReads, prbForm) /\ prbFaults \in 0..MaxPrbFaults
        /\ VersionsIn(prbForm, prbReads.version, prb) /\ InForce(prbForm, prb)
    BY DEF PrbInv
  <1> DEFINE row == prb[1]
             applied == Applied(prbForm, row)
             version == prbForm.version
  <1>1. /\ prbForm' = [applied EXCEPT !.loaded = TRUE, !.overtaken = FALSE]
        /\ prbReads' = [prbReads EXCEPT !.record = "done", !.version = version]
        /\ UNCHANGED <<prb, prbSend, prbFaults>> /\ prbForm.kind # "new"
    BY <1>0 DEF PrbRecordArrives, PrbReadsIn
  <1>2. IsPrb(row)
    BY <1>1, FirstPrb
  <1>3. /\ IsPrbForm(applied) /\ Fills(applied, row) /\ applied.source = {row}
        /\ applied.kind = prbForm.kind /\ applied.version = prbForm.version /\ applied.detail = prbForm.detail
    BY <1>0, <1>2, FormApplied
  <1>4. VersionsIn(prbForm, version, prb)
    BY <1>0 DEF VersionsIn
  <1> HIDE DEF applied, version
  <1>5. IsPrbForm(prbForm') /\ \A x \in PrbFormFields \ {"overtaken", "loaded"} : prbForm'[x] = applied[x]
    BY <1>1, <1>3 DEF IsPrbForm, PrbFormFields
  <1>6. /\ prbForm'.kind = prbForm.kind /\ prbForm'.version = prbForm.version /\ prbForm'.detail = prbForm.detail
        /\ prbForm'.source = {row} /\ Fills(prbForm', row)
    BY <1>3, <1>5 DEF PrbFormFields, Fills
  <1>7. InForce(prbForm', prb)
    BY <1>6 DEF InForce
  <1>8. PrbReadsIn(prbReads', prbForm') /\ prbReads'.version = version
    BY <1>0, <1>1, <1>6 DEF PrbReadsIn, ReadsFields
  <1>9. VersionsIn(prbForm', prbReads'.version, prb)
    BY <1>4, <1>6, <1>8 DEF VersionsIn
  <1> QED BY <1>0, <1>1, <1>5, <1>6, <1>7, <1>8, <1>9, PrbPageKeeps

LEMMA PrbVersionKeeps ==
    ASSUME PrbInv, (\E v \in 1..(MaxPrbSends + 2) : OpenVersion(v)) \/ VersionArrives \/ CloseVersion
    PROVE  PrbInv'
  <1>0. /\ PrbsIn(prb) /\ IsPrbForm(prbForm) /\ PrbReadsIn(prbReads, prbForm) /\ prbFaults \in 0..MaxPrbFaults
        /\ VersionsIn(prbForm, prbReads.version, prb) /\ InForce(prbForm, prb)
    BY DEF PrbInv
  <1>1. UNCHANGED <<prb, prbSend>>
    BY DEF OpenVersion, VersionArrives, CloseVersion
  <1>2. ASSUME NEW v, prbReads' = [prbReads EXCEPT !.version = v], prbForm'.kind = prbForm.kind
        PROVE  PrbReadsIn(prbReads', prbForm') /\ prbReads'.version = v
    BY <1>0, <1>2 DEF PrbReadsIn, ReadsFields
  <1>3. ASSUME NEW v \in 1..(MaxPrbSends + 2), OpenVersion(v) PROVE PrbInv'
    <2>1. /\ prbForm.kind = "edit" /\ v \in DOMAIN prb[1].versions
          /\ prbForm' = [prbForm EXCEPT !.version = v] /\ prbReads' = [prbReads EXCEPT !.version = v]
          /\ UNCHANGED prbFaults
      BY <1>3 DEF OpenVersion
    <2>2. IsPrbForm(prbForm') /\ prbForm'.version = v /\ \A x \in PrbFormFields \ {"version"} : prbForm'[x] = prbForm[x]
      BY <1>0, <2>1 DEF IsPrbForm, PrbFormFields
    <2>3. prbForm'.kind = prbForm.kind /\ prbForm'.detail = prbForm.detail /\ InForce(prbForm', prb)
      BY <1>0, <2>2 DEF PrbFormFields, InForce, Fills
    <2>4. PrbReadsIn(prbReads', prbForm') /\ prbReads'.version = v
      BY <1>2, <2>1, <2>3
    <2>5. VersionsIn(prbForm', prbReads'.version, prb)
      BY <1>0, <2>1, <2>2, <2>3, <2>4 DEF VersionsIn
    <2> QED BY <1>0, <1>1, <2>1, <2>2, <2>3, <2>4, <2>5, PrbPageKeeps
  <1>4. ASSUME VersionArrives PROVE PrbInv'
    <2> DEFINE v == prbReads.version
               d == prb[1].versions[v]
    <2>1. v # 0 /\ prbReads' = [prbReads EXCEPT !.version = 0]
      BY <1>4 DEF VersionArrives
    <2>2. prbForm.kind = "edit" /\ v \in DOMAIN prb[1].versions /\ IsVersion(d)
      BY <1>0, <2>1, FirstPrb DEF VersionsIn, IsPrb
    <2>3. CASE prbForm' = [FilledFrom(prbForm, d) EXCEPT !.detail = v, !.old = TRUE] /\ UNCHANGED prbFaults
      <3> DEFINE filled == FilledFrom(prbForm, d)
      <3>1. /\ IsPrbForm(filled)
            /\ \A x \in {"kind", "phase", "source", "version", "detail", "broken", "loaded", "overtaken", "changes"} :
                 filled[x] = prbForm[x]
        BY <1>0, <2>2, FormFilled
      <3>2. prbForm' = [filled EXCEPT !.detail = v, !.old = TRUE]
        BY <2>3
      <3> HIDE DEF filled, d, v
      <3>3. /\ IsPrbForm(prbForm') /\ prbForm'.kind = prbForm.kind /\ prbForm'.version = prbForm.version
            /\ prbForm'.detail = v /\ prbForm'.old /\ prbForm'.source = prbForm.source
            /\ prbForm'.loaded = prbForm.loaded /\ prbForm'.overtaken = prbForm.overtaken
        BY <3>1, <3>2 DEF IsPrbForm, PrbFormFields
      <3>4. InForce(prbForm', prb)
        BY <1>0, <3>3 DEF InForce
      <3>5. PrbReadsIn(prbReads', prbForm') /\ prbReads'.version = 0
        BY <1>2, <2>1, <3>3
      <3>6. VersionsIn(prbForm', prbReads'.version, prb)
        BY <1>0, <2>2, <3>3, <3>5 DEF VersionsIn
      <3> QED BY <1>0, <1>1, <2>3, <3>3, <3>4, <3>5, <3>6, PrbPageKeeps
    <2>4. CASE /\ prbFaults < MaxPrbFaults /\ prbFaults' = prbFaults + 1
               /\ prbForm' = [prbForm EXCEPT !.detail = 0, !.broken = @ \/ prbForm.old]
      <3> DEFINE broken == prbForm.broken \/ prbForm.old
      <3>1. prbForm' = [prbForm EXCEPT !.detail = 0, !.broken = broken]
        BY <2>4
      <3> HIDE DEF broken
      <3>2. IsPrbForm(prbForm') /\ prbForm'.detail = 0 /\ \A x \in PrbFormFields \ {"detail", "broken"} : prbForm'[x] = prbForm[x]
        BY <1>0, <3>1 DEF IsPrbForm, PrbFormFields
      <3>3. prbForm'.kind = prbForm.kind /\ prbForm'.version = prbForm.version /\ InForce(prbForm', prb)
        BY <1>0, <3>2 DEF PrbFormFields, InForce, Fills
      <3>4. PrbReadsIn(prbReads', prbForm') /\ prbReads'.version = 0
        BY <1>2, <2>1, <3>3
      <3>5. VersionsIn(prbForm', prbReads'.version, prb)
        BY <1>0, <2>2, <3>2, <3>3, <3>4 DEF VersionsIn
      <3>6. prbFaults' \in 0..MaxPrbFaults
        BY <1>0, <2>4, PrbAssumption
      <3> QED BY <1>1, <3>2, <3>3, <3>4, <3>5, <3>6, PrbPageKeeps
    <2> QED BY <1>4, <2>3, <2>4 DEF VersionArrives
  <1>5. ASSUME CloseVersion PROVE PrbInv'
    <2>1. PICK row \in prbForm.source : prbForm' = [FilledFrom(prbForm, row) EXCEPT !.version = 0, !.detail = 0]
      BY <1>5 DEF CloseVersion
    <2>2. prbReads' = [prbReads EXCEPT !.version = 0] /\ UNCHANGED prbFaults
      BY <1>5 DEF CloseVersion
    <2> DEFINE filled == FilledFrom(prbForm, row)
    <2>3. IsPrb(row) /\ IsVersion(row)
      BY <1>0 DEF IsPrbForm, IsPrb
    <2>4. /\ IsPrbForm(filled) /\ Fills(filled, row)
          /\ \A x \in {"kind", "phase", "source", "version", "detail", "broken", "loaded", "overtaken", "changes"} :
               filled[x] = prbForm[x]
      BY <1>0, <2>3, FormFilled
    <2>5. prbForm' = [filled EXCEPT !.version = 0, !.detail = 0]
      BY <2>1
    <2> HIDE DEF filled
    <2>6. /\ IsPrbForm(prbForm') /\ prbForm'.version = 0 /\ prbForm'.detail = 0
          /\ \A x \in PrbFormFields \ {"detail", "version"} : prbForm'[x] = filled[x]
      BY <2>4, <2>5 DEF IsPrbForm, PrbFormFields
    <2>7. /\ prbForm'.kind = prbForm.kind /\ Fills(prbForm', row) /\ prbForm'.source = prbForm.source
          /\ prbForm'.loaded = prbForm.loaded /\ prbForm'.overtaken = prbForm.overtaken
      BY <2>4, <2>6 DEF PrbFormFields, Fills
    <2>8. InForce(prbForm', prb)
      BY <1>0, <2>7, SameContentFills DEF InForce
    <2>9. PrbReadsIn(prbReads', prbForm') /\ prbReads'.version = 0
      BY <1>2, <2>2, <2>7
    <2>10. VersionsIn(prbForm', prbReads'.version, prb)
      BY <1>0, <2>6, <2>7, <2>9 DEF VersionsIn
    <2> QED BY <1>0, <1>1, <2>2, <2>6, <2>7, <2>8, <2>9, <2>10, PrbPageKeeps
  <1> QED BY <1>3, <1>4, <1>5

LEMMA PrbChangeKeeps ==
    ASSUME PrbInv, NEW next, ChangePrb(next), IsPrbForm(next),
           \A x \in {"kind", "source", "version", "detail", "loaded", "overtaken", "changes"} : next[x] = prbForm[x]
    PROVE  PrbInv'
  <1>0. /\ IsPrbForm(prbForm) /\ PrbReadsIn(prbReads, prbForm) /\ prbFaults \in 0..MaxPrbFaults
        /\ VersionsIn(prbForm, prbReads.version, prb) /\ InForce(prbForm, prb)
    BY DEF PrbInv
  <1>1. UNCHANGED <<prb, prbReads, prbSend, prbFaults>> /\ prbForm.changes < MaxPrbChanges[prbForm.kind]
    BY DEF ChangePrb
  <1> DEFINE n == next.changes + 1
  <1>2. n \in 0..MaxPrbChanges[next.kind]
    <2>1. next.kind = prbForm.kind /\ next.changes = prbForm.changes
      OBVIOUS
    <2>2. next.changes \in Nat /\ MaxPrbChanges[next.kind] \in Nat
      BY PrbAssumption DEF IsPrbForm
    <2> QED BY <1>1, <2>1, <2>2
  <1>3. prbForm' = [next EXCEPT !.changes = n, !.typed = TRUE]
    BY DEF ChangePrb
  <1> HIDE DEF n
  <1>4. IsPrbForm(prbForm') /\ prbForm'.typed /\ \A x \in PrbFormFields \ {"changes", "typed"} : prbForm'[x] = next[x]
    BY <1>2, <1>3 DEF IsPrbForm, PrbFormFields
  <1>5. /\ prbForm'.kind = prbForm.kind /\ prbForm'.version = prbForm.version /\ prbForm'.detail = prbForm.detail
        /\ prbForm'.source = prbForm.source /\ prbForm'.loaded = prbForm.loaded /\ prbForm'.overtaken = prbForm.overtaken
    BY <1>4 DEF PrbFormFields
  <1>6. PrbReadsIn(prbReads', prbForm') /\ VersionsIn(prbForm', prbReads'.version, prb)
    BY <1>0, <1>1, <1>5 DEF PrbReadsIn, VersionsIn
  <1>7. InForce(prbForm', prb)
    BY <1>0, <1>4, <1>5 DEF InForce
  <1> QED BY <1>0, <1>1, <1>4, <1>5, <1>6, <1>7, PrbPageKeeps

LEMMA PrbChanges ==
    ASSUME PrbInv,
           \/ \E o \in DOMAIN OpportunityNamed : ChoosePrbOpportunity(o)
           \/ \E u \in Users : ChooseReviewer(u) \/ ChooseRepresentative(u)
           \/ \E i \in ProductRows, name \in Purchases : TypeProduct(i, name)
           \/ \E text \in Opinions : TypeOpinion(text)
    PROVE  PrbInv'
  <1>0. IsPrbForm(prbForm)
    BY DEF PrbInv
  <1>1. ASSUME NEW o \in DOMAIN OpportunityNamed, ChoosePrbOpportunity(o) PROVE PrbInv'
    <2> DEFINE next == [prbForm EXCEPT !.opp = o]
    <2>1. ChangePrb(next)
      BY <1>1 DEF ChoosePrbOpportunity
    <2>2. /\ IsPrbForm(next)
          /\ \A x \in {"kind", "source", "version", "detail", "loaded", "overtaken", "changes"} : next[x] = prbForm[x]
      BY <1>0 DEF IsPrbForm, PrbFormFields
    <2> HIDE DEF next
    <2> QED BY <2>1, <2>2, PrbChangeKeeps
  <1>2. ASSUME NEW u \in Users, ChooseReviewer(u) PROVE PrbInv'
    <2> DEFINE next == [prbForm EXCEPT !.reviewer = u]
    <2>1. ChangePrb(next)
      BY <1>2 DEF ChooseReviewer
    <2>2. /\ IsPrbForm(next)
          /\ \A x \in {"kind", "source", "version", "detail", "loaded", "overtaken", "changes"} : next[x] = prbForm[x]
      BY <1>0 DEF IsPrbForm, PrbFormFields
    <2> HIDE DEF next
    <2> QED BY <2>1, <2>2, PrbChangeKeeps
  <1>3. ASSUME NEW u \in Users, ChooseRepresentative(u) PROVE PrbInv'
    <2> DEFINE next == [prbForm EXCEPT !.rep = u]
    <2>1. ChangePrb(next)
      BY <1>3 DEF ChooseRepresentative
    <2>2. /\ IsPrbForm(next)
          /\ \A x \in {"kind", "source", "version", "detail", "loaded", "overtaken", "changes"} : next[x] = prbForm[x]
      BY <1>0 DEF IsPrbForm, PrbFormFields
    <2> HIDE DEF next
    <2> QED BY <2>1, <2>2, PrbChangeKeeps
  <1>4. ASSUME NEW i \in ProductRows, NEW name \in Purchases, TypeProduct(i, name) PROVE PrbInv'
    <2> DEFINE products == [prbForm.products EXCEPT ![i] = name]
               next == [prbForm EXCEPT !.products = products]
    <2>1. ChangePrb(next)
      BY <1>4 DEF TypeProduct
    <2>2. products \in [1..2 -> Purchases \union {NoPurchase}]
      BY <1>0 DEF IsPrbForm, ProductRows
    <2> HIDE DEF products
    <2>3. /\ IsPrbForm(next)
          /\ \A x \in {"kind", "source", "version", "detail", "loaded", "overtaken", "changes"} : next[x] = prbForm[x]
      BY <1>0, <2>2 DEF IsPrbForm, PrbFormFields
    <2> HIDE DEF next
    <2> QED BY <2>1, <2>3, PrbChangeKeeps
  <1>5. ASSUME NEW text \in Opinions, TypeOpinion(text) PROVE PrbInv'
    <2> DEFINE next == [prbForm EXCEPT !.opinion = text]
    <2>1. ChangePrb(next)
      BY <1>5 DEF TypeOpinion
    <2>2. /\ IsPrbForm(next)
          /\ \A x \in {"kind", "source", "version", "detail", "loaded", "overtaken", "changes"} : next[x] = prbForm[x]
      BY <1>0 DEF IsPrbForm, PrbFormFields
    <2> HIDE DEF next
    <2> QED BY <2>1, <2>2, PrbChangeKeeps
  <1> QED BY <1>1, <1>2, <1>3, <1>4, <1>5

\* Only what was sent changes.
LEMMA PrbSendKeeps ==
    ASSUME PrbInv, UNCHANGED <<prb, prbForm, prbReads, prbFaults>>, PrbSendsIn(prbSend')
    PROVE  PrbInv'
  <1>1. /\ PrbsIn(prb') /\ IsPrbForm(prbForm') /\ PrbReadsIn(prbReads', prbForm') /\ prbFaults' \in 0..MaxPrbFaults
        /\ VersionsIn(prbForm', prbReads'.version, prb') /\ InForce(prbForm', prb')
        /\ (prbForm'.kind # "new" => 1 \in DOMAIN prb')
    BY DEF PrbInv
  <1> QED BY <1>1 DEF PrbInv

LEMMA SentPrb == ASSUME PrbInv, NEW s \in PrbSends, NEW status, Persist(s, status) PROVE PrbInv'
  <1> DEFINE p(o) == [opp |-> o, rep |-> prbForm.rep, reviewer |-> prbForm.reviewer, fifth |-> FifthSent(prbForm),
                      products |-> ProductsSent(prbForm), opinion |-> prbForm.opinion]
             payload == {p(o) : o \in OpportunitiesSent(prbForm)}
             shown == {Shown(prbForm)}
             entry == [phase |-> "sent", shown |-> shown, payload |-> payload]
  <1>0. IsPrbForm(prbForm) /\ PrbSendsIn(prbSend)
    BY DEF PrbInv
  <1>1. prbSend' = [prbSend EXCEPT ![s] = entry] /\ UNCHANGED <<prb, prbForm, prbReads, prbFaults>> /\ prbForm.reviewer # NoUser
    BY DEF Persist
  <1>2. ProductsSent(prbForm) \in Seq(Purchases) /\ Len(ProductsSent(prbForm)) <= 2
    <2> DEFINE list == prbForm.products
    <2>1. list \in [1..2 -> Purchases \union {NoPurchase}]
      BY <1>0 DEF IsPrbForm
    <2> HIDE DEF list
    <2>2. InOrder(list) /\ Len(list) = 2 /\ DOMAIN list = 1..2
      BY <2>1, ListInOrder
    <2>3. list # << >>
      <3>1. Len(<< >>) = 0
        BY EmptySeq
      <3> QED BY <2>2, <3>1
    <2>4. InOrder(Tail(list)) /\ Len(Tail(list)) = 1
      BY <2>2, <2>3, Shortened
    <2>5. DOMAIN Tail(list) = 1..1
      BY <2>4, LenProperties DEF InOrder
    <2>6. DOMAIN (IF prbForm.fifth = NoRow THEN Tail(list) ELSE list) \subseteq {1, 2}
      BY <2>2, <2>5
    <2>7. ProductsSent(prbForm) = Purchased(IF prbForm.fifth = NoRow THEN Tail(list) ELSE list)
      BY DEF ProductsSent, list
    <2> QED BY <2>6, <2>7, ShortPurchases
  <1>3. \A o \in OpportunitiesSent(prbForm) : o \in DOMAIN OpportunityNamed
    BY DEF OpportunitiesSent
  <1>4. prbForm.rep \in Users \union {NoUser} /\ prbForm.reviewer \in Users /\ prbForm.opinion \in Opinions
    BY <1>0, <1>1 DEF IsPrbForm
  <1>5. ASSUME NEW q \in payload PROVE IsPayload(q)
    <2>1. PICK o \in OpportunitiesSent(prbForm) : q = p(o)
      BY <1>5
    <2> DEFINE products == ProductsSent(prbForm)
               fifth == FifthSent(prbForm)
    <2>2. /\ q.opp = o /\ q.rep = prbForm.rep /\ q.reviewer = prbForm.reviewer
          /\ q.products = products /\ q.opinion = prbForm.opinion
      BY <2>1
    <2>3. products \in Seq(Purchases) /\ Len(products) <= 2
      BY <1>2
    <2> HIDE DEF products, payload
    <2> QED BY <1>3, <1>4, <2>2, <2>3 DEF IsPayload
  <1>6. entry.payload = payload
    OBVIOUS
  <1> HIDE DEF payload, entry
  <1>7. PrbSendsIn(prbSend')
    BY <1>0, <1>1, <1>5, <1>6 DEF PrbSendsIn
  <1> QED BY <1>1, <1>7, PrbSendKeeps

LEMMA SendingPrb == ASSUME PrbInv, NEW s \in PrbSends, DraftPrb(s) \/ CompletePrb(s) PROVE PrbInv'
  <1>0. /\ IsPrbForm(prbForm) /\ PrbReadsIn(prbReads, prbForm) /\ prbFaults \in 0..MaxPrbFaults
        /\ VersionsIn(prbForm, prbReads.version, prb) /\ InForce(prbForm, prb)
    BY DEF PrbInv
  <1>1. CASE prbForm' = [prbForm EXCEPT !.phase = "left"] /\ UNCHANGED <<prb, prbReads, prbSend, prbFaults>>
    <2>1. IsPrbForm(prbForm') /\ \A x \in PrbFormFields \ {"phase"} : prbForm'[x] = prbForm[x]
      BY <1>0, <1>1 DEF IsPrbForm, PrbFormFields
    <2>2. prbForm'.kind = prbForm.kind /\ prbForm'.version = prbForm.version /\ prbForm'.detail = prbForm.detail
      BY <2>1 DEF PrbFormFields
    <2>3. InForce(prbForm', prb)
      BY <1>0, <2>1 DEF PrbFormFields, InForce, Fills
    <2>4. PrbReadsIn(prbReads', prbForm') /\ VersionsIn(prbForm', prbReads'.version, prb)
      BY <1>0, <1>1, <2>2 DEF PrbReadsIn, VersionsIn
    <2> QED BY <1>0, <1>1, <2>1, <2>2, <2>3, <2>4, PrbPageKeeps
  <1>2. CASE Persist(s, "draft") \/ Persist(s, "complete")
    BY <1>2, SentPrb
  <1> QED BY <1>1, <1>2 DEF DraftPrb, CompletePrb

\* One entry is replaced.
LEMMA OnePrbChanged ==
    ASSUME NEW rows, PrbsIn(rows), NEW r \in DOMAIN rows, NEW d, IsPrb(d)
    PROVE  /\ PrbsIn([rows EXCEPT ![r] = d]) /\ DOMAIN [rows EXCEPT ![r] = d] = DOMAIN rows
           /\ [rows EXCEPT ![r] = d][r] = d
  <1> DEFINE S == {rows[k] : k \in DOMAIN rows} \union {d}
             next == [rows EXCEPT ![r] = d]
             n == Len(rows)
  <1>1. n \in Nat /\ DOMAIN rows = 1..n
    BY LenProperties DEF PrbsIn, InOrder
  <1>2. \A k \in 1..n : rows[k] \in S
    BY <1>1
  <1>3. d \in S
    OBVIOUS
  <1>4. next = [k \in 1..n |-> IF k = r THEN d ELSE rows[k]]
    <2>1. rows = [k \in 1..n |-> rows[k]]
      BY <1>1, LenProperties DEF PrbsIn, InOrder
    <2> HIDE DEF n
    <2> QED BY <1>1, <2>1
  <1> HIDE DEF S, next, n
  <1>5. next \in [1..n -> S]
    BY <1>2, <1>3, <1>4
  <1>6. InOrder(next) /\ DOMAIN next = DOMAIN rows
    BY <1>1, <1>5, ListInOrder
  <1>7. \A k \in DOMAIN next : IsPrb(next[k])
    BY <1>1, <1>4, <1>6 DEF PrbsIn
  <1>8. next[r] = d
    BY <1>1, <1>4
  <1> QED BY <1>6, <1>7, <1>8 DEF PrbsIn, next

LEMMA PrbIsWritten ==
    ASSUME PrbInv, NEW p, IsPayload(p), ~PrbRefused(p)
    PROVE  /\ PrbsIn(PrbWritten(p)) /\ DOMAIN prb \subseteq DOMAIN PrbWritten(p)
           /\ prbForm.kind = "edit" => /\ IsPrb(PrbWritten(p)[1])
                                       /\ DOMAIN prb[1].versions \subseteq DOMAIN PrbWritten(p)[1].versions
  <1> DEFINE NewRow(status, versions) == [opp |-> p.opp, rep |-> p.rep, reviewer |-> p.reviewer, products |-> p.products,
                                          opinion |-> p.opinion, live |-> TRUE, status |-> status, versions |-> versions]
  <1>0. PrbsIn(prb)
    BY DEF PrbInv
  <1>1. p.rep \in Users /\ p.opp \in DOMAIN OpportunityNamed /\ p.reviewer \in Users /\ p.products \in Seq(Purchases)
        /\ Len(p.products) <= 3 /\ p.opinion \in Opinions
    <2>1. Len(p.products) \in Nat /\ Len(p.products) <= 2
      BY LenProperties DEF IsPayload
    <2> QED BY <2>1 DEF IsPayload, PrbRefused
  <1>2. ASSUME NEW status, NEW versions, InOrder(versions), \A v \in DOMAIN versions : IsVersion(versions[v])
        PROVE  IsPrb(NewRow(status, versions)) /\ NewRow(status, versions).versions = versions
    <2> DEFINE o == p.opp
               rep == p.rep
               reviewer == p.reviewer
               products == p.products
               opinion == p.opinion
               d == [opp |-> o, rep |-> rep, reviewer |-> reviewer, products |-> products,
                     opinion |-> opinion, live |-> TRUE, status |-> status, versions |-> versions]
    <2>1. o \in DOMAIN OpportunityNamed /\ rep \in Users /\ reviewer \in Users /\ products \in Seq(Purchases)
          /\ Len(products) <= 3 /\ opinion \in Opinions
      BY <1>1
    <2> HIDE DEF o, rep, reviewer, products, opinion
    <2>2. d = [x \in PrbFields |-> d[x]]
      BY DEF PrbFields
    <2>3. /\ d.opp = o /\ d.rep = rep /\ d.reviewer = reviewer /\ d.products = products /\ d.opinion = opinion
          /\ d.versions = versions
      OBVIOUS
    <2>4. NewRow(status, versions) = d
      BY DEF o, rep, reviewer, products, opinion
    <2> HIDE DEF d, NewRow
    <2> QED BY <1>2, <2>1, <2>2, <2>3, <2>4 DEF IsPrb, IsVersion
  <1>3. CASE prbForm.kind = "edit"
    <2> DEFINE now == prb[1]
               version == [opp |-> now.opp, rep |-> now.rep, products |-> now.products, opinion |-> now.opinion]
               status == now.status
               past == now.versions
               versions == Append(past, version)
               d == NewRow(status, versions)
    <2>1. 1 \in DOMAIN prb /\ IsPrb(now)
      BY <1>3, FirstPrb
    <2>2. IsVersion(version)
      BY <2>1 DEF IsPrb, IsVersion
    <2>3. InOrder(past) /\ \A v \in DOMAIN past : IsVersion(past[v])
      BY <2>1 DEF IsPrb
    <2>4. PrbWritten(p) = [prb EXCEPT ![1] = d]
      <3>1. PrbWritten(p) = [prb EXCEPT ![1] = NewRow(@.status, Append(@.versions,
                               [opp |-> @.opp, rep |-> @.rep, products |-> @.products, opinion |-> @.opinion]))]
        BY <1>3 DEF PrbWritten
      <3> QED BY <2>1, <3>1
    <2> HIDE DEF version, past, status
    <2>5. /\ InOrder(versions) /\ DOMAIN past \subseteq DOMAIN versions
          /\ \A v \in DOMAIN versions : IsVersion(versions[v])
      <3>1. /\ InOrder(versions) /\ Len(past) \in Nat /\ DOMAIN past = 1..Len(past) /\ Len(versions) = Len(past) + 1
            /\ \A k \in 1..Len(past) : versions[k] = past[k]
            /\ versions[Len(past) + 1] = version
        BY <2>3, Added
      <3> HIDE DEF versions
      <3>2. DOMAIN versions = 1..(Len(past) + 1)
        BY <3>1, LenProperties DEF InOrder
      <3> QED BY <2>2, <2>3, <3>1, <3>2
    <2> HIDE DEF versions
    <2>6. IsPrb(d) /\ d.versions = versions
      BY <1>2, <2>5
    <2> HIDE DEF d
    <2>7. /\ PrbsIn([prb EXCEPT ![1] = d]) /\ DOMAIN [prb EXCEPT ![1] = d] = DOMAIN prb
          /\ [prb EXCEPT ![1] = d][1] = d
      BY <1>0, <2>1, <2>6, OnePrbChanged
    <2>8. PrbWritten(p)[1].versions = versions
      BY <2>4, <2>6, <2>7
    <2> QED BY <2>4, <2>5, <2>6, <2>7, <2>8 DEF past
  <1>4. CASE prbForm.kind # "edit"
    <2> DEFINE none == << >>
               d == NewRow("draft", none)
    <2>1. PrbWritten(p) = Append(prb, d)
      BY <1>4 DEF PrbWritten
    <2>2. InOrder(none) /\ DOMAIN none = {}
      <3>1. none \in Seq({}) /\ DOMAIN none = {}
        OBVIOUS
      <3> HIDE DEF none
      <3> QED BY <3>1, OfSomething
    <2> HIDE DEF none
    <2>3. IsPrb(d)
      BY <1>2, <2>2
    <2> HIDE DEF d
    <2>4. /\ InOrder(Append(prb, d)) /\ Len(prb) \in Nat /\ DOMAIN prb = 1..Len(prb)
          /\ Len(Append(prb, d)) = Len(prb) + 1
          /\ \A k \in 1..Len(prb) : Append(prb, d)[k] = prb[k]
          /\ Append(prb, d)[Len(prb) + 1] = d
      BY <1>0, Added DEF PrbsIn
    <2>5. DOMAIN Append(prb, d) = 1..(Len(prb) + 1)
      BY <2>4, LenProperties DEF InOrder
    <2> DEFINE next == Append(prb, d)
    <2> HIDE DEF next
    <2>6. \A k \in DOMAIN next : IsPrb(next[k])
      BY <1>0, <2>3, <2>4, <2>5 DEF PrbsIn, next
    <2> QED BY <1>4, <2>1, <2>4, <2>5, <2>6 DEF PrbsIn, next
  <1> QED BY <1>3, <1>4

LEMMA PrbAnswersKeep == ASSUME PrbInv, NEW s \in PrbSends, PrbAnswered(s) PROVE PrbInv'
  <1>0. /\ PrbsIn(prb) /\ IsPrbForm(prbForm) /\ PrbReadsIn(prbReads, prbForm) /\ PrbSendsIn(prbSend)
        /\ prbFaults \in 0..MaxPrbFaults
        /\ VersionsIn(prbForm, prbReads.version, prb) /\ InForce(prbForm, prb)
        /\ (prbForm.kind # "new" => 1 \in DOMAIN prb)
    BY DEF PrbInv
  <1>1. ASSUME NEW phase, prbSend' = [prbSend EXCEPT ![s] = [NoPrbSend EXCEPT !.phase = phase]] PROVE PrbSendsIn(prbSend')
    <2> DEFINE entry == [NoPrbSend EXCEPT !.phase = phase]
    <2>1. entry.payload = {}
      BY DEF NoPrbSend
    <2> HIDE DEF entry
    <2> QED BY <1>0, <1>1, <2>1 DEF PrbSendsIn, entry
  <1>2. PICK p \in prbSend[s].payload :
         \/ /\ ~PrbRefused(p) /\ prb' = PrbWritten(p)
            /\ prbSend' = [prbSend EXCEPT ![s] = [NoPrbSend EXCEPT !.phase = "saved"]]
            /\ prbReads' = [prbReads EXCEPT !.version = 0]
            /\ \/ /\ prbForm.kind = "edit"
                  /\ prbForm' = [Applied(prbForm, prb'[1]) EXCEPT !.version = 0, !.detail = 0, !.overtaken = FALSE]
               \/ /\ prbForm.kind # "edit"
                  /\ prbForm' = [prbForm EXCEPT !.phase = "left"]
            /\ UNCHANGED prbFaults
         \/ /\ PrbRefused(p)
            /\ prbSend' = [prbSend EXCEPT ![s] = [NoPrbSend EXCEPT !.phase = "failed"]]
            /\ UNCHANGED <<prb, prbForm, prbReads, prbFaults>>
         \/ /\ prbFaults < MaxPrbFaults /\ prbFaults' = prbFaults + 1
            /\ UNCHANGED prb \/ (~PrbRefused(p) /\ prb' = PrbWritten(p))
            /\ prbSend' = [prbSend EXCEPT ![s] = [NoPrbSend EXCEPT !.phase = "failed"]]
            /\ UNCHANGED prbReads
            /\ prbForm' = [prbForm EXCEPT !.overtaken = @ \/ prb' # prb]
    BY Zenon DEF PrbAnswered
  <1>3. IsPayload(p)
    BY <1>0 DEF PrbSendsIn
  <1>4. CASE PrbRefused(p) /\ UNCHANGED <<prb, prbForm, prbReads, prbFaults>>
             /\ prbSend' = [prbSend EXCEPT ![s] = [NoPrbSend EXCEPT !.phase = "failed"]]
    BY <1>1, <1>4, PrbSendKeeps
  <1>5. CASE /\ ~PrbRefused(p) /\ prb' = PrbWritten(p) /\ prbForm.kind = "edit"
             /\ prbSend' = [prbSend EXCEPT ![s] = [NoPrbSend EXCEPT !.phase = "saved"]]
             /\ prbReads' = [prbReads EXCEPT !.version = 0]
             /\ prbForm' = [Applied(prbForm, prb'[1]) EXCEPT !.version = 0, !.detail = 0, !.overtaken = FALSE]
             /\ UNCHANGED prbFaults
    <2> DEFINE rows == PrbWritten(p)
               row == rows[1]
               applied == Applied(prbForm, row)
    <2>1. PrbsIn(rows) /\ DOMAIN prb \subseteq DOMAIN rows /\ IsPrb(row)
      BY <1>3, <1>5, PrbIsWritten
    <2>2. /\ IsPrbForm(applied) /\ Fills(applied, row) /\ applied.source = {row} /\ applied.kind = prbForm.kind
      BY <1>0, <2>1, FormApplied
    <2>3. prbForm' = [applied EXCEPT !.version = 0, !.detail = 0, !.overtaken = FALSE] /\ prb' = rows
      BY <1>5
    <2> HIDE DEF applied, rows
    <2>4. /\ IsPrbForm(prbForm') /\ prbForm'.version = 0 /\ prbForm'.detail = 0
          /\ \A x \in PrbFormFields \ {"version", "detail", "overtaken"} : prbForm'[x] = applied[x]
      BY <2>2, <2>3 DEF IsPrbForm, PrbFormFields
    <2>5. prbForm'.kind = prbForm.kind /\ prbForm'.source = {row} /\ Fills(prbForm', row)
      BY <2>2, <2>4 DEF PrbFormFields, Fills
    <2>6. InForce(prbForm', rows)
      BY <2>5 DEF InForce
    <2>7. PrbReadsIn(prbReads', prbForm') /\ prbReads'.version = 0
      BY <1>0, <1>5, <2>5 DEF PrbReadsIn, ReadsFields
    <2>8. VersionsIn(prbForm', prbReads'.version, rows) /\ 1 \in DOMAIN rows
      BY <1>0, <1>5, <2>1, <2>4, <2>5, <2>7 DEF VersionsIn
    <2>9. PrbSendsIn(prbSend') /\ prbFaults' \in 0..MaxPrbFaults
      BY <1>0, <1>1, <1>5
    <2>10. PrbsIn(prb') /\ VersionsIn(prbForm', prbReads'.version, prb') /\ InForce(prbForm', prb') /\ 1 \in DOMAIN prb'
      BY <2>1, <2>3, <2>6, <2>8
    <2> QED BY <2>4, <2>7, <2>9, <2>10 DEF PrbInv
  <1>6. CASE /\ ~PrbRefused(p) /\ prb' = PrbWritten(p) /\ prbForm.kind # "edit"
             /\ prbSend' = [prbSend EXCEPT ![s] = [NoPrbSend EXCEPT !.phase = "saved"]]
             /\ prbReads' = [prbReads EXCEPT !.version = 0]
             /\ prbForm' = [prbForm EXCEPT !.phase = "left"]
             /\ UNCHANGED prbFaults
    <2>1. PrbsIn(prb') /\ DOMAIN prb \subseteq DOMAIN prb'
      BY <1>3, <1>6, PrbIsWritten
    <2>2. IsPrbForm(prbForm') /\ \A x \in PrbFormFields \ {"phase"} : prbForm'[x] = prbForm[x]
      BY <1>0, <1>6 DEF IsPrbForm, PrbFormFields
    <2>3. prbForm'.kind = prbForm.kind /\ prbForm'.version = prbForm.version
      BY <2>2 DEF PrbFormFields
    <2>4. PrbReadsIn(prbReads', prbForm') /\ prbReads'.version = 0
      BY <1>0, <1>6, <2>3 DEF PrbReadsIn, ReadsFields
    <2>5. VersionsIn(prbForm', prbReads'.version, prb') /\ InForce(prbForm', prb')
      BY <1>0, <1>6, <2>3, <2>4 DEF VersionsIn, InForce
    <2>6. PrbSendsIn(prbSend') /\ prbFaults' \in 0..MaxPrbFaults
      BY <1>0, <1>1, <1>6
    <2>7. prbForm'.kind # "new" => 1 \in DOMAIN prb'
      BY <1>0, <2>1, <2>3
    <2> QED BY <2>1, <2>2, <2>4, <2>5, <2>6, <2>7 DEF PrbInv
  <1>7. CASE /\ prbFaults < MaxPrbFaults /\ prbFaults' = prbFaults + 1
             /\ UNCHANGED prb \/ (~PrbRefused(p) /\ prb' = PrbWritten(p))
             /\ prbSend' = [prbSend EXCEPT ![s] = [NoPrbSend EXCEPT !.phase = "failed"]]
             /\ UNCHANGED prbReads
             /\ prbForm' = [prbForm EXCEPT !.overtaken = @ \/ prb' # prb]
    <2> DEFINE late == prbForm.overtaken \/ prb' # prb
    <2>1. PrbsIn(prb') /\ DOMAIN prb \subseteq DOMAIN prb'
          /\ (prbForm.kind = "edit" => DOMAIN prb[1].versions \subseteq DOMAIN prb'[1].versions)
      <3>1. CASE UNCHANGED prb
        BY <1>0, <3>1
      <3>2. CASE ~PrbRefused(p) /\ prb' = PrbWritten(p)
        BY <1>3, <3>2, PrbIsWritten
      <3> QED BY <1>7, <3>1, <3>2
    <2>2. prbForm' = [prbForm EXCEPT !.overtaken = late] /\ late \in BOOLEAN
      BY <1>7
    <2>3. ~late => prb' = prb /\ ~prbForm.overtaken
      OBVIOUS
    <2> HIDE DEF late
    <2>4. /\ IsPrbForm(prbForm') /\ prbForm'.overtaken = late
          /\ \A x \in PrbFormFields \ {"overtaken"} : prbForm'[x] = prbForm[x]
      BY <1>0, <2>2 DEF IsPrbForm, PrbFormFields
    <2>5. /\ prbForm'.kind = prbForm.kind /\ prbForm'.version = prbForm.version /\ prbForm'.detail = prbForm.detail
          /\ prbForm'.loaded = prbForm.loaded /\ prbForm'.source = prbForm.source
          /\ prbForm'.typed = prbForm.typed /\ prbForm'.old = prbForm.old
      BY <2>4 DEF PrbFormFields
    <2>6. InForce(prbForm', prb')
      <3>1. CASE late
        BY <2>4, <3>1 DEF InForce
      <3>2. CASE ~late
        <4>1. prb' = prb /\ ~prbForm.overtaken
          BY <2>3, <3>2
        <4>2. InForce(prbForm', prb)
          BY <1>0, <2>4, <2>5, <4>1 DEF InForce, Fills, PrbFormFields
        <4> QED BY <4>1, <4>2
      <3> QED BY <3>1, <3>2
    <2>7. PrbReadsIn(prbReads', prbForm') /\ prbReads' = prbReads
      BY <1>0, <1>7, <2>5 DEF PrbReadsIn
    <2>8. VersionsIn(prbForm', prbReads'.version, prb')
      BY <1>0, <2>1, <2>5, <2>7 DEF VersionsIn
    <2>9. PrbSendsIn(prbSend') /\ prbFaults' \in 0..MaxPrbFaults
      <3>1. PrbSendsIn(prbSend')
        BY <1>1, <1>7
      <3>2. prbFaults \in Nat /\ MaxPrbFaults \in Nat /\ prbFaults < MaxPrbFaults /\ prbFaults' = prbFaults + 1
        BY <1>0, <1>7, PrbAssumption
      <3> QED BY <3>1, <3>2
    <2>10. prbForm'.kind # "new" => 1 \in DOMAIN prb'
      BY <1>0, <2>1, <2>5
    <2> QED BY <2>1, <2>4, <2>6, <2>7, <2>8, <2>9, <2>10 DEF PrbInv
  <1> QED BY <1>2, <1>4, <1>5, <1>6, <1>7

LEMMA PrbRowChanges == ASSUME PrbInv, DeletePrb \/ ApprovePrb PROVE PrbInv'
  <1>0. /\ PrbsIn(prb) /\ IsPrbForm(prbForm) /\ PrbReadsIn(prbReads, prbForm) /\ PrbSendsIn(prbSend)
        /\ prbFaults \in 0..MaxPrbFaults
        /\ VersionsIn(prbForm, prbReads.version, prb) /\ InForce(prbForm, prb)
        /\ (prbForm.kind # "new" => 1 \in DOMAIN prb)
    BY DEF PrbInv
  <1> DEFINE now == prb[1]
  <1>1. 1 \in DOMAIN prb /\ IsPrb(now)
    <2>1. prb # << >> => 1 \in DOMAIN prb
      <3>1. Len(prb) \in Nat /\ DOMAIN prb = 1..Len(prb) /\ (prb # << >> => Len(prb) # 0)
        BY <1>0, LenProperties, EmptySeq DEF PrbsIn, InOrder
      <3> QED BY <3>1
    <2> QED BY <1>0, <2>1 DEF DeletePrb, ApprovePrb, PrbsIn
  <1>2. PICK d : /\ prb' = [prb EXCEPT ![1] = d] /\ IsPrb(d)
                 /\ Content(d) = Content(now) /\ d.versions = now.versions
    <2>1. CASE DeletePrb
      <3> DEFINE d == [now EXCEPT !.live = FALSE]
      <3>1. prb' = [prb EXCEPT ![1] = d]
        BY <1>1, <2>1 DEF DeletePrb
      <3>2. IsPrb(d) /\ \A x \in PrbFields \ {"live"} : d[x] = now[x]
        BY <1>1 DEF IsPrb, IsVersion, PrbFields
      <3> HIDE DEF d
      <3>3. Content(d) = Content(now) /\ d.versions = now.versions
        BY <3>2 DEF Content, PrbFields
      <3> QED BY <3>1, <3>2, <3>3
    <2>2. CASE ApprovePrb
      <3> DEFINE d == [now EXCEPT !.status = "approved"]
      <3>1. prb' = [prb EXCEPT ![1] = d]
        BY <1>1, <2>2 DEF ApprovePrb
      <3>2. IsPrb(d) /\ \A x \in PrbFields \ {"status"} : d[x] = now[x]
        BY <1>1 DEF IsPrb, IsVersion, PrbFields
      <3> HIDE DEF d
      <3>3. Content(d) = Content(now) /\ d.versions = now.versions
        BY <3>2 DEF Content, PrbFields
      <3> QED BY <3>1, <3>2, <3>3
    <2> QED BY <2>1, <2>2
  <1>3. /\ PrbsIn(prb') /\ DOMAIN prb' = DOMAIN prb /\ prb'[1] = d
    BY <1>0, <1>1, <1>2, OnePrbChanged
  <1>4. /\ IsPrbForm(prbForm') /\ \A x \in PrbFormFields \ {"phase"} : prbForm'[x] = prbForm[x]
    <2>1. prbForm' = [prbForm EXCEPT !.phase = "left"] \/ prbForm' = prbForm
      BY DEF DeletePrb, ApprovePrb
    <2> QED BY <1>0, <2>1 DEF IsPrbForm, PrbFormFields
  <1>5. /\ prbForm'.kind = prbForm.kind /\ prbForm'.version = prbForm.version /\ prbForm'.detail = prbForm.detail
        /\ prbForm'.loaded = prbForm.loaded /\ prbForm'.source = prbForm.source /\ prbForm'.overtaken = prbForm.overtaken
        /\ prbForm'.typed = prbForm.typed /\ prbForm'.old = prbForm.old
    BY <1>4 DEF PrbFormFields
  <1>6. UNCHANGED <<prbReads, prbSend, prbFaults>>
    BY DEF DeletePrb, ApprovePrb
  <1>7. InForce(prbForm', prb')
    <2> SUFFICES ASSUME prbForm'.kind = "edit" /\ prbForm'.loaded /\ ~prbForm'.overtaken
                 PROVE  /\ \A row \in prbForm'.source : Content(row) = Content(prb'[1])
                        /\ ~prbForm'.typed /\ ~prbForm'.old => Fills(prbForm', prb'[1])
      BY DEF InForce
    <2>1. \A row \in prbForm'.source : Content(row) = Content(prb'[1])
      BY <1>0, <1>2, <1>3, <1>5 DEF InForce
    <2>2. ASSUME ~prbForm'.typed, ~prbForm'.old PROVE Fills(prbForm', prb'[1])
      <3>1. Fills(prbForm, now)
        BY <1>0, <1>5, <2>2 DEF InForce
      <3>2. Fills(prbForm, d)
        BY <1>2, <3>1, SameContentFills
      <3> QED BY <1>3, <1>4, <3>2 DEF Fills, PrbFormFields
    <2> QED BY <2>1, <2>2
  <1>8. VersionsIn(prbForm', prbReads'.version, prb')
    BY <1>0, <1>2, <1>3, <1>5, <1>6 DEF VersionsIn
  <1>9. PrbReadsIn(prbReads', prbForm') /\ PrbSendsIn(prbSend') /\ prbFaults' \in 0..MaxPrbFaults
        /\ (prbForm'.kind # "new" => 1 \in DOMAIN prb')
    BY <1>0, <1>3, <1>5, <1>6 DEF PrbReadsIn
  <1> QED BY <1>3, <1>4, <1>7, <1>8, <1>9 DEF PrbInv

LEMMA PrbInvStarts == PrbInit => PrbInv
  <1> SUFFICES ASSUME PrbInit PROVE PrbInv
    OBVIOUS
  <1> DEFINE form0(k) == [kind |-> k, phase |-> "open", source |-> {}, opp |-> NoOpportunity, rep |-> NoUser,
                   reviewer |-> NoUser, opinion |-> "none", fifth |-> Subtotal, products |-> Blanks,
                   version |-> 0, detail |-> 0, old |-> FALSE, broken |-> FALSE, typed |-> FALSE,
                   loaded |-> FALSE, overtaken |-> FALSE, changes |-> 0]
  <1>1. PICK kind \in {"new", "edit", "clone"}, rows \in StoredPrbs :
      /\ kind # "new" <=> rows # << >>
      /\ prb = rows
      /\ \/ prbForm \in {form0(kind)} \cup {Applied(form0(kind), rows[r]) : r \in DOMAIN rows}
         \/ kind = "new" /\ \E o \in DOMAIN OpportunityNamed, u \in Users : prbForm = [form0(kind) EXCEPT !.opp = o, !.rep = u]
      /\ prbReads = [list |-> "sent", rows |-> {}, record |-> "idle", version |-> 0, again |-> FALSE]
      /\ prbSend = [s \in PrbSends |-> NoPrbSend]
      /\ prbFaults = 0
    BY Zenon DEF PrbInit
  <1> DEFINE products == Blanks
             blank == form0(kind)
  <1>2. rows \in Seq(PrbRow) /\ \A r \in DOMAIN rows : Len(rows[r].products) <= 3
    BY PrbAssumption
  <1>3. PrbsIn(rows) /\ (rows # << >> => 1 \in DOMAIN rows)
    <2>1. Len(rows) \in Nat /\ DOMAIN rows = 1..Len(rows) /\ (rows # << >> => Len(rows) # 0) /\ InOrder(rows)
      BY <1>2, LenProperties, EmptySeq, OfSomething
    <2>2. ASSUME NEW r \in DOMAIN rows PROVE IsPrb(rows[r])
      <3> DEFINE d == rows[r]
      <3>1. d \in PrbRow /\ Len(d.products) <= 3
        BY <1>2, <2>1, ElementOfSeq
      <3> HIDE DEF d
      <3>2. /\ d.opp \in DOMAIN OpportunityNamed /\ d.rep \in Users /\ d.reviewer \in Users
            /\ d.products \in Seq(Purchases) /\ d.opinion \in Opinions /\ d.versions \in Seq(PrbVersionRow)
            /\ d = [x \in PrbFields |-> d[x]]
        BY <3>1 DEF PrbRow, PrbFields
      <3>3. InOrder(d.versions) /\ \A v \in DOMAIN d.versions : d.versions[v] \in PrbVersionRow
        BY <3>2, OfSomething, LenProperties, ElementOfSeq
      <3>4. \A e \in PrbVersionRow : IsVersion(e)
        BY DEF PrbVersionRow, IsVersion
      <3>5. IsPrb(d)
        BY <3>1, <3>2, <3>3, <3>4 DEF IsPrb, IsVersion
      <3> QED BY <3>5 DEF d
    <2> QED BY <2>1, <2>2 DEF PrbsIn
  <1>4. products \in [1..2 -> Purchases \union {NoPurchase}]
    BY DEF Blanks, ProductRows
  <1>5. 0 \in 0..MaxPrbChanges[kind] /\ "none" \in Opinions
    BY PrbAssumption
  <1>6. IsPrbForm(blank)
    <2>1. blank.products = products /\ blank.changes = 0 /\ blank.source = {} /\ blank.opinion = "none"
      BY DEF products
    <2> HIDE DEF products
    <2> QED BY <1>4, <1>5, <2>1 DEF IsPrbForm, PrbFormFields
  <1>7. /\ IsPrbForm(prbForm) /\ prbForm.kind = kind /\ prbForm.version = 0 /\ prbForm.detail = 0 /\ ~prbForm.loaded
    <2>1. blank.kind = kind /\ blank.version = 0 /\ blank.detail = 0 /\ blank.loaded = FALSE
      OBVIOUS
    <2> HIDE DEF blank
    <2>2. CASE prbForm = blank
      BY <1>6, <2>1, <2>2
    <2>3. CASE \E r \in DOMAIN rows : prbForm = Applied(blank, rows[r])
      <3>1. PICK r \in DOMAIN rows : prbForm = Applied(blank, rows[r])
        BY <2>3
      <3>2. IsPrb(rows[r])
        BY <1>3 DEF PrbsIn
      <3>3. /\ IsPrbForm(prbForm)
            /\ \A x \in {"kind", "phase", "version", "detail", "broken", "loaded", "overtaken", "changes"} :
                  prbForm[x] = blank[x]
        BY <1>6, <3>1, <3>2, FormApplied
      <3> QED BY <2>1, <3>3
    <2>4. CASE \E o \in DOMAIN OpportunityNamed, u \in Users : prbForm = [blank EXCEPT !.opp = o, !.rep = u]
      BY <1>6, <2>1, <2>4 DEF IsPrbForm, PrbFormFields
    <2>5. \/ prbForm \in {blank} \cup {Applied(blank, rows[r]) : r \in DOMAIN rows}
          \/ \E o \in DOMAIN OpportunityNamed, u \in Users : prbForm = [blank EXCEPT !.opp = o, !.rep = u]
      BY <1>1 DEF blank
    <2> QED BY <2>2, <2>3, <2>4, <2>5
  <1> HIDE DEF blank
  <1>8. PrbReadsIn(prbReads, prbForm) /\ prbReads.version = 0
    BY <1>1 DEF PrbReadsIn, ReadsFields
  <1>9. PrbSendsIn(prbSend)
    <2>1. NoPrbSend.payload = {}
      BY DEF NoPrbSend
    <2> QED BY <1>1, <2>1 DEF PrbSendsIn
  <1>10. prb = rows /\ (kind # "new" => rows # << >>) /\ prbFaults = 0
    <2> HIDE DEF form0
    <2> QED BY <1>1
  <1>11. VersionsIn(prbForm, prbReads.version, prb) /\ InForce(prbForm, prb)
    BY <1>3, <1>7, <1>8, <1>10 DEF VersionsIn, InForce
  <1> QED BY <1>3, <1>7, <1>8, <1>9, <1>10, <1>11, PrbAssumption DEF PrbInv

LEMMA PrbInvStays == PrbInv /\ PrbNext => PrbInv'
  <1> SUFFICES ASSUME PrbInv, PrbNext PROVE PrbInv'
    OBVIOUS
  <1>1. CASE PrbListRead \/ PrbListArrives \/ PrbListFails \/ PrbRecordArrives \/ RefreshPrb
    BY <1>1, PrbListKeeps, PrbListArrivesKeeps, PrbRecordKeeps
  <1>2. CASE (\E v \in 1..(MaxPrbSends + 2) : prb # << >> /\ OpenVersion(v)) \/ VersionArrives \/ CloseVersion
    BY <1>2, PrbVersionKeeps
  <1>3. CASE \/ \E o \in DOMAIN OpportunityNamed : ChoosePrbOpportunity(o)
             \/ \E u \in Users : ChooseReviewer(u) \/ ChooseRepresentative(u)
             \/ \E i \in ProductRows, name \in Purchases : TypeProduct(i, name)
             \/ \E text \in Opinions : TypeOpinion(text)
    BY <1>3, PrbChanges
  <1>4. CASE (\E s \in PrbSends : DraftPrb(s) \/ CompletePrb(s) \/ PrbAnswered(s)) \/ DeletePrb \/ ApprovePrb
    BY <1>4, SendingPrb, PrbAnswersKeep, PrbRowChanges
  <1> QED BY <1>1, <1>2, <1>3, <1>4 DEF PrbNext

LEMMA PrbInvRests == PrbInv /\ UNCHANGED prbVars => PrbInv'
  <1> SUFFICES ASSUME PrbInv, UNCHANGED prbVars PROVE PrbInv'
    OBVIOUS
  <1>1. UNCHANGED <<prb, prbForm, prbReads, prbFaults>> /\ prbSend' = prbSend
    BY DEF prbVars
  <1>2. PrbSendsIn(prbSend')
    BY <1>1 DEF PrbInv
  <1> QED BY <1>1, <1>2, PrbSendKeeps

LEMMA PrbPromises == PrbInv => PrbShowsStored /\ PrbTypeOK
  <1> SUFFICES ASSUME PrbInv PROVE PrbShowsStored /\ PrbTypeOK
    OBVIOUS
  <1>1. PrbShowsStored
    <2> SUFFICES ASSUME prbForm.kind = "edit" /\ prbForm.loaded /\ ~prbForm.typed /\ ~prbForm.old /\ ~prbForm.overtaken
                 PROVE  Shown(prbForm) = Content(prb[1])
      BY DEF PrbShowsStored
    <2>1. IsPrb(prb[1])
      BY FirstPrb
    <2>2. Fills(prbForm, prb[1])
      BY DEF PrbInv, InForce
    <2> QED BY <2>1, <2>2, FilledShows DEF IsPrb, IsVersion
  <1>2. \A r \in DOMAIN prb :
         /\ prb[r].opp \in DOMAIN OpportunityNamed /\ prb[r].rep \in Users /\ prb[r].reviewer \in Users
         /\ prb[r].products \in Seq(Purchases) /\ prb[r].opinion \in Opinions
    BY DEF PrbInv, PrbsIn, IsPrb, IsVersion
  <1>3. prbFaults \in 0..MaxPrbFaults /\ prbForm.changes \in 0..MaxPrbChanges[prbForm.kind]
    BY DEF PrbInv, IsPrbForm
  <1>4. prbForm.kind = "edit" => prbForm.detail \in {0} \cup DOMAIN prb[1].versions
    BY DEF PrbInv, VersionsIn
  <1> QED BY <1>1, <1>2, <1>3, <1>4 DEF PrbTypeOK

-----------------------------------------------------------------------------
(* What the forms promise.                                                 *)

RegistrationsInv == CompanyInv /\ PeopleInv /\ ProposalInv /\ ActivityInv

LEMMA RegistrationsHold == SalesSpec => []RegistrationsInv
  <1>1. SalesInit => RegistrationsInv
    BY CompanyInvStarts, PeopleInvStarts, ProposalInvStarts, ActivityInvStarts DEF SalesInit, RegistrationsInv
  <1>2. RegistrationsInv /\ [SalesNext]_salesVars => RegistrationsInv'
    <2> SUFFICES ASSUME RegistrationsInv, [SalesNext]_salesVars PROVE RegistrationsInv'
      OBVIOUS
    <2>1. /\ CompanyNext \/ UNCHANGED companyVars
          /\ ActivityNext \/ UNCHANGED activityVars
          /\ ProposalNext \/ UNCHANGED propVars
      BY FormsApart
    <2>2. CompanyInv' /\ PeopleInv'
      BY <2>1, CompanyInvStays, CompanyInvRests, PeopleInvStays, PeopleInvRests DEF RegistrationsInv
    <2>3. ActivityInv' /\ ProposalInv'
      BY <2>1, ActivityInvStays, ActivityInvRests, ProposalInvStays, ProposalInvRests DEF RegistrationsInv
    <2> QED BY <2>2, <2>3 DEF RegistrationsInv
  <1> QED BY <1>1, <1>2, PTL DEF SalesSpec

\* A registration that failed half-way leaves no company and no proposal behind, the name of a
\* company is new when it is registered, and a request stays with the activity registered for it.
THEOREM NoHalves == SalesSpec => []NoHalfRegistrations
  <1>1. RegistrationsInv => NoHalfRegistrations
    BY CompanyPromises, ProposalPromises, ActivityPromises DEF RegistrationsInv, NoHalfRegistrations
  <1> QED BY <1>1, RegistrationsHold, PTL

\* Each form that shows what others may change keeps an invariant of its own.
FormsInv == ProposalInv /\ RfpInv /\ BidInv /\ OppInv /\ QuoteInv /\ PrbInv /\ ResInv

LEMMA FormsHold == SalesSpec => []FormsInv
  <1>1. SalesInit => FormsInv
    BY ProposalInvStarts, RfpInvStarts, BidInvStarts, OppInvStarts, QuoteInvStarts, PrbInvStarts, ResInvStarts
       DEF SalesInit, FormsInv
  <1>2. FormsInv /\ [SalesNext]_salesVars => FormsInv'
    <2> SUFFICES ASSUME FormsInv, [SalesNext]_salesVars PROVE FormsInv'
      OBVIOUS
    <2>1. /\ ProposalNext \/ UNCHANGED propVars
          /\ RfpNext \/ UNCHANGED rfpVars
          /\ BidNext \/ UNCHANGED bidVars
          /\ OpportunityNext \/ UNCHANGED oppVars
          /\ QuoteNext \/ UNCHANGED quoteVars
          /\ PrbNext \/ UNCHANGED prbVars
          /\ PrbResultNext \/ UNCHANGED resVars
      BY FormsApart
    <2>2. ProposalInv' /\ RfpInv' /\ BidInv'
      BY <2>1, ProposalInvStays, ProposalInvRests, RfpInvStays, RfpInvRests, BidInvStays, BidInvRests DEF FormsInv
    <2>3. OppInv' /\ QuoteInv'
      BY <2>1, OppInvStays, OppInvRests, QuoteInvStays, QuoteInvRests DEF FormsInv
    <2>4. PrbInv' /\ ResInv'
      BY <2>1, PrbInvStays, PrbInvRests, ResInvStays, ResInvRests DEF FormsInv
    <2> QED BY <2>2, <2>3, <2>4 DEF FormsInv
  <1> QED BY <1>1, <1>2, PTL DEF SalesSpec

\* Whatever arrives late, a form shows what was chosen in it last, and what is read back are the prices
\* and products saved.
THEOREM ShowsWhatIs == SalesSpec => []FormShowsWhatIs
  <1>1. FormsInv => FormShowsWhatIs
    <2> SUFFICES ASSUME FormsInv PROVE FormShowsWhatIs
      OBVIOUS
    <2>1. LastChoiceShown /\ OffersUnresulted /\ SummaryFollowsFile
      BY ProposalPromises, BidPromises, OpportunityPromises DEF FormsInv
    <2>2. DealOfCustomer /\ FieldsOfDeal
      BY DEF FormsInv, RfpInv, RfpSheetInv
    <2>3. PriceReadsBack /\ PrbShowsStored /\ ChosenVersionShown
      BY QuotePromises, PrbPromises, PrbResultPromises DEF FormsInv
    <2> QED BY <2>1, <2>2, <2>3 DEF FormShowsWhatIs
  <1> QED BY <1>1, FormsHold, PTL

\* The tables of the server, the calls under way and the fields of every form have their types: a save
\* carries people with all their fields, whatever was typed, loaded or answered before it.
THEOREM SalesTypes == SalesSpec => []SalesTypeOK
  <1>1. SalesInit => open \in OpenForms
    BY DEF SalesInit
  <1>2. open \in OpenForms /\ [SalesNext]_salesVars => (open \in OpenForms)'
    BY DEF SalesNext, Works, salesVars
  <1>3. RegistrationsInv /\ FormsInv /\ open \in OpenForms => SalesTypeOK
    <2> SUFFICES ASSUME RegistrationsInv, FormsInv, open \in OpenForms PROVE SalesTypeOK
      OBVIOUS
    <2>1. CompanyTypeOK /\ ActivityTypeOK
      BY CompanyTyped, ActivityPromises DEF RegistrationsInv
    <2>2. OpportunityTypeOK /\ QuoteTypeOK /\ ProposalTypeOK
      BY OpportunityPromises, QuotePromises, ProposalPromises DEF FormsInv
    <2>3. BidTypeOK /\ PrbTypeOK /\ PrbResultTypeOK
      BY BidPromises, PrbPromises, PrbResultPromises DEF FormsInv
    <2> QED BY <2>1, <2>2, <2>3 DEF SalesTypeOK
  <1> QED BY <1>1, <1>2, <1>3, RegistrationsHold, FormsHold, PTL DEF SalesSpec

=============================================================================
