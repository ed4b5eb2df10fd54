---------------------------- MODULE DeliveryProofs ---------------------------
(***************************************************************************)
(* Theorems about the pages of DeliveryPages. Each page has an inductive   *)
(* invariant of its own; a step of one page leaves the others as they are. *)
(***************************************************************************)
EXTENDS DeliveryPages, FiniteSetTheorems, SequenceTheorems, WellFoundedInduction, TLAPS

-----------------------------------------------------------------------------
(* Rows in the order they were stored, whatever they are.                  *)

InOrder(rows) == rows \in Seq({rows[r] : r \in DOMAIN rows})

LEMMA Appended ==
    ASSUME NEW rows, InOrder(rows), NEW row
    PROVE  /\ InOrder(Append(rows, row))
           /\ Len(rows) \in Nat /\ DOMAIN rows = 1..Len(rows) /\ Len(Append(rows, row)) = Len(rows) + 1
           /\ DOMAIN Append(rows, row) = 1..(Len(rows) + 1)
           /\ \A r \in 1..Len(rows) : Append(rows, row)[r] = rows[r]
           /\ Append(rows, row)[Len(rows) + 1] = row
  <1>1. PICK S : rows \in Seq(S)
    BY DEF InOrder
  <1>2. /\ Len(rows) \in Nat /\ DOMAIN rows = 1..Len(rows) /\ Len(Append(rows, row)) = Len(rows) + 1
        /\ DOMAIN Append(rows, row) = 1..(Len(rows) + 1)
        /\ \A r \in 1..Len(rows) : Append(rows, row)[r] = rows[r]
        /\ Append(rows, row)[Len(rows) + 1] = row
        /\ Append(rows, row) \in Seq(S \union {row})
    BY <1>1
  <1> QED BY <1>2 DEF InOrder

LEMMA Replaced ==
    ASSUME NEW rows, InOrder(rows), NEW i \in 1..Len(rows), NEW row
    PROVE  LET next == [rows EXCEPT ![i] = row] IN
           /\ InOrder(next)
           /\ Len(rows) \in Nat /\ DOMAIN rows = 1..Len(rows) /\ Len(next) = Len(rows) /\ DOMAIN next = 1..Len(rows)
           /\ \A r \in 1..Len(rows) : next[r] = IF r = i THEN row ELSE rows[r]
  <1> DEFINE next == [rows EXCEPT ![i] = row]
  <1>1. PICK S : rows \in Seq(S)
    BY DEF InOrder
  <1>2. rows \in Seq(S \union {row}) /\ row \in S \union {row}
    BY <1>1
  <1>3. /\ next \in Seq(S \union {row}) /\ Len(next) = Len(rows)
        /\ \A j \in 1..Len(rows) : next[j] = IF j = i THEN row ELSE rows[j]
    BY <1>2, ExceptSeq
  <1> HIDE DEF next
  <1>4. DOMAIN rows = 1..Len(rows) /\ Len(rows) \in Nat /\ DOMAIN next = 1..Len(rows)
    BY <1>1, <1>3
  <1>5. InOrder(next)
    BY <1>3, <1>4 DEF InOrder
  <1> QED BY <1>3, <1>4, <1>5 DEF next

-----------------------------------------------------------------------------
(* Order reports.                                                          *)

\* No opportunity has two of the reports, and none of them is deleted.
OneEach(rows) ==
    /\ InOrder(rows)
    /\ \A r \in DOMAIN rows : rows[r].live
    /\ \A r, q \in DOMAIN rows : r # q => rows[r].opp # rows[q].opp

\* The list was read before each sending, and by one sending at a time.
CheckedAlways == orderForm.kind = "new" /\ ~orderForm.unchecked /\ ~orderForm.raced

OrderUnderWay(s) == orderSend[s].phase \in {"checking", "sent"}

OrderShape ==
    [kind : {"new", "edit"}, phase : {"loading", "open", "left"}, sheet : {orderForm.sheet},
     listed : {orderForm.listed}, products : BOOLEAN, unchecked : BOOLEAN, mixed : BOOLEAN,
     raced : BOOLEAN, changes : {orderForm.changes}]

\* What a sending sends after the list was read is still without a report: no other one runs.
OrderInv ==
    /\ orderForm \in OrderShape
    /\ orderSend = [s \in OrderSends |-> [phase |-> orderSend[s].phase, row |-> orderSend[s].row]]
    /\ \A s \in OrderSends : \A a, b \in orderSend[s].row : a = b
    /\ CheckedAlways =>
         /\ OneEach(orders)
         /\ \A s, t \in OrderSends : OrderUnderWay(s) /\ OrderUnderWay(t) => s = t
         /\ \A s \in OrderSends : orderSend[s].phase = "sent" => \A row \in orderSend[s].row : ~HasReport(row.opp)

LEMMA OrderInvStarts ==
    ASSUME \A rows \in StoredOrders : OneEach(rows), OrderInit
    PROVE  OrderInv
  <1>1. orderForm \in OrderShape
    <2>1. PICK kind \in {"new", "edit"}, o \in {0, 1} :
             orderForm = [kind |-> kind, phase |-> IF kind = "edit" THEN "loading" ELSE "open",
                          sheet |-> [BlankOrder EXCEPT !.opp = o], listed |-> [d \in Sides |-> NoCompany],
                          products |-> FALSE, unchecked |-> FALSE, mixed |-> FALSE, raced |-> FALSE, changes |-> 0]
      BY DEF OrderInit
    <2> DEFINE sheet == [BlankOrder EXCEPT !.opp = o]
               listed == [d \in Sides |-> NoCompany]
    <2> HIDE DEF sheet, listed
    <2>2. orderForm = [kind |-> kind, phase |-> IF kind = "edit" THEN "loading" ELSE "open", sheet |-> sheet, listed |-> listed,
                       products |-> FALSE, unchecked |-> FALSE, mixed |-> FALSE, raced |-> FALSE, changes |-> 0]
      BY <2>1 DEF sheet, listed
    <2> QED BY <2>2 DEF OrderShape
  <1>2. orderSend = [s \in OrderSends |-> NoOrderSend]
    BY DEF OrderInit
  <1>3. OneEach(orders)
    BY DEF OrderInit
  <1> QED BY <1>1, <1>2, <1>3 DEF OrderInv, OrderUnderWay, NoOrderSend

\* The steps that change the sheet alone.
LEMMA SheetKeeps ==
    ASSUME OrderInv, UNCHANGED <<orders, orderSend>>, orderForm' \in OrderShape',
           orderForm'.kind = orderForm.kind, orderForm'.unchecked = orderForm.unchecked, orderForm'.raced = orderForm.raced
    PROVE  OrderInv'
  BY DEF OrderInv, CheckedAlways, OrderUnderWay, HasReport, OneEach, InOrder

\* Two sendings of which one reads the list are told apart by raced.
LEMMA SubmitKeeps == ASSUME OrderInv, NEW s \in OrderSends, SubmitOrder(s) PROVE OrderInv'
  <1> DEFINE row == OrderPayload(orderForm.sheet)
             phase == IF orderForm.kind = "new" THEN "checking" ELSE "sent"
             overlaps == \E q \in OrderSends : orderSend[q].phase = "checking"
  <1>1. orderSend' = [orderSend EXCEPT ![s] = [phase |-> phase, row |-> {row}]]
    BY DEF SubmitOrder
  <1>2. orderForm' = [orderForm EXCEPT !.raced = @ \/ overlaps]
    BY DEF SubmitOrder
  <1> HIDE DEF row, phase, overlaps
  <1>3. orderForm' \in OrderShape' /\ orderForm'.kind = orderForm.kind /\ orderForm'.unchecked = orderForm.unchecked
        /\ orderForm'.raced = (orderForm.raced \/ overlaps)
    BY <1>2 DEF OrderInv, OrderShape
  <1>4. \A t \in OrderSends : orderSend'[t] = IF t = s THEN [phase |-> phase, row |-> {row}] ELSE orderSend[t]
    BY <1>1 DEF OrderInv
  <1>5. orderSend' = [t \in OrderSends |-> [phase |-> orderSend'[t].phase, row |-> orderSend'[t].row]]
    BY <1>1, <1>4 DEF OrderInv
  <1>6. \A t \in OrderSends : \A a, b \in orderSend'[t].row : a = b
    <2> SUFFICES ASSUME NEW t \in OrderSends PROVE \A a, b \in orderSend'[t].row : a = b
      OBVIOUS
    <2>1. CASE t = s
      BY <2>1, <1>4
    <2>2. CASE t # s
      <3>1. orderSend'[t] = orderSend[t]
        BY <2>2, <1>4
      <3> QED BY <3>1 DEF OrderInv
    <2> QED BY <2>1, <2>2
  <1>7. ASSUME CheckedAlways' PROVE CheckedAlways /\ ~overlaps /\ phase = "checking"
    BY <1>3, <1>7 DEF CheckedAlways, OrderInv, OrderShape, phase
  <1>8. \A t \in OrderSends : orderSend[t].phase # "sent"
    BY DEF SubmitOrder, OrderButton
  <1>9. UNCHANGED orders
    BY DEF SubmitOrder
  <1>10. ASSUME CheckedAlways' PROVE \A t \in OrderSends : ~OrderUnderWay(t)
    BY <1>7, <1>8, <1>10 DEF OrderUnderWay, overlaps
  <1>11. ASSUME CheckedAlways' PROVE \A t, u \in OrderSends : OrderUnderWay(t)' /\ OrderUnderWay(u)' => t = u
    BY <1>4, <1>10, <1>11 DEF OrderUnderWay
  <1>12. ASSUME CheckedAlways' PROVE \A t \in OrderSends : orderSend'[t].phase # "sent"
    BY <1>4, <1>7, <1>8, <1>12
  <1>13. ASSUME CheckedAlways' PROVE OneEach(orders)'
    BY <1>7, <1>9, <1>13 DEF OrderInv, OneEach, InOrder
  <1> QED BY <1>3, <1>5, <1>6, <1>11, <1>12, <1>13 DEF OrderInv

\* Steps of one sending: what matters of the others remains.
LEMMA SendKeeps ==
    ASSUME OrderInv, NEW s \in OrderSends, NEW to, NEW left,
           orderSend' = [orderSend EXCEPT ![s] = [phase |-> to, row |-> left]],
           \A a, b \in left : a = b,
           orderForm' \in OrderShape', orderForm'.kind = orderForm.kind, orderForm'.raced = orderForm.raced,
           orderForm'.unchecked = orderForm.unchecked \/ orderForm'.unchecked,
           OrderUnderWay(s), to \in {"sent", "saved", "refused"},
           CheckedAlways' => OneEach(orders)',
           CheckedAlways' /\ to = "sent" => UNCHANGED orders /\ \A row \in left : ~HasReport(row.opp)
    PROVE  OrderInv'
  <1>1. \A t \in OrderSends : orderSend'[t] = IF t = s THEN [phase |-> to, row |-> left] ELSE orderSend[t]
    BY DEF OrderInv
  <1>2. orderSend' = [t \in OrderSends |-> [phase |-> orderSend'[t].phase, row |-> orderSend'[t].row]]
    BY <1>1 DEF OrderInv
  <1>3. \A t \in OrderSends : \A a, b \in orderSend'[t].row : a = b
    <2> SUFFICES ASSUME NEW t \in OrderSends PROVE \A a, b \in orderSend'[t].row : a = b
      OBVIOUS
    <2>1. CASE t = s
      BY <2>1, <1>1
    <2>2. CASE t # s
      <3>1. orderSend'[t] = orderSend[t]
        BY <2>2, <1>1
      <3> QED BY <3>1 DEF OrderInv
    <2> QED BY <2>1, <2>2
  <1>4. ASSUME CheckedAlways' PROVE CheckedAlways
    BY <1>4 DEF CheckedAlways, OrderInv, OrderShape
  <1>5. ASSUME CheckedAlways', NEW t \in OrderSends, OrderUnderWay(t)' PROVE t = s
    <2>1. CASE t # s
      <3>1. OrderUnderWay(t)
        BY <2>1, <1>1, <1>5 DEF OrderUnderWay
      <3> QED BY <3>1, <1>4, <1>5 DEF OrderInv
    <2> QED BY <2>1
  <1>6. ASSUME CheckedAlways', NEW t \in OrderSends, orderSend'[t].phase = "sent", NEW row \in orderSend'[t].row
        PROVE  ~HasReport(row.opp)'
    <2>1. t = s
      BY <1>5, <1>6 DEF OrderUnderWay
    <2>2. to = "sent" /\ row \in left
      BY <2>1, <1>1, <1>6
    <2> QED BY <2>2, <1>6 DEF HasReport
  <1> QED BY <1>2, <1>3, <1>5, <1>6 DEF OrderInv

\* The list read says that what is sent has no report yet, or the failure is remembered.
LEMMA CheckKeeps == ASSUME OrderInv, NEW s \in OrderSends, OrderChecked(s) PROVE OrderInv'
  <1> DEFINE none == {}
  <1>1. PICK row \in orderSend[s].row :
         \/ CheckPasses(row.opp) /\ orderSend' = [orderSend EXCEPT ![s].phase = "sent"] /\ UNCHANGED <<orderFaults, orderForm>>
         \/ ~CheckPasses(row.opp) /\ orderSend' = [orderSend EXCEPT ![s] = [NoOrderSend EXCEPT !.phase = "refused"]]
            /\ UNCHANGED <<orderFaults, orderForm>>
         \/ /\ orderFaults < MaxOrderFaults /\ orderFaults' = orderFaults + 1
            /\ orderSend' = [orderSend EXCEPT ![s].phase = "sent"]
            /\ orderForm' = [orderForm EXCEPT !.unchecked = TRUE]
    BY DEF OrderChecked
  <1>2. OrderUnderWay(s) /\ UNCHANGED orders
    BY DEF OrderChecked, OrderUnderWay
  <1>3. CheckedAlways => OneEach(orders)
    BY DEF OrderInv
  <1>4. OneEach(orders) /\ UNCHANGED orders => OneEach(orders)'
    BY DEF OneEach, InOrder
  <1>5. \A a \in orderSend[s].row : a = row
    BY DEF OrderInv
  <1>6. orderSend[s] = [phase |-> orderSend[s].phase, row |-> orderSend[s].row]
    BY DEF OrderInv
  <1>7. orderForm \in OrderShape
    BY DEF OrderInv
  <1>11. [orderSend[s] EXCEPT !.phase = "sent"] = [phase |-> "sent", row |-> orderSend[s].row]
    <2> DEFINE phase == orderSend[s].phase
               left == orderSend[s].row
    <2> HIDE DEF phase, left
    <2>1. orderSend[s] = [phase |-> phase, row |-> left]
      BY <1>6 DEF phase, left
    <2>2. [orderSend[s] EXCEPT !.phase = "sent"] = [phase |-> "sent", row |-> left]
      BY <2>1
    <2> QED BY <2>2 DEF left
  <1>12. [NoOrderSend EXCEPT !.phase = "refused"] = [phase |-> "refused", row |-> none]
    BY DEF NoOrderSend, none
  <1>8. CASE CheckPasses(row.opp) /\ orderSend' = [orderSend EXCEPT ![s].phase = "sent"] /\ UNCHANGED orderForm
    <2>1. orderSend' = [orderSend EXCEPT ![s] = [phase |-> "sent", row |-> orderSend[s].row]]
      BY <1>11, <1>8
    <2>2. orderForm' = orderForm
      BY <1>8
    <2>4. orderForm' \in OrderShape'
      BY <2>2, <1>7 DEF OrderShape
    <2>5. CheckedAlways' => CheckedAlways
      BY <2>2 DEF CheckedAlways
    <2>3. \A a \in orderSend[s].row : ~HasReport(a.opp)
      BY <1>5, <1>8 DEF CheckPasses
    <2> QED BY <2>1, <2>2, <2>3, <2>4, <2>5, <1>2, <1>3, <1>4, <1>5, SendKeeps
  <1>9. CASE orderSend' = [orderSend EXCEPT ![s] = [NoOrderSend EXCEPT !.phase = "refused"]] /\ UNCHANGED orderForm
    <2>1. orderSend' = [orderSend EXCEPT ![s] = [phase |-> "refused", row |-> none]]
      BY <1>9, <1>12
    <2>2. orderForm' = orderForm
      BY <1>9
    <2>4. orderForm' \in OrderShape'
      BY <2>2, <1>7 DEF OrderShape
    <2>5. CheckedAlways' => CheckedAlways
      BY <2>2 DEF CheckedAlways
    <2>6. CheckedAlways' => OneEach(orders)'
      BY <2>5, <1>2, <1>3, <1>4
    <2>7. \A a, b \in none : a = b
      BY DEF none
    <2>8. orderForm'.kind = orderForm.kind /\ orderForm'.raced = orderForm.raced /\ orderForm'.unchecked = orderForm.unchecked
      BY <2>2
    <2> HIDE DEF none
    <2> QED BY <2>1, <2>4, <2>6, <2>7, <2>8, <1>2, SendKeeps
  <1>10. CASE orderSend' = [orderSend EXCEPT ![s].phase = "sent"] /\ orderForm' = [orderForm EXCEPT !.unchecked = TRUE]
    <2>1. orderSend' = [orderSend EXCEPT ![s] = [phase |-> "sent", row |-> orderSend[s].row]]
      BY <1>11, <1>10
    <2>2. orderForm' \in OrderShape' /\ orderForm'.kind = orderForm.kind /\ orderForm'.raced = orderForm.raced
      BY <1>7, <1>10 DEF OrderShape
    <2>3. orderForm'.unchecked = TRUE
      BY <1>7, <1>10 DEF OrderShape
    <2>4. ~CheckedAlways'
      BY <2>3 DEF CheckedAlways
    <2> QED BY <2>1, <2>2, <2>3, <2>4, <1>2, <1>5, SendKeeps
  <1> QED BY <1>1, <1>8, <1>9, <1>10

\* A report is stored for the one sending that runs, whose opportunity has none.
LEMMA AnswerKeeps == ASSUME OrderInv, NEW s \in OrderSends, OrderAnswered(s) PROVE OrderInv'
  <1> DEFINE none == {}
  <1>1. PICK row \in orderSend[s].row :
         \/ /\ ~OrderRefused(row) /\ orders' = OrderWritten(row)
            /\ orderSend' = [orderSend EXCEPT ![s] = [NoOrderSend EXCEPT !.phase = "saved"]]
            /\ orderForm' = [orderForm EXCEPT !.phase = "left"]
         \/ /\ orderSend' = [orderSend EXCEPT ![s] = [NoOrderSend EXCEPT !.phase = "refused"]]
            /\ UNCHANGED orders \/ orders' = OrderWritten(row)
            /\ UNCHANGED orderForm
    BY DEF OrderAnswered
  <1>2. OrderUnderWay(s) /\ orderSend[s].phase = "sent"
    BY DEF OrderAnswered, OrderUnderWay
  <1>3. orderSend' = [orderSend EXCEPT ![s] = [phase |-> "saved", row |-> none]]
        \/ orderSend' = [orderSend EXCEPT ![s] = [phase |-> "refused", row |-> none]]
    BY <1>1 DEF NoOrderSend
  <1>4. /\ orderForm' \in OrderShape' /\ orderForm'.kind = orderForm.kind /\ orderForm'.raced = orderForm.raced
        /\ orderForm'.unchecked = orderForm.unchecked
    BY <1>1 DEF OrderInv, OrderShape
  <1>5. CheckedAlways' => CheckedAlways
    BY <1>4 DEF CheckedAlways
  <1>6. ASSUME CheckedAlways, orders' = OrderWritten(row) PROVE OneEach(orders)'
    <2>1. OneEach(orders) /\ ~HasReport(row.opp)
      BY <1>2, <1>6 DEF OrderInv
    <2> DEFINE added == StoredRow(row)
    <2>2. orders' = Append(orders, added) /\ added.live /\ added.opp = row.opp
      BY <1>6 DEF OrderWritten, CheckedAlways, StoredRow
    <2> HIDE DEF added
    <2>3. /\ InOrder(orders') /\ DOMAIN orders' = 1..(Len(orders) + 1) /\ DOMAIN orders = 1..Len(orders) /\ Len(orders) \in Nat
          /\ \A r \in 1..Len(orders) : orders'[r] = orders[r]
          /\ orders'[Len(orders) + 1] = added
      BY <2>1, <2>2, Appended DEF OneEach
    <2>6. \A r \in DOMAIN orders : orders[r].opp # row.opp
      BY <2>1 DEF OneEach, HasReport
    <2> QED BY <2>1, <2>2, <2>3, <2>6 DEF OneEach
  <1>7. ASSUME CheckedAlways, UNCHANGED orders PROVE OneEach(orders)'
    BY <1>7 DEF OrderInv, OneEach, InOrder
  <1>8. CheckedAlways' => OneEach(orders)'
    BY <1>1, <1>5, <1>6, <1>7
  <1>9. \A a, b \in none : a = b
    BY DEF none
  <1> HIDE DEF none
  <1>10. CASE orderSend' = [orderSend EXCEPT ![s] = [phase |-> "saved", row |-> none]]
    BY <1>2, <1>4, <1>8, <1>9, <1>10, SendKeeps
  <1>11. CASE orderSend' = [orderSend EXCEPT ![s] = [phase |-> "refused", row |-> none]]
    BY <1>2, <1>4, <1>8, <1>9, <1>11, SendKeeps
  <1> QED BY <1>3, <1>10, <1>11

LEMMA OrderInvStays == OrderInv /\ OrderNext => OrderInv'
  <1> SUFFICES ASSUME OrderInv, OrderNext PROVE OrderInv'
    OBVIOUS
  <1> USE DEF OrderShape
  <1>1. CASE OrderLoaded
    <2>1. orderForm' = [orderForm EXCEPT !.phase = "open", !.sheet = Reopened(orders[1])]
      BY <1>1 DEF OrderLoaded
    <2> QED BY <1>1, <2>1, SheetKeeps DEF OrderLoaded, OrderInv
  <1>2. CASE ProductsLoaded
    BY <1>2, SheetKeeps DEF ProductsLoaded, OrderInv
  <1>3. ASSUME NEW next, ChangeOrder(next) PROVE OrderInv'
    BY <1>3, SheetKeeps DEF ChangeOrder, OrderInv
  <1>4. ASSUME NEW next, ChangeHeader(next) PROVE OrderInv'
    BY <1>4, SheetKeeps DEF ChangeHeader, OrderInv
  <1>5. ASSUME NEW o, PickOpportunity(o) PROVE OrderInv'
    BY <1>5, <1>3 DEF PickOpportunity
  <1>6. ASSUME NEW d \in Sides, ChooseContact(d) PROVE OrderInv'
    BY <1>6, SheetKeeps DEF ChooseContact, OrderInv
  <1>7. ASSUME NEW d \in Sides, NEW c, ChooseCompany(d, c) PROVE OrderInv'
    BY <1>7, <1>3 DEF ChooseCompany
  <1>8. ASSUME NEW r, FirstContactArrives(r) PROVE OrderInv'
    BY <1>8, SheetKeeps DEF FirstContactArrives, OrderInv
  <1>9. ASSUME NEW r, ContactsArrive(r) PROVE OrderInv'
    BY <1>9, SheetKeeps DEF ContactsArrive, OrderInv
  <1>10. ASSUME NEW r, ContactsFail(r) PROVE OrderInv'
    BY <1>10, SheetKeeps DEF ContactsFail, OrderInv
  <1>11. CASE ChooseManager \/ ChooseVat
    BY <1>11, <1>4 DEF ChooseManager, ChooseVat
  <1>12. ASSUME NEW p, ChooseLicence(p) PROVE OrderInv'
    BY <1>12, <1>3 DEF ChooseLicence, ChangeRows
  <1>13. ASSUME NEW n, TypePrice(n) \/ TypeQuantity(n) \/ TypeDiscount(n) PROVE OrderInv'
    BY <1>13, <1>3 DEF TypePrice, TypeQuantity, TypeDiscount, ChangeRows
  <1>14. ASSUME NEW n, NEW k, TypeFee(k, n) PROVE OrderInv'
    BY <1>14, <1>3 DEF TypeFee, ChangeRows
  <1>15. ASSUME NEW n, NEW c, TypeMonths(n, c) PROVE OrderInv'
    BY <1>15, <1>3 DEF TypeMonths, ChangeRows
  <1>16. ASSUME NEW s \in OrderSends, SubmitOrder(s) PROVE OrderInv'
    BY <1>16, SubmitKeeps
  <1>17. ASSUME NEW s \in OrderSends, OrderChecked(s) PROVE OrderInv'
    BY <1>17, CheckKeeps
  <1>18. ASSUME NEW s \in OrderSends, OrderAnswered(s) PROVE OrderInv'
    BY <1>18, AnswerKeeps
  <1> QED BY <1>1, <1>2, <1>5, <1>6, <1>7, <1>8, <1>9, <1>10, <1>11, <1>12, <1>13, <1>14, <1>15, <1>16, <1>17, <1>18
        DEF OrderNext

-----------------------------------------------------------------------------
(* The report.                                                             *)

RepShape == [ticked : SUBSET AllValues, shown : {report.shown}, error : BOOLEAN, loading : BOOLEAN, asked : Nat]

\* One request at most was made since the last reload: while it runs the button is disabled.
RepInv ==
    /\ report \in RepShape /\ repLoads \in Nat
    /\ \A call \in repCalls : call.load \in Nat /\ call.load <= repLoads
    /\ \A c, d \in repCalls : c.load = repLoads /\ d.load = repLoads => c = d
    /\ LoadingMeansRunning /\ GroupsWhole

\* Ticking whole options keeps them whole: no two of them share a value.
LEMMA ToggledWhole ==
    ASSUME NEW values \in RepOptions, NEW ticked \in SUBSET AllValues,
           \A o \in RepOptions : o \subseteq ticked \/ o \cap ticked = {}
    PROVE  /\ ToggledValues(ticked, values) \in SUBSET AllValues
           /\ \A o \in RepOptions : o \subseteq ToggledValues(ticked, values) \/ o \cap ToggledValues(ticked, values) = {}
  <1>1. values \subseteq AllValues
    BY DEF AllValues
  <1>2. ToggledValues(ticked, values) \in SUBSET AllValues
    BY <1>1 DEF ToggledValues
  <1>3. ASSUME NEW o \in RepOptions
        PROVE  o \subseteq ToggledValues(ticked, values) \/ o \cap ToggledValues(ticked, values) = {}
    <2>1. CASE o = values
      BY <2>1 DEF ToggledValues
    <2>2. CASE o # values
      <3>1. o \cap values = {}
        BY <2>2, ReportAssumption
      <3> QED BY <3>1 DEF ToggledValues
    <2> QED BY <2>1, <2>2
  <1> QED BY <1>2, <1>3

LEMMA RepInvStarts == RepInit => RepInv
  BY DEF RepInit, RepInv, RepShape, EmptyStore, LoadingMeansRunning, GroupsWhole

LEMMA RepInvStays == RepInv /\ RepNext => RepInv'
  <1> SUFFICES ASSUME RepInv, RepNext PROVE RepInv'
    OBVIOUS
  <1>1. ASSUME NEW values \in RepOptions, ToggleOption(values) PROVE RepInv'
    <2>1. report' = [report EXCEPT !.ticked = ToggledValues(report.ticked, values)] /\ UNCHANGED <<repCalls, repLoads>>
      BY <1>1 DEF ToggleOption
    <2>2. report'.ticked = ToggledValues(report.ticked, values) /\ report'.loading = report.loading
      BY <2>1 DEF RepInv, RepShape
    <2>3. /\ ToggledValues(report.ticked, values) \in SUBSET AllValues
          /\ \A o \in RepOptions : o \subseteq report'.ticked \/ o \cap report'.ticked = {}
      BY <2>2, ToggledWhole DEF RepInv, RepShape, GroupsWhole
    <2>4. report' \in RepShape'
      BY <2>1, <2>3 DEF RepInv, RepShape
    <2> QED BY <2>1, <2>2, <2>3, <2>4 DEF RepInv, LoadingMeansRunning, GroupsWhole
  <1>2. CASE ToggleAll
    <2>1. PICK all \in {{}, AllValues} : report' = [report EXCEPT !.ticked = all]
      BY <1>2 DEF ToggleAll
    <2>2. report' \in RepShape' /\ report'.ticked = all /\ report'.loading = report.loading
      BY <2>1 DEF RepInv, RepShape
    <2>3. GroupsWhole'
      BY <2>2 DEF GroupsWhole, AllValues
    <2> QED BY <1>2, <2>2, <2>3 DEF ToggleAll, RepInv, LoadingMeansRunning
  <1>3. CASE AskReport
    <2> DEFINE call == [n |-> report.asked + 1, of |-> report.ticked, load |-> repLoads]
    <2>1. /\ ~report.loading /\ repCalls' = repCalls \union {call} /\ UNCHANGED repLoads
          /\ report' = [report EXCEPT !.loading = TRUE, !.error = FALSE, !.asked = @ + 1]
      BY <1>3 DEF AskReport, AlreadyAsked
    <2>2. call.load = repLoads
      OBVIOUS
    <2> HIDE DEF call
    <2>3. report' \in RepShape' /\ report'.ticked = report.ticked /\ report'.loading
      <3>1. report' = [report EXCEPT !.loading = TRUE, !.error = FALSE, !.asked = report.asked + 1]
        BY <2>1
      <3>2. report' = [ticked |-> report.ticked, shown |-> report.shown, error |-> FALSE, loading |-> TRUE,
                       asked |-> report.asked + 1]
        BY <3>1 DEF RepInv, RepShape
      <3> QED BY <3>2 DEF RepInv, RepShape
    <2>4. \A c \in repCalls : c.load # repLoads
      BY <2>1 DEF RepInv, LoadingMeansRunning
    <2> QED BY <2>1, <2>2, <2>3, <2>4 DEF RepInv, LoadingMeansRunning, GroupsWhole
  <1>4. ASSUME NEW call \in repCalls, NEW ok \in BOOLEAN, ReportArrives(call, ok) PROVE RepInv'
    <2>1. repCalls' = repCalls \ {call} /\ UNCHANGED repLoads
      BY <1>4 DEF ReportArrives
    <2>2. CASE call.load # repLoads
      <3>1. UNCHANGED report
        BY <1>4, <2>2 DEF ReportArrives
      <3> QED BY <2>1, <2>2, <3>1 DEF RepInv, RepShape, LoadingMeansRunning, GroupsWhole
    <2>3. CASE call.load = repLoads
      <3>1. report' = [report EXCEPT !.shown = [n |-> call.n, of |-> call.of], !.loading = FALSE]
            \/ report' = [report EXCEPT !.error = TRUE, !.loading = FALSE]
        BY <1>4, <2>3 DEF ReportArrives
      <3>2. report' \in RepShape' /\ report'.ticked = report.ticked /\ ~report'.loading
        BY <3>1 DEF RepInv, RepShape
      <3>3. \A c \in repCalls' : c.load # repLoads
        BY <2>1, <2>3 DEF RepInv
      <3> QED BY <2>1, <3>2, <3>3 DEF RepInv, LoadingMeansRunning, GroupsWhole
    <2> QED BY <2>2, <2>3
  <1>5. CASE ReloadTab
    <2>1. report' = [report EXCEPT !.loading = FALSE] /\ repLoads' = repLoads + 1 /\ UNCHANGED repCalls
      BY <1>5 DEF ReloadTab, StoredPart
    <2>2. report' \in RepShape' /\ report'.ticked = report.ticked /\ ~report'.loading
      BY <2>1 DEF RepInv, RepShape
    <2>3. \A c \in repCalls : c.load < repLoads'
      BY <2>1 DEF RepInv
    <2> QED BY <2>1, <2>2, <2>3 DEF RepInv, LoadingMeansRunning, GroupsWhole
  <1> QED BY <1>1, <1>2, <1>3, <1>4, <1>5 DEF RepNext

-----------------------------------------------------------------------------
(* Licences.                                                               *)

LicStates == {"runs", "failed", "done"}

BatchShape(batch) ==
    /\ batch = [sent |-> batch.sent, out |-> batch.out, state |-> batch.state]
    /\ batch.out \subseteq DOMAIN batch.sent /\ batch.state \in LicStates
    /\ batch.state = "done" => batch.out = {}

\* The calls that asked for a licence and were answered, in submissions that have not failed.
HeldCalls(call) ==
    {c \in (1..Len(batches)) \X (1..MaxLicRows) :
       /\ batches[c[1]].state # "failed" /\ c[2] \in DOMAIN batches[c[1]].sent \ batches[c[1]].out
       /\ batches[c[1]].sent[c[2]] = call}

StoredFor(call) == {l \in 1..Len(licences) : licences[l] = call}

\* Every answered call of a submission that has not failed has stored a licence of its own.
LicInv ==
    /\ InOrder(licences) /\ InOrder(batches)
    /\ \A b \in 1..Len(batches) : BatchShape(batches[b])
    /\ \A call : Cardinality(HeldCalls(call)) <= Cardinality(StoredFor(call))

LEMMA HeldFinite ==
    ASSUME LicInv, NEW call
    PROVE  /\ IsFiniteSet(HeldCalls(call)) /\ Cardinality(HeldCalls(call)) \in Nat
           /\ IsFiniteSet(StoredFor(call)) /\ Cardinality(StoredFor(call)) \in Nat
  <1>1. Len(batches) \in Nat /\ Len(licences) \in Nat
    BY DEF LicInv, InOrder
  <1>2. IsFiniteSet(1..Len(batches)) /\ IsFiniteSet(1..MaxLicRows) /\ IsFiniteSet(1..Len(licences))
    BY <1>1, FS_Interval, LicenseAssumption
  <1>3. IsFiniteSet((1..Len(batches)) \X (1..MaxLicRows))
    BY <1>2, FS_Product
  <1>4. HeldCalls(call) \in SUBSET ((1..Len(batches)) \X (1..MaxLicRows)) /\ StoredFor(call) \in SUBSET (1..Len(licences))
    BY DEF HeldCalls, StoredFor
  <1>5. IsFiniteSet(HeldCalls(call)) /\ IsFiniteSet(StoredFor(call))
    BY <1>2, <1>3, <1>4, FS_Subset
  <1> QED BY <1>5, FS_CardinalityType

\* What was reported as stored is: the calls of a submission that is done have all been answered.
LEMMA HeldIsStored == LicInv => RequestedAllStored
  <1> SUFFICES ASSUME LicInv, NEW k \in 1..Len(batches), NEW n \in DOMAIN batches[k].sent
               PROVE  LET call == batches[k].sent[n]
                          asks(c) == batches[c[1]].state = "done" /\ c[2] \in DOMAIN batches[c[1]].sent
                                     /\ batches[c[1]].sent[c[2]] = call IN
                      Cardinality({c \in (1..Len(batches)) \X (1..MaxLicRows) : asks(c)})
                         <= Cardinality({l \in 1..Len(licences) : licences[l] = call})
    BY DEF RequestedAllStored
  <1> DEFINE call == batches[k].sent[n]
             asked_ == {c \in (1..Len(batches)) \X (1..MaxLicRows) :
                         batches[c[1]].state = "done" /\ c[2] \in DOMAIN batches[c[1]].sent /\ batches[c[1]].sent[c[2]] = call}
  <1>1. asked_ \in SUBSET HeldCalls(call)
    BY DEF HeldCalls, LicInv, BatchShape
  <1> HIDE DEF call
  <1>2. Cardinality(asked_) <= Cardinality(HeldCalls(call)) /\ IsFiniteSet(asked_)
    BY <1>1, HeldFinite, FS_Subset
  <1>3. Cardinality(asked_) \in Nat
    BY <1>2, FS_CardinalityType
  <1>4. Cardinality(asked_) <= Cardinality(StoredFor(call))
    BY <1>2, <1>3, HeldFinite DEF LicInv
  <1> QED BY <1>4 DEF StoredFor, call

LEMMA LicInvStarts == LicInit => LicInv
  <1> SUFFICES ASSUME LicInit PROVE LicInv
    OBVIOUS
  <1>1. licences = << >> /\ batches = << >>
    BY DEF LicInit
  <1>2. ASSUME NEW call PROVE HeldCalls(call) = {} /\ StoredFor(call) = {}
    BY <1>1 DEF HeldCalls, StoredFor
  <1>3. ASSUME NEW call PROVE Cardinality(HeldCalls(call)) <= Cardinality(StoredFor(call))
    BY <1>2, FS_EmptySet
  <1> QED BY <1>1, <1>3 DEF LicInv, InOrder

\* A submission begins with all of its calls unanswered.
LEMMA SendKeepsHeld == ASSUME LicInv, SendLicences PROVE LicInv'
  <1>1. PICK batch : /\ batches' = Append(batches, batch) /\ UNCHANGED licences
                     /\ batch = [sent |-> [i \in ValidLicRows |-> LicPayload(licForm.rows[i])], out |-> ValidLicRows, state |-> "runs"]
    BY DEF SendLicences
  <1>2. BatchShape(batch) /\ batch.out = DOMAIN batch.sent
    BY <1>1 DEF BatchShape, LicStates
  <1>3. /\ InOrder(batches') /\ Len(batches) \in Nat /\ Len(batches') = Len(batches) + 1
        /\ \A b \in 1..Len(batches) : batches'[b] = batches[b]
        /\ batches'[Len(batches) + 1] = batch
    BY <1>1, Appended DEF LicInv
  <1>4. \A b \in 1..Len(batches') : BatchShape(batches'[b])
    <2> SUFFICES ASSUME NEW b \in 1..Len(batches') PROVE BatchShape(batches'[b])
      OBVIOUS
    <2>1. b \in 1..Len(batches) \/ b = Len(batches) + 1
      BY <1>3
    <2> QED BY <2>1, <1>2, <1>3 DEF LicInv
  <1>5. ASSUME NEW call PROVE HeldCalls(call)' = HeldCalls(call) /\ StoredFor(call)' = StoredFor(call)
    <2>1. StoredFor(call)' = StoredFor(call)
      BY <1>1 DEF StoredFor
    <2>2. ASSUME NEW c \in HeldCalls(call)' PROVE c \in HeldCalls(call)
      <3>1. c[1] # Len(batches) + 1
        BY <2>2, <1>2, <1>3 DEF HeldCalls
      <3>2. c[1] \in 1..Len(batches)
        BY <3>1, <2>2, <1>3 DEF HeldCalls
      <3> QED BY <3>2, <2>2, <1>3 DEF HeldCalls
    <2>3. ASSUME NEW c \in HeldCalls(call) PROVE c \in HeldCalls(call)'
      BY <2>3, <1>3 DEF HeldCalls
    <2> QED BY <2>1, <2>2, <2>3
  <1>6. ASSUME NEW call PROVE Cardinality(HeldCalls(call)') <= Cardinality(StoredFor(call)')
    BY <1>5 DEF LicInv
  <1>7. InOrder(licences)'
    BY <1>1 DEF LicInv, InOrder
  <1> QED BY <1>3, <1>4, <1>6, <1>7 DEF LicInv

\* An answered call is held for the submission only when it has stored its licence.
LEMMA AnswerKeepsHeld ==
    ASSUME LicInv, NEW b \in 1..Len(batches), NEW i \in 1..MaxLicRows, NEW how \in {"stored", "lost", "unheard"},
           LicAnswered(b, i, how)
    PROVE  LicInv'
  <1>15. PICK mine : mine = batches[b].sent[i]
    OBVIOUS
  <1> DEFINE refused == mine.type \notin LicenseType
             left == [batches[b] EXCEPT !.out = @ \ {i}]
             ends == IF left.state = "runs" THEN Outcome(left, refused \/ how # "stored") ELSE "ended"
             next == IF ends = "ended" THEN left ELSE [left EXCEPT !.state = ends]
             stores == ~refused /\ how # "lost"
             wins == ~refused /\ how = "stored"
  <1>1. /\ i \in batches[b].out /\ batches' = [batches EXCEPT ![b] = next]
        /\ licences' = IF stores THEN Append(licences, mine) ELSE licences
    <2>1. licences' = IF refused \/ how = "lost" THEN licences ELSE Append(licences, mine)
      BY <1>15 DEF LicAnswered
    <2>2. i \in batches[b].out /\ batches' = [batches EXCEPT ![b] = next]
      BY <1>15 DEF LicAnswered
    <2> QED BY <2>1, <2>2
  <1>2. BatchShape(batches[b]) /\ batches[b].state # "done"
    BY <1>1 DEF LicInv, BatchShape
  <1>3. left = [sent |-> batches[b].sent, out |-> batches[b].out \ {i}, state |-> batches[b].state]
    <2>1. PICK sent, out, state : batches[b] = [sent |-> sent, out |-> out, state |-> state]
      BY <1>2 DEF BatchShape
    <2>2. batches[b].out = out /\ batches[b].sent = sent /\ batches[b].state = state
      BY <2>1
    <2>4. PICK less : less = out \ {i}
      OBVIOUS
    <2>3. [batches[b] EXCEPT !.out = less] = [sent |-> sent, out |-> less, state |-> state]
      BY <2>1
    <2> QED BY <2>2, <2>3, <2>4
  <1>4. ends = IF batches[b].state # "runs" THEN "ended" ELSE IF ~wins THEN "failed"
               ELSE IF batches[b].out \ {i} = {} THEN "done" ELSE "runs"
    BY <1>3 DEF Outcome
  <1>5. /\ next = [sent |-> batches[b].sent, out |-> batches[b].out \ {i}, state |-> next.state]
        /\ next.state = IF ends = "ended" THEN batches[b].state ELSE ends
    BY <1>3
  <1> HIDE DEF ends, next
  <1>6. BatchShape(next) /\ (next.state # "failed" => batches[b].state # "failed" /\ wins)
    <2>1. batches[b].state \in {"runs", "failed"} /\ batches[b].out \subseteq DOMAIN batches[b].sent
      BY <1>2 DEF BatchShape, LicStates
    <2>2. next.sent = batches[b].sent /\ next.out = batches[b].out \ {i}
      BY <1>5
    <2>3. CASE batches[b].state = "failed"
      <3>1. next.state = "failed"
        BY <2>3, <1>4, <1>5
      <3> QED BY <3>1, <2>1, <2>2, <1>5 DEF BatchShape, LicStates
    <2>4. CASE batches[b].state = "runs"
      <3>1. next.state = IF ~wins THEN "failed" ELSE IF batches[b].out \ {i} = {} THEN "done" ELSE "runs"
        BY <2>4, <1>4, <1>5
      <3> HIDE DEF wins
      <3>2. next.state \in LicStates /\ (next.state = "done" => next.out = {})
        BY <3>1, <2>2 DEF LicStates
      <3> QED BY <3>1, <3>2, <2>1, <2>2, <2>4, <1>5 DEF BatchShape
    <2> QED BY <2>1, <2>3, <2>4
  <1>7. /\ InOrder(batches') /\ Len(batches) \in Nat /\ Len(batches') = Len(batches)
        /\ \A k \in 1..Len(batches) : batches'[k] = IF k = b THEN next ELSE batches[k]
    BY <1>1, Replaced DEF LicInv
  <1>8. \A k \in 1..Len(batches') : BatchShape(batches'[k])
    BY <1>6, <1>7 DEF LicInv
  <1>9. InOrder(licences') /\ Len(licences) \in Nat
    <2>1. InOrder(licences) /\ Len(licences) \in Nat
      BY DEF LicInv, InOrder
    <2>2. CASE licences' = Append(licences, mine)
      BY <2>1, <2>2, Appended
    <2>3. CASE licences' = licences
      BY <2>1, <2>3 DEF InOrder
    <2> QED BY <2>1, <2>2, <2>3, <1>1
  <1> HIDE DEF left
  <1>10. ASSUME NEW call, NEW c \in HeldCalls(call)', c # <<b, i>> PROVE c \in HeldCalls(call)
    <2>1. c[1] \in 1..Len(batches) /\ c[2] \in 1..MaxLicRows /\ c = <<c[1], c[2]>> /\ c \in (1..Len(batches)) \X (1..MaxLicRows)
      BY <1>7, <1>10 DEF HeldCalls
    <2>2. CASE c[1] = b
      <3>1. /\ next.state # "failed" /\ c[2] \in DOMAIN next.sent \ next.out /\ next.sent[c[2]] = call
        BY <2>1, <2>2, <1>7, <1>10 DEF HeldCalls
      <3>2. c[2] # i
        BY <2>1, <2>2, <1>10
      <3>3. next.sent = batches[b].sent /\ next.out = batches[b].out \ {i}
        BY <1>5
      <3>4. c[2] \in DOMAIN batches[b].sent \ batches[b].out /\ batches[b].sent[c[2]] = call
        BY <3>1, <3>2, <3>3
      <3> QED BY <2>1, <2>2, <3>1, <3>4, <1>6 DEF HeldCalls
    <2>3. CASE c[1] # b
      BY <2>1, <2>3, <1>7, <1>10 DEF HeldCalls
    <2> QED BY <2>2, <2>3
  <1>11. ASSUME NEW call, <<b, i>> \in HeldCalls(call)' PROVE wins /\ call = mine
    <2>1. batches'[b].state # "failed" /\ batches'[b].sent[i] = call
      BY <1>11 DEF HeldCalls
    <2>2. batches'[b] = next
      BY <1>7
    <2> QED BY <2>1, <2>2, <1>5, <1>6, <1>15
  <1>12. ASSUME NEW call PROVE StoredFor(call) \in SUBSET (StoredFor(call)')
    BY <1>1, <1>9, Appended DEF StoredFor, LicInv
  <1>13. wins => StoredFor(mine)' = StoredFor(mine) \union {Len(licences) + 1}
    <2> SUFFICES ASSUME wins PROVE StoredFor(mine)' = StoredFor(mine) \union {Len(licences) + 1}
      OBVIOUS
    <2> DEFINE row == mine
    <2>1. licences' = Append(licences, row)
      BY <1>1
    <2> HIDE DEF row
    <2>2. /\ Len(licences') = Len(licences) + 1
          /\ \A l \in 1..Len(licences) : licences'[l] = licences[l]
          /\ licences'[Len(licences) + 1] = row
      BY <2>1, Appended DEF LicInv
    <2>3. {l \in 1..Len(licences') : licences'[l] = row} = {l \in 1..Len(licences) : licences[l] = row} \union {Len(licences) + 1}
      BY <2>2, <1>9
    <2> QED BY <2>3 DEF StoredFor, row
  <1>14. ASSUME NEW call PROVE Cardinality(HeldCalls(call)') <= Cardinality(StoredFor(call)')
    <2>1. /\ IsFiniteSet(HeldCalls(call)) /\ Cardinality(HeldCalls(call)) \in Nat
          /\ IsFiniteSet(StoredFor(call)) /\ Cardinality(StoredFor(call)) \in Nat
          /\ Cardinality(HeldCalls(call)) <= Cardinality(StoredFor(call))
      BY HeldFinite DEF LicInv
    <2>2. IsFiniteSet(1..Len(licences')) /\ StoredFor(call)' \in SUBSET (1..Len(licences'))
      <3>1. Len(licences') \in Nat
        BY <1>9 DEF InOrder
      <3> QED BY <3>1, FS_Interval DEF StoredFor
    <2>3. IsFiniteSet(StoredFor(call)') /\ Cardinality(StoredFor(call)') \in Nat
      BY <2>2, FS_Subset, FS_CardinalityType
    <2>4. CASE <<b, i>> \notin HeldCalls(call)'
      <3>1. HeldCalls(call)' \in SUBSET HeldCalls(call)
        BY <2>4, <1>10
      <3>2. IsFiniteSet(HeldCalls(call)') /\ Cardinality(HeldCalls(call)') <= Cardinality(HeldCalls(call))
        BY <2>1, <3>1, FS_Subset
      <3>3. Cardinality(StoredFor(call)) <= Cardinality(StoredFor(call)')
        BY <2>3, <1>12, FS_Subset
      <3>4. Cardinality(HeldCalls(call)') \in Nat
        BY <3>2, FS_CardinalityType
      <3> QED BY <2>1, <2>3, <3>2, <3>3, <3>4
    <2>5. CASE <<b, i>> \in HeldCalls(call)'
      <3>10. PICK pair : pair = <<b, i>>
        OBVIOUS
      <3> DEFINE more == HeldCalls(call) \union {pair}
                 held == HeldCalls(call)'
                 stored == StoredFor(call)
      <3>1. wins /\ call = mine
        BY <2>5, <1>11
      <3>2. held \in SUBSET more
        BY <1>10, <3>10
      <3>3. IsFiniteSet(more) /\ Cardinality(more) <= Cardinality(HeldCalls(call)) + 1
        <4>1. Cardinality(more) = IF pair \in HeldCalls(call) THEN Cardinality(HeldCalls(call)) ELSE Cardinality(HeldCalls(call)) + 1
          BY <2>1, FS_AddElement
        <4>2. IsFiniteSet(more)
          BY <2>1, FS_AddElement
        <4> HIDE DEF more
        <4> QED BY <4>1, <4>2, <2>1
      <3>4. IsFiniteSet(held) /\ Cardinality(held) <= Cardinality(more)
        BY <3>2, <3>3, FS_Subset
      <3>5. Len(licences) + 1 \notin stored
        BY <1>9 DEF StoredFor
      <3>6. Cardinality(stored \union {Len(licences) + 1}) = Cardinality(stored) + 1
        BY <2>1, <3>5, FS_AddElement
      <3>7. Cardinality(StoredFor(call)') = Cardinality(stored) + 1
        BY <3>1, <3>6, <1>13
      <3>8. Cardinality(held) \in Nat /\ Cardinality(more) \in Nat
        BY <3>3, <3>4, FS_CardinalityType
      <3> HIDE DEF held, stored, more
      <3>9. Cardinality(held) <= Cardinality(stored) + 1
        BY <2>1, <3>3, <3>4, <3>8 DEF stored
      <3> QED BY <3>7, <3>9 DEF held
    <2> QED BY <2>4, <2>5
  <1> QED BY <1>7, <1>8, <1>9, <1>14 DEF LicInv

LEMMA LicInvStays == LicInv /\ LicNext => LicInv'
  <1> SUFFICES ASSUME LicInv, LicNext PROVE LicInv'
    OBVIOUS
  <1>1. CASE UNCHANGED <<licences, batches>>
    BY <1>1 DEF LicInv, InOrder, BatchShape, HeldCalls, StoredFor
  <1>2. CASE SendLicences
    BY <1>2, SendKeepsHeld
  <1>3. ASSUME NEW b \in 1..Len(batches), NEW i \in 1..MaxLicRows, NEW how \in {"stored", "lost", "unheard"},
               LicAnswered(b, i, how)
        PROVE  LicInv'
    BY <1>3, AnswerKeepsHeld
  <1>4. LicNext => \/ UNCHANGED <<licences, batches>> \/ SendLicences
                   \/ \E b \in 1..Len(batches), i \in 1..MaxLicRows, how \in {"stored", "lost", "unheard"} : LicAnswered(b, i, how)
    BY DEF LicNext, OpenLicForm, LeaveLicForm, LicProductsArrive, AddLicRow, ChooseLicCompany, ChooseLicDeal,
           RemoveLicRow, ChooseLicGroup, ChooseLicModule, ChooseLicType, LicSame
  <1> QED BY <1>1, <1>2, <1>3, <1>4

-----------------------------------------------------------------------------
(* The chatbot.                                                            *)

CallShape(call) ==
    [kind : {"load", "create", "delete", "ask"}, of : {call.of}, sess : {call.sess}, q : {call.q}, stage : {call.stage},
     list : {call.list}, said : {call.said}, last : {call.last}, front : {call.front}, up : BOOLEAN,
     out : {"answer", "error"}]

Asks == {call \in chatCalls : call.kind = "ask"}

\* Stages in which the answer to a question is not stored yet.
Unstored == {"upload", "answer", "store"}

\* The messages of a conversation belong to questions asked, and each question to one pair.
SaidWell(said) ==
    /\ InOrder(said)
    /\ \A n \in 1..Len(said) : said[n].q \in 1..Len(asked)
    /\ \A m, n \in 1..Len(said) : (m # n /\ said[m].q = said[n].q) => said[m].as # said[n].as /\ m - n \in {1, -1}

\* A question that is not stored yet is in no conversation; a file that must still go has a call that will see to it.
ChatInv ==
    /\ InOrder(chats) /\ InOrder(asked)
    /\ \A i \in 1..Len(chats) : chats[i] \in [owner : {chats[i].owner}, live : {chats[i].live}, said : {chats[i].said}]
    /\ \A i \in 1..Len(chats) : SaidWell(chats[i].said)
    /\ \A call \in chatCalls : call \in CallShape(call)
    /\ \A call \in Asks : call.q \in 1..Len(asked)
    /\ \A c, d \in Asks : c.q = d.q => c = d
    /\ \A call \in Asks : call.stage \in Unstored =>
         \A i \in 1..Len(chats) : \A n \in 1..Len(chats[i].said) : chats[i].said[n].q # call.q
    /\ \A q \in indexed \ strays : \E call \in Asks : call.q = q /\ call.up

LEMMA ChatInvPromises == ChatInv => QuestionStoredOnce /\ FilesOutOfIndex
  BY DEF ChatInv, SaidWell, QuestionStoredOnce, FilesOutOfIndex, Asks

LEMMA ChatInvStarts == ChatInit => ChatInv
  BY DEF ChatInit, ChatInv, InOrder, Asks

\* What a step does to the conversations that stores nothing in them.
NothingStored ==
    /\ InOrder(chats)' /\ Len(chats') \in Nat
    /\ \A i \in 1..Len(chats') :
         /\ chats'[i] \in [owner : {chats'[i].owner}, live : {chats'[i].live}, said : {chats'[i].said}]
         /\ chats'[i].said = << >> \/ (i \in 1..Len(chats) /\ chats'[i].said = chats[i].said)

LEMMA NoneStored == ChatInv /\ UNCHANGED chats => NothingStored
  BY DEF ChatInv, NothingStored, InOrder

LEMMA BegunStored == ChatInv /\ chats' = Append(chats, NewChat) => NothingStored
  <1> SUFFICES ASSUME ChatInv, chats' = Append(chats, NewChat) PROVE NothingStored
    OBVIOUS
  <1>1. PICK new : new = NewChat
    OBVIOUS
  <1>2. new = [owner |-> chat.user, live |-> TRUE, said |-> << >>]
    BY <1>1 DEF NewChat
  <1>3. chats' = Append(chats, new)
    BY <1>1
  <1>4. /\ InOrder(chats') /\ Len(chats) \in Nat /\ Len(chats') = Len(chats) + 1
        /\ \A i \in 1..Len(chats) : chats'[i] = chats[i]
        /\ chats'[Len(chats) + 1] = new
    BY <1>3, Appended DEF ChatInv
  <1> SUFFICES ASSUME NEW i \in 1..Len(chats')
               PROVE  /\ chats'[i] \in [owner : {chats'[i].owner}, live : {chats'[i].live}, said : {chats'[i].said}]
                      /\ chats'[i].said = << >> \/ (i \in 1..Len(chats) /\ chats'[i].said = chats[i].said)
    BY <1>4 DEF NothingStored
  <1>5. CASE i \in 1..Len(chats)
    BY <1>4, <1>5 DEF ChatInv
  <1>6. CASE i = Len(chats) + 1
    BY <1>2, <1>4, <1>6
  <1> QED BY <1>4, <1>5, <1>6

LEMMA DeletedStored ==
    ASSUME ChatInv, NEW d \in 1..Len(chats), chats' = [chats EXCEPT ![d].live = FALSE] PROVE NothingStored
  <1>1. PICK gone : gone = [chats[d] EXCEPT !.live = FALSE]
    OBVIOUS
  <1>2. gone \in [owner : {gone.owner}, live : {gone.live}, said : {gone.said}] /\ gone.said = chats[d].said
    BY <1>1 DEF ChatInv
  <1>3. chats' = [chats EXCEPT ![d] = gone]
    BY <1>1
  <1>4. /\ InOrder(chats') /\ Len(chats) \in Nat /\ Len(chats') = Len(chats)
        /\ \A i \in 1..Len(chats) : chats'[i] = IF i = d THEN gone ELSE chats[i]
    <2>1. InOrder(chats)
      BY DEF ChatInv
    <2> DEFINE next == [chats EXCEPT ![d] = gone]
    <2>2. /\ InOrder(next) /\ Len(chats) \in Nat /\ Len(next) = Len(chats)
          /\ \A r \in 1..Len(chats) : next[r] = IF r = d THEN gone ELSE chats[r]
      BY <2>1, Replaced
    <2> HIDE DEF next
    <2>3. chats' = next
      BY <1>3 DEF next
    <2> QED BY <2>2, <2>3
  <1> SUFFICES ASSUME NEW i \in 1..Len(chats')
               PROVE  /\ chats'[i] \in [owner : {chats'[i].owner}, live : {chats'[i].live}, said : {chats'[i].said}]
                      /\ chats'[i].said = << >> \/ (i \in 1..Len(chats) /\ chats'[i].said = chats[i].said)
    BY <1>4 DEF NothingStored
  <1>5. CASE i = d
    BY <1>2, <1>4, <1>5
  <1>6. CASE i # d
    BY <1>4, <1>6 DEF ChatInv
  <1> QED BY <1>5, <1>6

\* Steps that concern no question.
LEMMA OtherKeeps ==
    ASSUME ChatInv, NothingStored, UNCHANGED <<indexed, strays, asked>>, Asks' = Asks,
           \A call \in chatCalls' : call \in CallShape(call)
    PROVE  ChatInv'
  <1>1. ASSUME NEW i \in 1..Len(chats') PROVE SaidWell(chats[i].said)'
    <2>1. CASE chats'[i].said = << >>
      BY <2>1 DEF SaidWell, InOrder
    <2>2. CASE i \in 1..Len(chats) /\ chats'[i].said = chats[i].said
      <3>1. SaidWell(chats[i].said)
        BY <2>2 DEF ChatInv
      <3> QED BY <2>2, <3>1 DEF SaidWell, InOrder
    <2> QED BY <2>1, <2>2 DEF NothingStored
  <1>2. ASSUME NEW call \in Asks, call.stage \in Unstored, NEW i \in 1..Len(chats'), NEW n \in 1..Len(chats'[i].said)
        PROVE  chats'[i].said[n].q # call.q
    <2>1. CASE chats'[i].said = << >>
      BY <2>1
    <2>2. CASE i \in 1..Len(chats) /\ chats'[i].said = chats[i].said
      BY <1>2, <2>2 DEF ChatInv
    <2> QED BY <2>1, <2>2 DEF NothingStored
  <1>3. /\ InOrder(asked)' /\ \A call \in Asks' : call.q \in 1..Len(asked')
        /\ \A c, d \in Asks' : c.q = d.q => c = d
        /\ \A q \in indexed' \ strays' : \E call \in Asks' : call.q = q /\ call.up
    BY DEF ChatInv, InOrder
  <1>4. \A call \in Asks' : call.stage \in Unstored =>
          \A i \in 1..Len(chats') : \A n \in 1..Len(chats'[i].said) : chats'[i].said[n].q # call.q
    BY <1>2
  <1> QED BY <1>1, <1>3, <1>4 DEF ChatInv, NothingStored

\* A call that concerns no question goes on with another stage, or ends.
LEMMA OtherGoesOn ==
    ASSUME ChatInv, NEW call \in chatCalls, call.kind # "ask", NEW next, next.kind = call.kind, next \in CallShape(next),
           ChatGoesOn(call, next)
    PROVE  Asks' = Asks /\ \A c \in chatCalls' : c \in CallShape(c)
  BY DEF ChatInv, ChatGoesOn, Asks

LEMMA OtherEnds ==
    ASSUME ChatInv, NEW call \in chatCalls, call.kind # "ask", ChatEnds(call)
    PROVE  Asks' = Asks /\ \A c \in chatCalls' : c \in CallShape(c)
  BY DEF ChatInv, ChatEnds, Asks

LEMMA OtherBegins ==
    ASSUME ChatInv, NEW call, call.kind # "ask", call \in CallShape(call), chatCalls' = chatCalls \union {call}
    PROVE  Asks' = Asks /\ \A c \in chatCalls' : c \in CallShape(c)
  BY DEF ChatInv, Asks

LEMMA CallsShaped ==
    ASSUME NEW kind \in {"load", "create", "delete", "ask"}, NEW of, NEW sess, NEW q
    PROVE  ChatCall(kind, of, sess, q) \in CallShape(ChatCall(kind, of, sess, q)) /\ ChatCall(kind, of, sess, q).kind = kind
  BY DEF ChatCall, CallShape

LEMMA LoginKeeps == ChatInv /\ ((\E u : LogIn(u)) \/ TokenRenewed \/ GoToPage) => ChatInv'
  <1> SUFFICES ASSUME ChatInv, (\E u : LogIn(u)) \/ TokenRenewed \/ GoToPage PROVE ChatInv'
    OBVIOUS
  <1>1. UNCHANGED <<chats, indexed, strays, asked>>
    BY DEF LogIn, TokenRenewed, GoToPage, ChatStore
  <1>2. PICK call : call = LoadCall(chat.gen + 1)
    OBVIOUS
  <1>3. call \in CallShape(call) /\ call.kind = "load"
    BY <1>2, CallsShaped DEF LoadCall
  <1>4. UNCHANGED chatCalls \/ chatCalls' = chatCalls \union {call}
    BY <1>2 DEF LogIn, TokenRenewed, GoToPage
  <1>5. Asks' = Asks /\ \A c \in chatCalls' : c \in CallShape(c)
    <2>1. CASE UNCHANGED chatCalls
      BY <2>1 DEF ChatInv, Asks
    <2>2. CASE chatCalls' = chatCalls \union {call}
      BY <2>2, <1>3, OtherBegins
    <2> QED BY <2>1, <2>2, <1>4
  <1> QED BY <1>1, <1>5, NoneStored, OtherKeeps

\* Reading the conversations, and beginning and deleting them.
LEMMA LoadKeeps ==
    ASSUME ChatInv, NEW call \in chatCalls, NEW ok \in BOOLEAN, NEW first,
           LoadList(call, ok) \/ LoadMessages(call) \/ LoadArrives(call, first)
    PROVE  ChatInv'
  <1>1. call.kind = "load" /\ call \in CallShape(call) /\ UNCHANGED <<indexed, strays, asked>>
    BY DEF LoadList, LoadMessages, LoadArrives, ChatInv, ChatStore
  <1>2. CASE LoadList(call, ok)
    <2>1. PICK next : ChatGoesOn(call, next) /\ (\/ next = [call EXCEPT !.stage = "listed", !.list = Owned]
                                               \/ next = [call EXCEPT !.stage = "failed"]
                                               \/ next = [call EXCEPT !.stage = "listed", !.list = {Len(chats) + 1}])
      BY <1>2 DEF LoadList
    <2>2. next.kind = call.kind /\ next \in CallShape(next)
      <3> DEFINE owned == Owned
                 new == {Len(chats) + 1}
      <3> HIDE DEF owned, new
      <3>1. \/ next = [call EXCEPT !.stage = "listed", !.list = owned]
            \/ next = [call EXCEPT !.stage = "failed"]
            \/ next = [call EXCEPT !.stage = "listed", !.list = new]
        BY <2>1 DEF owned, new
      <3> QED BY <3>1, <1>1 DEF CallShape
    <2>3. UNCHANGED chats \/ chats' = Append(chats, NewChat)
      BY <1>2 DEF LoadList
    <2> QED BY <1>1, <2>1, <2>2, <2>3, NoneStored, BegunStored, OtherGoesOn, OtherKeeps
  <1>3. CASE LoadMessages(call)
    <2>1. PICK said, next : ChatGoesOn(call, next) /\ (\/ next = [call EXCEPT !.stage = "read", !.said = said]
                                                     \/ next = [call EXCEPT !.stage = "failed"])
      BY <1>3 DEF LoadMessages
    <2>2. next.kind = call.kind /\ next \in CallShape(next)
      BY <2>1, <1>1 DEF CallShape
    <2>3. UNCHANGED chats
      BY <1>3 DEF LoadMessages, ChatStore
    <2> QED BY <1>1, <2>1, <2>2, <2>3, NoneStored, OtherGoesOn, OtherKeeps
  <1>4. CASE LoadArrives(call, first)
    <2>1. ChatEnds(call) /\ UNCHANGED chats
      BY <1>4 DEF LoadArrives, ChatStore
    <2> QED BY <1>1, <2>1, NoneStored, OtherEnds, OtherKeeps
  <1> QED BY <1>2, <1>3, <1>4

LEMMA CreateKeeps ==
    ASSUME ChatInv, BeginChat \/ (\E call \in chatCalls : ChatCreated(call) \/ CreatedShown(call)) PROVE ChatInv'
  <1>1. CASE BeginChat
    <2>1. PICK call : call = ChatCall("create", chat.mount, 0, 0)
      OBVIOUS
    <2>2. call \in CallShape(call) /\ call.kind = "create"
      BY <2>1, CallsShaped
    <2>3. chatCalls' = chatCalls \union {call} /\ UNCHANGED <<chats, indexed, strays, asked>>
      BY <1>1, <2>1 DEF BeginChat, ChatStore
    <2> QED BY <2>2, <2>3, NoneStored, OtherBegins, OtherKeeps
  <1>2. ASSUME NEW call \in chatCalls, ChatCreated(call) PROVE ChatInv'
    <2>1. call.kind = "create" /\ call \in CallShape(call) /\ UNCHANGED <<indexed, strays, asked>>
      BY <1>2 DEF ChatCreated, ChatInv
    <2>2. CASE ChatEnds(call) /\ UNCHANGED chats
      BY <2>1, <2>2, NoneStored, OtherEnds, OtherKeeps
    <2>3. CASE chats' = Append(chats, NewChat) /\ ChatGoesOn(call, [call EXCEPT !.stage = "made", !.sess = Len(chats) + 1])
      <3>1. PICK n, next : ChatGoesOn(call, next) /\ next = [call EXCEPT !.stage = "made", !.sess = n]
        BY <2>3
      <3>2. next.kind = call.kind /\ next \in CallShape(next)
        BY <2>1, <3>1 DEF CallShape
      <3> QED BY <2>1, <2>3, <3>1, <3>2, BegunStored, OtherGoesOn, OtherKeeps
    <2> QED BY <1>2, <2>2, <2>3 DEF ChatCreated
  <1>3. ASSUME NEW call \in chatCalls, CreatedShown(call) PROVE ChatInv'
    <2>1. call.kind = "create" /\ ChatEnds(call) /\ UNCHANGED <<chats, indexed, strays, asked>>
      BY <1>3 DEF CreatedShown, ChatStore
    <2> QED BY <2>1, NoneStored, OtherEnds, OtherKeeps
  <1> QED BY <1>1, <1>2, <1>3

LEMMA DeletionKeeps ==
    ASSUME ChatInv,
           \/ \E i : BeginDeletion(i)
           \/ \E call \in chatCalls : ChatDeleted(call) \/ (\E ok \in BOOLEAN : ChatReplaced(call, ok)) \/ (\E first : DeletionShown(call, first))
    PROVE  ChatInv'
  <1>1. ASSUME NEW i, BeginDeletion(i) PROVE ChatInv'
    <2>1. PICK begun, last, front, call :
             /\ begun = ChatCall("delete", chat.mount, i, 0) /\ call = [begun EXCEPT !.last = last, !.front = front]
             /\ chatCalls' = chatCalls \union {call}
      BY <1>1 DEF BeginDeletion
    <2>2. begun \in CallShape(begun) /\ begun.kind = "delete"
      BY <2>1, CallsShaped
    <2>3. call \in CallShape(call) /\ call.kind = "delete"
      BY <2>1, <2>2 DEF CallShape
    <2>4. UNCHANGED <<chats, indexed, strays, asked>>
      BY <1>1 DEF BeginDeletion, ChatStore
    <2> QED BY <2>1, <2>3, <2>4, NoneStored, OtherBegins, OtherKeeps
  <1>2. ASSUME NEW call \in chatCalls, ChatDeleted(call) PROVE ChatInv'
    <2>1. call.kind = "delete" /\ call \in CallShape(call) /\ UNCHANGED <<indexed, strays, asked>>
      BY <1>2 DEF ChatDeleted, ChatInv
    <2>2. CASE call.sess \in Owned
      <3>1. PICK stage, next : ChatGoesOn(call, next) /\ next = [call EXCEPT !.stage = stage]
        BY <1>2, <2>2 DEF ChatDeleted
      <3>2. next.kind = call.kind /\ next \in CallShape(next)
        BY <2>1, <3>1 DEF CallShape
      <3>3. call.sess \in 1..Len(chats) /\ chats' = [chats EXCEPT ![call.sess].live = FALSE]
        BY <1>2, <2>2 DEF ChatDeleted, Owned
      <3>4. NothingStored
        BY <3>3, DeletedStored
      <3> QED BY <2>1, <3>1, <3>2, <3>4, OtherGoesOn, OtherKeeps
    <2>3. CASE call.sess \notin Owned
      <3>1. ChatEnds(call) /\ UNCHANGED chats
        BY <1>2, <2>3 DEF ChatDeleted
      <3> QED BY <2>1, <3>1, NoneStored, OtherEnds, OtherKeeps
    <2> QED BY <2>2, <2>3
  <1>3. ASSUME NEW call \in chatCalls, NEW ok \in BOOLEAN, ChatReplaced(call, ok) PROVE ChatInv'
    <2>1. call.kind = "delete" /\ call \in CallShape(call) /\ UNCHANGED <<indexed, strays, asked>>
      BY <1>3 DEF ChatReplaced, ChatInv
    <2>2. CASE ok
      <3>1. PICK n, next : ChatGoesOn(call, next) /\ next = [call EXCEPT !.stage = "made", !.q = n]
        BY <1>3, <2>2 DEF ChatReplaced
      <3>2. next.kind = call.kind /\ next \in CallShape(next)
        BY <2>1, <3>1 DEF CallShape
      <3>3. chats' = Append(chats, NewChat)
        BY <1>3, <2>2 DEF ChatReplaced
      <3> QED BY <2>1, <3>1, <3>2, <3>3, BegunStored, OtherGoesOn, OtherKeeps
    <2>3. CASE ~ok
      <3>1. ChatEnds(call) /\ UNCHANGED chats
        BY <1>3, <2>3 DEF ChatReplaced
      <3> QED BY <2>1, <3>1, NoneStored, OtherEnds, OtherKeeps
    <2> QED BY <2>2, <2>3
  <1>4. ASSUME NEW call \in chatCalls, NEW first, DeletionShown(call, first) PROVE ChatInv'
    <2>1. call.kind = "delete" /\ ChatEnds(call) /\ UNCHANGED <<chats, indexed, strays, asked>>
      BY <1>4 DEF DeletionShown, ChatStore
    <2> QED BY <2>1, NoneStored, OtherEnds, OtherKeeps
  <1> QED BY <1>1, <1>2, <1>3, <1>4

\* A question that goes on remains the only call of its number.
LEMMA AskGoesOn ==
    ASSUME ChatInv, NEW call \in Asks, NEW next, next.kind = "ask", next.q = call.q, next \in CallShape(next),
           ChatGoesOn(call, next), UNCHANGED asked,
           \A q \in indexed' \ strays' : q \in indexed \ strays \/ (q = call.q /\ next.up),
           call.up => next.up
    PROVE  /\ \A c \in chatCalls' : c \in CallShape(c)
           /\ Asks' = (Asks \ {call}) \union {next}
           /\ \A c \in Asks' : c.q \in 1..Len(asked')
           /\ \A c, d \in Asks' : c.q = d.q => c = d
           /\ \A q \in indexed' \ strays' : \E c \in Asks' : c.q = q /\ c.up
  <1>1. Asks' = (Asks \ {call}) \union {next} /\ \A c \in chatCalls' : c \in CallShape(c)
    BY DEF ChatInv, ChatGoesOn, Asks
  <1>2. \A c \in Asks \ {call} : c.q # call.q
    BY DEF ChatInv
  <1>3. \A c \in Asks' : c.q \in 1..Len(asked')
    BY <1>1 DEF ChatInv
  <1>4. \A c, d \in Asks' : c.q = d.q => c = d
    BY <1>1, <1>2 DEF ChatInv
  <1>5. ASSUME NEW q \in indexed' \ strays' PROVE \E c \in Asks' : c.q = q /\ c.up
    <2>1. CASE q = call.q /\ next.up
      BY <2>1, <1>1
    <2>2. CASE q \in indexed \ strays
      <3>1. PICK c \in Asks : c.q = q /\ c.up
        BY <2>2 DEF ChatInv
      <3> QED BY <3>1, <1>1
    <2> QED BY <2>1, <2>2
  <1> QED BY <1>1, <1>3, <1>4, <1>5

LEMMA SaidStays ==
    ASSUME ChatInv, UNCHANGED <<chats, asked>> PROVE \A i \in 1..Len(chats') : SaidWell(chats[i].said)'
  <1> SUFFICES ASSUME NEW i \in 1..Len(chats') PROVE SaidWell(chats[i].said)'
    OBVIOUS
  <1>1. SaidWell(chats[i].said)
    BY DEF ChatInv
  <1> QED BY <1>1 DEF SaidWell, InOrder

LEMMA AskEnds ==
    ASSUME ChatInv, NEW call \in Asks, ChatEnds(call), UNCHANGED <<chats, asked>>,
           \A q \in indexed' \ strays' : q \in indexed \ strays /\ (q # call.q \/ ~call.up)
    PROVE  ChatInv'
  <1>1. Asks' = Asks \ {call} /\ \A c \in chatCalls' : c \in CallShape(c)
    BY DEF ChatInv, ChatEnds, Asks
  <1>2. ASSUME NEW q \in indexed' \ strays' PROVE \E c \in Asks' : c.q = q /\ c.up
    <2>1. PICK c \in Asks : c.q = q /\ c.up
      BY DEF ChatInv
    <2> QED BY <2>1, <1>1
  <1>3. \A i \in 1..Len(chats') : SaidWell(chats[i].said)'
    BY SaidStays
  <1>4. InOrder(asked)' /\ InOrder(chats)'
    BY DEF ChatInv, InOrder
  <1>5. \A i \in 1..Len(chats') : chats'[i] \in [owner : {chats'[i].owner}, live : {chats'[i].live}, said : {chats'[i].said}]
    BY DEF ChatInv
  <1>6. /\ \A c \in Asks' : c.q \in 1..Len(asked')
        /\ \A c, d \in Asks' : c.q = d.q => c = d
    BY <1>1 DEF ChatInv
  <1>7. ASSUME NEW c \in Asks', c.stage \in Unstored, NEW k \in 1..Len(chats'), NEW n \in 1..Len(chats'[k].said)
        PROVE  chats'[k].said[n].q # c.q
    BY <1>1, <1>7 DEF ChatInv
  <1> QED BY <1>1, <1>2, <1>3, <1>4, <1>5, <1>6, <1>7 DEF ChatInv

\* A question in none of the conversations is asked.
LEMMA SendMessageKeeps == ASSUME ChatInv, NEW i, SendMessage(i) PROVE ChatInv'
  <1>1. PICK q, stage, begun, call :
           /\ q = Len(asked) + 1 /\ begun = ChatCall("ask", chat.mount, i, q) /\ call = [begun EXCEPT !.stage = stage]
           /\ chatCalls' = chatCalls \union {call}
    BY DEF SendMessage
  <1>2. asked' = Append(asked, i) /\ UNCHANGED <<chats, indexed, strays>>
    BY DEF SendMessage
  <1>3. /\ InOrder(asked)' /\ Len(asked) \in Nat /\ Len(asked') = Len(asked) + 1
    BY <1>2, Appended DEF ChatInv
  <1>4. begun \in CallShape(begun) /\ begun.kind = "ask" /\ begun.q = q
    BY <1>1, CallsShaped DEF ChatCall
  <1>5. call \in CallShape(call) /\ call.kind = "ask" /\ call.q = q
    BY <1>1, <1>4 DEF CallShape
  <1>6. Asks' = Asks \union {call} /\ \A c \in chatCalls' : c \in CallShape(c)
    BY <1>1, <1>5 DEF ChatInv, Asks
  <1>7. \A c \in Asks : c.q \in 1..Len(asked)
    BY DEF ChatInv
  <1>8. ASSUME NEW c \in Asks' PROVE c.q \in 1..Len(asked')
    <2>1. c.q \in 1..Len(asked) \/ c.q = q
      BY <1>5, <1>6, <1>7
    <2>2. q = Len(asked) + 1
      BY <1>1
    <2> QED BY <2>1, <2>2, <1>3
  <1>9. \A c, d \in Asks' : c.q = d.q => c = d
    <2>1. \A c \in Asks : c.q # q
      BY <1>1, <1>3, <1>7
    <2> QED BY <2>1, <1>5, <1>6 DEF ChatInv
  <1>10. ASSUME NEW k \in 1..Len(chats') PROVE SaidWell(chats[k].said)'
    <2>1. SaidWell(chats[k].said)
      BY <1>2 DEF ChatInv
    <2> QED BY <2>1, <1>2, <1>3 DEF SaidWell, InOrder
  <1>11. ASSUME NEW c \in Asks', c.stage \in Unstored, NEW k \in 1..Len(chats'), NEW n \in 1..Len(chats'[k].said)
         PROVE  chats'[k].said[n].q # c.q
    <2>1. CASE c \in Asks
      BY <1>2, <1>11, <2>1 DEF ChatInv
    <2>2. CASE c = call
      <3>1. chats[k].said[n].q \in 1..Len(asked)
        BY <1>2 DEF ChatInv, SaidWell
      <3> QED BY <3>1, <2>2, <1>1, <1>2, <1>3, <1>5
    <2> QED BY <2>1, <2>2, <1>6
  <1>12. \A p \in indexed' \ strays' : \E c \in Asks' : c.q = p /\ c.up
    BY <1>2, <1>6 DEF ChatInv
  <1>13. InOrder(chats)' /\ \A k \in 1..Len(chats') : chats'[k] \in [owner : {chats'[k].owner}, live : {chats'[k].live}, said : {chats'[k].said}]
    BY <1>2 DEF ChatInv, InOrder
  <1> QED BY <1>3, <1>6, <1>8, <1>9, <1>10, <1>11, <1>12, <1>13 DEF ChatInv

\* Until it is stored, a question is in none of the conversations.
LEMMA UnstoredKeeps ==
    ASSUME ChatInv, NEW call \in Asks, NEW next, next.kind = "ask", next.q = call.q, next \in CallShape(next),
           ChatGoesOn(call, next), UNCHANGED <<chats, asked>>,
           \A q \in indexed' \ strays' : q \in indexed \ strays \/ (q = call.q /\ next.up),
           call.up => next.up, next.stage \in Unstored => call.stage \in Unstored
    PROVE  ChatInv'
  <1>1. /\ \A c \in chatCalls' : c \in CallShape(c)
        /\ Asks' = (Asks \ {call}) \union {next}
        /\ \A c \in Asks' : c.q \in 1..Len(asked')
        /\ \A c, d \in Asks' : c.q = d.q => c = d
        /\ \A q \in indexed' \ strays' : \E c \in Asks' : c.q = q /\ c.up
    BY AskGoesOn
  <1>2. ASSUME NEW c \in Asks', c.stage \in Unstored, NEW k \in 1..Len(chats'), NEW n \in 1..Len(chats'[k].said)
        PROVE  chats'[k].said[n].q # c.q
    BY <1>1, <1>2 DEF ChatInv
  <1>3. \A k \in 1..Len(chats') : SaidWell(chats[k].said)'
    BY SaidStays
  <1> QED BY <1>1, <1>2, <1>3 DEF ChatInv, InOrder

LEMMA AskingKeeps ==
    ASSUME ChatInv, NEW call \in chatCalls, NEW ok \in BOOLEAN, NEW kept \in BOOLEAN,
           UploadToIndex(call, ok, kept) \/ Answered(call, ok) \/ ShowAnswer(call) \/ CleanIndex(call, ok)
    PROVE  ChatInv'
  <1>1. call \in Asks /\ call \in CallShape(call) /\ UNCHANGED <<chats, asked>>
    BY DEF UploadToIndex, Answered, ShowAnswer, CleanIndex, ChatInv, Asks, ChatStore
  <1>2. CASE UploadToIndex(call, ok, kept)
    <2>1. PICK next : ChatGoesOn(call, next) /\ next = IF ok THEN [call EXCEPT !.stage = "answer", !.up = TRUE]
                                                      ELSE [call EXCEPT !.stage = "store", !.out = "error"]
      BY <1>2 DEF UploadToIndex
    <2>2. next.kind = "ask" /\ next.q = call.q /\ next \in CallShape(next) /\ next.up = (ok \/ call.up)
      BY <2>1, <1>1 DEF CallShape, Asks
    <2>3. \A q \in indexed' \ strays' : q \in indexed \ strays \/ (q = call.q /\ next.up)
      BY <1>2, <2>2 DEF UploadToIndex
    <2>4. call.stage \in Unstored
      BY <1>2 DEF UploadToIndex, Unstored
    <2> QED BY <1>1, <2>1, <2>2, <2>3, <2>4, UnstoredKeeps
  <1>3. CASE Answered(call, ok)
    <2>1. PICK out \in {"answer", "error"} : ChatGoesOn(call, [call EXCEPT !.stage = "store", !.out = out])
      <3>1. PICK out : out = IF ok THEN "answer" ELSE "error"
        OBVIOUS
      <3>2. ChatGoesOn(call, [call EXCEPT !.stage = "store", !.out = out])
        BY <1>3, <3>1 DEF Answered
      <3> QED BY <3>1, <3>2
    <2>2. PICK next : next = [call EXCEPT !.stage = "store", !.out = out]
      OBVIOUS
    <2>3. next.kind = "ask" /\ next.q = call.q /\ next \in CallShape(next) /\ next.up = call.up
      BY <2>2, <1>1 DEF CallShape, Asks
    <2>4. call.stage \in Unstored /\ UNCHANGED <<indexed, strays>>
      BY <1>3 DEF Answered, Unstored, ChatStore
    <2> QED BY <1>1, <2>1, <2>2, <2>3, <2>4, UnstoredKeeps
  <1>4. CASE ShowAnswer(call)
    <2>1. UNCHANGED <<indexed, strays>>
      BY <1>4 DEF ShowAnswer, ChatStore
    <2>2. CASE call.up
      <3>1. PICK next : ChatGoesOn(call, next) /\ next = [call EXCEPT !.stage = "clean"]
        BY <1>4, <2>2 DEF ShowAnswer, Cleans
      <3>2. next.kind = "ask" /\ next.q = call.q /\ next \in CallShape(next) /\ next.up = call.up /\ next.stage \notin Unstored
        BY <3>1, <1>1 DEF CallShape, Asks, Unstored
      <3> QED BY <1>1, <2>1, <3>1, <3>2, UnstoredKeeps
    <2>3. CASE ~call.up
      <3>1. ChatEnds(call)
        BY <1>4, <2>3 DEF ShowAnswer, Cleans
      <3> QED BY <1>1, <2>1, <2>3, <3>1, AskEnds
    <2> QED BY <2>2, <2>3
  <1>5. CASE CleanIndex(call, ok)
    <2>1. ChatEnds(call)
      BY <1>5 DEF CleanIndex
    <2>2. \A q \in indexed' \ strays' : q \in indexed \ strays /\ q # call.q
      BY <1>5 DEF CleanIndex
    <2> QED BY <1>1, <2>1, <2>2, AskEnds
  <1> QED BY <1>2, <1>3, <1>4, <1>5

\* Question and answer are stored together, once.
LEMMA StoreKeeps ==
    ASSUME ChatInv, NEW call \in chatCalls, NEW ok \in BOOLEAN, NEW kept \in BOOLEAN, StoreAnswer(call, ok, kept)
    PROVE  ChatInv'
  <1>1. /\ call \in Asks /\ call \in CallShape(call) /\ UNCHANGED <<indexed, strays, asked>>
        /\ call.stage = "store" /\ (kept => call.sess \in 1..Len(chats))
    BY DEF StoreAnswer, ChatInv, Asks, Owned
  <1>2. PICK next : ChatGoesOn(call, next) /\ next = [call EXCEPT !.stage = "show"]
    BY DEF StoreAnswer, AfterStore
  <1>3. next.kind = "ask" /\ next.q = call.q /\ next \in CallShape(next) /\ next.up = call.up /\ next.stage \notin Unstored
    BY <1>1, <1>2 DEF CallShape, Asks, Unstored
  <1>4. CASE ~kept
    <2>1. UNCHANGED chats
      BY <1>4 DEF StoreAnswer
    <2> QED BY <1>1, <1>2, <1>3, <2>1, UnstoredKeeps
  <1>5. CASE kept
    <2>1. PICK s, question, answer, row :
             /\ s = call.sess /\ question = Said(call.q, "question") /\ answer = Said(call.q, call.out)
             /\ row = [chats[s] EXCEPT !.said = @ \o <<question, answer>>] /\ chats' = [chats EXCEPT ![s] = row]
      BY <1>5 DEF StoreAnswer, StoredPair
    <2>2. /\ InOrder(chats') /\ Len(chats) \in Nat /\ Len(chats') = Len(chats)
          /\ \A i \in 1..Len(chats) : chats'[i] = IF i = s THEN row ELSE chats[i]
      <3>1. InOrder(chats) /\ s \in 1..Len(chats)
        BY <1>1, <1>5, <2>1 DEF ChatInv
      <3>2. /\ InOrder([chats EXCEPT ![s] = row]) /\ Len(chats) \in Nat /\ Len([chats EXCEPT ![s] = row]) = Len(chats)
            /\ \A i \in 1..Len(chats) : [chats EXCEPT ![s] = row][i] = IF i = s THEN row ELSE chats[i]
        BY <3>1, Replaced
      <3>3. PICK after : after = [chats EXCEPT ![s] = row]
        OBVIOUS
      <3> QED BY <2>1, <3>2, <3>3
    <2>3. question.q = call.q /\ answer.q = call.q /\ question.as # answer.as /\ call.q \in 1..Len(asked)
      BY <1>1, <2>1 DEF Said, CallShape, ChatInv
    <2>4. row \in [owner : {row.owner}, live : {row.live}, said : {row.said}] /\ row.said = chats[s].said \o <<question, answer>>
      <3>1. s \in 1..Len(chats) /\ chats[s] \in [owner : {chats[s].owner}, live : {chats[s].live}, said : {chats[s].said}]
        BY <1>1, <1>5, <2>1 DEF ChatInv
      <3>2. PICK said : said = chats[s].said \o <<question, answer>>
        OBVIOUS
      <3>3. row = [chats[s] EXCEPT !.said = said]
        BY <2>1, <3>2
      <3> QED BY <3>1, <3>2, <3>3
    <2>5. SaidWell(chats[s].said) /\ \A n \in 1..Len(chats[s].said) : chats[s].said[n].q # call.q
      BY <1>1, <1>5, <2>1 DEF ChatInv, Unstored
    <2>6. SaidWell(row.said)
      <3> DEFINE old == chats[s].said
                 new == row.said
      <3>1. PICK S : old \in Seq(S)
        BY <2>5 DEF SaidWell, InOrder
      <3>2. /\ new \in Seq(S \union {question, answer}) /\ Len(old) \in Nat /\ Len(new) = Len(old) + 2
            /\ \A n \in 1..Len(old) : new[n] = old[n]
            /\ new[Len(old) + 1] = question /\ new[Len(old) + 2] = answer
        BY <3>1, <2>4
      <3>3. InOrder(new)
        BY <3>2 DEF InOrder
      <3>4. /\ \A n \in 1..Len(old) : old[n].q \in 1..Len(asked) /\ old[n].q # call.q
            /\ \A m, n \in 1..Len(old) : (m # n /\ old[m].q = old[n].q) => old[m].as # old[n].as /\ m - n \in {1, -1}
        BY <2>5 DEF SaidWell
      <3> HIDE DEF old, new
      <3>5. \A n \in 1..Len(new) : n \in 1..Len(old) \/ (n > Len(old) /\ new[n].q = call.q)
        <4> SUFFICES ASSUME NEW n \in 1..Len(new), n \notin 1..Len(old) PROVE n > Len(old) /\ new[n].q = call.q
          OBVIOUS
        <4>1. n = Len(old) + 1 \/ n = Len(old) + 2
          BY <3>2
        <4> QED BY <4>1, <3>2, <2>3
      <3>6. \A n \in 1..Len(new) : new[n].q \in 1..Len(asked)
        BY <3>2, <3>4, <3>5, <2>3
      <3>7. ASSUME NEW m \in 1..Len(new), NEW n \in 1..Len(new), m # n, new[m].q = new[n].q
            PROVE  new[m].as # new[n].as /\ m - n \in {1, -1}
        <4>1. CASE m \in 1..Len(old) /\ n \in 1..Len(old)
          BY <3>2, <3>7, <4>1, <3>4
        <4>2. CASE m \notin 1..Len(old) /\ n \notin 1..Len(old)
          <5>1. m \in {Len(old) + 1, Len(old) + 2} /\ n \in {Len(old) + 1, Len(old) + 2}
            BY <3>2, <4>2
          <5> QED BY <5>1, <3>2, <3>7, <2>3
        <4>3. CASE m \in 1..Len(old) /\ n \notin 1..Len(old)
          <5>1. new[m].q # call.q /\ new[n].q = call.q
            BY <3>2, <3>4, <3>5, <4>3
          <5> QED BY <5>1, <3>7
        <4>4. CASE m \notin 1..Len(old) /\ n \in 1..Len(old)
          <5>1. new[n].q # call.q /\ new[m].q = call.q
            BY <3>2, <3>4, <3>5, <4>4
          <5> QED BY <5>1, <3>7
        <4> QED BY <4>1, <4>2, <4>3, <4>4
      <3> QED BY <3>3, <3>6, <3>7 DEF SaidWell, new
    <2>7. ASSUME NEW i \in 1..Len(chats') PROVE SaidWell(chats[i].said)'
      <3>1. PICK said : said = chats'[i].said
        OBVIOUS
      <3>2. SaidWell(said)
        <4>1. CASE i = s
          <5>1. said = row.said
            BY <2>2, <3>1, <4>1
          <5> QED BY <2>6, <5>1
        <4>2. CASE i # s
          <5>1. said = chats[i].said
            BY <2>2, <3>1, <4>2
          <5>2. SaidWell(chats[i].said)
            BY <2>2 DEF ChatInv
          <5> QED BY <5>1, <5>2
        <4> QED BY <4>1, <4>2
      <3>3. asked' = asked
        BY <1>1
      <3> QED BY <3>1, <3>2, <3>3 DEF SaidWell, InOrder
    <2>8. /\ \A c \in chatCalls' : c \in CallShape(c)
          /\ Asks' = (Asks \ {call}) \union {next}
          /\ \A c \in Asks' : c.q \in 1..Len(asked')
          /\ \A c, d \in Asks' : c.q = d.q => c = d
          /\ \A q \in indexed' \ strays' : \E c \in Asks' : c.q = q /\ c.up
      BY <1>1, <1>2, <1>3, AskGoesOn
    <2>9. ASSUME NEW c \in Asks', c.stage \in Unstored, NEW k \in 1..Len(chats'), NEW n \in 1..Len(chats'[k].said)
          PROVE  chats'[k].said[n].q # c.q
      <3>1. c \in Asks /\ c # call /\ c.q # call.q
        BY <2>8, <2>9, <1>1, <1>3 DEF ChatInv
      <3>2. CASE k # s
        BY <3>1, <3>2, <2>2, <2>9 DEF ChatInv
      <3>3. CASE k = s
        <4> DEFINE old == chats[s].said
        <4>1. PICK S : old \in Seq(S)
          BY <2>5 DEF SaidWell, InOrder
        <4>2. chats'[k].said = old \o <<question, answer>>
          BY <2>2, <2>4, <3>3
        <4>3. \A m \in 1..Len(old) : old[m].q # c.q
          BY <3>1, <3>3, <2>2, <2>9 DEF ChatInv
        <4> HIDE DEF old
        <4> QED BY <4>1, <4>2, <4>3, <2>3, <3>1
      <3> QED BY <3>2, <3>3
    <2>10. \A i \in 1..Len(chats') : chats'[i] \in [owner : {chats'[i].owner}, live : {chats'[i].live}, said : {chats'[i].said}]
      <3> SUFFICES ASSUME NEW i \in 1..Len(chats')
                   PROVE  chats'[i] \in [owner : {chats'[i].owner}, live : {chats'[i].live}, said : {chats'[i].said}]
        OBVIOUS
      <3>1. CASE i = s
        BY <2>2, <2>4, <3>1
      <3>2. CASE i # s
        BY <2>2, <3>2 DEF ChatInv
      <3> QED BY <3>1, <3>2
    <2>11. InOrder(asked)'
      BY <1>1 DEF ChatInv, InOrder
    <2> QED BY <2>2, <2>7, <2>8, <2>9, <2>10, <2>11 DEF ChatInv
  <1> QED BY <1>4, <1>5

LEMMA ChatInvStays == ChatInv /\ ChatNext => ChatInv'
  <1> SUFFICES ASSUME ChatInv, ChatNext PROVE ChatInv'
    OBVIOUS
  <1>1. CASE (\E u : LogIn(u)) \/ TokenRenewed \/ GoToPage
    BY <1>1, LoginKeeps
  <1>2. CASE BeginChat \/ \E call \in chatCalls : ChatCreated(call) \/ CreatedShown(call)
    BY <1>2, CreateKeeps
  <1>3. CASE TypingEnds \/ \E i : ChooseChat(i) \/ AttachToChat(i)
    <2>1. UNCHANGED <<chats, indexed, strays, asked, chatCalls>>
      BY <1>3 DEF TypingEnds, ChooseChat, AttachToChat, ChatStore
    <2>2. Asks' = Asks /\ \A c \in chatCalls' : c \in CallShape(c)
      BY <2>1 DEF Asks, ChatInv
    <2> QED BY <2>1, <2>2, NoneStored, OtherKeeps
  <1>4. CASE (\E i : BeginDeletion(i)) \/ \E call \in chatCalls :
              ChatDeleted(call) \/ (\E ok \in BOOLEAN : ChatReplaced(call, ok)) \/ (\E first : DeletionShown(call, first))
    BY <1>4, DeletionKeeps
  <1>5. ASSUME NEW i, SendMessage(i) PROVE ChatInv'
    BY <1>5, SendMessageKeeps
  <1>6. ASSUME NEW call \in chatCalls, NEW ok \in BOOLEAN, NEW first,
               LoadList(call, ok) \/ LoadMessages(call) \/ LoadArrives(call, first) PROVE ChatInv'
    BY <1>6, LoadKeeps
  <1>7. ASSUME NEW call \in chatCalls, NEW ok \in BOOLEAN, NEW kept \in BOOLEAN,
               UploadToIndex(call, ok, kept) \/ Answered(call, ok) \/ ShowAnswer(call) \/ CleanIndex(call, ok) PROVE ChatInv'
    BY <1>7, AskingKeeps
  <1>8. ASSUME NEW call \in chatCalls, NEW ok \in BOOLEAN, NEW kept \in BOOLEAN, StoreAnswer(call, ok, kept) PROVE ChatInv'
    BY <1>8, StoreKeeps
  <1> QED BY <1>1, <1>2, <1>3, <1>4, <1>5, <1>6, <1>7, <1>8 DEF ChatNext

-----------------------------------------------------------------------------
(* The approval panel: who is offered a decision.                          *)

PanelShape ==
    [phase : {"loading", "shown", "error", "left"}, status : {"DRAFT", "PENDING", "APPROVED", "REJECTED"}, me : BOOLEAN,
     reads : SUBSET {"anonymous", "known"}, overtaken : BOOLEAN, step : Int, need : {"unknown", "yes", "no"},
     mine : {"unknown", "yes", "no"}, first : Staff \union {Nobody}, next : Staff \union {Nobody}, comment : BOOLEAN,
     call : [op : {"none", "start", "approve", "reject", "revise", "delete"}, to : Staff \union {Nobody}], fresh : BOOLEAN]

DocShape ==
    [status : {"DRAFT", "PENDING", "APPROVED", "REJECTED"}, live : BOOLEAN, lines : Seq(Staff), revised : BOOLEAN]

\* A page that shows the document as it is has asked for the workflow, knowing the user, or has
\* found out that the user decides.
WillOffer(pg, u) ==
    (/\ pg.phase = "shown" /\ pg.me /\ pg.fresh /\ ~pg.overtaken
     /\ pg.status = doc.status /\ CurrentApprover = u) => "known" \in pg.reads \/ pg.mine = "yes"

\* A submission names an approver.
CallGood(call) == (call.op = "start" => call.to # Nobody) /\ (call.op = "none" => call = NoCall)

PanelInv ==
    /\ doc \in DocShape /\ (doc.status = "PENDING" => doc.lines # << >>)
    /\ page \in [OpenPages -> PanelShape]
    /\ \A p \in OpenPages : CallGood(page[p].call)
    /\ \A p \in OpenPages : WillOffer(page[p], UserOf[p])

LEMMA MountedShaped == Mounted \in PanelShape /\ Mounted.phase = "loading" /\ Mounted.call = NoCall
  BY DEF Mounted, PanelShape, NoCall

LEMMA PanelInvStarts == PanelInit => PanelInv
  <1> SUFFICES ASSUME PanelInit PROVE PanelInv
    OBVIOUS
  <1>1. doc \in DocShape /\ doc.status = "DRAFT"
    BY EmptySeq DEF PanelInit, DocShape
  <1>2. page \in [OpenPages -> PanelShape] /\ \A p \in OpenPages : page[p] = Mounted
    BY MountedShaped DEF PanelInit
  <1>3. \A p \in OpenPages : CallGood(page[p].call) /\ page[p].phase = "loading"
    BY <1>2, MountedShaped DEF NoCall, CallGood
  <1> QED BY <1>1, <1>2, <1>3 DEF PanelInv, WillOffer

LEMMA PanelInvOffers == PanelInv => ApproverOffered
  <1> SUFFICES ASSUME PanelInv, NEW p \in OpenPages,
                      page[p].phase = "shown", page[p].me, page[p].reads = {}, page[p].fresh, ~page[p].overtaken,
                      page[p].status = doc.status, CurrentApprover = UserOf[p]
               PROVE  Offered(p)
    BY DEF ApproverOffered
  <1>1. page[p].mine = "yes"
    BY DEF PanelInv, WillOffer
  <1>2. doc.status = "PENDING"
    BY PanelAssumption DEF CurrentApprover, Nobody
  <1> QED BY <1>1, <1>2 DEF Offered

\* One page changes, the document stays.
LEMMA PageChanges ==
    ASSUME PanelInv, UNCHANGED doc, NEW p \in OpenPages, NEW next \in PanelShape, page' = [page EXCEPT ![p] = next],
           CallGood(next.call),
           WillOffer(next, UserOf[p])
    PROVE  PanelInv'
  <1>1. page' \in [OpenPages -> PanelShape] /\ \A q \in OpenPages : page'[q] = IF q = p THEN next ELSE page[q]
    BY DEF PanelInv
  <1>2. ASSUME NEW pg, NEW u PROVE WillOffer(pg, u)' = WillOffer(pg, u)
    BY DEF WillOffer, CurrentApprover, Current
  <1>3. ASSUME NEW q \in OpenPages PROVE (WillOffer(page[q], UserOf[q]))'
    <2>1. CASE q = p
      BY <1>1, <2>1 DEF WillOffer, CurrentApprover, Current
    <2>2. CASE q # p
      BY <1>1, <2>2 DEF PanelInv, WillOffer, CurrentApprover, Current
    <2> QED BY <2>1, <2>2
  <1>4. \A q \in OpenPages : CallGood(page'[q].call)
    BY <1>1 DEF PanelInv
  <1> QED BY <1>1, <1>3, <1>4 DEF PanelInv

\* A change that leaves what is offered as it is.
LEMMA PageMoves ==
    ASSUME PanelInv, UNCHANGED doc, NEW p \in OpenPages, NEW next \in PanelShape, page' = [page EXCEPT ![p] = next],
           CallGood(next.call),
           \/ next.phase # "shown" \/ ~next.fresh \/ ~next.me
           \/ /\ next.me = page[p].me /\ next.phase = page[p].phase /\ next.fresh = page[p].fresh
              /\ next.overtaken = page[p].overtaken /\ next.status = page[p].status
              /\ next.reads = page[p].reads /\ next.mine = page[p].mine
    PROVE  PanelInv'
  <1>1. WillOffer(next, UserOf[p])
    BY DEF PanelInv, WillOffer
  <1> QED BY <1>1, PageChanges

LEMMA Blanked == ASSUME NEW pg \in PanelShape PROVE Unread(pg) \in PanelShape /\ Unread(pg).call = pg.call
  <1> DEFINE a == [pg EXCEPT !.step = 0]
             b == [a EXCEPT !.need = "unknown"]
             next == [b EXCEPT !.mine = "unknown"]
  <1>1. a \in PanelShape /\ a.call = pg.call
    BY DEF PanelShape
  <1> HIDE DEF a
  <1>2. b \in PanelShape /\ b.call = pg.call
    BY <1>1 DEF PanelShape
  <1> HIDE DEF b
  <1>3. next \in PanelShape /\ next.call = pg.call
    BY <1>2 DEF PanelShape
  <1> QED BY <1>3 DEF Unread, a, b

LEMMA ReadingKeeps ==
    ASSUME PanelInv, NEW p \in OpenPages, DocArrives(p) \/ MeArrives(p) PROVE PanelInv'
  <1>1. page[p] \in PanelShape /\ UNCHANGED doc /\ doc.status \in {"DRAFT", "PENDING", "APPROVED", "REJECTED"}
    BY DEF PanelInv, DocArrives, MeArrives, DocShape
  <1>2. page' = [page EXCEPT ![p].phase = "error"] => PanelInv'
    <2> DEFINE next == [page[p] EXCEPT !.phase = "error"]
    <2>1. next \in PanelShape /\ next.phase # "shown" /\ next.call = page[p].call
      BY <1>1 DEF PanelShape
    <2>2. CallGood(page[p].call)
      BY DEF PanelInv
    <2> HIDE DEF next
    <2>3. page' = [page EXCEPT ![p].phase = "error"] => page' = [page EXCEPT ![p] = next]
      BY DEF next
    <2> QED BY <2>1, <2>2, <2>3, <1>1, PageMoves
  <1>3. CASE DocArrives(p)
    <2>1. CASE page' = [page EXCEPT ![p].phase = "error"]
      BY <1>2, <2>1
    <2>2. CASE page' = [page EXCEPT ![p] = [Mounted EXCEPT !.phase = "shown", !.status = doc.status,
                        !.reads = IF doc.status = "PENDING" /\ AnonymousRead THEN {"anonymous"} ELSE {}]]
      <3> DEFINE reads == IF doc.status = "PENDING" /\ AnonymousRead THEN {"anonymous"} ELSE {}
                 next == [Mounted EXCEPT !.phase = "shown", !.status = doc.status, !.reads = reads]
      <3>1. reads \in SUBSET {"anonymous", "known"}
        OBVIOUS
      <3> HIDE DEF reads
      <3>2. next \in PanelShape /\ next.me = Mounted.me /\ next.call = Mounted.call
        <4> DEFINE mounted == Mounted
        <4>1. mounted \in PanelShape
          BY MountedShaped
        <4> HIDE DEF mounted
        <4>2. next = [mounted EXCEPT !.phase = "shown", !.status = doc.status, !.reads = reads]
          BY DEF mounted
        <4>3. next \in PanelShape /\ next.me = mounted.me /\ next.call = mounted.call
          <5> HIDE DEF next
          <5> QED BY <4>1, <4>2, <3>1, <1>1 DEF PanelShape
        <4> QED BY <4>3 DEF mounted
      <3>5. ~Mounted.me /\ CallGood(Mounted.call)
        BY DEF Mounted, NoCall, CallGood
      <3>3. page' = [page EXCEPT ![p] = next]
        BY <2>2 DEF reads
      <3> HIDE DEF next
      <3> QED BY <3>2, <3>3, <3>5, <1>1, PageMoves
    <2> QED BY <1>3, <2>1, <2>2 DEF DocArrives
  <1>4. CASE MeArrives(p) /\ page' # page
    <2>1. CASE page[p].status = "PENDING"
      <3> DEFINE blank == Unread(page[p])
                 next == [blank EXCEPT !.me = TRUE, !.reads = @ \union {"known"}]
      <3>1. page' = [page EXCEPT ![p] = next]
        <4>1. page' = [page EXCEPT ![p] = IF page[p].status = "PENDING"
                         THEN [Unread(page[p]) EXCEPT !.me = TRUE, !.reads = @ \union {"known"}] ELSE [page[p] EXCEPT !.me = TRUE]]
          BY <1>4 DEF MeArrives
        <4> QED BY <4>1, <2>1
      <3>4. blank \in PanelShape /\ blank.call = page[p].call
        BY <1>1, Blanked
      <3> HIDE DEF blank
      <3>2. next \in PanelShape /\ "known" \in next.reads /\ next.call = page[p].call
        BY <3>4 DEF PanelShape
      <3>3. CallGood(page[p].call)
        BY DEF PanelInv
      <3> HIDE DEF next
      <3>5. WillOffer(next, UserOf[p])
        BY <3>2 DEF WillOffer
      <3> QED BY <3>1, <3>2, <3>3, <3>5, <1>1, PageChanges
    <2>2. CASE page[p].status # "PENDING"
      <3> DEFINE next == [page[p] EXCEPT !.me = TRUE]
      <3>1. page' = [page EXCEPT ![p] = next]
        BY <1>4, <2>2, <1>1 DEF MeArrives, PanelInv
      <3>2. next \in PanelShape /\ next.status = page[p].status /\ next.call = page[p].call
        BY <1>1 DEF PanelShape
      <3>3. CallGood(page[p].call)
        BY DEF PanelInv
      <3> HIDE DEF next
      <3>4. CurrentApprover = UserOf[p] => doc.status = "PENDING"
        BY PanelAssumption DEF CurrentApprover
      <3>5. WillOffer(next, UserOf[p])
        BY <2>2, <3>2, <3>4 DEF WillOffer
      <3> QED BY <3>1, <3>2, <3>3, <3>5, <1>1, PageChanges
    <2> QED BY <2>1, <2>2
  <1>5. CASE MeArrives(p) /\ page' = page
    <2>1. CallGood(page[p].call)
      BY DEF PanelInv
    <2>2. page' = [page EXCEPT ![p] = page[p]]
      BY <1>5 DEF PanelInv
    <2> QED BY <1>1, <2>1, <2>2, PageMoves
  <1> QED BY <1>3, <1>4, <1>5

\* The workflow arrives, or does not.
LEMMA InfoKeeps ==
    ASSUME PanelInv, NEW p \in OpenPages, NEW r \in {"anonymous", "known"}, InfoArrives(p, r) \/ InfoFails(p, r)
    PROVE  PanelInv'
  <1>1. page[p] \in PanelShape /\ doc \in DocShape /\ UNCHANGED <<domain, doc>> /\ CallGood(page[p].call)
    BY DEF PanelInv, InfoArrives, InfoFails
  <1>2. page[p].reads \ {r} \in SUBSET {"anonymous", "known"} /\ Current \in Int
    BY <1>1, LenProperties DEF PanelShape, DocShape, Current
  <1>3. CASE InfoFails(p, r)
    <2> DEFINE reads == page[p].reads \ {r}
               next == [page[p] EXCEPT !.reads = reads, !.need = "yes", !.mine = "no", !.fresh = FALSE]
    <2>1. page' = [page EXCEPT ![p] = next]
      BY <1>1, <1>3 DEF InfoFails, PanelInv
    <2> HIDE DEF reads
    <2>2. next \in PanelShape /\ ~next.fresh /\ next.call = page[p].call
      BY <1>1, <1>2 DEF PanelShape, reads
    <2> HIDE DEF next
    <2> QED BY <1>1, <2>1, <2>2, PageMoves
  <1>4. CASE InfoArrives(p, r) /\ ~InMine(UserOf[p])
    <2> DEFINE next == [page[p] EXCEPT !.reads = @ \ {r}, !.need = "yes", !.mine = "no"]
    <2>1. page' = [page EXCEPT ![p] = next]
      BY <1>1, <1>4 DEF InfoArrives, PanelInv
    <2>2. next \in PanelShape /\ next.call = page[p].call
      BY <1>1, <1>2 DEF PanelShape
    <2> HIDE DEF next
    <2>3. CurrentApprover # UserOf[p]
      <3> SUFFICES ASSUME CurrentApprover = UserOf[p] PROVE FALSE
        OBVIOUS
      <3>1. doc.status = "PENDING" /\ doc.lines[Current] = UserOf[p]
        BY PanelAssumption DEF CurrentApprover
      <3>2. Current \in DOMAIN doc.lines
        BY <1>1, <3>1, LenProperties DEF PanelInv, DocShape, Current
      <3> QED BY <1>4, <3>1, <3>2 DEF InMine
    <2>4. WillOffer(next, UserOf[p])
      BY <2>3 DEF WillOffer
    <2> QED BY <1>1, <2>1, <2>2, <2>4, PageChanges
  <1>5. CASE InfoArrives(p, r) /\ InMine(UserOf[p])
    <2> DEFINE u == UserOf[p]
               fresh == page[p].call = NoCall /\ doc.live /\ page[p].status = doc.status
               late == r = "anonymous" /\ page[p].me
               need == YesNo(doc.status = "PENDING" /\ Current < LastStep)
               mine == YesNo(r = "known" /\ CurrentApprover # Nobody /\ NameOf[u] = NameOf[CurrentApprover])
               reads == page[p].reads \ {r}
               next == [page[p] EXCEPT !.reads = reads, !.fresh = fresh, !.overtaken = late, !.step = Current, !.need = need, !.mine = mine]
    <2>1. page' = [page EXCEPT ![p] = next]
      BY <1>5 DEF InfoArrives
    <2>2. fresh \in BOOLEAN /\ late \in BOOLEAN /\ need \in {"yes", "no"} /\ mine \in {"yes", "no"}
      BY DEF YesNo
    <2>3. CurrentApprover = u /\ r = "known" => mine = "yes"
      BY PanelAssumption DEF YesNo
    <2>4. (late <=> r = "anonymous" /\ page[p].me) /\ reads \in SUBSET {"anonymous", "known"}
      BY <1>2
    <2> HIDE DEF fresh, late, need, mine, reads, u
    <2>5. /\ next \in PanelShape /\ next.call = page[p].call /\ next.overtaken = late /\ next.mine = mine /\ next.me = page[p].me
      BY <1>1, <1>2, <2>2, <2>4 DEF PanelShape
    <2> HIDE DEF next
    <2>6. WillOffer(next, u)
      BY <2>3, <2>4, <2>5 DEF WillOffer
    <2> QED BY <1>1, <2>1, <2>5, <2>6, PageChanges DEF u
  <1> QED BY <1>3, <1>4, <1>5

\* Choosing and typing change nothing that is offered, calling neither.
LEMMA TypingKeeps ==
    ASSUME PanelInv, NEW p \in OpenPages,
           \/ \E u \in Staff \union {Nobody} : ChooseFirst(p, u) \/ ChooseNext(p, u)
           \/ TypeComment(p)
    PROVE  PanelInv'
  <1>1. page[p] \in PanelShape /\ UNCHANGED doc /\ CallGood(page[p].call)
    BY DEF PanelInv, ChooseFirst, ChooseNext, TypeComment, Chosen
  <1>2. PICK next : /\ page' = [page EXCEPT ![p] = next]
                    /\ \/ \E u \in Staff \union {Nobody} : next = [page[p] EXCEPT !.first = u]
                       \/ \E u \in Staff \union {Nobody} : next = [page[p] EXCEPT !.next = u]
                       \/ next = [page[p] EXCEPT !.comment = TRUE]
    BY DEF ChooseFirst, ChooseNext, TypeComment, Chosen
  <1>3. /\ next \in PanelShape /\ next.call = page[p].call /\ next.me = page[p].me /\ next.phase = page[p].phase
        /\ next.fresh = page[p].fresh /\ next.overtaken = page[p].overtaken /\ next.status = page[p].status
        /\ next.reads = page[p].reads /\ next.mine = page[p].mine
    BY <1>1, <1>2 DEF PanelShape
  <1> QED BY <1>1, <1>2, <1>3, PageMoves

LEMMA CallingKeeps ==
    ASSUME PanelInv, NEW p \in OpenPages,
           StartWorkflow(p) \/ Approve(p) \/ Reject(p) \/ Revise(p) \/ DeleteReport(p)
    PROVE  PanelInv'
  <1>1. page[p] \in PanelShape /\ UNCHANGED doc
    BY DEF PanelInv, StartWorkflow, Approve, Reject, Revise, DeleteReport, Calls
  <1>2. PICK call : /\ page' = [page EXCEPT ![p].call = call]
                    /\ call \in [op : {"none", "start", "approve", "reject", "revise", "delete"}, to : Staff \union {Nobody}]
                    /\ call.op = "start" => call.to # Nobody
                    /\ call.op # "none"
    <2>1. /\ page[p].first \in Staff \union {Nobody} /\ page[p].next \in Staff \union {Nobody}
          /\ \E call : page' = [page EXCEPT ![p].call = call] /\
               \/ call = [op |-> "start", to |-> page[p].first] /\ page[p].first # Nobody
               \/ call = [op |-> "approve", to |-> page[p].next]
               \/ call = [op |-> "reject", to |-> Nobody]
               \/ call = [op |-> "revise", to |-> Nobody]
               \/ call = [op |-> "delete", to |-> Nobody]
      BY <1>1 DEF StartWorkflow, Approve, Reject, Revise, DeleteReport, Calls, PanelShape
    <2>2. PICK call : page' = [page EXCEPT ![p].call = call] /\
               (\/ call = [op |-> "start", to |-> page[p].first] /\ page[p].first # Nobody
                \/ call = [op |-> "approve", to |-> page[p].next]
                \/ call = [op |-> "reject", to |-> Nobody]
                \/ call = [op |-> "revise", to |-> Nobody]
                \/ call = [op |-> "delete", to |-> Nobody])
      BY <2>1
    <2>3. /\ call \in [op : {"none", "start", "approve", "reject", "revise", "delete"}, to : Staff \union {Nobody}]
          /\ call.op = "start" => call.to # Nobody
          /\ call.op # "none"
      BY <2>1, <2>2
    <2> QED BY <2>2, <2>3
  <1> DEFINE next == [page[p] EXCEPT !.call = call]
  <1>3. page' = [page EXCEPT ![p] = next]
    BY <1>2 DEF PanelInv
  <1>4. /\ next \in PanelShape /\ next.call = call /\ next.me = page[p].me /\ next.phase = page[p].phase
        /\ next.fresh = page[p].fresh /\ next.overtaken = page[p].overtaken /\ next.status = page[p].status
        /\ next.reads = page[p].reads /\ next.mine = page[p].mine
    BY <1>1, <1>2 DEF PanelShape
  <1>5. CallGood(call)
    BY <1>2 DEF CallGood
  <1> HIDE DEF next
  <1> QED BY <1>1, <1>3, <1>4, <1>5, PageMoves

LEMMA ReloadKeeps == ASSUME PanelInv, NEW p \in OpenPages, Reload(p) PROVE PanelInv'
  <1>1. UNCHANGED doc /\ page' = [page EXCEPT ![p] = Mounted]
    BY DEF Reload
  <1>2. Mounted \in PanelShape /\ Mounted.phase # "shown" /\ CallGood(Mounted.call)
    BY MountedShaped DEF CallGood, NoCall
  <1> QED BY <1>1, <1>2, PageMoves

\* The document after a call that was accepted.
LEMMA AfterCall ==
    ASSUME PanelInv, NEW p \in OpenPages, page[p].call # NoCall, Accepted(UserOf[p], page[p].call)
    PROVE  LET new == After(page[p].call) IN new \in DocShape /\ (new.status = "PENDING" => new.lines # << >>)
  <1> DEFINE call == page[p].call
             new == After(call)
  <1> SUFFICES new \in DocShape /\ (new.status = "PENDING" => new.lines # << >>)
    OBVIOUS
  <1>1. /\ doc \in DocShape /\ (doc.status = "PENDING" => doc.lines # << >>)
        /\ call \in [op : {"none", "start", "approve", "reject", "revise", "delete"}, to : Staff \union {Nobody}]
        /\ call.op # "none" /\ (call.op = "start" => call.to # Nobody)
    BY DEF PanelInv, PanelShape, CallGood
  <1>2. Accepted(UserOf[p], call)
    OBVIOUS
  <1> HIDE DEF call
  <1>3. CASE call.op = "start"
    <2>1. <<call.to>> \in Seq(Staff) /\ <<call.to>> # << >>
      BY <1>1, <1>3
    <2>2. new = [doc EXCEPT !.status = "PENDING", !.lines = <<call.to>>]
      BY <1>3 DEF After
    <2> DEFINE lines == <<call.to>>
    <2> HIDE DEF lines
    <2>3. new = [doc EXCEPT !.status = "PENDING", !.lines = lines] /\ lines \in Seq(Staff) /\ lines # << >>
      BY <2>1, <2>2 DEF lines
    <2> QED BY <1>1, <2>3 DEF DocShape
  <1>4. CASE call.op = "reject"
    <2>1. new = [doc EXCEPT !.status = "REJECTED"]
      BY <1>4 DEF After
    <2> QED BY <1>1, <2>1 DEF DocShape
  <1>5. CASE call.op = "approve" /\ Current < LastStep
    <2>1. call.to \in Staff
      <3>1. call.to # Nobody
        BY <1>2, <1>5 DEF Accepted
      <3> QED BY <1>1, <3>1
    <2> DEFINE lines == Append(doc.lines, call.to)
    <2>2. lines \in Seq(Staff) /\ lines # << >>
      BY <1>1, <2>1 DEF DocShape
    <2> HIDE DEF lines
    <2>3. new = [doc EXCEPT !.lines = lines]
      BY <1>5 DEF After, lines
    <2> QED BY <1>1, <2>2, <2>3 DEF DocShape
  <1>6. CASE call.op = "approve" /\ ~(Current < LastStep)
    <2>1. new = [doc EXCEPT !.status = "APPROVED"]
      BY <1>6 DEF After
    <2> QED BY <1>1, <2>1 DEF DocShape
  <1>7. CASE call.op = "delete"
    <2>1. new = [doc EXCEPT !.live = FALSE]
      BY <1>7 DEF After
    <2> QED BY <1>1, <2>1 DEF DocShape
  <1>8. CASE call.op = "revise"
    <2> DEFINE revised == doc.revised \/ doc.status = "REJECTED"
    <2>1. new = [doc EXCEPT !.revised = revised] /\ revised \in BOOLEAN
      BY <1>1, <1>8 DEF After, DocShape
    <2> HIDE DEF revised
    <2> QED BY <1>1, <2>1 DEF DocShape
  <1> QED BY <1>1, <1>3, <1>4, <1>5, <1>6, <1>7, <1>8 DEF call

\* Whatever the document has become, the other pages do not pass for fresh, nor does this one.
LEMMA PagesBehind ==
    ASSUME PanelInv, doc' \in DocShape, doc'.status = "PENDING" => doc'.lines # << >>,
           NEW p \in OpenPages, NEW next \in PanelShape, page' = Behind(p, next), CallGood(next.call),
           next.phase # "shown" \/ ~next.fresh
    PROVE  PanelInv'
  <1>1. page \in [OpenPages -> PanelShape] /\ \A q \in OpenPages : CallGood(page[q].call)
    BY DEF PanelInv
  <1>2. ASSUME NEW q \in OpenPages
        PROVE  page'[q] \in PanelShape /\ CallGood(page'[q].call) /\ (page'[q].phase # "shown" \/ ~page'[q].fresh)
    <2>1. CASE q = p
      BY <2>1 DEF Behind
    <2>2. CASE q # p
      <3>1. page'[q] = [page[q] EXCEPT !.fresh = page[q].phase # "shown"]
        BY <2>2 DEF Behind
      <3> DEFINE fresh == page[q].phase # "shown"
                 e == page'[q]
      <3>2. page[q] \in PanelShape /\ e = [page[q] EXCEPT !.fresh = fresh] /\ fresh \in BOOLEAN /\ (fresh <=> page[q].phase # "shown")
        BY <1>1, <3>1
      <3> HIDE DEF fresh, e
      <3>3. e \in PanelShape /\ e.call = page[q].call /\ e.phase = page[q].phase /\ e.fresh = fresh
        BY <3>2 DEF PanelShape
      <3> QED BY <1>1, <3>2, <3>3 DEF e
    <2> QED BY <2>1, <2>2
  <1>3. page' \in [OpenPages -> PanelShape]
    <2>1. page' = [q \in OpenPages |-> page'[q]]
      BY DEF Behind
    <2> QED BY <1>2, <2>1
  <1> QED BY <1>2, <1>3 DEF PanelInv, WillOffer

LEMMA CallAnsweredKeeps == ASSUME PanelInv, NEW p \in OpenPages, CallAnswered(p) PROVE PanelInv'
  <1> DEFINE call == page[p].call
             next == [page[p] EXCEPT !.call = NoCall]
             last == [page[p] EXCEPT !.call = NoCall, !.fresh = FALSE]
  <1>1. page[p] \in PanelShape /\ call # NoCall
    BY DEF PanelInv, CallAnswered
  <1>2. CallGood(NoCall) /\ NoCall \in [op : {"none", "start", "approve", "reject", "revise", "delete"}, to : Staff \union {Nobody}]
    BY DEF CallGood, NoCall
  <1>3. CASE UNCHANGED doc /\ page' = [page EXCEPT ![p].call = NoCall]
    <2>1. page' = [page EXCEPT ![p] = next]
      BY <1>3 DEF PanelInv
    <2>2. /\ next \in PanelShape /\ next.call = NoCall /\ next.me = page[p].me /\ next.phase = page[p].phase
          /\ next.fresh = page[p].fresh /\ next.overtaken = page[p].overtaken /\ next.status = page[p].status
          /\ next.reads = page[p].reads /\ next.mine = page[p].mine
      BY <1>1, <1>2 DEF PanelShape
    <2> HIDE DEF next
    <2> QED BY <1>2, <1>3, <2>1, <2>2, PageMoves
  <1>4. CASE Accepted(UserOf[p], call) /\ doc' = After(call)
    <2>1. doc' \in DocShape /\ (doc'.status = "PENDING" => doc'.lines # << >>)
      BY <1>1, <1>4, AfterCall
    <2>2. CASE page' = Behind(p, Refreshed(call))
      <3> DEFINE r == Refreshed(call)
      <3>1. r \in PanelShape /\ r.phase # "shown" /\ r.call = NoCall
        <4> DEFINE m == Mounted
                   e == [m EXCEPT !.phase = "left"]
        <4>1. m \in PanelShape /\ m.call = NoCall /\ m.phase = "loading"
          BY MountedShaped
        <4> HIDE DEF m
        <4>2. e \in PanelShape /\ e.call = NoCall /\ e.phase = "left"
          BY <4>1 DEF PanelShape
        <4>3. r = m \/ r = e
          BY DEF Refreshed, m
        <4> HIDE DEF e, r
        <4> QED BY <4>1, <4>2, <4>3
      <3> HIDE DEF r
      <3>2. page' = Behind(p, r)
        BY <2>2 DEF r
      <3> QED BY <1>2, <2>1, <3>1, <3>2, PagesBehind
    <2>3. CASE page' = Behind(p, last)
      <3>1. last \in PanelShape /\ ~last.fresh /\ last.call = NoCall
        BY <1>1, <1>2 DEF PanelShape
      <3> HIDE DEF last
      <3> QED BY <1>2, <2>1, <2>3, <3>1, PagesBehind
    <2>4. page' = Behind(p, Refreshed(call)) \/ page' = Behind(p, last) \/ (UNCHANGED doc /\ page' = [page EXCEPT ![p].call = NoCall])
      BY DEF CallAnswered
    <2> QED BY <1>3, <2>2, <2>3, <2>4
  <1> QED BY <1>3, <1>4 DEF CallAnswered

LEMMA PanelInvStays == PanelInv /\ PanelNext => PanelInv'
  <1> SUFFICES ASSUME PanelInv, NEW p \in OpenPages,
                      \/ DocArrives(p) \/ MeArrives(p)
                      \/ \E r \in {"anonymous", "known"} : InfoArrives(p, r) \/ InfoFails(p, r)
                      \/ \E u \in Staff \union {Nobody} : ChooseFirst(p, u) \/ ChooseNext(p, u)
                      \/ TypeComment(p) \/ StartWorkflow(p) \/ Approve(p) \/ Reject(p) \/ Revise(p) \/ DeleteReport(p)
                      \/ CallAnswered(p) \/ Reload(p)
               PROVE  PanelInv'
    BY DEF PanelNext
  <1> QED BY ReadingKeeps, InfoKeeps, TypingKeeps, CallingKeeps, CallAnsweredKeeps, ReloadKeeps

LEMMA PanelRests == PanelInv /\ UNCHANGED panelVars => PanelInv'
  BY DEF panelVars, PanelInv, WillOffer, CurrentApprover, Current

-----------------------------------------------------------------------------
(* A billing: who is told to issue it, and the file it leads to.           *)

BillStatus == {"none", "REQUESTED", "APPROVED", "ISSUED", "COLLECTED"}
BillApproval == {"none", "PENDING", "APPROVED", "REJECTED"}
SeenShape == [status : BillStatus, approval : BillApproval, issued : Nat, image : Nat, collected : Nat, remarks : Nat]
BillShape ==
    [live : BOOLEAN, report : Reports \union {NoReport}, status : BillStatus, approval : BillApproval, lines : Seq(Clerks),
     issued : Nat, image : Nat, collected : Nat, remarks : Nat]
BillFormShape ==
    [open : BOOLEAN, given : Reports \union {NoReport}, report : Reports \union {NoReport}, init : Reports \union {NoReport},
     loading : BOOLEAN, amount : BOOLEAN, failed : BOOLEAN]
BillPageShape ==
    [on : {"closed", "detail", "edit"}, loading : BOOLEAN, seen : SeenShape, reads : SUBSET BillStatus, step : Int,
     need : BOOLEAN, mine : {"unknown", "yes", "no"}, issuer : {"unknown", "yes", "no"}, busy : BOOLEAN, file : Nat,
     typed : BOOLEAN]

IssuerIs(u) == IF Takes(u) /\ SameClerk(u, bill.lines[1]) /\ 1 \in SeenLines(u) THEN "yes" ELSE "no"

\* What a page knows of the issuer it found out after the approval, when no approver comes any more.
IssuerGood(pg, u) ==
    /\ pg.issuer # "unknown" \/ "APPROVED" \in pg.reads => bill.approval = "APPROVED"
    /\ pg.issuer # "unknown" /\ other.first # u => pg.issuer = IssuerIs(u)

\* Before the issue there is no invoice but those uploaded; until the first edit after it a page has read
\* the one it was issued with, or none.
FileGood(pg) ==
    /\ bill.status \notin {"ISSUED", "COLLECTED"} => pg.seen.image = 0 /\ pg.file \in invoices \union {0}
    /\ bill.remarks = 0 => pg.seen.image \in {0, bill.image}

BillInv ==
    /\ bill \in BillShape /\ billForm \in BillFormShape /\ billPage \in [BillPages -> BillPageShape]
    /\ bill.status \in {"APPROVED", "ISSUED", "COLLECTED"} <=> bill.approval = "APPROVED"
    /\ billForm.open => ~bill.live /\ bill.status = "none" /\ billPage = [p \in BillPages |-> NoBillPage]
    /\ bill.status \notin {"ISSUED", "COLLECTED"} => bill.image = 0
    /\ bill.remarks <= 1 /\ bill.image # 0 => bill.image \in invoices
    /\ \A p \in BillPages : IssuerGood(billPage[p], Lookers[p]) /\ FileGood(billPage[p])

LEMMA NoPageShaped ==
    /\ NoBillPage \in BillPageShape /\ NoBillPage.issuer = "unknown" /\ NoBillPage.reads = {}
    /\ NoBillPage.seen.image = 0 /\ NoBillPage.file = 0
  BY DEF NoBillPage, BillPageShape, NotRead, SeenShape, BillStatus, BillApproval

LEMMA ClosedGood == ASSUME NEW u PROVE IssuerGood(NoBillPage, u) /\ FileGood(NoBillPage)
  BY NoPageShaped DEF IssuerGood, FileGood

LEMMA BillInvStarts == BillingInit => BillInv
  <1> SUFFICES ASSUME BillingInit PROVE BillInv
    OBVIOUS
  <1>1. bill \in BillShape /\ bill.image = 0 /\ bill.status = "none" /\ bill.approval = "none" /\ ~bill.live
    BY EmptySeq DEF BillingInit, BillShape, BillStatus, BillApproval
  <1>2. billForm \in BillFormShape
    BY DEF BillingInit, BillFormShape, FormFor
  <1>3. billPage = [p \in BillPages |-> NoBillPage]
    BY DEF BillingInit
  <1>4. billPage \in [BillPages -> BillPageShape]
    BY <1>3, NoPageShaped
  <1>5. ASSUME NEW p \in BillPages PROVE IssuerGood(billPage[p], Lookers[p]) /\ FileGood(billPage[p])
    BY <1>3, ClosedGood
  <1> QED BY <1>1, <1>2, <1>3, <1>4, <1>5 DEF BillInv

LEMMA BillInvPromises == BillInv => IssueOfferedToIssuer /\ InvoiceFileKept
  <1> SUFFICES ASSUME BillInv PROVE IssueOfferedToIssuer /\ InvoiceFileKept
    OBVIOUS
  <1>1. IssueOfferedToIssuer
    BY DEF BillInv, IssuerGood, IssuerIs, IssueOfferedToIssuer
  <1>2. InvoiceFileKept
    BY DEF BillInv, InvoiceFileKept, BillShape
  <1> QED BY <1>1, <1>2

\* The form alone changes.
LEMMA FormKeeps ==
    ASSUME BillInv,
           TypeAmount \/ (\E r \in Reports : ChooseReport(r)) \/ (\E ok \in BOOLEAN : ReportDataArrive(ok))
    PROVE  BillInv'
  <1>1. UNCHANGED <<bill, recorded, invoices, other, billPage>>
    BY DEF TypeAmount, ChooseReport, ReportDataArrive
  <1>2. billForm \in BillFormShape
    BY DEF BillInv
  <1>3. billForm' \in BillFormShape /\ billForm'.open = billForm.open
    <2>1. CASE TypeAmount
      BY <1>2, <2>1 DEF TypeAmount, BillFormShape
    <2>2. ASSUME NEW r \in Reports, ChooseReport(r) PROVE billForm' \in BillFormShape /\ billForm'.open = billForm.open
      BY <1>2, <2>2 DEF ChooseReport, BillFormShape
    <2>3. ASSUME NEW ok \in BOOLEAN, ReportDataArrive(ok) PROVE billForm' \in BillFormShape /\ billForm'.open = billForm.open
      <3> DEFINE init == IF billForm.report # NoReport THEN billForm.report ELSE billForm.given
      <3>1. init \in Reports \union {NoReport}
        BY <1>2 DEF BillFormShape
      <3>2. \/ billForm' = [billForm EXCEPT !.loading = FALSE, !.init = init, !.amount = FALSE, !.failed = FALSE]
            \/ billForm' = [billForm EXCEPT !.loading = FALSE, !.failed = TRUE]
        BY <2>3 DEF ReportDataArrive
      <3> HIDE DEF init
      <3> QED BY <1>2, <3>1, <3>2 DEF BillFormShape
    <2> QED BY <2>1, <2>2, <2>3
  <1>4. ASSUME NEW p \in BillPages PROVE (IssuerGood(billPage[p], Lookers[p]) /\ FileGood(billPage[p]))'
    BY <1>1 DEF BillInv, IssuerGood, FileGood, IssuerIs, Takes, SeenLines
  <1> QED BY <1>1, <1>3, <1>4 DEF BillInv

\* One page changes, the row stays.
LEMMA LookKeeps ==
    ASSUME BillInv, UNCHANGED <<bill, other, billForm>>, invoices \subseteq invoices',
           NEW p \in BillPages, NEW next \in BillPageShape, Look(p, next), billForm.open => next = NoBillPage,
           IssuerGood(next, Lookers[p]),
           bill.status \notin {"ISSUED", "COLLECTED"} => next.seen.image = 0 /\ next.file \in invoices' \union {0},
           bill.remarks = 0 => next.seen.image \in {0, bill.image}
    PROVE  BillInv'
  <1>1. /\ billPage' \in [BillPages -> BillPageShape] /\ \A q \in BillPages : billPage'[q] = IF q = p THEN next ELSE billPage[q]
        /\ billForm.open => billPage' = billPage
    BY DEF BillInv, Look
  <1>2. ASSUME NEW q \in BillPages PROVE (IssuerGood(billPage[q], Lookers[q]) /\ FileGood(billPage[q]))'
    <2>1. CASE q = p
      BY <1>1, <2>1 DEF IssuerGood, FileGood, IssuerIs, Takes, SeenLines
    <2>2. CASE q # p
      BY <1>1, <2>2 DEF BillInv, IssuerGood, FileGood, IssuerIs, Takes, SeenLines
    <2> QED BY <2>1, <2>2
  <1> QED BY <1>1, <1>2 DEF BillInv

\* A page that keeps what it has read, or nothing.
LEMMA PageStaysGood ==
    ASSUME BillInv, UNCHANGED <<bill, other, billForm>>, invoices \subseteq invoices', ~billForm.open,
           NEW p \in BillPages, NEW next \in BillPageShape, Look(p, next),
           next.issuer = billPage[p].issuer, next.reads \subseteq billPage[p].reads, next.seen = billPage[p].seen,
           next.file = billPage[p].file \/ next.file \in invoices' \union {0}
    PROVE  BillInv'
  <1>1. IssuerGood(billPage[p], Lookers[p]) /\ FileGood(billPage[p])
    BY DEF BillInv
  <1>2. IssuerGood(next, Lookers[p])
    BY <1>1 DEF IssuerGood
  <1> QED BY <1>1, <1>2, LookKeeps DEF FileGood

LEMMA GoneKeeps ==
    ASSUME BillInv, UNCHANGED <<bill, other, billForm, invoices>>, NEW p \in BillPages, Gone(p) PROVE BillInv'
  <1>1. Look(p, NoBillPage)
    BY DEF Gone
  <1> QED BY <1>1, NoPageShaped, ClosedGood, LookKeeps

\* The pages that only look.
LEMMA LookingKeeps ==
    ASSUME BillInv, NEW p \in BillPages,
           \/ OpenDetail(p) \/ DetailOfBillArrives(p) \/ OpenBillEdit(p) \/ TypeRemarks(p) \/ CloseBillPage(p)
           \/ \E yes \in BOOLEAN : UploadInvoice(p, yes)
           \/ \E q \in {"REQUESTED", "APPROVED"} : WorkflowsArrive(p, q)
    PROVE  BillInv'
  <1>1. /\ bill \in BillShape /\ billPage[p] \in BillPageShape /\ IssuerGood(billPage[p], Lookers[p]) /\ FileGood(billPage[p])
        /\ billPage \in [BillPages -> BillPageShape]
    BY DEF BillInv
  <1>2. Row \in SeenShape
    BY <1>1 DEF Row, BillShape, SeenShape
  <1>3. billForm.open => billPage[p] = NoBillPage /\ ~bill.live
    BY DEF BillInv
  <1>4. NoBillPage.on = "closed" /\ NoBillPage.reads = {}
    BY DEF NoBillPage
  <1>5. Row.image = bill.image /\ (bill.status \notin {"ISSUED", "COLLECTED"} => bill.image = 0)
    BY DEF Row, BillInv
  <1>6. CASE OpenDetail(p)
    <2> DEFINE blank == NoBillPage
               next == [blank EXCEPT !.on = "detail", !.loading = TRUE]
    <2>1. Look(p, next) /\ bill.live /\ UNCHANGED <<bill, invoices, other, billForm>>
      BY <1>6 DEF OpenDetail
    <2>2. blank \in BillPageShape /\ blank.issuer = "unknown" /\ blank.reads = {} /\ blank.seen.image = 0 /\ blank.file = 0
      BY NoPageShaped
    <2> HIDE DEF blank
    <2>3. next \in BillPageShape /\ next.issuer = "unknown" /\ next.reads = {} /\ next.seen.image = 0 /\ next.file = 0
      BY <2>2 DEF BillPageShape
    <2> HIDE DEF next
    <2> QED BY <1>3, <2>1, <2>3, LookKeeps DEF IssuerGood
  <1>7. CASE OpenBillEdit(p)
    <2> DEFINE blank == NoBillPage
               next == [blank EXCEPT !.on = "edit", !.seen = Row]
    <2>1. Look(p, next) /\ bill.live /\ UNCHANGED <<bill, invoices, other, billForm>>
      BY <1>7 DEF OpenBillEdit
    <2>2. blank \in BillPageShape /\ blank.issuer = "unknown" /\ blank.reads = {} /\ blank.file = 0
      BY NoPageShaped
    <2> HIDE DEF blank
    <2>3. next \in BillPageShape /\ next.issuer = "unknown" /\ next.reads = {} /\ next.seen = Row /\ next.file = 0
      BY <1>2, <2>2 DEF BillPageShape
    <2> HIDE DEF next
    <2> QED BY <1>3, <1>5, <2>1, <2>3, LookKeeps DEF IssuerGood
  <1>8. CASE DetailOfBillArrives(p)
    <2> DEFINE asks == bill.approval = "PENDING" \/ bill.status = "APPROVED"
               reads == IF asks THEN billPage[p].reads \union {bill.status} ELSE billPage[p].reads
               same == [billPage[p] EXCEPT !.loading = FALSE, !.seen = Row]
               new == [billPage[p] EXCEPT !.loading = FALSE, !.seen = Row, !.step = 0, !.mine = "unknown",
                                 !.issuer = "unknown", !.reads = reads]
    <2>1. bill.live /\ UNCHANGED <<bill, invoices, other, billForm>> /\ (Look(p, same) \/ Look(p, new))
      BY <1>8 DEF DetailOfBillArrives
    <2>2. reads \in SUBSET BillStatus /\ ("APPROVED" \in reads => "APPROVED" \in billPage[p].reads \/ bill.status = "APPROVED")
      BY <1>1 DEF BillPageShape, BillShape
    <2>3. "APPROVED" \in reads => bill.approval = "APPROVED"
      BY <1>1, <2>2 DEF IssuerGood, BillInv
    <2> HIDE DEF reads
    <2>4. same \in BillPageShape /\ same.issuer = billPage[p].issuer /\ same.reads = billPage[p].reads /\ same.seen = Row /\ same.file = billPage[p].file
      BY <1>1, <1>2 DEF BillPageShape
    <2>5. new \in BillPageShape /\ new.issuer = "unknown" /\ new.reads = reads /\ new.seen = Row /\ new.file = billPage[p].file
      <3> DEFINE a == same
                 b == [a EXCEPT !.step = 0]
                 c == [b EXCEPT !.mine = "unknown", !.issuer = "unknown", !.reads = reads]
      <3>1. a \in BillPageShape /\ a.seen = Row /\ a.file = billPage[p].file
        BY <2>4
      <3> HIDE DEF a
      <3>2. b \in BillPageShape /\ b.seen = Row /\ b.file = billPage[p].file
        BY <3>1 DEF BillPageShape
      <3> HIDE DEF b
      <3>3. c \in BillPageShape /\ c.issuer = "unknown" /\ c.reads = reads /\ c.seen = Row /\ c.file = billPage[p].file
        BY <3>2, <2>2 DEF BillPageShape
      <3>4. new = c
        BY DEF a, b
      <3> QED BY <3>3, <3>4
    <2> HIDE DEF same, new
    <2>6. IssuerGood(same, Lookers[p]) /\ IssuerGood(new, Lookers[p])
      BY <1>1, <2>3, <2>4, <2>5 DEF IssuerGood
    <2>7. CASE Look(p, same)
      BY <1>1, <1>3, <1>5, <2>1, <2>4, <2>6, <2>7, LookKeeps DEF FileGood
    <2>8. CASE Look(p, new)
      BY <1>1, <1>3, <1>5, <2>1, <2>5, <2>6, <2>8, LookKeeps DEF FileGood
    <2> QED BY <2>1, <2>7, <2>8
  <1>9. CASE TypeRemarks(p)
    <2> DEFINE next == [billPage[p] EXCEPT !.typed = TRUE]
    <2>1. Look(p, next) /\ ~billForm.open /\ UNCHANGED <<bill, invoices, other, billForm>>
      BY <1>3, <1>4, <1>9 DEF TypeRemarks
    <2>2. next \in BillPageShape /\ next.issuer = billPage[p].issuer /\ next.reads = billPage[p].reads
          /\ next.seen = billPage[p].seen /\ next.file = billPage[p].file
      BY <1>1 DEF BillPageShape
    <2> HIDE DEF next
    <2> QED BY <2>1, <2>2, PageStaysGood
  <1>10. CASE CloseBillPage(p)
    BY <1>10, GoneKeeps DEF CloseBillPage
  <1>11. ASSUME NEW yes \in BOOLEAN, UploadInvoice(p, yes) PROVE BillInv'
    <2>1. ~billForm.open /\ UNCHANGED <<bill, other, billForm>>
      BY <1>3, <1>4, <1>11 DEF UploadInvoice, OnDetail
    <2>2. CASE ~yes
      <3> DEFINE next == [billPage[p] EXCEPT !.busy = TRUE]
      <3>1. Look(p, next) /\ UNCHANGED invoices
        BY <1>11, <2>2 DEF UploadInvoice
      <3>2. next \in BillPageShape /\ next.issuer = billPage[p].issuer /\ next.reads = billPage[p].reads
            /\ next.seen = billPage[p].seen /\ next.file = billPage[p].file
        BY <1>1 DEF BillPageShape
      <3> HIDE DEF next
      <3> QED BY <2>1, <3>1, <3>2, PageStaysGood
    <2>3. CASE yes
      <3>1. PICK f \in InvoiceFiles : invoices' = invoices \union {f} /\ Look(p, [billPage[p] EXCEPT !.busy = TRUE, !.file = f])
        BY <1>11, <2>3 DEF UploadInvoice
      <3> DEFINE next == [billPage[p] EXCEPT !.busy = TRUE, !.file = f]
      <3>2. f \in Nat
        BY DEF InvoiceFiles
      <3>3. next \in BillPageShape /\ next.issuer = billPage[p].issuer /\ next.reads = billPage[p].reads
            /\ next.seen = billPage[p].seen /\ next.file = f
        BY <1>1, <3>2 DEF BillPageShape
      <3>4. Look(p, next)
        BY <3>1
      <3> HIDE DEF next
      <3> QED BY <2>1, <3>1, <3>3, <3>4, PageStaysGood
    <2> QED BY <2>2, <2>3
  <1>12. ASSUME NEW q \in {"REQUESTED", "APPROVED"}, WorkflowsArrive(p, q) PROVE BillInv'
    <2> DEFINE u == Lookers[p]
               reads == billPage[p].reads \ {q}
               page0 == [billPage[p] EXCEPT !.reads = reads]
    <2>1. ~billForm.open /\ UNCHANGED <<bill, invoices, other, billForm>>
      BY <1>3, <1>4, <1>12 DEF WorkflowsArrive
    <2>2. reads \in SUBSET BillStatus /\ reads \subseteq billPage[p].reads
      BY <1>1 DEF BillPageShape
    <2>3. page0 \in BillPageShape /\ page0.issuer = billPage[p].issuer /\ page0.reads = reads
          /\ page0.seen = billPage[p].seen /\ page0.file = billPage[p].file
      <3> HIDE DEF reads
      <3> QED BY <1>1, <2>2 DEF BillPageShape
    <2>4. CASE q = "APPROVED"
      <3> DEFINE issuer == IF SameClerk(u, FirstApproverSeen(u)) THEN "yes" ELSE "no"
                 next == [page0 EXCEPT !.issuer = issuer]
      <3>1. Look(p, next)
        BY <1>12, <2>4 DEF WorkflowsArrive
      <3>2. issuer \in {"yes", "no"}
        OBVIOUS
      <3>3. other.first # u => issuer = IssuerIs(u)
        <4> SUFFICES ASSUME other.first # u PROVE issuer = IssuerIs(u)
          OBVIOUS
        <4>1. FirstApproverSeen(u) = IF 1 \in SeenLines(u) THEN bill.lines[1] ELSE NoClerk
          BY DEF FirstApproverSeen, OthersFirst
        <4>2. 1 \in SeenLines(u) => Takes(u)
          BY DEF SeenLines, Takes
        <4>3. ~SameClerk(u, NoClerk)
          BY DEF SameClerk
        <4> QED BY <4>1, <4>2, <4>3 DEF IssuerIs
      <3>4. bill.approval = "APPROVED"
        BY <1>1, <1>12, <2>4 DEF WorkflowsArrive, IssuerGood
      <3> HIDE DEF issuer, page0, u
      <3>5. next \in BillPageShape /\ next.issuer = issuer /\ next.reads = reads /\ next.seen = billPage[p].seen /\ next.file = billPage[p].file
        BY <2>3, <3>2 DEF BillPageShape
      <3> HIDE DEF next
      <3>6. IssuerGood(next, u)
        BY <3>3, <3>4, <3>5 DEF IssuerGood
      <3> QED BY <1>1, <2>1, <3>1, <3>5, <3>6, LookKeeps DEF FileGood, u
    <2>5. CASE q # "APPROVED"
      <3> DEFINE need == bill.approval = "PENDING" /\ StepReached < Len(StepClerks)
                 mine == IF bill.approval = "PENDING" /\ StepReached \in SeenLines(u) /\ SameClerk(u, bill.lines[StepReached]) THEN "yes" ELSE "no"
                 a == [page0 EXCEPT !.need = TRUE, !.mine = "no"]
                 b == [page0 EXCEPT !.step = StepReached, !.need = need, !.mine = mine]
      <3>1. Look(p, a) \/ Look(p, b)
        BY <1>12, <2>5 DEF WorkflowsArrive
      <3>2. StepReached \in Int /\ need \in BOOLEAN /\ mine \in {"yes", "no"}
        BY <1>1, LenProperties DEF BillShape, StepReached
      <3> HIDE DEF page0, need, mine
      <3>3. a \in BillPageShape /\ a.issuer = billPage[p].issuer /\ a.reads = reads /\ a.seen = billPage[p].seen /\ a.file = billPage[p].file
        BY <2>3 DEF BillPageShape
      <3>4. b \in BillPageShape /\ b.issuer = billPage[p].issuer /\ b.reads = reads /\ b.seen = billPage[p].seen /\ b.file = billPage[p].file
        BY <2>3, <3>2 DEF BillPageShape
      <3> HIDE DEF a, b, reads
      <3> QED BY <2>1, <2>2, <3>1, <3>3, <3>4, PageStaysGood
    <2> QED BY <2>4, <2>5
  <1> QED BY <1>6, <1>7, <1>8, <1>9, <1>10, <1>11, <1>12

\* The row changes, and the page that changed it.
LEMMA BillChanges ==
    ASSUME BillInv, UNCHANGED other, ~billForm'.open, billForm' \in BillFormShape, bill' \in BillShape,
           bill'.status \in {"APPROVED", "ISSUED", "COLLECTED"} <=> bill'.approval = "APPROVED",
           bill.approval = "APPROVED" => bill'.approval = "APPROVED" /\ bill'.lines = bill.lines,
           bill'.status \notin {"ISSUED", "COLLECTED"} =>
             bill.status \notin {"ISSUED", "COLLECTED"} /\ bill'.image = 0 /\ invoices' = invoices,
           bill'.remarks = 0 => bill.remarks = 0 /\ (bill.image = 0 \/ bill'.image = bill.image),
           bill'.remarks <= 1 /\ bill'.image # 0 => bill'.image \in invoices',
           \/ UNCHANGED billPage
           \/ \E p \in BillPages, next \in BillPageShape :
                /\ Look(p, next) /\ IssuerGood(next, Lookers[p])'
                /\ next.seen.image \in {0, billPage[p].seen.image} /\ next.file \in {0, billPage[p].file}
    PROVE  BillInv'
  <1>1. \A p \in BillPages : IssuerGood(billPage[p], Lookers[p]) /\ FileGood(billPage[p])
    BY DEF BillInv
  <1>2. ASSUME NEW u, bill.approval = "APPROVED" PROVE IssuerIs(u)' = IssuerIs(u)
    BY <1>2 DEF IssuerIs, Takes, SeenLines
  <1>3. ASSUME NEW p \in BillPages PROVE IssuerGood(billPage[p], Lookers[p])' \/ billPage'[p] # billPage[p]
    BY <1>1, <1>2 DEF IssuerGood
  <1>4. /\ billPage' \in [BillPages -> BillPageShape]
        /\ \A p \in BillPages : IssuerGood(billPage[p], Lookers[p])'
        /\ \A p \in BillPages : /\ billPage'[p].seen.image \in {0, billPage[p].seen.image}
                                /\ billPage'[p].file \in {0, billPage[p].file}
    <2>1. CASE UNCHANGED billPage
      BY <1>3, <2>1 DEF BillInv
    <2>2. CASE \E p \in BillPages, next \in BillPageShape :
                /\ Look(p, next) /\ IssuerGood(next, Lookers[p])'
                /\ next.seen.image \in {0, billPage[p].seen.image} /\ next.file \in {0, billPage[p].file}
      <3>1. PICK p \in BillPages, next \in BillPageShape :
                /\ Look(p, next) /\ IssuerGood(next, Lookers[p])'
                /\ next.seen.image \in {0, billPage[p].seen.image} /\ next.file \in {0, billPage[p].file}
        BY <2>2
      <3>2. /\ billPage' \in [BillPages -> BillPageShape] /\ \A q \in BillPages : billPage'[q] = IF q = p THEN next ELSE billPage[q]
        BY <3>1 DEF BillInv, Look
      <3>3. ASSUME NEW q \in BillPages PROVE IssuerGood(billPage[q], Lookers[q])'
        <4>1. CASE q = p
          BY <3>1, <3>2, <4>1 DEF IssuerGood
        <4>2. CASE q # p
          BY <1>3, <3>2, <4>2
        <4> QED BY <4>1, <4>2
      <3> QED BY <3>1, <3>2, <3>3
    <2> QED BY <2>1, <2>2
  <1>5. ASSUME NEW p \in BillPages PROVE FileGood(billPage[p])'
    <2>1. bill'.status \notin {"ISSUED", "COLLECTED"} => billPage'[p].seen.image = 0 /\ billPage'[p].file \in invoices' \union {0}
      BY <1>1, <1>4 DEF FileGood
    <2>2. bill'.remarks = 0 => billPage'[p].seen.image \in {0, bill'.image}
      BY <1>1, <1>4 DEF FileGood
    <2> QED BY <2>1, <2>2 DEF FileGood
  <1> QED BY <1>4, <1>5 DEF BillInv

\* The page after a decision, an issue or a collection.
LEMMA RereadsShaped ==
    ASSUME NEW pg \in BillPageShape, NEW loading \in BOOLEAN
    PROVE  LET next == [pg EXCEPT !.loading = loading, !.busy = FALSE, !.file = 0] IN
           next \in BillPageShape /\ next.issuer = pg.issuer /\ next.reads = pg.reads /\ next.seen = pg.seen /\ next.file = 0
  BY DEF BillPageShape

LEMMA RequestingKeeps == ASSUME BillInv, NEW issuer, RequestBilling(issuer), issuer \in Clerks PROVE BillInv'
  <1> DEFINE lines == <<issuer>>
             report_ == ReportBilled(billForm)
             form_ == [FormFor(NoReport) EXCEPT !.open = FALSE]
  <1>1. /\ bill \in BillShape /\ billForm \in BillFormShape /\ bill.status = "none" /\ bill.image = 0 /\ bill.approval # "APPROVED"
    BY DEF BillInv, RequestBilling
  <1>2. lines \in Seq(Clerks) /\ report_ \in Reports
    BY <1>1 DEF RequestBilling, ReportBilled, BillFormShape
  <1>3. form_ \in BillFormShape /\ ~form_.open
    BY DEF FormFor, BillFormShape
  <1>4. /\ bill' = [bill EXCEPT !.live = TRUE, !.report = report_, !.status = "REQUESTED", !.approval = "PENDING", !.lines = lines]
        /\ billForm' = form_ /\ UNCHANGED <<invoices, other, billPage>>
    BY DEF RequestBilling
  <1> HIDE DEF lines, report_, form_
  <1>5. /\ bill' \in BillShape /\ bill'.status = "REQUESTED" /\ bill'.approval = "PENDING" /\ bill'.image = bill.image
        /\ bill'.remarks = bill.remarks
    BY <1>1, <1>2, <1>4 DEF BillShape, BillStatus, BillApproval
  <1> QED BY <1>1, <1>3, <1>4, <1>5, BillChanges

\* Deciding, issuing, collecting: the page reads the billing again, whatever happens to the row.
LEMMA DecideKeeps ==
    ASSUME BillInv, NEW p \in BillPages,
           \/ \E next \in Clerks \union {NoClerk} : ApproveBilling(p, next)
           \/ RejectBilling(p) \/ CollectBilling(p)
           \/ \E yes \in BOOLEAN : IssueBilling(p, yes)
    PROVE  BillInv'
  <1>1. /\ bill \in BillShape /\ billPage[p] \in BillPageShape /\ IssuerGood(billPage[p], Lookers[p]) /\ FileGood(billPage[p])
        /\ billPage \in [BillPages -> BillPageShape] /\ billForm \in BillFormShape
        /\ (bill.status \in {"APPROVED", "ISSUED", "COLLECTED"} <=> bill.approval = "APPROVED")
        /\ (bill.status \notin {"ISSUED", "COLLECTED"} => bill.image = 0)
        /\ (bill.remarks <= 1 /\ bill.image # 0 => bill.image \in invoices)
    BY DEF BillInv
  <1>2. /\ ~billForm.open /\ UNCHANGED <<other, billForm, invoices>>
    <2>1. billPage[p].on # "closed"
      BY DEF ApproveBilling, RejectBilling, CollectBilling, IssueBilling, OffersDecision, OnDetail
    <2>2. NoBillPage.on = "closed"
      BY DEF NoBillPage
    <2> QED BY <2>1, <2>2 DEF BillInv, ApproveBilling, RejectBilling, CollectBilling, IssueBilling
  <1> DEFINE idle == [billPage[p] EXCEPT !.busy = FALSE, !.file = 0]
  <1>13. PICK next_ : next_ = [billPage[p] EXCEPT !.loading = TRUE, !.busy = FALSE, !.file = 0]
    OBVIOUS
  <1>3. next_ \in BillPageShape /\ next_.issuer = billPage[p].issuer /\ next_.reads = billPage[p].reads
        /\ next_.seen = billPage[p].seen /\ next_.file = 0
    BY <1>1, <1>13, RereadsShaped
  <1>4. idle \in BillPageShape /\ idle.issuer = billPage[p].issuer /\ idle.reads = billPage[p].reads
        /\ idle.seen = billPage[p].seen /\ idle.file = 0
    BY <1>1 DEF BillPageShape
  <1>5. ASSUME UNCHANGED bill PROVE BillInv' \/ ~(Look(p, next_) \/ Look(p, idle))
    <2> HIDE DEF idle
    <2> QED BY <1>2, <1>3, <1>4, <1>5, PageStaysGood
  <1>6. Rereads(p) => Look(p, next_)
    BY <1>13 DEF Rereads
  <1> HIDE DEF idle
  <1>7. ASSUME bill.approval = "APPROVED" => bill'.approval = "APPROVED" /\ bill'.lines = bill.lines
        PROVE  IssuerGood(next_, Lookers[p])'
    BY <1>1, <1>2, <1>3, <1>7 DEF IssuerGood, IssuerIs, Takes, SeenLines
  <1>8. ASSUME NEW next \in Clerks \union {NoClerk}, ApproveBilling(p, next), StepReached < Len(StepClerks) PROVE BillInv'
    <2> DEFINE lines == Append(bill.lines, next)
    <2>1. bill' = [bill EXCEPT !.lines = lines] /\ next \in Clerks /\ Rereads(p) /\ bill.approval = "PENDING"
      <3>1. next \in StepClerks[StepReached + 1] /\ bill' = [bill EXCEPT !.lines = lines] /\ Rereads(p) /\ bill.approval = "PENDING"
        BY <1>8 DEF ApproveBilling, DecidesNow
      <3>2. StepReached + 1 \in 1..Len(StepClerks)
        BY <1>1, <1>8, LenProperties, BillingAssumption DEF StepReached, BillShape
      <3>3. StepClerks[StepReached + 1] \subseteq Clerks
        BY <3>2, BillingAssumption
      <3> QED BY <3>1, <3>3
    <2>2. lines \in Seq(Clerks)
      BY <1>1, <2>1 DEF BillShape
    <2> HIDE DEF lines
    <2>3. bill' \in BillShape /\ bill'.status = bill.status /\ bill'.approval = bill.approval /\ bill'.image = bill.image /\ bill'.remarks = bill.remarks
      BY <1>1, <2>1, <2>2 DEF BillShape
    <2> QED BY <1>1, <1>2, <1>3, <1>6, <1>7, <2>1, <2>3, BillChanges
  <1>9. ASSUME NEW next \in Clerks \union {NoClerk}, ApproveBilling(p, next), ~(StepReached < Len(StepClerks)) PROVE BillInv'
    <2>1. bill' = [bill EXCEPT !.approval = "APPROVED", !.status = "APPROVED"] /\ Rereads(p) /\ bill.approval = "PENDING"
      BY <1>9 DEF ApproveBilling, DecidesNow, Approved
    <2>2. bill' \in BillShape /\ bill'.status = "APPROVED" /\ bill'.approval = "APPROVED" /\ bill'.image = bill.image /\ bill'.remarks = bill.remarks
      BY <1>1, <2>1 DEF BillShape, BillStatus, BillApproval
    <2>3. bill.status \notin {"ISSUED", "COLLECTED"}
      BY <1>1, <2>1
    <2> QED BY <1>1, <1>2, <1>3, <1>6, <1>7, <2>1, <2>2, <2>3, BillChanges
  <1>10. CASE RejectBilling(p)
    <2>1. bill' = [bill EXCEPT !.approval = "REJECTED"] /\ Rereads(p) /\ bill.approval = "PENDING"
      BY <1>10 DEF RejectBilling, DecidesNow
    <2>2. bill' \in BillShape /\ bill'.status = bill.status /\ bill'.approval = "REJECTED" /\ bill'.image = bill.image /\ bill'.remarks = bill.remarks
      BY <1>1, <2>1 DEF BillShape, BillApproval
    <2> QED BY <1>1, <1>2, <1>3, <1>6, <1>7, <2>1, <2>2, BillChanges
  <1>11. CASE CollectBilling(p)
    <2>1. bill' = [bill EXCEPT !.collected = 1, !.status = "COLLECTED"] /\ Rereads(p) /\ bill.status = "ISSUED"
      BY <1>11 DEF CollectBilling
    <2>2. /\ bill' \in BillShape /\ bill'.status = "COLLECTED" /\ bill'.approval = bill.approval /\ bill'.image = bill.image
          /\ bill'.remarks = bill.remarks /\ bill'.lines = bill.lines
      BY <1>1, <2>1 DEF BillShape, BillStatus
    <2> QED BY <1>1, <1>2, <1>3, <1>6, <1>7, <2>1, <2>2, BillChanges
  <1>12. ASSUME NEW yes \in BOOLEAN, IssueBilling(p, yes) PROVE BillInv'
    <2>1. CASE yes /\ bill.live /\ bill.status = "APPROVED"
      <3>1. bill' = [bill EXCEPT !.issued = 1, !.image = billPage[p].file, !.status = "ISSUED"] /\ Rereads(p)
        BY <1>12, <2>1 DEF IssueBilling
      <3>2. billPage[p].file \in Nat /\ billPage[p].file \in invoices \union {0} /\ bill.image = 0
        BY <1>1, <2>1 DEF BillPageShape, FileGood
      <3>3. /\ bill' \in BillShape /\ bill'.status = "ISSUED" /\ bill'.approval = bill.approval /\ bill'.image = billPage[p].file
            /\ bill'.remarks = bill.remarks /\ bill'.lines = bill.lines
        BY <1>1, <3>1, <3>2 DEF BillShape, BillStatus
      <3> QED BY <1>1, <1>2, <1>3, <1>6, <1>7, <2>1, <3>1, <3>2, <3>3, BillChanges
    <2>2. CASE ~(yes /\ bill.live /\ bill.status = "APPROVED")
      <3>1. UNCHANGED bill /\ Look(p, idle)
        BY <1>12, <2>2 DEF IssueBilling, idle
      <3> QED BY <1>5, <3>1
    <2> QED BY <2>1, <2>2
  <1> QED BY <1>8, <1>9, <1>10, <1>11, <1>12

LEMMA RemarksKeep == ASSUME BillInv, NEW p \in BillPages, SaveBilling(p) \/ DeleteBilling(p) PROVE BillInv'
  <1>1. /\ bill \in BillShape /\ billPage[p] \in BillPageShape /\ IssuerGood(billPage[p], Lookers[p]) /\ FileGood(billPage[p])
        /\ billForm \in BillFormShape
        /\ (bill.status \in {"APPROVED", "ISSUED", "COLLECTED"} <=> bill.approval = "APPROVED")
        /\ (bill.status \notin {"ISSUED", "COLLECTED"} => bill.image = 0)
        /\ (bill.remarks <= 1 /\ bill.image # 0 => bill.image \in invoices)
    BY DEF BillInv
  <1>2. ~billForm.open /\ UNCHANGED <<other, billForm>>
    BY DEF BillInv, SaveBilling, DeleteBilling
  <1>3. PICK blank : blank = NoBillPage
    OBVIOUS
  <1>4. /\ Look(p, blank) /\ blank \in BillPageShape /\ IssuerGood(blank, Lookers[p])'
        /\ blank.seen.image = 0 /\ blank.file = 0
    BY <1>3, NoPageShaped DEF SaveBilling, DeleteBilling, Gone, IssuerGood
  <1>5. CASE DeleteBilling(p)
    <2>1. bill' = [bill EXCEPT !.live = FALSE] /\ UNCHANGED invoices
      BY <1>5 DEF DeleteBilling
    <2>2. /\ bill' \in BillShape /\ bill'.status = bill.status /\ bill'.approval = bill.approval /\ bill'.image = bill.image
          /\ bill'.remarks = bill.remarks /\ bill'.lines = bill.lines
      BY <1>1, <2>1 DEF BillShape
    <2> QED BY <1>1, <1>2, <1>4, <2>1, <2>2, BillChanges
  <1>6. CASE SaveBilling(p)
    <2> DEFINE sent == billPage[p].seen
               row == UpdatedByStatus(Row, sent)
    <2>1. sent \in SeenShape /\ Row \in SeenShape /\ Row.status = bill.status /\ Row.image = bill.image /\ Row.remarks = bill.remarks
      BY <1>1 DEF BillPageShape, BillShape, SeenShape, Row
    <2>2. /\ row.remarks = bill.remarks + 1 /\ row.issued \in Nat /\ row.image \in Nat /\ row.collected \in Nat
          /\ row.image = IF bill.status = "ISSUED" THEN sent.image ELSE bill.image
      <3> DEFINE was == Row
      <3>1. was \in SeenShape /\ was.status = bill.status /\ was.image = bill.image /\ was.remarks = bill.remarks /\ sent \in SeenShape
        BY <2>1
      <3> HIDE DEF was, sent
      <3>2. CASE bill.status = "ISSUED"
        <4>1. row = [was EXCEPT !.remarks = @ + 1, !.issued = sent.issued, !.image = sent.image]
          BY <3>1, <3>2 DEF UpdatedByStatus, was
        <4> QED BY <3>1, <3>2, <4>1 DEF SeenShape
      <3>3. CASE bill.status = "COLLECTED"
        <4>1. row = [was EXCEPT !.remarks = @ + 1, !.collected = sent.collected]
          BY <3>1, <3>3 DEF UpdatedByStatus, was
        <4> QED BY <3>1, <3>3, <4>1 DEF SeenShape
      <3>4. CASE bill.status \notin {"ISSUED", "COLLECTED"}
        <4>1. row = [was EXCEPT !.remarks = @ + 1]
          BY <3>1, <3>4 DEF UpdatedByStatus, was
        <4> QED BY <3>1, <3>4, <4>1 DEF SeenShape
      <3> QED BY <3>2, <3>3, <3>4
    <2>3. /\ bill' = [bill EXCEPT !.remarks = row.remarks, !.issued = row.issued, !.image = row.image, !.collected = row.collected]
          /\ invoices' = invoices \ ImageReplaced(Row, sent)
      BY <1>6 DEF SaveBilling
    <2>4. /\ ImageReplaced(Row, sent) = IF bill.status = "ISSUED" /\ bill.image # sent.image THEN {bill.image} ELSE {}
      BY <2>1 DEF ImageReplaced
    <2>5. bill.remarks = 0 => sent.image \in {0, bill.image}
      BY <1>1 DEF FileGood
    <2> HIDE DEF row, sent
    <2>6. /\ bill' \in BillShape /\ bill'.status = bill.status /\ bill'.approval = bill.approval /\ bill'.image = row.image
          /\ bill'.remarks = bill.remarks + 1 /\ bill'.lines = bill.lines
      <3>1. PICK remarks, issued, image, collected :
               /\ remarks = row.remarks /\ issued = row.issued /\ image = row.image /\ collected = row.collected
        OBVIOUS
      <3>2. bill' = [bill EXCEPT !.remarks = remarks, !.issued = issued, !.image = image, !.collected = collected]
        BY <2>3, <3>1
      <3>3. remarks \in Nat /\ issued \in Nat /\ image \in Nat /\ collected \in Nat /\ remarks = bill.remarks + 1
        BY <1>1, <2>2, <3>1 DEF BillShape
      <3>4. /\ bill' \in BillShape /\ bill'.status = bill.status /\ bill'.approval = bill.approval /\ bill'.image = image
            /\ bill'.remarks = remarks /\ bill'.lines = bill.lines
        BY <1>1, <3>2, <3>3 DEF BillShape
      <3> QED BY <3>1, <3>3, <3>4
    <2>7. bill.remarks \in Nat /\ bill.image \in Nat
      BY <1>1 DEF BillShape
    <2>8. bill'.status \notin {"ISSUED", "COLLECTED"} =>
             bill.status \notin {"ISSUED", "COLLECTED"} /\ bill'.image = 0 /\ invoices' = invoices
      BY <1>1, <2>2, <2>3, <2>4, <2>6
    <2>9. bill'.remarks # 0 /\ (bill'.remarks <= 1 => bill.remarks = 0)
      BY <2>6, <2>7
    <2>10. bill'.remarks <= 1 /\ bill'.image # 0 => bill'.image \in invoices'
      BY <1>1, <2>2, <2>3, <2>4, <2>5, <2>6, <2>7, <2>9
    <2> QED BY <1>1, <1>2, <1>4, <2>6, <2>8, <2>9, <2>10, BillChanges
  <1> QED BY <1>5, <1>6

LEMMA BillInvStays == BillInv /\ BillingNext => BillInv'
  <1> SUFFICES ASSUME BillInv, BillingNext PROVE BillInv'
    OBVIOUS
  <1>1. CASE TypeAmount \/ (\E r \in Reports : ChooseReport(r)) \/ (\E ok \in BOOLEAN : ReportDataArrive(ok))
    BY <1>1, FormKeeps
  <1>2. ASSUME NEW u \in Clerks, RequestBilling(u) PROVE BillInv'
    BY <1>2, RequestingKeeps
  <1>3. ASSUME NEW p \in BillPages,
               \/ OpenDetail(p) \/ DetailOfBillArrives(p) \/ OpenBillEdit(p) \/ TypeRemarks(p) \/ CloseBillPage(p)
               \/ \E yes \in BOOLEAN : UploadInvoice(p, yes)
               \/ \E q \in {"REQUESTED", "APPROVED"} : WorkflowsArrive(p, q) PROVE BillInv'
    BY <1>3, LookingKeeps
  <1>4. ASSUME NEW p \in BillPages,
               \/ \E next \in Clerks \union {NoClerk} : ApproveBilling(p, next)
               \/ RejectBilling(p) \/ CollectBilling(p)
               \/ \E yes \in BOOLEAN : IssueBilling(p, yes) PROVE BillInv'
    BY <1>4, DecideKeeps
  <1>5. ASSUME NEW p \in BillPages, SaveBilling(p) \/ DeleteBilling(p) PROVE BillInv'
    BY <1>5, RemarksKeep
  <1> QED BY <1>1, <1>2, <1>3, <1>4, <1>5 DEF BillingNext

LEMMA BillRests == BillInv /\ UNCHANGED billVars => BillInv'
  <1> SUFFICES ASSUME BillInv, UNCHANGED billVars PROVE BillInv'
    OBVIOUS
  <1>1. UNCHANGED <<bill, invoices, other, billForm, billPage>>
    BY DEF billVars
  <1>2. ASSUME NEW p \in BillPages PROVE (IssuerGood(billPage[p], Lookers[p]) /\ FileGood(billPage[p]))'
    BY <1>1 DEF BillInv, IssuerGood, FileGood, IssuerIs, Takes, SeenLines
  <1> QED BY <1>1, <1>2 DEF BillInv

-----------------------------------------------------------------------------
(* The alarms: whose copies are kept, and which of them are read.          *)

CopyShape == [kept : BOOLEAN, read : BOOLEAN, dismissed : BOOLEAN, old : BOOLEAN]
AnswerShape == [by : {"nothing", "fetch", "one", "all"}, ids : SUBSET AlarmIds, who : SUBSET Accounts]
BellShape == [unread : SUBSET AlarmIds, fetch : AnswerShape, mark : AnswerShape, pending : SUBSET AlarmIds]

\* Alarms are numbered in the order they were sent.
AlarmsInOrder ==
    /\ alarm \in [AlarmIds -> [to : SUBSET Accounts, read : BOOLEAN]]
    /\ \E n \in 0..MaxAlarms : Sent = 1..n

CopyGood(copy) ==
    /\ copy \in [AlarmIds -> CopyShape]
    /\ \A i \in AlarmIds : (copy[i].kept => i \in Sent) /\ (~copy[i].kept => copy[i] = Missing)

OwnCopy(copy, a) == \A i \in AlarmIds : copy[i].kept => alarm[i].to = {a}
TrueCopy(copy) == \A i \in AlarmIds : copy[i].read => alarm[i].read

\* What a tab shows was sent, and what it waits for are alarms of whom it asked for.
BellGood(b) ==
    /\ b \in BellShape /\ b.unread \subseteq Sent /\ b.pending \subseteq Sent
    /\ \A i \in b.fetch.ids : i \in Sent /\ alarm[i].to = b.fetch.who

AlarmInv ==
    /\ AlarmsInOrder /\ account \in Accounts
    /\ alarmRuns \in [upsets : Nat, crossed : BOOLEAN, newer : BOOLEAN]
    /\ cache = [a \in Accounts |-> cache[a]] /\ \A a \in Accounts : CopyGood(cache[a])
    /\ ~alarmRuns.crossed => \A a \in Accounts : OwnCopy(cache[a], a)
    /\ ~alarmRuns.newer => \A a \in Accounts : TrueCopy(cache[a])
    /\ bell = [t \in BrowserTabs |-> bell[t]] /\ \A t \in BrowserTabs : BellGood(bell[t])

LEMMA AlarmInvStarts == AlarmsInit => AlarmInv
  <1> SUFFICES ASSUME AlarmsInit PROVE AlarmInv
    OBVIOUS
  <1>1. alarm = [i \in AlarmIds |-> [to |-> {}, read |-> FALSE]]
    BY DEF AlarmsInit
  <1>2. Sent = {}
    BY <1>1 DEF Sent
  <1>3. AlarmsInOrder
    <2>1. 1..0 = {} /\ 0 \in 0..MaxAlarms
      BY AlarmsAssumption
    <2> QED BY <1>1, <1>2, <2>1 DEF AlarmsInOrder
  <1>4. ASSUME NEW a \in Accounts
        PROVE  CopyGood(cache[a]) /\ OwnCopy(cache[a], a) /\ TrueCopy(cache[a])
    <2>1. cache[a] = [i \in AlarmIds |-> Missing]
      BY DEF AlarmsInit
    <2> QED BY <2>1 DEF CopyGood, OwnCopy, TrueCopy, Missing, CopyShape
  <1>5. ASSUME NEW t \in BrowserTabs PROVE BellGood(bell[t])
    <2>1. bell[t] = OpenTab
      BY DEF AlarmsInit
    <2> QED BY <2>1 DEF BellGood, OpenTab, NoAnswer, BellShape, AnswerShape
  <1> QED BY <1>3, <1>4, <1>5 DEF AlarmInv, AlarmsInit

LEMMA AlarmInvPromises == AlarmInv => CopiesAreOwn /\ ReadCopiesAreRead /\ AlarmsTypeOK
  BY DEF AlarmInv, CopyGood, OwnCopy, TrueCopy, BellGood, CopiesAreOwn, ReadCopiesAreRead, AlarmsTypeOK

\* More is sent, or read; nothing else of what was sent changes.
AlarmsGrow == \A i \in Sent : i \in Sent' /\ alarm'[i].to = alarm[i].to /\ (alarm[i].read => alarm'[i].read)

LEMMA GrownGood ==
    ASSUME AlarmInv, AlarmsGrow
    PROVE  /\ \A copy : CopyGood(copy) => CopyGood(copy)'
           /\ \A copy : \A a : CopyGood(copy) /\ OwnCopy(copy, a) => OwnCopy(copy, a)'
           /\ \A copy : CopyGood(copy) /\ TrueCopy(copy) => TrueCopy(copy)'
           /\ \A b : BellGood(b) => BellGood(b)'
  <1>1. ASSUME NEW copy, CopyGood(copy) PROVE CopyGood(copy)'
    BY <1>1 DEF CopyGood, AlarmsGrow
  <1>2. ASSUME NEW copy, NEW a, CopyGood(copy), OwnCopy(copy, a) PROVE OwnCopy(copy, a)'
    BY <1>2 DEF CopyGood, OwnCopy, AlarmsGrow
  <1>3. ASSUME NEW copy, CopyGood(copy), TrueCopy(copy) PROVE TrueCopy(copy)'
    <2> SUFFICES ASSUME NEW i \in AlarmIds, copy[i].read PROVE alarm'[i].read
      BY DEF TrueCopy
    <2>1. copy[i].kept
      BY <1>3 DEF CopyGood, Missing
    <2> QED BY <1>3, <2>1 DEF CopyGood, TrueCopy, AlarmsGrow
  <1>4. ASSUME NEW b, BellGood(b) PROVE BellGood(b)'
    BY <1>4 DEF BellGood, AlarmsGrow
  <1> QED BY <1>1, <1>2, <1>3, <1>4

LEMMA NothingSent == AlarmInv /\ UNCHANGED alarm => AlarmsGrow /\ AlarmsInOrder'
  BY DEF AlarmsGrow, Sent, AlarmInv, AlarmsInOrder

\* Some alarms are read.
LEMMA SomeRead ==
    ASSUME AlarmInv, NEW ids, alarm' = [i \in AlarmIds |-> IF i \in ids THEN [alarm[i] EXCEPT !.read = TRUE] ELSE alarm[i]]
    PROVE  AlarmsGrow /\ AlarmsInOrder'
  <1>1. alarm \in [AlarmIds -> [to : SUBSET Accounts, read : BOOLEAN]] /\ \E n \in 0..MaxAlarms : Sent = 1..n
    BY DEF AlarmInv, AlarmsInOrder
  <1>2. ASSUME NEW i \in AlarmIds
        PROVE  /\ alarm'[i] \in [to : SUBSET Accounts, read : BOOLEAN]
               /\ alarm'[i].to = alarm[i].to /\ (alarm[i].read => alarm'[i].read)
    BY <1>1
  <1>3. Sent' = Sent
    BY <1>2 DEF Sent
  <1>4. alarm' \in [AlarmIds -> [to : SUBSET Accounts, read : BOOLEAN]]
    BY <1>2
  <1>5. AlarmsGrow
    BY <1>2, <1>3 DEF AlarmsGrow, Sent
  <1> QED BY <1>1, <1>3, <1>4, <1>5 DEF AlarmsInOrder

\* One tab changes, and one copy or none.
LEMMA TabChanges ==
    ASSUME AlarmInv, AlarmsGrow, AlarmsInOrder', account' \in Accounts,
           alarmRuns' \in [upsets : Nat, crossed : BOOLEAN, newer : BOOLEAN],
           alarmRuns.crossed => alarmRuns'.crossed, alarmRuns.newer => alarmRuns'.newer,
           \/ UNCHANGED cache
           \/ \E copy : /\ cache' = [cache EXCEPT ![account] = copy] /\ CopyGood(copy)'
                        /\ ~alarmRuns'.crossed => \A a : a = account => OwnCopy(copy, a)'
                        /\ ~alarmRuns'.newer => TrueCopy(copy)',
           \/ UNCHANGED bell
           \/ \E t \in BrowserTabs : \E b : bell' = [bell EXCEPT ![t] = b] /\ BellGood(b)'
    PROVE  AlarmInv'
  <1>1. /\ \A a \in Accounts : CopyGood(cache[a]) /\ (~alarmRuns.crossed => OwnCopy(cache[a], a)) /\ (~alarmRuns.newer => TrueCopy(cache[a]))
        /\ \A t \in BrowserTabs : BellGood(bell[t])
        /\ cache = [a \in Accounts |-> cache[a]] /\ bell = [t \in BrowserTabs |-> bell[t]] /\ account \in Accounts
        /\ alarmRuns \in [upsets : Nat, crossed : BOOLEAN, newer : BOOLEAN]
    BY DEF AlarmInv
  <1>2. ASSUME NEW a \in Accounts
        PROVE  CopyGood(cache[a])' /\ (~alarmRuns'.crossed => OwnCopy(cache[a], a)') /\ (~alarmRuns'.newer => TrueCopy(cache[a])')
    <2>1. PICK kept : kept = cache'[a]
      OBVIOUS
    <2>2. CopyGood(kept)' /\ (~alarmRuns'.crossed => OwnCopy(kept, a)') /\ (~alarmRuns'.newer => TrueCopy(kept)')
      <3>1. CASE kept = cache[a]
        <4>1. CopyGood(kept) /\ (~alarmRuns.crossed => OwnCopy(kept, a)) /\ (~alarmRuns.newer => TrueCopy(kept))
          BY <1>1, <3>1
        <4> QED BY <4>1, GrownGood
      <3>2. CASE kept # cache[a]
        <4>1. PICK copy : /\ cache' = [cache EXCEPT ![account] = copy] /\ CopyGood(copy)'
                          /\ ~alarmRuns'.crossed => \A b : b = account => OwnCopy(copy, b)'
                          /\ ~alarmRuns'.newer => TrueCopy(copy)'
          BY <2>1, <3>2
        <4>2. a = account /\ kept = copy
          BY <1>1, <2>1, <3>2, <4>1
        <4> QED BY <4>1, <4>2
      <3> QED BY <3>1, <3>2
    <2> QED BY <2>1, <2>2 DEF CopyGood, OwnCopy, TrueCopy
  <1>3. ASSUME NEW t \in BrowserTabs PROVE BellGood(bell[t])'
    <2>1. PICK shown : shown = bell'[t]
      OBVIOUS
    <2>2. BellGood(shown)'
      <3>1. CASE shown = bell[t]
        BY <1>1, <3>1, GrownGood
      <3>2. CASE shown # bell[t]
        <4>1. PICK u, b : u \in BrowserTabs /\ bell' = [bell EXCEPT ![u] = b] /\ BellGood(b)'
          BY <2>1, <3>2
        <4>2. shown = b
          BY <1>1, <2>1, <3>2, <4>1
        <4> QED BY <4>1, <4>2
      <3> QED BY <3>1, <3>2
    <2> QED BY <2>1, <2>2 DEF BellGood
  <1>4. cache' = [a \in Accounts |-> cache'[a]] /\ bell' = [t \in BrowserTabs |-> bell'[t]]
    BY <1>1
  <1> QED BY <1>1, <1>2, <1>3, <1>4 DEF AlarmInv

LEMMA CopyOfAccount ==
    AlarmInv => /\ CopyGood(Copy) /\ (~alarmRuns.crossed => OwnCopy(Copy, account)) /\ (~alarmRuns.newer => TrueCopy(Copy))
                /\ account \in Accounts
  BY DEF AlarmInv, Copy, CacheKey

\* What is stored is what was made, but for what is a month old.
LEMMA SavedGood ==
    ASSUME NEW copy, CopyGood(copy)
    PROVE  /\ CopyGood(SavedCopy(copy))
           /\ \A a : OwnCopy(copy, a) => OwnCopy(SavedCopy(copy), a)
           /\ TrueCopy(copy) => TrueCopy(SavedCopy(copy))
  <1>1. PICK saved : saved = SavedCopy(copy)
    OBVIOUS
  <1>2. saved = [i \in AlarmIds |-> IF copy[i].old THEN Missing ELSE copy[i]]
    BY <1>1 DEF SavedCopy
  <1>3. CopyGood(saved)
    BY <1>2 DEF CopyGood, Missing, CopyShape
  <1>4. ASSUME NEW a, OwnCopy(copy, a) PROVE OwnCopy(saved, a)
    BY <1>2, <1>4 DEF OwnCopy, Missing
  <1>5. ASSUME TrueCopy(copy) PROVE TrueCopy(saved)
    BY <1>2, <1>5 DEF TrueCopy, Missing
  <1> QED BY <1>1, <1>3, <1>4, <1>5

LEMMA MergedGood ==
    ASSUME NEW copy, CopyGood(copy), NEW ids, \A i \in ids : i \in Sent
    PROVE  /\ CopyGood(Merged(copy, ids))
           /\ \A a : (OwnCopy(copy, a) /\ \A i \in ids : alarm[i].to = {a}) => OwnCopy(Merged(copy, ids), a)
           /\ TrueCopy(copy) => TrueCopy(Merged(copy, ids))
  <1>1. PICK made : made = Merged(copy, ids)
    OBVIOUS
  <1>2. /\ made = [i \in AlarmIds |-> made[i]]
        /\ \A i \in AlarmIds : made[i] = IF i \notin ids THEN copy[i]
                                         ELSE IF copy[i].kept THEN [copy[i] EXCEPT !.read = FALSE] ELSE Entry(FALSE)
    BY <1>1 DEF Merged
  <1>3. ASSUME NEW i \in AlarmIds
        PROVE  /\ made[i] \in CopyShape /\ (made[i].kept => i \in Sent) /\ (~made[i].kept => made[i] = Missing)
               /\ made[i].kept => copy[i].kept \/ i \in ids
               /\ made[i].read => copy[i].read
    <2>1. copy[i] \in CopyShape /\ (copy[i].kept => i \in Sent) /\ (~copy[i].kept => copy[i] = Missing)
      BY DEF CopyGood
    <2>2. CASE i \notin ids
      BY <1>2, <2>1, <2>2
    <2>3. CASE i \in ids /\ copy[i].kept
      BY <1>2, <2>1, <2>3 DEF CopyShape
    <2>4. CASE i \in ids /\ ~copy[i].kept
      <3>1. made[i] = Entry(FALSE)
        BY <1>2, <2>4
      <3>2. made[i] = [kept |-> TRUE, read |-> FALSE, dismissed |-> FALSE, old |-> FALSE]
        BY <3>1 DEF Entry
      <3> QED BY <3>2, <2>4 DEF CopyShape
    <2> QED BY <2>2, <2>3, <2>4
  <1>4. CopyGood(made)
    BY <1>2, <1>3 DEF CopyGood
  <1>5. ASSUME NEW a, OwnCopy(copy, a), \A i \in ids : alarm[i].to = {a} PROVE OwnCopy(made, a)
    BY <1>3, <1>5 DEF OwnCopy
  <1>6. ASSUME TrueCopy(copy) PROVE TrueCopy(made)
    BY <1>3, <1>6 DEF TrueCopy
  <1> QED BY <1>1, <1>4, <1>5, <1>6

LEMMA ReadGood ==
    ASSUME NEW copy, CopyGood(copy), NEW ids
    PROVE  /\ CopyGood(ReadCopy(copy, ids))
           /\ \A a : OwnCopy(copy, a) => OwnCopy(ReadCopy(copy, ids), a)
           /\ (TrueCopy(copy) /\ \A i \in ids : alarm[i].read) => TrueCopy(ReadCopy(copy, ids))
  <1>1. PICK made : made = ReadCopy(copy, ids)
    OBVIOUS
  <1>2. made = [i \in AlarmIds |-> IF i \in ids /\ copy[i].kept THEN [copy[i] EXCEPT !.read = TRUE] ELSE copy[i]]
    BY <1>1 DEF ReadCopy
  <1>3. ASSUME NEW i \in AlarmIds
        PROVE  /\ made[i] \in CopyShape /\ (made[i].kept => i \in Sent) /\ (~made[i].kept => made[i] = Missing)
               /\ made[i].kept => copy[i].kept
               /\ made[i].read => copy[i].read \/ i \in ids
    <2>1. copy[i] \in CopyShape /\ (copy[i].kept => i \in Sent) /\ (~copy[i].kept => copy[i] = Missing)
      BY DEF CopyGood
    <2>2. CASE i \in ids /\ copy[i].kept
      BY <1>2, <2>1, <2>2 DEF CopyShape
    <2>3. CASE ~(i \in ids /\ copy[i].kept)
      BY <1>2, <2>1, <2>3
    <2> QED BY <2>2, <2>3
  <1>4. CopyGood(made)
    BY <1>2, <1>3 DEF CopyGood
  <1>5. ASSUME NEW a, OwnCopy(copy, a) PROVE OwnCopy(made, a)
    BY <1>3, <1>5 DEF OwnCopy
  <1>6. ASSUME TrueCopy(copy), \A i \in ids : alarm[i].read PROVE TrueCopy(made)
    BY <1>3, <1>6 DEF TrueCopy
  <1> QED BY <1>1, <1>4, <1>5, <1>6

LEMMA DismissedGood ==
    ASSUME NEW copy, CopyGood(copy), NEW ids
    PROVE  /\ CopyGood(DismissedCopy(copy, ids))
           /\ \A a : OwnCopy(copy, a) => OwnCopy(DismissedCopy(copy, ids), a)
           /\ TrueCopy(copy) => TrueCopy(DismissedCopy(copy, ids))
  <1>1. PICK made : made = DismissedCopy(copy, ids)
    OBVIOUS
  <1>2. made = [i \in AlarmIds |-> IF i \in ids /\ copy[i].kept THEN [copy[i] EXCEPT !.dismissed = TRUE, !.old = FALSE] ELSE copy[i]]
    BY <1>1 DEF DismissedCopy
  <1>3. ASSUME NEW i \in AlarmIds
        PROVE  /\ made[i] \in CopyShape /\ (made[i].kept => i \in Sent) /\ (~made[i].kept => made[i] = Missing)
               /\ made[i].kept => copy[i].kept
               /\ made[i].read => copy[i].read
    <2>1. copy[i] \in CopyShape /\ (copy[i].kept => i \in Sent) /\ (~copy[i].kept => copy[i] = Missing)
      BY DEF CopyGood
    <2>2. CASE i \in ids /\ copy[i].kept
      BY <1>2, <2>1, <2>2 DEF CopyShape
    <2>3. CASE ~(i \in ids /\ copy[i].kept)
      BY <1>2, <2>1, <2>3
    <2> QED BY <2>2, <2>3
  <1>4. CopyGood(made)
    BY <1>2, <1>3 DEF CopyGood
  <1>5. ASSUME NEW a, OwnCopy(copy, a) PROVE OwnCopy(made, a)
    BY <1>3, <1>5 DEF OwnCopy
  <1>6. ASSUME TrueCopy(copy) PROVE TrueCopy(made)
    BY <1>3, <1>6 DEF TrueCopy
  <1> QED BY <1>1, <1>4, <1>5, <1>6

LEMMA TabShown ==
    ASSUME AlarmInv, NEW t \in BrowserTabs
    PROVE  /\ bell[t] \in BellShape /\ bell[t].unread \subseteq Sent /\ bell[t].pending \subseteq Sent
           /\ \A i \in bell[t].fetch.ids : i \in Sent /\ alarm[i].to = bell[t].fetch.who
  BY DEF AlarmInv, BellGood

LEMMA AskedAlarms ==
    AlarmInv => /\ UnreadOf(account) \subseteq Sent /\ {account} \subseteq Accounts
                /\ \A i \in UnreadOf(account) : alarm[i].to = {account}
  BY DEF AlarmInv, UnreadOf

\* Only a tab changes.
LEMMA OneTab ==
    ASSUME AlarmInv, NEW t \in BrowserTabs, UNCHANGED <<alarm, account, cache, alarmRuns>>,
           NEW b, bell' = [bell EXCEPT ![t] = b], BellGood(b)
    PROVE  AlarmInv'
  <1>1. AlarmsGrow /\ AlarmsInOrder'
    BY NothingSent
  <1>2. BellGood(b)'
    BY <1>1, GrownGood
  <1>3. account' \in Accounts /\ alarmRuns' \in [upsets : Nat, crossed : BOOLEAN, newer : BOOLEAN]
    BY DEF AlarmInv
  <1>4. \E u \in BrowserTabs : \E c : bell' = [bell EXCEPT ![u] = c] /\ BellGood(c)'
    BY <1>2
  <1> QED BY <1>1, <1>3, <1>4, TabChanges

LEMMA FetchKeeps ==
    ASSUME AlarmInv, NEW t \in BrowserTabs, Fetch(t) \/ ShowTasks(t) PROVE AlarmInv'
  <1>1. CASE Fetch(t)
    <2>1. PICK answer : answer = [by |-> "fetch", ids |-> UnreadOf(account), who |-> {account}]
      OBVIOUS
    <2>2. PICK b : b = [bell[t] EXCEPT !.fetch = answer]
      OBVIOUS
    <2>3. bell' = [bell EXCEPT ![t] = b] /\ UNCHANGED <<alarm, account, cache, alarmRuns>>
      BY <1>1, <2>1, <2>2 DEF Fetch
    <2>4. answer \in AnswerShape
      BY <2>1, AskedAlarms DEF AnswerShape, Sent
    <2>5. BellGood(b)
      <3>1. b \in BellShape /\ b.unread = bell[t].unread /\ b.pending = bell[t].pending /\ b.fetch = answer
        BY <2>2, <2>4, TabShown DEF BellShape
      <3>2. answer.ids = UnreadOf(account) /\ answer.who = {account}
        BY <2>1
      <3> QED BY <3>1, <3>2, TabShown, AskedAlarms DEF BellGood
    <2> QED BY <2>3, <2>5, OneTab
  <1>2. CASE ShowTasks(t)
    <2>1. PICK tasks : tasks = Pending(Copy)
      OBVIOUS
    <2>2. PICK b : b = [bell[t] EXCEPT !.pending = tasks]
      OBVIOUS
    <2>3. bell' = [bell EXCEPT ![t] = b] /\ UNCHANGED <<alarm, account, cache, alarmRuns>>
      BY <1>2, <2>1, <2>2 DEF ShowTasks
    <2>4. tasks \subseteq Sent /\ tasks \subseteq AlarmIds
      BY <2>1, CopyOfAccount DEF Pending, CopyGood
    <2>5. BellGood(b)
      <3>1. b \in BellShape /\ b.unread = bell[t].unread /\ b.pending = tasks /\ b.fetch = bell[t].fetch
        BY <2>2, <2>4, TabShown DEF BellShape
      <3> QED BY <3>1, <2>4, TabShown DEF BellGood
    <2> QED BY <2>3, <2>5, OneTab
  <1> QED BY <1>1, <1>2

LEMMA MarksKeep ==
    ASSUME AlarmInv, NEW t \in BrowserTabs,
           (\E i \in AlarmIds : MarkAsRead(t, i)) \/ MarkAllAsRead(t) \/ (\E done \in BOOLEAN : MarkLost(t, done))
    PROVE  AlarmInv'
  <1> DEFINE Mine == {i \in AlarmIds : alarm[i].to = {account}}
  <1>0. /\ account \in Accounts /\ alarmRuns \in [upsets : Nat, crossed : BOOLEAN, newer : BOOLEAN]
        /\ alarm \in [AlarmIds -> [to : SUBSET Accounts, read : BOOLEAN]]
    BY DEF AlarmInv, AlarmsInOrder
  <1>1. ASSUME NEW i \in AlarmIds, MarkAsRead(t, i) PROVE AlarmInv'
    <2>1. alarm' = [j \in AlarmIds |-> IF j \in {i} THEN [alarm[j] EXCEPT !.read = TRUE] ELSE alarm[j]]
      BY <1>0, <1>1 DEF MarkAsRead
    <2>2. AlarmsGrow /\ AlarmsInOrder'
      BY <2>1, SomeRead
    <2>3. PICK answer : answer = [by |-> "one", ids |-> {i}, who |-> {account}]
      OBVIOUS
    <2>4. PICK b : b = [bell[t] EXCEPT !.mark = answer]
      OBVIOUS
    <2>5. bell' = [bell EXCEPT ![t] = b] /\ UNCHANGED <<account, cache, alarmRuns>>
      BY <1>1, <2>3, <2>4 DEF MarkAsRead
    <2>6. BellGood(b)
      <3>1. answer \in AnswerShape
        BY <2>3, <1>0 DEF AnswerShape
      <3>2. b \in BellShape /\ b.unread = bell[t].unread /\ b.pending = bell[t].pending /\ b.fetch = bell[t].fetch
        BY <2>4, <3>1, TabShown DEF BellShape
      <3> QED BY <3>2, TabShown DEF BellGood
    <2>7. \E u \in BrowserTabs : \E c : bell' = [bell EXCEPT ![u] = c] /\ BellGood(c)'
      BY <2>2, <2>5, <2>6, GrownGood
    <2> QED BY <1>0, <2>2, <2>5, <2>7, TabChanges
  <1>2. CASE MarkAllAsRead(t)
    <2>1. alarm' = [j \in AlarmIds |-> IF j \in Mine THEN [alarm[j] EXCEPT !.read = TRUE] ELSE alarm[j]]
      BY <1>2 DEF MarkAllAsRead
    <2>2. AlarmsGrow /\ AlarmsInOrder'
      BY <2>1, SomeRead
    <2>3. PICK answer : answer = [by |-> "all", ids |-> UnreadOf(account), who |-> {account}]
      OBVIOUS
    <2>4. PICK b : b = [bell[t] EXCEPT !.mark = answer]
      OBVIOUS
    <2>5. bell' = [bell EXCEPT ![t] = b] /\ UNCHANGED <<account, cache, alarmRuns>>
      BY <1>2, <2>3, <2>4 DEF MarkAllAsRead
    <2>6. BellGood(b)
      <3>1. answer \in AnswerShape
        BY <2>3, AskedAlarms DEF AnswerShape, Sent
      <3>2. b \in BellShape /\ b.unread = bell[t].unread /\ b.pending = bell[t].pending /\ b.fetch = bell[t].fetch
        BY <2>4, <3>1, TabShown DEF BellShape
      <3> QED BY <3>2, TabShown DEF BellGood
    <2>7. \E u \in BrowserTabs : \E c : bell' = [bell EXCEPT ![u] = c] /\ BellGood(c)'
      BY <2>2, <2>5, <2>6, GrownGood
    <2> QED BY <1>0, <2>2, <2>5, <2>7, TabChanges
  <1>3. ASSUME NEW done \in BOOLEAN, MarkLost(t, done) PROVE AlarmInv'
    <2>1. AlarmsGrow /\ AlarmsInOrder'
      <3>1. CASE done
        <4>1. alarm' = [j \in AlarmIds |-> IF j \in Mine THEN [alarm[j] EXCEPT !.read = TRUE] ELSE alarm[j]]
          BY <1>3, <3>1 DEF MarkLost
        <4> QED BY <4>1, SomeRead
      <3>2. CASE ~done
        BY <1>3, <3>2, NothingSent DEF MarkLost
      <3> QED BY <3>1, <3>2
    <2>2. UNCHANGED <<account, cache, bell>> /\ alarmRuns' = [alarmRuns EXCEPT !.upsets = @ + 1]
      BY <1>3 DEF MarkLost
    <2>3. /\ alarmRuns' \in [upsets : Nat, crossed : BOOLEAN, newer : BOOLEAN]
          /\ alarmRuns'.crossed = alarmRuns.crossed /\ alarmRuns'.newer = alarmRuns.newer
      BY <1>0, <2>2
    <2> QED BY <1>0, <2>1, <2>2, <2>3, TabChanges
  <1> QED BY <1>1, <1>2, <1>3

\* A copy is stored, and a tab changes with it.
LEMMA CopyStored ==
    ASSUME AlarmInv, NEW t \in BrowserTabs, UNCHANGED <<alarm, account>>,
           NEW copy, Store(copy), CopyGood(copy),
           ~alarmRuns'.crossed => OwnCopy(copy, account), ~alarmRuns'.newer => TrueCopy(copy),
           alarmRuns' \in [upsets : Nat, crossed : BOOLEAN, newer : BOOLEAN],
           alarmRuns.crossed => alarmRuns'.crossed, alarmRuns.newer => alarmRuns'.newer,
           NEW b, bell' = [bell EXCEPT ![t] = b], BellGood(b)
    PROVE  AlarmInv'
  <1>1. AlarmsGrow /\ AlarmsInOrder'
    BY NothingSent
  <1>2. BellGood(b)'
    BY <1>1, GrownGood
  <1>3. PICK saved : saved = SavedCopy(copy)
    OBVIOUS
  <1>4. /\ cache' = [cache EXCEPT ![account] = saved] /\ CopyGood(saved)
        /\ ~alarmRuns'.crossed => OwnCopy(saved, account)
        /\ ~alarmRuns'.newer => TrueCopy(saved)
    BY <1>3, SavedGood DEF Store, CacheKey
  <1>5. CopyGood(saved)' /\ (~alarmRuns'.newer => TrueCopy(saved)')
    BY <1>1, <1>4, GrownGood
  <1>6. ASSUME ~alarmRuns'.crossed, NEW a, a = account PROVE OwnCopy(saved, a)'
    BY <1>1, <1>4, <1>6, GrownGood
  <1>7. \E c : /\ cache' = [cache EXCEPT ![account] = c] /\ CopyGood(c)'
               /\ ~alarmRuns'.crossed => \A a : a = account => OwnCopy(c, a)'
               /\ ~alarmRuns'.newer => TrueCopy(c)'
    BY <1>4, <1>5, <1>6
  <1>8. \E u \in BrowserTabs : \E c : bell' = [bell EXCEPT ![u] = c] /\ BellGood(c)'
    BY <1>2
  <1>9. account' \in Accounts
    BY DEF AlarmInv
  <1> QED BY <1>1, <1>7, <1>8, <1>9, TabChanges

LEMMA FetchArrivesKeeps == ASSUME AlarmInv, NEW t \in BrowserTabs, FetchArrives(t) PROVE AlarmInv'
  <1>1. PICK f, copy, b : /\ f = bell[t].fetch /\ copy = Merged(Copy, f.ids)
                          /\ b = [bell[t] EXCEPT !.unread = f.ids, !.fetch = NoAnswer]
    OBVIOUS
  <1>2. Store(copy) /\ UNCHANGED <<alarm, account>>
    BY <1>1 DEF FetchArrives
  <1>3. bell' = [bell EXCEPT ![t].unread = f.ids, ![t].fetch = NoAnswer]
    BY <1>1 DEF FetchArrives
  <1>4. bell' = [bell EXCEPT ![t] = b]
    BY <1>1, <1>3 DEF AlarmInv
  <1>5. f \in AnswerShape /\ \A i \in f.ids : i \in Sent /\ alarm[i].to = f.who
    BY <1>1, TabShown DEF BellShape
  <1>6. PICK late : late = (f.who # {account})
    OBVIOUS
  <1>7. alarmRuns' = [alarmRuns EXCEPT !.crossed = alarmRuns.crossed \/ late]
    BY <1>1, <1>6 DEF FetchArrives
  <1>8. /\ alarmRuns' \in [upsets : Nat, crossed : BOOLEAN, newer : BOOLEAN]
        /\ (alarmRuns.crossed \/ f.who # {account} => alarmRuns'.crossed) /\ alarmRuns'.newer = alarmRuns.newer
    BY <1>6, <1>7 DEF AlarmInv
  <1>9. CopyGood(copy) /\ (~alarmRuns'.crossed => OwnCopy(copy, account)) /\ (~alarmRuns'.newer => TrueCopy(copy))
    BY <1>1, <1>5, <1>8, CopyOfAccount, MergedGood
  <1>10. BellGood(b)
    <2>1. /\ b \in BellShape /\ b.unread = f.ids /\ b.pending = bell[t].pending
          /\ b.fetch = [by |-> "nothing", ids |-> {}, who |-> {}]
      BY <1>1, <1>5, TabShown DEF BellShape, AnswerShape, NoAnswer, Sent
    <2> QED BY <2>1, <1>5, TabShown DEF BellGood
  <1> QED BY <1>2, <1>4, <1>8, <1>9, <1>10, CopyStored

LEMMA MarkArrivesKeeps == ASSUME AlarmInv, NEW t \in BrowserTabs, MarkArrives(t) PROVE AlarmInv'
  <1>1. PICK ids, still, copy, b :
           /\ ids = CopiesRead(t) /\ still = StillUnread(t) /\ copy = ReadCopy(Copy, ids)
           /\ b = [bell[t] EXCEPT !.mark = NoAnswer, !.unread = still]
    OBVIOUS
  <1>2. Store(copy) /\ UNCHANGED <<alarm, account>>
    BY <1>1 DEF MarkArrives
  <1>3. bell' = [bell EXCEPT ![t].mark = NoAnswer, ![t].unread = still]
    BY <1>1 DEF MarkArrives
  <1>4. bell' = [bell EXCEPT ![t] = b]
    BY <1>1, <1>3 DEF AlarmInv
  <1>5. still \subseteq bell[t].unread
    BY <1>1 DEF StillUnread
  <1>6. PICK late, since : late = (bell[t].mark.who # {account}) /\ since = (\E i \in ids : ~alarm[i].read)
    OBVIOUS
  <1>7. alarmRuns' = [alarmRuns EXCEPT !.crossed = alarmRuns.crossed \/ late, !.newer = alarmRuns.newer \/ since]
    BY <1>1, <1>6 DEF MarkArrives
  <1>8. /\ alarmRuns' \in [upsets : Nat, crossed : BOOLEAN, newer : BOOLEAN]
        /\ (alarmRuns.crossed => alarmRuns'.crossed) /\ (alarmRuns.newer \/ since => alarmRuns'.newer)
    BY <1>6, <1>7 DEF AlarmInv
  <1>9. CopyGood(copy) /\ (~alarmRuns'.crossed => OwnCopy(copy, account)) /\ (~alarmRuns'.newer => TrueCopy(copy))
    BY <1>1, <1>6, <1>8, CopyOfAccount, ReadGood
  <1>10. BellGood(b)
    <2>1. NoAnswer \in AnswerShape
      BY DEF AnswerShape, NoAnswer
    <2>2. b \in BellShape /\ b.unread = still /\ b.pending = bell[t].pending /\ b.fetch = bell[t].fetch
      BY <1>1, <1>5, <2>1, TabShown DEF BellShape
    <2> QED BY <2>2, <1>5, TabShown DEF BellGood
  <1> QED BY <1>2, <1>4, <1>8, <1>9, <1>10, CopyStored

LEMMA DismissKeeps == ASSUME AlarmInv, NEW t \in BrowserTabs, NEW ids, Dismiss(t, ids) PROVE AlarmInv'
  <1>1. PICK gone : Store(DismissedCopy(Copy, gone)) /\ UNCHANGED <<alarm, account, alarmRuns>>
    BY DEF Dismiss
  <1>2. PICK copy, saved : copy = DismissedCopy(Copy, gone) /\ saved = SavedCopy(copy)
    OBVIOUS
  <1>3. CopyGood(copy) /\ (~alarmRuns.crossed => OwnCopy(copy, account)) /\ (~alarmRuns.newer => TrueCopy(copy))
    BY <1>2, CopyOfAccount, DismissedGood
  <1>4. cache'[CacheKey(account)] = saved
    BY <1>1, <1>2 DEF Store, CacheKey, AlarmInv
  <1>5. PICK tasks, b : tasks = Pending(saved) /\ b = [bell[t] EXCEPT !.pending = tasks]
    OBVIOUS
  <1>6. bell' = [bell EXCEPT ![t] = b]
    BY <1>4, <1>5 DEF Dismiss
  <1>7. CopyGood(saved)
    BY <1>2, <1>3, SavedGood
  <1>8. tasks \subseteq Sent /\ tasks \subseteq AlarmIds
    BY <1>5, <1>7 DEF Pending, CopyGood
  <1>9. BellGood(b)
    <2>1. b \in BellShape /\ b.unread = bell[t].unread /\ b.pending = tasks /\ b.fetch = bell[t].fetch
      BY <1>5, <1>8, TabShown DEF BellShape
    <2> QED BY <2>1, <1>8, TabShown DEF BellGood
  <1>10. alarmRuns' \in [upsets : Nat, crossed : BOOLEAN, newer : BOOLEAN]
    BY <1>1 DEF AlarmInv
  <1> QED BY <1>1, <1>2, <1>3, <1>6, <1>9, <1>10, CopyStored

LEMMA SwitchKeeps == ASSUME AlarmInv, NEW t \in BrowserTabs, NEW a \in Accounts, Switch(t, a) PROVE AlarmInv'
  <1>1. PICK b : b = [bell[t] EXCEPT !.unread = {}, !.pending = {}]
    OBVIOUS
  <1>2. bell' = [bell EXCEPT ![t].unread = {}, ![t].pending = {}] /\ account' = a /\ UNCHANGED <<alarm, cache>>
    BY DEF Switch
  <1>3. bell' = [bell EXCEPT ![t] = b]
    BY <1>1, <1>2 DEF AlarmInv
  <1>4. alarmRuns' = [alarmRuns EXCEPT !.upsets = @ + 1]
    BY DEF Switch
  <1>5. /\ alarmRuns' \in [upsets : Nat, crossed : BOOLEAN, newer : BOOLEAN]
        /\ alarmRuns'.crossed = alarmRuns.crossed /\ alarmRuns'.newer = alarmRuns.newer
    BY <1>4 DEF AlarmInv
  <1>6. AlarmsGrow /\ AlarmsInOrder'
    BY <1>2, NothingSent
  <1>7. BellGood(b)
    <2>1. b \in BellShape /\ b.unread = {} /\ b.pending = {} /\ b.fetch = bell[t].fetch
      BY <1>1, TabShown DEF BellShape
    <2> QED BY <2>1, TabShown DEF BellGood
  <1>8. \E u \in BrowserTabs : \E c : bell' = [bell EXCEPT ![u] = c] /\ BellGood(c)'
    BY <1>3, <1>6, <1>7, GrownGood
  <1> QED BY <1>2, <1>5, <1>6, <1>8, TabChanges

LEMMA NewAlarmKeeps == ASSUME AlarmInv, NEW a \in Accounts, NewAlarm(a) PROVE AlarmInv'
  <1>1. PICK n \in 0..MaxAlarms : Sent = 1..n
    BY DEF AlarmInv, AlarmsInOrder
  <1>2. Cardinality(Sent) = n /\ n \in Nat /\ MaxAlarms \in Nat
    BY <1>1, FS_Interval, AlarmsAssumption
  <1>3. n # MaxAlarms
    BY <1>1 DEF NewAlarm, AlarmIds
  <1>4. PICK new : new = [to |-> {a}, read |-> FALSE]
    OBVIOUS
  <1>5. alarm' = [alarm EXCEPT ![n + 1] = new] /\ n + 1 \in AlarmIds
    BY <1>2, <1>3, <1>4 DEF NewAlarm, AlarmIds
  <1>6. alarm \in [AlarmIds -> [to : SUBSET Accounts, read : BOOLEAN]] /\ new \in [to : SUBSET Accounts, read : BOOLEAN]
    BY <1>4 DEF AlarmInv, AlarmsInOrder
  <1>7. alarm' \in [AlarmIds -> [to : SUBSET Accounts, read : BOOLEAN]]
    BY <1>5, <1>6
  <1>8. Sent' = Sent \union {n + 1}
    BY <1>4, <1>5, <1>6 DEF Sent
  <1>9. 1..(n + 1) = 1..n \union {n + 1} /\ n + 1 \in 0..MaxAlarms
    BY <1>2, <1>3
  <1>10. AlarmsInOrder'
    BY <1>1, <1>7, <1>8, <1>9 DEF AlarmsInOrder
  <1>11. n + 1 \notin Sent
    BY <1>1, <1>2
  <1>12. AlarmsGrow
    BY <1>5, <1>6, <1>8, <1>11 DEF AlarmsGrow
  <1>13. UNCHANGED <<account, cache, bell, alarmRuns>>
    BY DEF NewAlarm
  <1>14. account' \in Accounts /\ alarmRuns' \in [upsets : Nat, crossed : BOOLEAN, newer : BOOLEAN]
    BY <1>13 DEF AlarmInv
  <1> QED BY <1>10, <1>12, <1>13, <1>14, TabChanges

LEMMA MonthKeeps == ASSUME AlarmInv, MonthPasses PROVE AlarmInv'
  <1>1. /\ AlarmsInOrder /\ account \in Accounts
        /\ \A a \in Accounts : CopyGood(cache[a])
        /\ ~alarmRuns.crossed => \A a \in Accounts : OwnCopy(cache[a], a)
        /\ ~alarmRuns.newer => \A a \in Accounts : TrueCopy(cache[a])
        /\ bell = [t \in BrowserTabs |-> bell[t]] /\ \A t \in BrowserTabs : BellGood(bell[t])
        /\ alarmRuns \in [upsets : Nat, crossed : BOOLEAN, newer : BOOLEAN]
    BY DEF AlarmInv
  <1>2. UNCHANGED <<alarm, account, bell>> /\ alarmRuns' = [alarmRuns EXCEPT !.upsets = @ + 1]
    BY DEF MonthPasses
  <1>3. /\ alarmRuns' \in [upsets : Nat, crossed : BOOLEAN, newer : BOOLEAN]
        /\ alarmRuns'.crossed = alarmRuns.crossed /\ alarmRuns'.newer = alarmRuns.newer
    BY <1>1, <1>2
  <1>4. cache' = [a \in Accounts |-> [i \in AlarmIds |-> IF cache[a][i].kept THEN [cache[a][i] EXCEPT !.old = TRUE] ELSE Missing]]
    BY DEF MonthPasses
  <1>5. ASSUME NEW a \in Accounts
        PROVE  /\ CopyGood(cache'[a]) /\ (OwnCopy(cache[a], a) => OwnCopy(cache'[a], a))
               /\ (TrueCopy(cache[a]) => TrueCopy(cache'[a]))
    <2>1. PICK copy, aged : copy = cache[a] /\ aged = cache'[a]
      OBVIOUS
    <2>2. aged = [i \in AlarmIds |-> IF copy[i].kept THEN [copy[i] EXCEPT !.old = TRUE] ELSE Missing] /\ CopyGood(copy)
      BY <1>1, <1>4, <2>1
    <2>3. ASSUME NEW i \in AlarmIds
          PROVE  /\ aged[i] \in CopyShape /\ (aged[i].kept => i \in Sent) /\ (~aged[i].kept => aged[i] = Missing)
                 /\ (aged[i].kept => copy[i].kept) /\ (aged[i].read => copy[i].read)
      <3>1. copy[i] \in CopyShape /\ (copy[i].kept => i \in Sent)
        BY <2>2 DEF CopyGood
      <3>2. CASE copy[i].kept
        BY <2>2, <3>1, <3>2 DEF CopyShape
      <3>3. CASE ~copy[i].kept
        BY <2>2, <3>1, <3>3 DEF CopyShape, Missing
      <3> QED BY <3>2, <3>3
    <2>4. CopyGood(aged)
      BY <2>2, <2>3 DEF CopyGood
    <2>5. (OwnCopy(copy, a) => OwnCopy(aged, a)) /\ (TrueCopy(copy) => TrueCopy(aged))
      BY <2>3 DEF OwnCopy, TrueCopy
    <2> QED BY <2>1, <2>4, <2>5
  <1>6. AlarmsGrow /\ AlarmsInOrder'
    BY <1>2, NothingSent
  <1>7. ASSUME NEW a \in Accounts
        PROVE  CopyGood(cache[a])' /\ (~alarmRuns'.crossed => OwnCopy(cache[a], a)') /\ (~alarmRuns'.newer => TrueCopy(cache[a])')
    <2>1. PICK aged : aged = cache'[a]
      OBVIOUS
    <2>2. CopyGood(aged) /\ (~alarmRuns'.crossed => OwnCopy(aged, a)) /\ (~alarmRuns'.newer => TrueCopy(aged))
      BY <1>1, <1>3, <1>5, <2>1
    <2>3. CopyGood(aged)' /\ (~alarmRuns'.crossed => OwnCopy(aged, a)') /\ (~alarmRuns'.newer => TrueCopy(aged)')
      BY <2>2, <1>6, GrownGood
    <2> QED BY <2>1, <2>3 DEF CopyGood, OwnCopy, TrueCopy
  <1>8. ASSUME NEW t \in BrowserTabs PROVE BellGood(bell[t])'
    <2>1. PICK shown : shown = bell[t]
      OBVIOUS
    <2>2. BellGood(shown)' /\ bell'[t] = shown
      BY <1>1, <1>2, <1>6, <2>1, GrownGood
    <2> QED BY <2>2 DEF BellGood
  <1>9. cache' = [a \in Accounts |-> cache'[a]] /\ bell' = [t \in BrowserTabs |-> bell'[t]] /\ account' \in Accounts
    BY <1>1, <1>2, <1>4
  <1> QED BY <1>3, <1>6, <1>7, <1>8, <1>9 DEF AlarmInv

LEMMA AlarmInvStays == AlarmInv /\ AlarmsNext => AlarmInv'
  <1> SUFFICES ASSUME AlarmInv, AlarmsNext PROVE AlarmInv'
    OBVIOUS
  <1>1. CASE MonthPasses
    BY <1>1, MonthKeeps
  <1>2. ASSUME NEW a \in Accounts, NewAlarm(a) PROVE AlarmInv'
    BY <1>2, NewAlarmKeeps
  <1>3. ASSUME NEW t \in BrowserTabs, Fetch(t) \/ ShowTasks(t) PROVE AlarmInv'
    BY <1>3, FetchKeeps
  <1>4. ASSUME NEW t \in BrowserTabs, FetchArrives(t) PROVE AlarmInv'
    BY <1>4, FetchArrivesKeeps
  <1>5. ASSUME NEW t \in BrowserTabs,
               (\E i \in AlarmIds : MarkAsRead(t, i)) \/ MarkAllAsRead(t) \/ (\E done \in BOOLEAN : MarkLost(t, done))
        PROVE  AlarmInv'
    BY <1>5, MarksKeep
  <1>6. ASSUME NEW t \in BrowserTabs, MarkArrives(t) PROVE AlarmInv'
    BY <1>6, MarkArrivesKeeps
  <1>7. ASSUME NEW t \in BrowserTabs, NEW ids, Dismiss(t, ids) PROVE AlarmInv'
    BY <1>7, DismissKeeps
  <1>8. ASSUME NEW t \in BrowserTabs, NEW a \in Accounts, Switch(t, a) PROVE AlarmInv'
    BY <1>8, SwitchKeeps
  <1> QED BY <1>1, <1>2, <1>3, <1>4, <1>5, <1>6, <1>7, <1>8 DEF AlarmsNext

LEMMA AlarmsRest == AlarmInv /\ UNCHANGED alarmVars => AlarmInv'
  <1> SUFFICES ASSUME AlarmInv, UNCHANGED alarmVars PROVE AlarmInv'
    OBVIOUS
  <1>1. UNCHANGED <<alarm, account, cache, bell, alarmRuns>>
    BY DEF alarmVars
  <1>2. AlarmsGrow /\ AlarmsInOrder'
    BY <1>1, NothingSent
  <1>3. account' \in Accounts /\ alarmRuns' \in [upsets : Nat, crossed : BOOLEAN, newer : BOOLEAN]
    BY <1>1 DEF AlarmInv
  <1> QED BY <1>1, <1>2, <1>3, TabChanges

-----------------------------------------------------------------------------
(* The chatbot: in which conversation an answer is shown.                  *)

\* The messages are of questions asked in conversation i.
SaysOf(said, i) ==
    InOrder(said) /\ \A n \in 1..Len(said) : said[n].q \in 1..Len(asked) /\ asked[said[n].q] = i

\* What was read of the conversations is theirs, and a question knows where it was asked.
CallSays(call) ==
    /\ (call.kind = "load" /\ call.stage = "read") => \A i \in DOMAIN call.said : SaysOf(call.said[i], i)
    /\ call.kind = "ask" => call.q \in 1..Len(asked) /\ asked[call.q] = call.sess

IsWindow(w) ==
    w \in [user : {w.user}, mount : {w.mount}, gen : {w.gen}, said : {w.said}, active : {w.active},
           attached : {w.attached}, loading : {w.loading}, asking : {w.asking}, typing : {w.typing}]

WindowSays == IsWindow(chat) /\ \A i \in DOMAIN chat.said : SaysOf(chat.said[i], i)
ChatsSay == \A i \in 1..Len(chats) : SaysOf(chats[i].said, i)
CallsSay == \A call \in chatCalls : CallSays(call)

SaysInv == ChatInv /\ ChatsSay /\ CallsSay /\ WindowSays

LEMMA NothingSaid == ASSUME NEW i PROVE SaysOf(<< >>, i)
  <1>1. << >> \in Seq({<< >>[r] : r \in DOMAIN << >>})
    BY EmptySeq
  <1>2. 1..Len(<< >>) = {}
    BY EmptySeq
  <1> QED BY <1>1, <1>2 DEF SaysOf, InOrder

LEMMA SaysInvStarts == ChatInit => SaysInv
  <1> SUFFICES ASSUME ChatInit PROVE SaysInv
    OBVIOUS
  <1>1. Len(chats) = 0 /\ chatCalls = {}
    BY EmptySeq DEF ChatInit
  <1>2. IsWindow(chat) /\ chat.said = << >> /\ DOMAIN << >> = {}
    BY EmptySeq DEF ChatInit, ChatWindow, IsWindow
  <1> QED BY <1>1, <1>2, ChatInvStarts DEF SaysInv, ChatsSay, CallsSay, WindowSays

LEMMA SaysInvPromises == SaysInv => AnswerInItsChat
  BY DEF SaysInv, WindowSays, SaysOf, AnswerInItsChat, Shows

\* Questions are asked; where one was asked does not change.
AskedGrow ==
    /\ Len(asked) \in Nat /\ Len(asked') \in Nat /\ 1..Len(asked) \subseteq 1..Len(asked')
    /\ \A q \in 1..Len(asked) : asked'[q] = asked[q]

LEMMA AskedOnly == ChatInv /\ [ChatNext]_chatVars => AskedGrow
  <1> SUFFICES ASSUME ChatInv, [ChatNext]_chatVars PROVE AskedGrow
    OBVIOUS
  <1>1. InOrder(asked)
    BY DEF ChatInv
  <1>2. CASE UNCHANGED asked
    <2>1. Len(asked) \in Nat
      BY <1>1, Appended
    <2> QED BY <1>2, <2>1 DEF AskedGrow
  <1>3. ASSUME NEW i, asked' = Append(asked, i) PROVE AskedGrow
    <2>1. /\ Len(asked) \in Nat /\ Len(asked') = Len(asked) + 1
          /\ \A q \in 1..Len(asked) : asked'[q] = asked[q]
      BY <1>1, <1>3, Appended
    <2> QED BY <2>1 DEF AskedGrow
  <1>4. UNCHANGED asked \/ \E i : asked' = Append(asked, i)
    <2>1. CASE UNCHANGED chatVars
      BY <2>1 DEF chatVars
    <2>2. ASSUME NEW i, SendMessage(i) PROVE asked' = Append(asked, i)
      BY <2>2 DEF SendMessage
    <2>3. CASE ChatNext /\ ~\E i : SendMessage(i)
      <3>1. \A u : LogIn(u) => UNCHANGED asked
        BY DEF LogIn, ChatStore
      <3>2. TokenRenewed \/ GoToPage \/ BeginChat \/ TypingEnds => UNCHANGED asked
        BY DEF TokenRenewed, GoToPage, BeginChat, TypingEnds, ChatStore
      <3>3. \A i : BeginDeletion(i) \/ ChooseChat(i) \/ AttachToChat(i) => UNCHANGED asked
        BY DEF BeginDeletion, ChooseChat, AttachToChat, ChatStore
      <3>4. \A call : LoadMessages(call) \/ ChatCreated(call) \/ CreatedShown(call) \/ ChatDeleted(call) \/ ShowAnswer(call)
                        => UNCHANGED asked
        BY DEF LoadMessages, ChatCreated, CreatedShown, ChatDeleted, ShowAnswer, ChatStore
      <3>5. \A call, first : LoadArrives(call, first) \/ DeletionShown(call, first) => UNCHANGED asked
        BY DEF LoadArrives, DeletionShown, ChatStore
      <3>6. \A call, ok : LoadList(call, ok) \/ ChatReplaced(call, ok) \/ Answered(call, ok) \/ CleanIndex(call, ok)
                            => UNCHANGED asked
        BY DEF LoadList, ChatReplaced, Answered, CleanIndex, ChatStore
      <3>7. \A call, ok, kept : UploadToIndex(call, ok, kept) \/ StoreAnswer(call, ok, kept) => UNCHANGED asked
        BY DEF UploadToIndex, StoreAnswer
      <3> QED BY <2>3, <3>1, <3>2, <3>3, <3>4, <3>5, <3>6, <3>7 DEF ChatNext
    <2> QED BY <2>1, <2>2, <2>3
  <1> QED BY <1>2, <1>3, <1>4

LEMMA SaysStay == ASSUME AskedGrow, NEW said, NEW i, SaysOf(said, i) PROVE SaysOf(said, i)'
  BY DEF AskedGrow, SaysOf, InOrder

\* One more message, of a question asked there.
LEMMA SaysMore ==
    ASSUME NEW said, NEW i, SaysOf(said, i), NEW message, message.q \in 1..Len(asked), asked[message.q] = i
    PROVE  SaysOf(Append(said, message), i)
  <1>1. PICK more : more = Append(said, message)
    OBVIOUS
  <1>2. /\ InOrder(more) /\ Len(said) \in Nat /\ Len(more) = Len(said) + 1
        /\ \A r \in 1..Len(said) : more[r] = said[r]
        /\ more[Len(said) + 1] = message
    BY <1>1, Appended DEF SaysOf
  <1>3. ASSUME NEW n \in 1..Len(more) PROVE more[n].q \in 1..Len(asked) /\ asked[more[n].q] = i
    <2>1. CASE n \in 1..Len(said)
      BY <1>2, <2>1 DEF SaysOf
    <2>2. CASE n = Len(said) + 1
      BY <1>2, <2>2
    <2> QED BY <1>2, <2>1, <2>2
  <1> QED BY <1>1, <1>2, <1>3 DEF SaysOf

LEMMA SaysTwoMore ==
    ASSUME NEW said, NEW i, SaysOf(said, i), NEW a, a.q \in 1..Len(asked), asked[a.q] = i,
           NEW b, b.q \in 1..Len(asked), asked[b.q] = i
    PROVE  SaysOf(said \o <<a, b>>, i)
  <1>1. SaysOf(Append(said, a), i)
    BY SaysMore
  <1>2. PICK more : more = Append(said, a)
    OBVIOUS
  <1>3. SaysOf(Append(more, b), i)
    BY <1>1, <1>2, SaysMore
  <1>4. said \o <<a, b>> = Append(Append(said, a), b)
    <2>1. PICK S : said \in Seq(S)
      BY DEF SaysOf, InOrder
    <2>2. said \in Seq(S \union {a, b}) /\ a \in S \union {a, b} /\ b \in S \union {a, b}
      BY <2>1
    <2> QED BY <2>2
  <1> QED BY <1>2, <1>3, <1>4

\* What a step stores in the conversations: nothing, or the two messages of a question.
LEMMA ChatsSayStays == SaysInv /\ [ChatNext]_chatVars => ChatsSay'
  <1> SUFFICES ASSUME SaysInv, [ChatNext]_chatVars PROVE ChatsSay'
    OBVIOUS
  <1>1. ChatInv /\ AskedGrow /\ ChatsSay /\ CallsSay
    BY AskedOnly DEF SaysInv
  <1>2. CASE NothingStored
    <2> SUFFICES ASSUME NEW i \in 1..Len(chats') PROVE SaysOf(chats[i].said, i)'
      BY DEF ChatsSay
    <2>1. PICK said : said = chats'[i].said
      OBVIOUS
    <2>2. SaysOf(said, i)
      BY <1>1, <1>2, <2>1, NothingSaid DEF NothingStored, ChatsSay
    <2>3. SaysOf(said, i)'
      BY <1>1, <2>2, SaysStay
    <2> QED BY <2>1, <2>3 DEF SaysOf, InOrder
  <1>3. ASSUME NEW call \in chatCalls, NEW ok \in BOOLEAN, NEW kept \in BOOLEAN, StoreAnswer(call, ok, kept)
        PROVE  ChatsSay'
    <2>1. CASE ~kept
      <3>1. UNCHANGED chats
        BY <1>3, <2>1 DEF StoreAnswer
      <3> QED BY <3>1, <1>1, <1>2, NoneStored
    <2>2. CASE kept
      <3>1. call.kind = "ask" /\ call.sess \in 1..Len(chats) /\ UNCHANGED asked
        BY <1>3, <2>2 DEF StoreAnswer, Owned
      <3>2. PICK s, question, answer, row :
               /\ s = call.sess /\ question = Said(call.q, "question") /\ answer = Said(call.q, call.out)
               /\ row = [chats[s] EXCEPT !.said = @ \o <<question, answer>>] /\ chats' = [chats EXCEPT ![s] = row]
        BY <1>3, <2>2 DEF StoreAnswer, StoredPair
      <3>3. Len(chats') = Len(chats) /\ \A i \in 1..Len(chats) : chats'[i] = IF i = s THEN row ELSE chats[i]
        <4>1. InOrder(chats) /\ s \in 1..Len(chats)
          BY <1>1, <3>1, <3>2 DEF ChatInv
        <4>2. /\ Len([chats EXCEPT ![s] = row]) = Len(chats)
              /\ \A i \in 1..Len(chats) : [chats EXCEPT ![s] = row][i] = IF i = s THEN row ELSE chats[i]
          BY <4>1, Replaced
        <4>3. PICK after : after = [chats EXCEPT ![s] = row]
          OBVIOUS
        <4> QED BY <3>2, <4>2, <4>3
      <3>4. question.q = call.q /\ answer.q = call.q /\ call.q \in 1..Len(asked) /\ asked[call.q] = s
        BY <1>1, <3>1, <3>2 DEF Said, CallsSay, CallSays
      <3>5. row.said = chats[s].said \o <<question, answer>>
        <4>1. chats[s] \in [owner : {chats[s].owner}, live : {chats[s].live}, said : {chats[s].said}]
          BY <1>1, <3>1, <3>2 DEF ChatInv
        <4>2. PICK said : said = chats[s].said \o <<question, answer>>
          OBVIOUS
        <4>3. row = [chats[s] EXCEPT !.said = said]
          BY <3>2, <4>2
        <4> QED BY <4>1, <4>2, <4>3
      <3>6. SaysOf(row.said, s)
        <4>1. PICK said : said = chats[s].said
          OBVIOUS
        <4>2. SaysOf(said, s)
          BY <1>1, <3>1, <3>2, <4>1 DEF ChatsSay
        <4>3. SaysOf(said \o <<question, answer>>, s)
          BY <3>4, <4>2, SaysTwoMore
        <4> QED BY <3>5, <4>1, <4>3
      <3>7. ASSUME NEW i \in 1..Len(chats') PROVE SaysOf(chats[i].said, i)'
        <4>1. PICK said : said = chats'[i].said
          OBVIOUS
        <4>2. SaysOf(said, i)
          BY <1>1, <3>3, <3>6, <4>1 DEF ChatsSay
        <4>3. SaysOf(said, i)'
          BY <1>1, <4>2, SaysStay
        <4> QED BY <4>1, <4>3 DEF SaysOf, InOrder
      <3> QED BY <3>7 DEF ChatsSay
    <2> QED BY <2>1, <2>2
  <1>4. CASE UNCHANGED chats
    BY <1>1, <1>2, <1>4, NoneStored
  <1>5. CASE chats' = Append(chats, NewChat)
    BY <1>1, <1>2, <1>5, BegunStored
  <1>6. ASSUME NEW d \in 1..Len(chats), chats' = [chats EXCEPT ![d].live = FALSE] PROVE ChatsSay'
    BY <1>1, <1>2, <1>6, DeletedStored
  <1>7. \/ UNCHANGED chats \/ chats' = Append(chats, NewChat)
        \/ \E d \in 1..Len(chats) : chats' = [chats EXCEPT ![d].live = FALSE]
        \/ \E call \in chatCalls : \E ok, kept \in BOOLEAN : StoreAnswer(call, ok, kept)
    <2>1. CASE UNCHANGED chatVars
      BY <2>1 DEF chatVars
    <2>2. \A u : LogIn(u) => UNCHANGED chats
      BY DEF LogIn, ChatStore
    <2>3. TokenRenewed \/ GoToPage \/ BeginChat \/ TypingEnds => UNCHANGED chats
      BY DEF TokenRenewed, GoToPage, BeginChat, TypingEnds, ChatStore
    <2>4. \A i : BeginDeletion(i) \/ ChooseChat(i) \/ AttachToChat(i) \/ SendMessage(i) => UNCHANGED chats
      BY DEF BeginDeletion, ChooseChat, AttachToChat, SendMessage, ChatStore
    <2>5. \A call : LoadMessages(call) \/ CreatedShown(call) \/ ShowAnswer(call) => UNCHANGED chats
      BY DEF LoadMessages, CreatedShown, ShowAnswer, ChatStore
    <2>6. \A call : ChatCreated(call) => UNCHANGED chats \/ chats' = Append(chats, NewChat)
      BY DEF ChatCreated
    <2>7. \A call : ChatDeleted(call) => UNCHANGED chats \/ \E d \in 1..Len(chats) : chats' = [chats EXCEPT ![d].live = FALSE]
      BY DEF ChatDeleted, Owned
    <2>8. \A call, first : LoadArrives(call, first) \/ DeletionShown(call, first) => UNCHANGED chats
      BY DEF LoadArrives, DeletionShown, ChatStore
    <2>9. \A call, ok : LoadList(call, ok) \/ ChatReplaced(call, ok) => UNCHANGED chats \/ chats' = Append(chats, NewChat)
      BY DEF LoadList, ChatReplaced
    <2>10. \A call, ok : Answered(call, ok) \/ CleanIndex(call, ok) => UNCHANGED chats
      BY DEF Answered, CleanIndex, ChatStore
    <2>11. \A call, ok, kept : UploadToIndex(call, ok, kept) => UNCHANGED chats
      BY DEF UploadToIndex
    <2> QED BY <2>1, <2>2, <2>3, <2>4, <2>5, <2>6, <2>7, <2>8, <2>9, <2>10, <2>11 DEF ChatNext
  <1> QED BY <1>3, <1>4, <1>5, <1>6, <1>7

\* The window shows no more of a conversation than before.
LEMMA ShownStays ==
    ASSUME SaysInv, AskedGrow, IsWindow(chat'),
           \A i \in DOMAIN chat'.said : chat'.said[i] = << >> \/ (i \in DOMAIN chat.said /\ chat'.said[i] = chat.said[i])
    PROVE  WindowSays'
  <1>1. ASSUME NEW i \in DOMAIN chat'.said PROVE SaysOf(chat.said[i], i)'
    <2>1. PICK said : said = chat'.said[i]
      OBVIOUS
    <2>2. SaysOf(said, i)
      BY <2>1, NothingSaid DEF SaysInv, WindowSays
    <2>3. SaysOf(said, i)'
      BY <2>2, SaysStay
    <2> QED BY <2>1, <2>3 DEF SaysOf, InOrder
  <1> QED BY <1>1 DEF WindowSays, IsWindow

LEMMA SameShown == ASSUME SaysInv, AskedGrow, IsWindow(chat'), chat'.said = chat.said PROVE WindowSays'
  BY ShownStays

LEMMA EmptyShown == ASSUME SaysInv, AskedGrow, IsWindow(chat'), chat'.said = << >> PROVE WindowSays'
  <1>1. DOMAIN << >> = {}
    BY EmptySeq
  <1> QED BY <1>1, ShownStays

LEMMA WindowMade ==
    ASSUME NEW user, NEW mount, NEW gen
    PROVE  IsWindow(ChatWindow(user, mount, gen)) /\ ChatWindow(user, mount, gen).said = << >>
  BY DEF IsWindow, ChatWindow

\* Logins and pages.
LEMMA LoginShows ==
    ASSUME SaysInv, AskedGrow, (\E u : LogIn(u)) \/ TokenRenewed \/ GoToPage PROVE WindowSays'
  <1>0. IsWindow(chat)
    BY DEF SaysInv, WindowSays
  <1>1. ASSUME NEW user, NEW gen, chat' = [chat EXCEPT !.user = user, !.gen = gen, !.loading = TRUE] PROVE WindowSays'
    <2>1. IsWindow(chat') /\ chat'.said = chat.said
      BY <1>0, <1>1 DEF IsWindow
    <2> QED BY <2>1, SameShown
  <1>2. ASSUME NEW u, LogIn(u) PROVE WindowSays'
    <2>1. CASE u = NoChatUser
      <3>1. PICK gen, asking, made : /\ made = ChatWindow(u, chat.mount, gen) /\ asking = chat.asking
                                     /\ chat' = [made EXCEPT !.asking = asking]
        BY <1>2, <2>1 DEF LogIn
      <3>2. IsWindow(made) /\ made.said = << >>
        BY <3>1, WindowMade
      <3>3. IsWindow(chat') /\ chat'.said = << >>
        BY <3>1, <3>2 DEF IsWindow
      <3> QED BY <3>3, EmptyShown
    <2>2. CASE u # NoChatUser
      <3>1. PICK gen : gen = chat.gen + 1
        OBVIOUS
      <3>2. chat' = [chat EXCEPT !.user = u, !.gen = gen, !.loading = TRUE]
        BY <1>2, <2>2, <3>1 DEF LogIn
      <3> QED BY <1>1, <3>2
    <2> QED BY <2>1, <2>2
  <1>3. CASE TokenRenewed
    <2>1. PICK gen, user : gen = chat.gen + 1 /\ user = chat.user
      OBVIOUS
    <2>2. chat' = [chat EXCEPT !.gen = gen, !.loading = TRUE]
      BY <1>3, <2>1 DEF TokenRenewed
    <2>3. IsWindow(chat') /\ chat'.said = chat.said
      BY <1>0, <2>2 DEF IsWindow
    <2> QED BY <2>3, SameShown
  <1>4. CASE GoToPage
    <2>1. PICK mount, gen, made : made = ChatWindow(chat.user, mount, gen) /\ chat' = [made EXCEPT !.loading = TRUE]
      BY <1>4 DEF GoToPage
    <2>2. IsWindow(made) /\ made.said = << >>
      BY <2>1, WindowMade
    <2>3. IsWindow(chat') /\ chat'.said = << >>
      BY <2>1, <2>2 DEF IsWindow
    <2> QED BY <2>3, EmptyShown
  <1> QED BY <1>2, <1>3, <1>4

\* What was read, begun or deleted is shown.
LEMMA ListShows ==
    ASSUME SaysInv, AskedGrow, NEW call \in chatCalls, NEW first,
           LoadArrives(call, first) \/ CreatedShown(call) \/ DeletionShown(call, first)
    PROVE  WindowSays'
  <1>0. IsWindow(chat) /\ \A i \in DOMAIN chat.said : SaysOf(chat.said[i], i)
    BY DEF SaysInv, WindowSays
  <1>1. CASE UNCHANGED chat
    BY <1>0, <1>1, SameShown
  <1>2. CASE LoadArrives(call, first)
    <2>1. CASE call.stage = "failed" /\ ~UNCHANGED chat
      <3>1. chat' = [chat EXCEPT !.loading = FALSE]
        BY <1>2, <2>1 DEF LoadArrives
      <3>2. IsWindow(chat') /\ chat'.said = chat.said
        BY <1>0, <3>1 DEF IsWindow
      <3> QED BY <3>2, SameShown
    <2>2. CASE call.stage # "failed" /\ ~UNCHANGED chat
      <3>1. PICK said : said = call.said
        OBVIOUS
      <3>2. chat' = [chat EXCEPT !.said = said, !.active = first, !.attached = {}, !.loading = FALSE]
        BY <1>2, <2>2, <3>1 DEF LoadArrives
      <3>3. IsWindow(chat') /\ chat'.said = said
        BY <1>0, <3>2 DEF IsWindow
      <3>4. \A i \in DOMAIN said : SaysOf(said[i], i)
        BY <1>2, <2>2, <3>1 DEF LoadArrives, SaysInv, CallsSay, CallSays
      <3>5. ASSUME NEW i \in DOMAIN chat'.said PROVE SaysOf(chat.said[i], i)'
        <4>1. PICK shown : shown = said[i]
          OBVIOUS
        <4>2. SaysOf(shown, i)' /\ chat'.said[i] = shown
          BY <3>3, <3>4, <4>1, SaysStay
        <4> QED BY <4>2 DEF SaysOf, InOrder
      <3>6. IsWindow(chat)'
        BY <3>3 DEF IsWindow
      <3> QED BY <3>5, <3>6 DEF WindowSays
    <2> QED BY <1>1, <2>1, <2>2
  <1>3. CASE CreatedShown(call) /\ Here(call)
    <2>1. PICK said, at : said = chat.said /\ at = call.sess
      OBVIOUS
    <2>2. PICK shown : shown = [i \in DOMAIN said \union {at} |-> IF i = at THEN << >> ELSE said[i]]
      OBVIOUS
    <2>3. chat' = [chat EXCEPT !.said = shown, !.active = at, !.typing = FALSE]
      BY <1>3, <2>1, <2>2 DEF CreatedShown, Shows
    <2>4. IsWindow(chat') /\ chat'.said = shown
      BY <1>0, <2>3 DEF IsWindow
    <2> QED BY <2>1, <2>2, <2>4, ShownStays
  <1>4. CASE DeletionShown(call, first) /\ Here(call)
    <2>1. PICK said, left : said = chat.said /\ left = Shows \ {call.sess}
      OBVIOUS
    <2>2. CASE left = {} /\ call.q # 0
      <3>1. PICK shown, attached, q : /\ shown = [i \in {q} |-> << >>]
                                      /\ chat' = [chat EXCEPT !.said = shown, !.active = q, !.attached = attached]
        BY <1>4, <2>1, <2>2 DEF DeletionShown
      <3>2. IsWindow(chat') /\ chat'.said = shown
        BY <1>0, <3>1 DEF IsWindow
      <3> QED BY <3>1, <3>2, ShownStays
    <2>3. CASE ~(left = {} /\ call.q # 0)
      <3>1. PICK shown, attached, active, typing :
               /\ shown = [i \in left |-> said[i]] /\ attached = chat.attached \ {call.sess}
               /\ active = (IF call.front THEN first ELSE chat.active) /\ typing = (chat.typing /\ ~call.front)
        OBVIOUS
      <3>2. chat' = [chat EXCEPT !.said = shown, !.attached = attached, !.active = active, !.typing = typing]
        BY <1>4, <2>1, <2>3, <3>1 DEF DeletionShown
      <3>3. IsWindow(chat') /\ chat'.said = shown
        BY <1>0, <3>2 DEF IsWindow
      <3> QED BY <2>1, <3>1, <3>3, ShownStays DEF Shows
    <2> QED BY <2>2, <2>3
  <1>5. CASE (CreatedShown(call) \/ DeletionShown(call, first)) /\ ~Here(call)
    BY <1>1, <1>5 DEF CreatedShown, DeletionShown
  <1> QED BY <1>2, <1>3, <1>4, <1>5

\* A question, and its answer, are added to the conversation asked in.
LEMMA MessageShows ==
    ASSUME SaysInv, AskedGrow, NEW i \in Shows, NEW q, q \in 1..Len(asked'), asked'[q] = i, NEW as,
           IsWindow(chat'),
           \A j \in DOMAIN chat'.said : \/ j \in Shows /\ chat'.said[j] = chat.said[j]
                                        \/ j = i /\ chat'.said[j] = Append(chat.said[j], Said(q, as))
    PROVE  WindowSays'
  <1>1. ASSUME NEW j \in DOMAIN chat'.said PROVE SaysOf(chat.said[j], j)'
    <2>1. PICK said, old, message : said = chat'.said[j] /\ old = chat.said[j] /\ message = Said(q, as)
      OBVIOUS
    <2>2. SaysOf(old, j)'
      <3>1. SaysOf(old, j)
        BY <2>1 DEF SaysInv, WindowSays, Shows
      <3> QED BY <3>1, SaysStay
    <2>3. CASE said = old
      BY <2>1, <2>2, <2>3 DEF SaysOf, InOrder
    <2>4. CASE j = i /\ said = Append(old, message)
      <3>1. message.q = q
        BY <2>1 DEF Said
      <3>2. /\ InOrder(said) /\ Len(old) \in Nat /\ Len(said) = Len(old) + 1
            /\ \A r \in 1..Len(old) : said[r] = old[r]
            /\ said[Len(old) + 1] = message
        <4>1. InOrder(old)
          BY <2>2 DEF SaysOf, InOrder
        <4> QED BY <2>4, <4>1, Appended
      <3>3. ASSUME NEW n \in 1..Len(said) PROVE said[n].q \in 1..Len(asked') /\ asked'[said[n].q] = j
        <4>1. CASE n \in 1..Len(old)
          BY <3>2, <4>1, <2>2 DEF SaysOf
        <4>2. CASE n = Len(old) + 1
          BY <3>1, <3>2, <4>2, <2>4
        <4> QED BY <3>2, <4>1, <4>2
      <3> QED BY <2>1, <3>2, <3>3 DEF SaysOf, InOrder
    <2> QED BY <2>1, <2>3, <2>4
  <1> QED BY <1>1 DEF WindowSays, IsWindow

LEMMA SendShows == ASSUME SaysInv, AskedGrow, NEW i, SendMessage(i) PROVE WindowSays'
  <1>0. IsWindow(chat)
    BY DEF SaysInv, WindowSays
  <1>1. PICK q, said, message : q = Len(asked) + 1 /\ said = chat.said /\ message = Said(q, "question")
    OBVIOUS
  <1>2. /\ asked' = Append(asked, i) /\ i \in Shows
        /\ chat' = [chat EXCEPT !.said[i] = Append(@, message), !.asking = TRUE]
    BY <1>1 DEF SendMessage, ActiveChat
  <1>3. q \in 1..Len(asked') /\ asked'[q] = i
    BY <1>1, <1>2, Appended DEF SaysInv, ChatInv
  <1>4. PICK shown : shown = [said EXCEPT ![i] = Append(said[i], message)]
    OBVIOUS
  <1>5. chat' = [chat EXCEPT !.said = shown, !.asking = TRUE]
    BY <1>0, <1>1, <1>2, <1>4 DEF IsWindow
  <1>6. IsWindow(chat') /\ chat'.said = shown
    BY <1>0, <1>5 DEF IsWindow
  <1>7. \A j \in DOMAIN shown : \/ j \in Shows /\ shown[j] = chat.said[j]
                                \/ j = i /\ shown[j] = Append(chat.said[j], message)
    BY <1>1, <1>4 DEF Shows
  <1> QED BY <1>1, <1>2, <1>3, <1>6, <1>7, MessageShows

LEMMA AnswerShows == ASSUME SaysInv, AskedGrow, NEW call \in chatCalls, ShowAnswer(call) PROVE WindowSays'
  <1>0. IsWindow(chat)
    BY DEF SaysInv, WindowSays
  <1>1. CASE ~Here(call)
    BY <1>0, <1>1, SameShown DEF ShowAnswer
  <1>2. CASE Here(call)
    <2>1. PICK i, q, out, said, message, asking, typing :
             /\ i = call.sess /\ q = call.q /\ out = call.out /\ said = chat.said /\ message = Said(q, out)
             /\ asking = Cleans(call) /\ typing = (i \in Shows)
      OBVIOUS
    <2>2. PICK shown : shown = [j \in Shows |-> IF j = i THEN Append(said[j], message) ELSE said[j]]
      OBVIOUS
    <2>3. chat' = [chat EXCEPT !.said = shown, !.typing = typing, !.asking = asking]
      BY <1>2, <2>1, <2>2 DEF ShowAnswer, AnsweredIn
    <2>4. IsWindow(chat') /\ chat'.said = shown
      BY <1>0, <2>3 DEF IsWindow
    <2>5. q \in 1..Len(asked) /\ asked[q] = i /\ UNCHANGED asked
      BY <2>1 DEF ShowAnswer, ChatStore, SaysInv, CallsSay, CallSays
    <2>6. CASE i \notin Shows
      <3>1. \A j \in DOMAIN shown : j \in DOMAIN chat.said /\ shown[j] = chat.said[j]
        BY <2>1, <2>2, <2>6 DEF Shows
      <3> QED BY <2>4, <3>1, ShownStays
    <2>7. CASE i \in Shows
      <3>1. \A j \in DOMAIN shown : \/ j \in Shows /\ shown[j] = chat.said[j]
                                    \/ j = i /\ shown[j] = Append(chat.said[j], message)
        BY <2>1, <2>2
      <3> QED BY <2>1, <2>4, <2>5, <2>7, <3>1, MessageShows
    <2> QED BY <2>6, <2>7
  <1> QED BY <1>1, <1>2

LEMMA WindowSaysStays == SaysInv /\ [ChatNext]_chatVars => WindowSays'
  <1> SUFFICES ASSUME SaysInv, [ChatNext]_chatVars PROVE WindowSays'
    OBVIOUS
  <1>0. AskedGrow /\ IsWindow(chat)
    BY AskedOnly DEF SaysInv, WindowSays
  <1>1. CASE UNCHANGED chat
    BY <1>0, <1>1, SameShown
  <1>2. CASE (\E u : LogIn(u)) \/ TokenRenewed \/ GoToPage
    BY <1>0, <1>2, LoginShows
  <1>3. ASSUME NEW call \in chatCalls, NEW first,
               LoadArrives(call, first) \/ CreatedShown(call) \/ DeletionShown(call, first)
        PROVE  WindowSays'
    BY <1>0, <1>3, ListShows
  <1>4. ASSUME NEW i, SendMessage(i) PROVE WindowSays'
    BY <1>0, <1>4, SendShows
  <1>5. ASSUME NEW call \in chatCalls, ShowAnswer(call) PROVE WindowSays'
    BY <1>0, <1>5, AnswerShows
  <1>6. CASE TypingEnds
    <2>1. chat' = [chat EXCEPT !.typing = FALSE]
      BY <1>6 DEF TypingEnds
    <2>2. IsWindow(chat') /\ chat'.said = chat.said
      BY <1>0, <2>1 DEF IsWindow
    <2> QED BY <1>0, <2>2, SameShown
  <1>7. ASSUME NEW i, ChooseChat(i) \/ AttachToChat(i) PROVE WindowSays'
    <2>1. PICK attached : attached = IF i \in chat.attached THEN chat.attached \ {i} ELSE chat.attached \union {i}
      OBVIOUS
    <2>2. chat' = [chat EXCEPT !.active = i] \/ chat' = [chat EXCEPT !.attached = attached]
      BY <1>7, <2>1 DEF ChooseChat, AttachToChat
    <2>3. IsWindow(chat') /\ chat'.said = chat.said
      BY <1>0, <2>2 DEF IsWindow
    <2> QED BY <1>0, <2>3, SameShown
  <1>8. ASSUME NEW call, NEW ok, CleanIndex(call, ok) PROVE WindowSays'
    <2>1. UNCHANGED chat \/ chat' = [chat EXCEPT !.asking = FALSE]
      BY <1>8 DEF CleanIndex
    <2>2. IsWindow(chat') /\ chat'.said = chat.said
      BY <1>0, <2>1 DEF IsWindow
    <2> QED BY <1>0, <2>2, SameShown
  <1>9. CASE UNCHANGED chatVars
    BY <1>1, <1>9 DEF chatVars
  <1>10. /\ BeginChat => UNCHANGED chat
         /\ \A i : BeginDeletion(i) => UNCHANGED chat
         /\ \A call : LoadMessages(call) \/ ChatCreated(call) \/ ChatDeleted(call) => UNCHANGED chat
         /\ \A call, ok : LoadList(call, ok) \/ ChatReplaced(call, ok) \/ Answered(call, ok) => UNCHANGED chat
         /\ \A call, ok, kept : UploadToIndex(call, ok, kept) \/ StoreAnswer(call, ok, kept) => UNCHANGED chat
    BY DEF BeginChat, BeginDeletion, LoadMessages, ChatCreated, ChatDeleted, LoadList, ChatReplaced, Answered,
           UploadToIndex, StoreAnswer
  <1> QED BY <1>1, <1>2, <1>3, <1>4, <1>5, <1>6, <1>7, <1>8, <1>9, <1>10 DEF ChatNext

\* Of what a step leaves under way, each call was there, or knows where its question was asked and
\* has read only what is stored.
LEMMA CallsSayStay ==
    ASSUME SaysInv, AskedGrow, \A c \in chatCalls' : c \in chatCalls \/ CallSays(c)' PROVE CallsSay'
  <1> SUFFICES ASSUME NEW c \in chatCalls' PROVE CallSays(c)'
    BY DEF CallsSay
  <1>1. CASE c \in chatCalls
    <2>1. CallSays(c)
      BY <1>1 DEF SaysInv, CallsSay
    <2>2. c.kind = "ask" => c.q \in 1..Len(asked') /\ asked'[c.q] = c.sess
      BY <2>1 DEF CallSays, AskedGrow
    <2>3. ASSUME c.kind = "load" /\ c.stage = "read", NEW i \in DOMAIN c.said PROVE SaysOf(c.said[i], i)'
      BY <2>1, <2>3, SaysStay DEF CallSays
    <2> QED BY <2>2, <2>3 DEF CallSays
  <1> QED BY <1>1

\* A call that has read nothing and asks nothing.
LEMMA QuietCall == ASSUME NEW c, c.kind # "ask", c.kind = "load" => c.stage # "read" PROVE CallSays(c)'
  BY DEF CallSays

LEMMA CallBegun ==
    ASSUME SaysInv, AskedGrow, NEW c, chatCalls' \subseteq chatCalls \union {c}, c.kind # "ask", c.kind = "load" => c.stage # "read"
    PROVE  CallsSay'
  BY QuietCall, CallsSayStay

LEMMA CallWent ==
    ASSUME SaysInv, AskedGrow, NEW call \in chatCalls, NEW next, ChatGoesOn(call, next),
           \/ next.kind # "ask" /\ (next.kind = "load" => next.stage # "read")
           \/ next.kind = "ask" /\ call.kind = "ask" /\ next.q = call.q /\ next.sess = call.sess
    PROVE  CallsSay'
  <1>1. CASE next.kind # "ask" /\ (next.kind = "load" => next.stage # "read")
    <2>1. chatCalls' \subseteq chatCalls \union {next}
      BY DEF ChatGoesOn
    <2> QED BY <1>1, <2>1, CallBegun
  <1>2. CASE next.kind = "ask" /\ call.kind = "ask" /\ next.q = call.q /\ next.sess = call.sess
    <2>1. next.q \in 1..Len(asked) /\ asked[next.q] = next.sess
      BY <1>2 DEF SaysInv, CallsSay, CallSays
    <2>2. CallSays(next)'
      BY <1>2, <2>1 DEF CallSays, AskedGrow
    <2> QED BY <2>2, CallsSayStay DEF ChatGoesOn
  <1> QED BY <1>1, <1>2

LEMMA CallEnded == ASSUME SaysInv, AskedGrow, NEW call, ChatEnds(call) PROVE CallsSay'
  BY CallsSayStay DEF ChatEnds

LEMMA ReadingSays ==
    ASSUME SaysInv, AskedGrow, NEW call \in chatCalls, NEW ok \in BOOLEAN, LoadList(call, ok) \/ LoadMessages(call) PROVE CallsSay'
  <1>1. call.kind = "load" /\ call \in CallShape(call)
    BY DEF LoadList, LoadMessages, SaysInv, ChatInv
  <1>2. CASE LoadList(call, ok)
    <2>1. PICK next, list : ChatGoesOn(call, next) /\ (\/ next = [call EXCEPT !.stage = "listed", !.list = list]
                                                     \/ next = [call EXCEPT !.stage = "failed"])
      BY <1>2 DEF LoadList
    <2>2. next.kind = "load" /\ next.stage # "read"
      BY <1>1, <2>1 DEF CallShape
    <2> QED BY <2>1, <2>2, CallWent
  <1>3. CASE LoadMessages(call) /\ ~(call.list \subseteq Owned)
    <2>1. PICK next : ChatGoesOn(call, next) /\ next = [call EXCEPT !.stage = "failed"]
      BY <1>3 DEF LoadMessages
    <2>2. next.kind = "load" /\ next.stage # "read"
      BY <1>1, <2>1 DEF CallShape
    <2> QED BY <2>1, <2>2, CallWent
  <1>4. CASE LoadMessages(call) /\ call.list \subseteq Owned
    <2>1. PICK list, said, next : /\ list = call.list /\ said = [i \in list |-> chats[i].said]
                                  /\ ChatGoesOn(call, next) /\ next = [call EXCEPT !.stage = "read", !.said = said]
      BY <1>4 DEF LoadMessages
    <2>2. next.kind = "load" /\ next.said = said
      BY <1>1, <2>1 DEF CallShape
    <2>3. \A i \in DOMAIN said : SaysOf(said[i], i)
      BY <1>4, <2>1 DEF Owned, SaysInv, ChatsSay
    <2>4. ASSUME NEW i \in DOMAIN next.said PROVE SaysOf(next.said[i], i)'
      <3>1. SaysOf(said[i], i)
        BY <2>2, <2>3, <2>4
      <3>2. SaysOf(said[i], i)'
        BY <3>1, SaysStay
      <3> QED BY <2>2, <3>2
    <2>5. CallSays(next)'
      BY <2>2, <2>4 DEF CallSays
    <2> QED BY <2>1, <2>5, CallsSayStay DEF ChatGoesOn
  <1> QED BY <1>2, <1>3, <1>4

LEMMA DeletingSays ==
    ASSUME SaysInv, AskedGrow, NEW call \in chatCalls, NEW ok \in BOOLEAN, ChatCreated(call) \/ ChatDeleted(call) \/ ChatReplaced(call, ok)
    PROVE  CallsSay'
  <1>1. call.kind \in {"create", "delete"} /\ call \in CallShape(call)
    BY DEF ChatCreated, ChatDeleted, ChatReplaced, SaysInv, ChatInv
  <1>2. CASE ChatEnds(call)
    BY <1>2, CallEnded
  <1>3. ASSUME NEW next, NEW stage, NEW n, ChatGoesOn(call, next),
               \/ next = [call EXCEPT !.stage = stage]
               \/ next = [call EXCEPT !.stage = stage, !.sess = n]
               \/ next = [call EXCEPT !.stage = stage, !.q = n]
        PROVE  CallsSay'
    <2>1. next.kind = call.kind
      BY <1>1, <1>3 DEF CallShape
    <2> QED BY <1>1, <1>3, <2>1, CallWent
  <1>4. CASE ChatCreated(call)
    BY <1>2, <1>3, <1>4 DEF ChatCreated
  <1>5. CASE ChatDeleted(call)
    BY <1>2, <1>3, <1>5 DEF ChatDeleted
  <1>6. CASE ChatReplaced(call, ok)
    BY <1>2, <1>3, <1>6 DEF ChatReplaced
  <1> QED BY <1>4, <1>5, <1>6

LEMMA AskingSays ==
    ASSUME SaysInv, AskedGrow, NEW call \in chatCalls, NEW ok \in BOOLEAN, NEW kept \in BOOLEAN,
           UploadToIndex(call, ok, kept) \/ Answered(call, ok) \/ StoreAnswer(call, ok, kept) \/ ShowAnswer(call) \/ CleanIndex(call, ok)
    PROVE  CallsSay'
  <1>1. call.kind = "ask" /\ call \in CallShape(call)
    BY DEF UploadToIndex, Answered, StoreAnswer, ShowAnswer, CleanIndex, SaysInv, ChatInv
  <1>2. CASE ChatEnds(call)
    BY <1>2, CallEnded
  <1>3. ASSUME NEW next, ChatGoesOn(call, next), NEW stage, NEW out,
               \/ next = [call EXCEPT !.stage = stage]
               \/ next = [call EXCEPT !.stage = stage, !.up = TRUE]
               \/ next = [call EXCEPT !.stage = stage, !.out = out]
        PROVE  CallsSay'
    <2>1. next.kind = "ask" /\ next.q = call.q /\ next.sess = call.sess
      BY <1>1, <1>3 DEF CallShape
    <2> QED BY <1>1, <1>3, <2>1, CallWent
  <1>4. CASE UploadToIndex(call, ok, kept)
    BY <1>3, <1>4 DEF UploadToIndex
  <1>5. CASE Answered(call, ok)
    BY <1>3, <1>5 DEF Answered
  <1>6. CASE StoreAnswer(call, ok, kept)
    BY <1>3, <1>6 DEF StoreAnswer, AfterStore
  <1>7. CASE ShowAnswer(call)
    BY <1>2, <1>3, <1>7 DEF ShowAnswer
  <1>8. CASE CleanIndex(call, ok)
    BY <1>2, <1>8 DEF CleanIndex
  <1> QED BY <1>4, <1>5, <1>6, <1>7, <1>8

LEMMA BegunSays ==
    ASSUME SaysInv, AskedGrow, (\E u : LogIn(u)) \/ TokenRenewed \/ GoToPage \/ BeginChat \/ \E i : BeginDeletion(i) PROVE CallsSay'
  <1>1. PICK gen, load : load = LoadCall(gen) /\ gen = chat.gen + 1
    OBVIOUS
  <1>2. load.kind = "load" /\ load.stage # "read"
    BY <1>1 DEF LoadCall, ChatCall
  <1>3. CASE (\E u : LogIn(u)) \/ TokenRenewed \/ GoToPage
    <2>1. chatCalls' \subseteq chatCalls \union {load}
      BY <1>1, <1>3 DEF LogIn, TokenRenewed, GoToPage
    <2> QED BY <1>2, <2>1, CallBegun
  <1>4. CASE BeginChat
    <2>1. PICK call : call = ChatCall("create", chat.mount, 0, 0)
      OBVIOUS
    <2>2. call.kind = "create" /\ chatCalls' \subseteq chatCalls \union {call}
      BY <1>4, <2>1, CallsShaped DEF BeginChat
    <2> QED BY <2>2, CallBegun
  <1>5. ASSUME NEW i, BeginDeletion(i) PROVE CallsSay'
    <2>1. PICK begun, last, front, call :
             /\ begun = ChatCall("delete", chat.mount, i, 0) /\ call = [begun EXCEPT !.last = last, !.front = front]
             /\ chatCalls' = chatCalls \union {call}
      BY <1>5 DEF BeginDeletion
    <2>2. begun \in CallShape(begun) /\ begun.kind = "delete"
      BY <2>1, CallsShaped
    <2>3. call.kind = "delete"
      BY <2>1, <2>2 DEF CallShape
    <2> QED BY <2>1, <2>3, CallBegun
  <1> QED BY <1>3, <1>4, <1>5

LEMMA SendSays == ASSUME SaysInv, AskedGrow, NEW i, SendMessage(i) PROVE CallsSay'
  <1>1. PICK q, stage, begun, call :
           /\ q = Len(asked) + 1 /\ begun = ChatCall("ask", chat.mount, i, q) /\ call = [begun EXCEPT !.stage = stage]
           /\ chatCalls' = chatCalls \union {call}
    BY DEF SendMessage
  <1>2. begun \in CallShape(begun) /\ begun.kind = "ask" /\ begun.q = q /\ begun.sess = i
    BY <1>1, CallsShaped DEF ChatCall
  <1>3. call.kind = "ask" /\ call.q = q /\ call.sess = i
    BY <1>1, <1>2 DEF CallShape
  <1>4. asked' = Append(asked, i)
    BY DEF SendMessage
  <1>5. q \in 1..Len(asked') /\ asked'[q] = i
    BY <1>1, <1>4, Appended DEF SaysInv, ChatInv
  <1>6. CallSays(call)'
    BY <1>3, <1>5 DEF CallSays
  <1> QED BY <1>1, <1>6, CallsSayStay

LEMMA CallsSayNext == SaysInv /\ [ChatNext]_chatVars => CallsSay'
  <1> SUFFICES ASSUME SaysInv, [ChatNext]_chatVars PROVE CallsSay'
    OBVIOUS
  <1>0. AskedGrow
    BY AskedOnly DEF SaysInv
  <1>1. CASE UNCHANGED chatCalls
    BY <1>0, <1>1, CallsSayStay
  <1>2. CASE (\E u : LogIn(u)) \/ TokenRenewed \/ GoToPage \/ BeginChat \/ \E i : BeginDeletion(i)
    BY <1>0, <1>2, BegunSays
  <1>3. ASSUME NEW i, SendMessage(i) PROVE CallsSay'
    BY <1>0, <1>3, SendSays
  <1>4. ASSUME NEW call \in chatCalls, NEW ok \in BOOLEAN, LoadList(call, ok) \/ LoadMessages(call) PROVE CallsSay'
    BY <1>0, <1>4, ReadingSays
  <1>5. ASSUME NEW call \in chatCalls, NEW ok \in BOOLEAN, ChatCreated(call) \/ ChatDeleted(call) \/ ChatReplaced(call, ok) PROVE CallsSay'
    BY <1>0, <1>5, DeletingSays
  <1>6. ASSUME NEW call \in chatCalls, NEW ok \in BOOLEAN, NEW kept \in BOOLEAN,
               UploadToIndex(call, ok, kept) \/ Answered(call, ok) \/ StoreAnswer(call, ok, kept) \/ ShowAnswer(call) \/ CleanIndex(call, ok)
        PROVE  CallsSay'
    BY <1>0, <1>6, AskingSays
  <1>7. ASSUME NEW call, NEW first, LoadArrives(call, first) \/ CreatedShown(call) \/ DeletionShown(call, first) PROVE CallsSay'
    <2>1. ChatEnds(call)
      BY <1>7 DEF LoadArrives, CreatedShown, DeletionShown
    <2> QED BY <1>0, <2>1, CallEnded
  <1>8. /\ TypingEnds \/ UNCHANGED chatVars => UNCHANGED chatCalls
        /\ \A i : ChooseChat(i) \/ AttachToChat(i) => UNCHANGED chatCalls
    BY DEF TypingEnds, ChooseChat, AttachToChat, chatVars
  <1> QED BY <1>1, <1>2, <1>3, <1>4, <1>5, <1>6, <1>7, <1>8 DEF ChatNext

LEMMA SaysInvStays == SaysInv /\ ChatNext => SaysInv'
  BY ChatInvStays, ChatsSayStays, CallsSayNext, WindowSaysStays DEF SaysInv

-----------------------------------------------------------------------------
(* Maintenance contracts: whose file is whose.                             *)

\* Every set of numbers that is not empty has a least element.
LEMMA LeastNumber == ASSUME NEW T \in SUBSET Nat, T # {} PROVE \E n \in T : \A m \in T : n <= m
  <1> DEFINE below == {0..n : n \in T}
             inside == StrictSubsetOrdering(Nat)
  <1>1. IsWellFoundedOn(inside, FiniteSubsetsOf(Nat))
    BY FS_StrictSubsetOrderingWellFounded
  <1>2. below \subseteq FiniteSubsetsOf(Nat) /\ below # {}
    <2>1. ASSUME NEW n \in T PROVE 0..n \in FiniteSubsetsOf(Nat)
      <3>1. 0..n \in SUBSET Nat /\ IsFiniteSet(0..n)
        BY FS_Interval
      <3> QED BY <3>1 DEF FiniteSubsetsOf
    <2> QED BY <2>1
  <1> HIDE DEF inside
  <1>3. PICK least \in below : \A other_ \in below : <<other_, least>> \notin inside
    <2> HIDE DEF below
    <2> QED BY <1>1, <1>2, WFMin
  <1>4. PICK n \in T : least = 0..n
    BY <1>3
  <1>5. ASSUME NEW m \in T, m < n PROVE FALSE
    <2>1. 0..m \subseteq 0..n /\ 0..m # 0..n /\ 0..m \in SUBSET Nat /\ 0..n \in SUBSET Nat
      <3>1. n \in 0..n /\ n \notin 0..m
        BY <1>5
      <3> QED BY <1>5, <3>1
    <2>2. <<0..m, 0..n>> \in inside
      BY <2>1 DEF inside, StrictSubsetOrdering
    <2> QED BY <2>2, <1>3, <1>4
  <1> QED BY <1>5

MntPeople == MntStaff \union {NoMntUser}

ContractShape ==
    [live : BOOLEAN, type : {"FREE", "PAID"}, project : Projects \union {NoMntProject}, rep : MntPeople,
     manager : MntPeople, file : Nat, text : Int]

MntPageShape(pg) ==
    [on : {"closed", "new", "edit", "detail"}, of : Nat, seen : ContractShape, users : BOOLEAN, fields : ContractShape,
     attach : BOOLEAN, picked : BOOLEAN, busy : BOOLEAN, renewed : BOOLEAN, shown : {pg.shown}, reads : {pg.reads}]

\* A contract that is sent has a representative and a project.
SentWhole(c) == c.rep # NoMntUser /\ c.project # NoMntProject

MntPageGood(pg) ==
    /\ pg \in MntPageShape(pg)
    /\ pg.on \in {"edit", "detail"} => pg.of \in 1..Len(contracts)
    /\ pg.on = "edit" => pg.fields.project # NoMntProject /\ pg.fields.live
    /\ pg.on = "new" => pg.fields.live
    /\ (pg.on = "new" /\ pg.fields.type = "FREE") => ~pg.attach /\ pg.fields.file = 0
    /\ pg.busy => SentWhole(pg.fields)

\* The files a form may send.
Held(pg) ==
    IF pg.on = "edit" THEN {pg.fields.file, pg.seen.file} \ {0} ELSE
    IF pg.on = "new" THEN {pg.fields.file} \ {0} ELSE {}

EditsIt(pg, i) == pg.on = "edit" /\ pg.of = i

\* A file is of one contract, or of one form that registers one; forms that edit one contract share
\* what it has had.
FilesApart ==
    /\ \A i, j \in 1..Len(contracts) : (i # j /\ contracts[i].file = contracts[j].file) => contracts[i].file = 0
    /\ \A p \in MntPages : \A i \in 1..Len(contracts) : contracts[i].file \in Held(mntPage[p]) => EditsIt(mntPage[p], i)
    /\ \A p, q \in MntPages : (p # q /\ \E f \in Held(mntPage[p]) : f \in Held(mntPage[q])) =>
         mntPage[p].on = "edit" /\ EditsIt(mntPage[q], mntPage[p].of)

FilesUploaded ==
    /\ mntUploads \in Nat /\ mntFiles \subseteq 1..mntUploads
    /\ \A i \in 1..Len(contracts) : contracts[i].file <= mntUploads
    /\ \A p \in MntPages : Held(mntPage[p]) \subseteq 1..mntUploads

ContractsGood ==
    /\ InOrder(contracts) /\ InOrder(mntPast) /\ Len(mntPast) = Len(contracts)
    /\ \A i \in 1..Len(contracts) :
         /\ contracts[i] \in ContractShape /\ SentWhole(contracts[i]) /\ InOrder(mntPast[i])
         /\ contracts[i].type = "FREE" /\ mntPast[i] = << >> => contracts[i].file = 0

\* The file of a form that registers a contract is there: nobody else could have replaced it.
NewFilesLive == \A p \in MntPages : mntPage[p].on = "new" => Held(mntPage[p]) \subseteq mntFiles

MntInv ==
    /\ ContractsGood /\ FilesUploaded /\ FilesApart /\ NewFilesLive /\ ContractFileLives
    /\ mntPage = [p \in MntPages |-> mntPage[p]] /\ \A p \in MntPages : MntPageGood(mntPage[p])

LEMMA NoPageGood == MntPageGood(NoMntPage) /\ Held(NoMntPage) = {} /\ NoContract \in ContractShape /\ NoContract.file = 0
  <1>1. NoContract \in ContractShape /\ NoContract.file = 0
    BY DEF NoContract, Contract, ContractShape, MntPeople
  <1>2. PICK blank : blank = NoContract
    OBVIOUS
  <1>3. NoMntPage = [on |-> "closed", of |-> 0, seen |-> blank, users |-> FALSE, fields |-> blank, attach |-> FALSE,
                     picked |-> FALSE, busy |-> FALSE, renewed |-> FALSE, shown |-> 0, reads |-> << >>]
    BY <1>2 DEF NoMntPage
  <1>4. PICK page_ : page_ = NoMntPage
    OBVIOUS
  <1>5. page_ \in MntPageShape(page_) /\ page_.on = "closed" /\ ~page_.busy
    BY <1>1, <1>2, <1>3, <1>4 DEF MntPageShape
  <1> QED BY <1>1, <1>4, <1>5 DEF MntPageGood, Held

LEMMA MntInvStarts == MaintenanceInit => MntInv
  <1> SUFFICES ASSUME MaintenanceInit PROVE MntInv
    OBVIOUS
  <1>1. Len(contracts) = 0 /\ Len(mntPast) = 0 /\ InOrder(contracts) /\ InOrder(mntPast) /\ mntFiles = {} /\ mntUploads = 0
    BY EmptySeq DEF MaintenanceInit, InOrder
  <1>2. mntPage = [p \in MntPages |-> NoMntPage]
    BY DEF MaintenanceInit
  <1>3. \A p \in MntPages : MntPageGood(mntPage[p]) /\ Held(mntPage[p]) = {}
    BY <1>2, NoPageGood
  <1> QED BY <1>1, <1>2, <1>3 DEF MntInv, ContractsGood, FilesUploaded, FilesApart, NewFilesLive, ContractFileLives

LEMMA MntInvPromises == MntInv => ContractFileLives /\ MaintenanceTypeOK
  <1> SUFFICES ASSUME MntInv PROVE MaintenanceTypeOK
    BY DEF MntInv
  <1>1. ASSUME NEW i \in 1..Len(contracts)
        PROVE  /\ contracts[i].project \in Projects /\ contracts[i].rep \in MntStaff
               /\ contracts[i].manager \in MntStaff \union {NoMntUser}
               /\ (contracts[i].type = "FREE" /\ mntPast[i] = << >>) => contracts[i].file = 0
    BY DEF MntInv, ContractsGood, ContractShape, SentWhole, MntPeople
  <1> QED BY <1>1 DEF MaintenanceTypeOK, MntInv, ContractsGood, FilesUploaded

\* A person found by name is one of the users.
LEMMA CalledIsUser == ASSUME NEW name PROVE MntCalled(name) \in MntPeople
  <1> DEFINE called == {i \in 1..Len(MntUsers) : MntName[MntUsers[i]] = name}
  <1>1. CASE called = {}
    BY <1>1 DEF MntCalled, MntPeople
  <1>2. CASE called # {}
    <2>1. called \in SUBSET Nat
      OBVIOUS
    <2>2. \E i \in called : \A j \in called : i <= j
      <3> HIDE DEF called
      <3> QED BY <1>2, <2>1, LeastNumber
    <2>3. PICK first : first = CHOOSE i \in called : \A j \in called : i <= j
      OBVIOUS
    <2>4. first \in called
      <3> HIDE DEF called
      <3> QED BY <2>2, <2>3
    <2>5. MntCalled(name) = MntUsers[first]
      BY <1>2, <2>3 DEF MntCalled
    <2> QED BY <2>4, <2>5 DEF MntPeople, MntStaff
  <1> QED BY <1>1, <1>2

LEMMA ContractsStay == ContractsGood /\ UNCHANGED <<contracts, mntPast>> => ContractsGood'
  <1> SUFFICES ASSUME ContractsGood, UNCHANGED <<contracts, mntPast>> PROVE ContractsGood'
    OBVIOUS
  <1>1. \A i \in 1..Len(contracts') : InOrder(mntPast'[i])
    BY DEF ContractsGood
  <1>2. \A i \in 1..Len(contracts') : InOrder(mntPast[i])'
    BY <1>1 DEF InOrder
  <1>3. InOrder(contracts)' /\ InOrder(mntPast)'
    BY DEF ContractsGood, InOrder
  <1> QED BY <1>2, <1>3 DEF ContractsGood

\* A page turns and holds no file it did not hold, or is opened on a contract.
LEMMA PageTurns ==
    ASSUME MntInv, StoreSame, NEW p \in MntPages, NEW pg, Turn(p, pg), MntPageGood(pg),
           \/ Held(pg) = {}
           \/ Held(pg) \subseteq Held(mntPage[p]) /\ pg.on = mntPage[p].on /\ pg.of = mntPage[p].of
           \/ pg.on = "edit" /\ pg.of \in 1..Len(contracts) /\ Held(pg) \subseteq {contracts[pg.of].file}
    PROVE  MntInv'
  <1>1. UNCHANGED <<contracts, mntPast, mntFiles, mntUploads>> /\ mntPage' = [mntPage EXCEPT ![p] = pg]
    BY DEF StoreSame, Turn
  <1>2. /\ mntPage' = [q \in MntPages |-> mntPage'[q]] /\ mntPage'[p] = pg
        /\ \A q \in MntPages : q # p => mntPage'[q] = mntPage[q]
    BY <1>1 DEF MntInv
  <1>3. ASSUME NEW q \in MntPages PROVE MntPageGood(mntPage[q])'
    <2>1. PICK page_ : page_ = mntPage'[q]
      OBVIOUS
    <2>2. MntPageGood(page_)
      BY <1>2, <2>1 DEF MntInv
    <2> QED BY <1>1, <2>1, <2>2 DEF MntPageGood
  <1>4. Held(pg) \subseteq 1..mntUploads
    <2>1. \A f \in Held(pg) : f \in Nat \ {0}
      BY DEF MntPageGood, MntPageShape, ContractShape, Held
    <2>2. CASE pg.on = "edit" /\ pg.of \in 1..Len(contracts) /\ Held(pg) \subseteq {contracts[pg.of].file}
      BY <2>1, <2>2 DEF MntInv, FilesUploaded
    <2>3. CASE Held(pg) \subseteq Held(mntPage[p])
      BY <2>3 DEF MntInv, FilesUploaded
    <2> QED BY <2>2, <2>3
  <1>5. FilesUploaded'
    <2>1. ASSUME NEW q \in MntPages PROVE Held(mntPage'[q]) \subseteq 1..mntUploads
      BY <1>2, <1>4 DEF MntInv, FilesUploaded
    <2> QED BY <1>1, <2>1 DEF MntInv, FilesUploaded, Held
  <1>6. ASSUME NEW i \in 1..Len(contracts), contracts[i].file \in Held(pg) PROVE EditsIt(pg, i)
    <2>1. CASE pg.on = "edit" /\ pg.of \in 1..Len(contracts) /\ Held(pg) \subseteq {contracts[pg.of].file}
      <3>1. contracts[i].file = contracts[pg.of].file /\ contracts[i].file # 0
        BY <1>6, <2>1 DEF Held
      <3> QED BY <2>1, <3>1 DEF MntInv, FilesApart, EditsIt
    <2>2. CASE Held(pg) \subseteq Held(mntPage[p]) /\ pg.on = mntPage[p].on /\ pg.of = mntPage[p].of
      BY <1>6, <2>2 DEF MntInv, FilesApart, EditsIt
    <2> QED BY <1>6, <2>1, <2>2
  <1>7. ASSUME NEW q \in MntPages, q # p, NEW f \in Held(pg), f \in Held(mntPage[q])
        PROVE  pg.on = "edit" /\ mntPage[q].on = "edit" /\ pg.of = mntPage[q].of
    <2>1. CASE pg.on = "edit" /\ pg.of \in 1..Len(contracts) /\ Held(pg) \subseteq {contracts[pg.of].file}
      <3>1. contracts[pg.of].file \in Held(mntPage[q])
        BY <1>7, <2>1
      <3> QED BY <2>1, <3>1 DEF MntInv, FilesApart, EditsIt
    <2>2. CASE Held(pg) \subseteq Held(mntPage[p]) /\ pg.on = mntPage[p].on /\ pg.of = mntPage[p].of
      <3>1. f \in Held(mntPage[p])
        BY <1>7, <2>2
      <3> QED BY <1>7, <2>2, <3>1 DEF MntInv, FilesApart, EditsIt
    <2> QED BY <1>7, <2>1, <2>2
  <1>8. FilesApart'
    <2>1. \A q \in MntPages : \A i \in 1..Len(contracts) : contracts[i].file \in Held(mntPage'[q]) => EditsIt(mntPage'[q], i)
      BY <1>2, <1>6 DEF MntInv, FilesApart
    <2>2. ASSUME NEW q \in MntPages, NEW r \in MntPages, q # r, NEW f \in Held(mntPage'[q]), f \in Held(mntPage'[r])
          PROVE  mntPage'[q].on = "edit" /\ EditsIt(mntPage'[r], mntPage'[q].of)
      <3>1. CASE q = p
        BY <1>2, <1>7, <2>2, <3>1 DEF EditsIt
      <3>2. CASE r = p
        BY <1>2, <1>7, <2>2, <3>2 DEF EditsIt
      <3>3. CASE q # p /\ r # p
        BY <1>2, <2>2, <3>3 DEF MntInv, FilesApart
      <3> QED BY <3>1, <3>2, <3>3
    <2>3. \A i, j \in 1..Len(contracts) : (i # j /\ contracts[i].file = contracts[j].file) => contracts[i].file = 0
      BY DEF MntInv, FilesApart
    <2> QED BY <1>1, <2>1, <2>2, <2>3 DEF FilesApart, Held, EditsIt
  <1>9. ContractsGood' /\ ContractFileLives'
    BY <1>1, ContractsStay DEF MntInv, ContractFileLives
  <1>10. NewFilesLive'
    <2>1. pg.on = "new" => Held(pg) \subseteq mntFiles
      BY DEF MntInv, NewFilesLive
    <2>2. \A q \in MntPages : mntPage'[q].on = "new" => Held(mntPage'[q]) \subseteq mntFiles
      BY <1>2, <2>1 DEF MntInv, NewFilesLive
    <2> QED BY <1>1, <2>2 DEF NewFilesLive, Held
  <1> QED BY <1>2, <1>3, <1>5, <1>8, <1>9, <1>10 DEF MntInv

\* What is typed and chosen leaves the files of a form as they are.
LEMMA FormTurns ==
    ASSUME MntInv, StoreSame, NEW p \in MntPages, NEW pg, Turn(p, pg), MntPageGood(pg),
           pg.on = mntPage[p].on, pg.of = mntPage[p].of, pg.fields.file = mntPage[p].fields.file, pg.seen = mntPage[p].seen
    PROVE  MntInv'
  <1>1. Held(pg) \subseteq Held(mntPage[p])
    BY DEF Held
  <1> QED BY <1>1, PageTurns

LEMMA OpeningKeeps ==
    ASSUME MntInv, NEW p \in MntPages,
           \/ \E type \in {"FREE", "PAID"} : OpenMntForm(p, type)
           \/ \E i \in 1..Len(contracts) : OpenMnt(p, i) \/ OpenMntEdit(p, i)
           \/ LeaveMnt(p)
    PROVE  MntInv'
  <1>1. PICK blank, none : blank = NoMntPage /\ none = NoContract
    OBVIOUS
  <1>2. /\ blank \in MntPageShape(blank) /\ blank.fields = none /\ blank.seen = none /\ ~blank.attach /\ ~blank.busy
        /\ none \in ContractShape /\ none.file = 0 /\ none.live
    BY <1>1, NoPageGood DEF MntPageGood, NoMntPage, NoContract, Contract
  <1>3. ASSUME NEW type \in {"FREE", "PAID"}, OpenMntForm(p, type) PROVE MntInv'
    <2>1. PICK fields : fields = [none EXCEPT !.type = type]
      OBVIOUS
    <2>2. PICK pg : pg = [blank EXCEPT !.on = "new", !.fields = fields]
      OBVIOUS
    <2>3. Turn(p, [blank EXCEPT !.on = "new", !.fields.type = type]) /\ StoreSame
      BY <1>1, <1>3 DEF OpenMntForm
    <2>4. Turn(p, pg)
      BY <1>2, <2>1, <2>2, <2>3 DEF MntPageShape
    <2>5. fields \in ContractShape /\ fields.file = 0 /\ fields.live
      BY <1>2, <2>1 DEF ContractShape
    <2>6. pg \in MntPageShape(pg) /\ pg.on = "new" /\ pg.fields = fields /\ pg.seen = none /\ ~pg.attach /\ ~pg.busy
      BY <1>2, <2>2, <2>5 DEF MntPageShape
    <2>7. MntPageGood(pg) /\ Held(pg) = {}
      BY <1>2, <2>5, <2>6 DEF MntPageGood, Held
    <2> QED BY <2>3, <2>4, <2>7, PageTurns
  <1>4. ASSUME NEW i \in 1..Len(contracts), OpenMntEdit(p, i) PROVE MntInv'
    <2>1. PICK c, fields : c = contracts[i] /\ fields = [c EXCEPT !.rep = NoMntUser, !.manager = NoMntUser]
      OBVIOUS
    <2>2. PICK pg : pg = [blank EXCEPT !.on = "edit", !.of = i, !.seen = c, !.fields = fields]
      OBVIOUS
    <2>3. Turn(p, pg) /\ StoreSame /\ c.live
      BY <1>1, <1>4, <2>1, <2>2 DEF OpenMntEdit
    <2>4. c \in ContractShape /\ SentWhole(c) /\ i \in Nat
      BY <2>1 DEF MntInv, ContractsGood
    <2>5. fields \in ContractShape /\ fields.file = c.file /\ fields.project = c.project /\ fields.live
      BY <2>1, <2>3, <2>4 DEF ContractShape, MntPeople
    <2>6. pg \in MntPageShape(pg) /\ pg.on = "edit" /\ pg.of = i /\ pg.fields = fields /\ pg.seen = c /\ ~pg.busy
      BY <1>2, <2>2, <2>4, <2>5 DEF MntPageShape
    <2>7. MntPageGood(pg)
      BY <2>4, <2>5, <2>6 DEF MntPageGood, SentWhole
    <2>8. Held(pg) \subseteq {contracts[pg.of].file}
      BY <2>1, <2>5, <2>6 DEF Held
    <2> QED BY <2>3, <2>6, <2>7, <2>8, PageTurns
  <1>5. ASSUME NEW i \in 1..Len(contracts), OpenMnt(p, i) PROVE MntInv'
    <2>1. PICK c : c = contracts[i]
      OBVIOUS
    <2>2. PICK pg : pg = [blank EXCEPT !.on = "detail", !.of = i, !.seen = c]
      OBVIOUS
    <2>3. Turn(p, pg) /\ StoreSame
      BY <1>1, <1>5, <2>1, <2>2 DEF OpenMnt
    <2>4. c \in ContractShape /\ i \in Nat
      BY <2>1 DEF MntInv, ContractsGood
    <2>5. pg \in MntPageShape(pg) /\ pg.on = "detail" /\ pg.of = i /\ ~pg.busy
      BY <1>2, <2>2, <2>4 DEF MntPageShape
    <2>6. MntPageGood(pg) /\ Held(pg) = {}
      BY <2>5 DEF MntPageGood, Held
    <2> QED BY <2>3, <2>6, PageTurns
  <1>6. CASE LeaveMnt(p)
    BY <1>6, NoPageGood, PageTurns DEF LeaveMnt
  <1> QED BY <1>3, <1>4, <1>5, <1>6

LEMMA MntPageNow ==
    ASSUME MntInv, NEW p \in MntPages
    PROVE  MntPageGood(mntPage[p]) /\ mntPage[p] \in MntPageShape(mntPage[p]) /\ mntPage[p].fields \in ContractShape
           /\ mntPage[p].seen \in ContractShape /\ mntPage[p].of \in Nat
  BY DEF MntInv, MntPageGood, MntPageShape

\* The fields of a form become others with the same file.
LEMMA FieldsTurn ==
    ASSUME MntInv, StoreSame, NEW p \in MntPages, NEW pg, NEW fields, Turn(p, pg),
           pg \in MntPageShape(pg), pg.on = mntPage[p].on, pg.of = mntPage[p].of, pg.seen = mntPage[p].seen,
           pg.busy => SentWhole(fields), (pg.on = "new" /\ fields.type = "FREE") => ~pg.attach,
           pg.fields = fields, fields.file = mntPage[p].fields.file, fields.live = mntPage[p].fields.live,
           fields.type = mntPage[p].fields.type, mntPage[p].fields.project # NoMntProject => fields.project # NoMntProject
    PROVE  MntInv'
  <1>1. MntPageGood(pg)
    BY MntPageNow DEF MntPageGood
  <1> QED BY <1>1, FormTurns

LEMMA UsersArriveKeeps == ASSUME MntInv, NEW p \in MntPages, MntUsersArrive(p) PROVE MntInv'
  <1>1. PICK old, again : old = mntPage[p] /\ again = mntPage[p].users
    OBVIOUS
  <1>2. PICK came : came = [old EXCEPT !.users = TRUE, !.renewed = again]
    OBVIOUS
  <1>3. Turn(p, IF came.on = "edit" THEN MntResolved(came) ELSE came) /\ StoreSame
    BY <1>1, <1>2 DEF MntUsersArrive
  <1>4. /\ came \in MntPageShape(came) /\ came.on = old.on /\ came.of = old.of /\ came.seen = old.seen /\ came.busy = old.busy
        /\ came.fields = old.fields /\ came.attach = old.attach
    BY <1>1, <1>2, MntPageNow DEF MntPageShape
  <1>5. MntPageGood(old) /\ old.fields \in ContractShape
    BY <1>1, MntPageNow
  <1>6. CASE came.on # "edit"
    <2>1. Turn(p, came)
      BY <1>3, <1>6
    <2> QED BY <1>1, <1>3, <1>4, <1>5, <2>1, FieldsTurn DEF MntPageGood
  <1>7. CASE came.on = "edit"
    <2>1. PICK rep, manager : rep = MntCalled(MntNameOf(came.seen.rep)) /\ manager = MntCalled(MntNameOf(came.seen.manager))
      OBVIOUS
    <2>2. rep \in MntPeople /\ manager \in MntPeople
      BY <2>1, CalledIsUser
    <2>3. PICK r, m : /\ r = IF rep = NoMntUser THEN came.fields.rep ELSE rep
                      /\ m = IF manager = NoMntUser THEN came.fields.manager ELSE manager
      OBVIOUS
    <2>4. PICK fields : fields = [came.fields EXCEPT !.rep = r, !.manager = m]
      OBVIOUS
    <2>5. PICK pg : pg = [came EXCEPT !.fields = fields]
      OBVIOUS
    <2>6. MntResolved(came) = [came EXCEPT !.fields.rep = r, !.fields.manager = m]
      BY <1>4, <1>5, <2>1, <2>3 DEF MntResolved, MntPageShape, ContractShape
    <2>7. Turn(p, pg)
      <3>1. came \in MntPageShape(came) /\ came.fields \in ContractShape
        BY <1>4, <1>5
      <3>2. [came EXCEPT !.fields.rep = r, !.fields.manager = m] = pg
        BY <3>1, <2>4, <2>5 DEF MntPageShape, ContractShape
      <3>3. MntResolved(came) = pg
        BY <2>6, <3>2
      <3>4. Turn(p, MntResolved(came))
        BY <1>3, <1>7
      <3> QED BY <3>3, <3>4
    <2>8. /\ fields \in ContractShape /\ fields.file = old.fields.file /\ fields.live = old.fields.live
          /\ fields.type = old.fields.type /\ fields.project = old.fields.project /\ fields.rep = r
      BY <1>4, <1>5, <2>2, <2>3, <2>4 DEF ContractShape
    <2>9. pg \in MntPageShape(pg) /\ pg.on = old.on /\ pg.of = old.of /\ pg.seen = old.seen /\ pg.busy = old.busy /\ pg.fields = fields
          /\ pg.attach = old.attach
      BY <1>4, <2>5, <2>8 DEF MntPageShape
    <2>10. pg.busy => SentWhole(fields)
      BY <1>4, <1>5, <2>3, <2>8, <2>9 DEF MntPageGood, SentWhole
    <2>11. (pg.on = "new" /\ fields.type = "FREE") => ~pg.attach
      BY <1>4, <1>7, <2>9
    <2> QED BY <1>1, <1>3, <2>7, <2>8, <2>9, <2>10, <2>11, FieldsTurn
  <1> QED BY <1>6, <1>7

LEMMA ChooseProjectKeeps ==
    ASSUME MntInv, NEW p \in MntPages, NEW project \in Projects, ChooseProject(p, project) PROVE MntInv'
  <1>1. PICK old, rep, manager :
           /\ old = mntPage[p]
           /\ rep = IF old.users THEN MntCalled(PeopleOf[project].rep) ELSE NoMntUser
           /\ manager = IF old.users THEN MntCalled(PeopleOf[project].pm) ELSE NoMntUser
    OBVIOUS
  <1>2. rep \in MntPeople /\ manager \in MntPeople
    BY <1>1, CalledIsUser DEF MntPeople
  <1>3. MntPageGood(old) /\ old.fields \in ContractShape /\ old \in MntPageShape(old)
    BY <1>1, MntPageNow
  <1>4. PICK r, m : /\ r = IF rep = NoMntUser THEN old.fields.rep ELSE rep
                    /\ m = IF manager = NoMntUser THEN old.fields.manager ELSE manager
    OBVIOUS
  <1>5. PICK fields : fields = [old.fields EXCEPT !.project = project, !.rep = r, !.manager = m]
    OBVIOUS
  <1>6. PICK pg : pg = [old EXCEPT !.fields = fields]
    OBVIOUS
  <1>7. /\ Turn(p, [old EXCEPT !.fields.project = project, !.fields.rep = r, !.fields.manager = m]) /\ StoreSame
        /\ old.on = "new" /\ ~old.busy
    BY <1>1, <1>4 DEF ChooseProject
  <1>8. [old EXCEPT !.fields.project = project, !.fields.rep = r, !.fields.manager = m] = pg
    BY <1>3, <1>5, <1>6 DEF MntPageShape, ContractShape
  <1>9. Turn(p, pg)
    BY <1>7, <1>8
  <1>10. /\ fields \in ContractShape /\ fields.file = old.fields.file /\ fields.live = old.fields.live
         /\ fields.type = old.fields.type /\ fields.project = project
    BY <1>2, <1>3, <1>4, <1>5 DEF ContractShape
  <1>11. pg \in MntPageShape(pg) /\ pg.on = old.on /\ pg.of = old.of /\ pg.seen = old.seen /\ pg.busy = old.busy /\ pg.fields = fields
         /\ pg.attach = old.attach
    BY <1>3, <1>6, <1>10 DEF MntPageShape
  <1>12. fields.project # NoMntProject
    BY <1>10, MaintenanceAssumption
  <1>13. (pg.on = "new" /\ fields.type = "FREE") => ~pg.attach
    BY <1>3, <1>10, <1>11 DEF MntPageGood
  <1> QED BY <1>1, <1>7, <1>9, <1>10, <1>11, <1>12, <1>13, FieldsTurn

LEMMA ChoosePersonKeeps ==
    ASSUME MntInv, NEW p \in MntPages, NEW who \in {"rep", "manager"}, NEW u \in MntPeople, ChoosePerson(p, who, u)
    PROVE  MntInv'
  <1>1. PICK old : old = mntPage[p]
    OBVIOUS
  <1>2. MntPageGood(old) /\ old.fields \in ContractShape /\ old \in MntPageShape(old)
    BY <1>1, MntPageNow
  <1>3. PICK fields : fields = [old.fields EXCEPT ![who] = u]
    OBVIOUS
  <1>4. PICK pg : pg = [old EXCEPT !.fields = fields, !.picked = TRUE]
    OBVIOUS
  <1>5. Turn(p, [old EXCEPT !.fields[who] = u, !.picked = TRUE]) /\ StoreSame /\ ~old.busy
    BY <1>1 DEF ChoosePerson
  <1>6. [old EXCEPT !.fields[who] = u, !.picked = TRUE] = pg
    BY <1>2, <1>3, <1>4 DEF MntPageShape, ContractShape
  <1>7. Turn(p, pg)
    BY <1>5, <1>6
  <1>8. /\ fields \in ContractShape /\ fields.file = old.fields.file /\ fields.live = old.fields.live
        /\ fields.type = old.fields.type /\ fields.project = old.fields.project
    <2>1. CASE who = "rep"
      <3>1. fields = [old.fields EXCEPT !.rep = u]
        BY <1>2, <1>3, <2>1 DEF ContractShape
      <3> QED BY <1>2, <3>1 DEF ContractShape
    <2>2. CASE who = "manager"
      <3>1. fields = [old.fields EXCEPT !.manager = u]
        BY <1>2, <1>3, <2>2 DEF ContractShape
      <3> QED BY <1>2, <3>1 DEF ContractShape
    <2> QED BY <2>1, <2>2
  <1>9. pg \in MntPageShape(pg) /\ pg.on = old.on /\ pg.of = old.of /\ pg.seen = old.seen /\ pg.busy = old.busy /\ pg.fields = fields
        /\ pg.attach = old.attach
    BY <1>2, <1>4, <1>8 DEF MntPageShape
  <1>10. (pg.on = "new" /\ fields.type = "FREE") => ~pg.attach
    BY <1>2, <1>8, <1>9 DEF MntPageGood
  <1> QED BY <1>1, <1>5, <1>7, <1>8, <1>9, <1>10, FieldsTurn

LEMMA TypeMntTextKeeps == ASSUME MntInv, NEW p \in MntPages, TypeMntText(p) PROVE MntInv'
  <1>1. PICK old : old = mntPage[p]
    OBVIOUS
  <1>2. MntPageGood(old) /\ old.fields \in ContractShape /\ old \in MntPageShape(old)
    BY <1>1, MntPageNow
  <1>3. PICK text : text = 1 - old.fields.text
    OBVIOUS
  <1>4. PICK fields : fields = [old.fields EXCEPT !.text = text]
    OBVIOUS
  <1>5. PICK pg : pg = [old EXCEPT !.fields = fields]
    OBVIOUS
  <1>6. Turn(p, MntTyped(old)) /\ StoreSame /\ ~old.busy
    BY <1>1 DEF TypeMntText
  <1>7. MntTyped(old) = [old EXCEPT !.fields.text = text]
    BY <1>2, <1>3 DEF MntTyped, MntPageShape, ContractShape
  <1>8. [old EXCEPT !.fields.text = text] = pg
    BY <1>2, <1>4, <1>5 DEF MntPageShape, ContractShape
  <1>9. Turn(p, pg)
    BY <1>6, <1>7, <1>8
  <1>10. text \in Int
    BY <1>2, <1>3 DEF ContractShape
  <1>11. /\ fields \in ContractShape /\ fields.file = old.fields.file /\ fields.live = old.fields.live
         /\ fields.type = old.fields.type /\ fields.project = old.fields.project
    BY <1>2, <1>4, <1>10 DEF ContractShape
  <1>12. pg \in MntPageShape(pg) /\ pg.on = old.on /\ pg.of = old.of /\ pg.seen = old.seen /\ pg.busy = old.busy /\ pg.fields = fields
         /\ pg.attach = old.attach
    BY <1>2, <1>5, <1>11 DEF MntPageShape
  <1>13. (pg.on = "new" /\ fields.type = "FREE") => ~pg.attach
    BY <1>2, <1>11, <1>12 DEF MntPageGood
  <1> QED BY <1>1, <1>6, <1>9, <1>11, <1>12, <1>13, FieldsTurn

LEMMA AttachContractKeeps == ASSUME MntInv, NEW p \in MntPages, AttachContract(p) PROVE MntInv'
  <1>1. PICK old : old = mntPage[p]
    OBVIOUS
  <1>2. MntPageGood(old) /\ old.fields \in ContractShape /\ old \in MntPageShape(old)
    BY <1>1, MntPageNow
  <1>3. PICK pg : pg = [old EXCEPT !.attach = TRUE]
    OBVIOUS
  <1>4. Turn(p, pg) /\ StoreSame /\ ~old.busy /\ (old.on = "new" => old.fields.type = "PAID")
    BY <1>1, <1>3 DEF AttachContract
  <1>5. /\ pg \in MntPageShape(pg) /\ pg.on = old.on /\ pg.of = old.of /\ pg.seen = old.seen /\ pg.busy = old.busy
        /\ pg.fields = old.fields
    BY <1>2, <1>3 DEF MntPageShape
  <1> QED BY <1>1, <1>2, <1>4, <1>5, FieldsTurn

\* Reading versions changes nothing a form would send.
LEMMA VersionsKeep ==
    ASSUME MntInv, NEW p \in MntPages,
           \/ \E n \in 1..MaxMntRuns : ChooseVersion(p, n) \/ \E ok \in BOOLEAN : VersionArrives(p, n, ok)
           \/ BackToLive(p)
    PROVE  MntInv'
  <1>1. PICK old : old = mntPage[p]
    OBVIOUS
  <1>2. MntPageGood(old) /\ old \in MntPageShape(old)
    BY <1>1, MntPageNow
  <1>3. StoreSame /\ \E reads, shown : Turn(p, [old EXCEPT !.reads = reads, !.shown = shown])
    <2>1. CASE \E n \in 1..MaxMntRuns : ChooseVersion(p, n)
      <3>1. PICK n \in 1..MaxMntRuns : ChooseVersion(p, n)
        BY <2>1
      <3>2. PICK reads, shown : reads = Append(old.reads, n) /\ shown = old.shown
        OBVIOUS
      <3>3. [old EXCEPT !.reads = Append(@, n)] = [old EXCEPT !.reads = reads, !.shown = shown]
        BY <1>2, <3>2 DEF MntPageShape
      <3> QED BY <1>1, <3>1, <3>3 DEF ChooseVersion
    <2>2. CASE \E n \in 1..MaxMntRuns : \E ok \in BOOLEAN : VersionArrives(p, n, ok)
      <3>1. PICK n \in 1..MaxMntRuns, ok \in BOOLEAN : VersionArrives(p, n, ok)
        BY <2>2
      <3> QED BY <1>1, <3>1 DEF VersionArrives
    <2>3. CASE BackToLive(p)
      <3>1. PICK reads : reads = old.reads
        OBVIOUS
      <3>2. [old EXCEPT !.shown = 0] = [old EXCEPT !.reads = reads, !.shown = 0]
        BY <1>2, <3>1 DEF MntPageShape
      <3> QED BY <1>1, <2>3, <3>2 DEF BackToLive
    <2> QED BY <2>1, <2>2, <2>3
  <1>4. PICK reads, shown : Turn(p, [old EXCEPT !.reads = reads, !.shown = shown])
    BY <1>3
  <1>5. PICK pg : pg = [old EXCEPT !.reads = reads, !.shown = shown]
    OBVIOUS
  <1>6. /\ pg \in MntPageShape(pg) /\ pg.on = old.on /\ pg.of = old.of /\ pg.seen = old.seen /\ pg.busy = old.busy
        /\ pg.fields = old.fields /\ pg.attach = old.attach
    BY <1>2, <1>5 DEF MntPageShape
  <1> QED BY <1>1, <1>2, <1>3, <1>4, <1>5, <1>6, FieldsTurn DEF MntPageGood

\* The contract a page edits, or shows, is replaced or deleted.
LEMMA ContractTurns ==
    ASSUME MntInv, NEW p \in MntPages, NEW i \in 1..Len(contracts), NEW c \in ContractShape, SentWhole(c),
           contracts' = [contracts EXCEPT ![i] = c], InOrder(mntPast'), Len(mntPast') = Len(mntPast),
           \A j \in 1..Len(contracts) : j # i => mntPast'[j] = mntPast[j],
           InOrder(mntPast'[i]), c.type = "FREE" /\ mntPast'[i] = << >> => c.file = 0,
           NEW gone, gone \subseteq {contracts[i].file}, mntFiles' = mntFiles \ gone, mntUploads' = mntUploads,
           c.file # 0 => c.file = contracts[i].file \/ (EditsIt(mntPage[p], i) /\ c.file \in Held(mntPage[p])),
           (c.live /\ c.file # 0) => c.file \in mntFiles',
           NEW pg, Turn(p, pg), MntPageGood(pg), Held(pg) = {}
    PROVE  MntInv'
  <1>1. /\ mntPage' = [q \in MntPages |-> mntPage'[q]] /\ mntPage'[p] = pg
        /\ \A q \in MntPages : q # p => mntPage'[q] = mntPage[q]
    BY DEF MntInv, Turn
  <1>2. /\ Len(contracts') = Len(contracts) /\ InOrder(contracts') /\ contracts'[i] = c
        /\ \A j \in 1..Len(contracts) : j # i => contracts'[j] = contracts[j]
    <2>1. PICK rows : rows = contracts
      OBVIOUS
    <2>2. PICK next : next = [rows EXCEPT ![i] = c]
      OBVIOUS
    <2>3. InOrder(rows) /\ i \in 1..Len(rows)
      BY <2>1 DEF MntInv, ContractsGood
    <2>4. InOrder(next) /\ Len(next) = Len(rows) /\ \A j \in 1..Len(rows) : next[j] = IF j = i THEN c ELSE rows[j]
      BY <2>2, <2>3, Replaced
    <2>5. contracts' = next
      BY <2>1, <2>2
    <2> QED BY <2>1, <2>3, <2>4, <2>5
  <1>3. ContractsGood'
    <2>1. ASSUME NEW j \in 1..Len(contracts)
          PROVE  /\ contracts'[j] \in ContractShape /\ SentWhole(contracts'[j]) /\ InOrder(mntPast'[j])
                 /\ contracts'[j].type = "FREE" /\ mntPast'[j] = << >> => contracts'[j].file = 0
      BY <1>2 DEF MntInv, ContractsGood
    <2>2. Len(mntPast') = Len(contracts')
      BY <1>2 DEF MntInv, ContractsGood
    <2> QED BY <1>2, <2>1, <2>2 DEF ContractsGood, InOrder, SentWhole, ContractShape
  <1>4. ASSUME NEW q \in MntPages PROVE MntPageGood(mntPage[q])'
    <2>1. PICK page_ : page_ = mntPage'[q]
      OBVIOUS
    <2>2. MntPageGood(page_)
      BY <1>1, <2>1 DEF MntInv
    <2> QED BY <1>2, <2>1, <2>2 DEF MntPageGood
  <1>5. \A q \in MntPages : Held(mntPage'[q]) = {} \/ (q # p /\ mntPage'[q] = mntPage[q])
    BY <1>1
  <1>6. FilesUploaded'
    <2>1. \A j \in 1..Len(contracts) : contracts'[j].file <= mntUploads
      <3>1. c.file = 0 \/ c.file = contracts[i].file \/ c.file \in Held(mntPage[p])
        OBVIOUS
      <3>2. c.file <= mntUploads
        BY <3>1 DEF MntInv, FilesUploaded
      <3> QED BY <1>2, <3>2 DEF MntInv, FilesUploaded
    <2>2. \A q \in MntPages : Held(mntPage'[q]) \subseteq 1..mntUploads
      BY <1>5 DEF MntInv, FilesUploaded
    <2> QED BY <1>2, <2>1, <2>2 DEF MntInv, FilesUploaded, Held
  <1>7. ASSUME NEW j \in 1..Len(contracts), j # i, contracts[j].file = c.file PROVE c.file = 0
    <2>1. CASE c.file = contracts[i].file
      BY <1>7, <2>1 DEF MntInv, FilesApart
    <2>2. CASE EditsIt(mntPage[p], i) /\ c.file \in Held(mntPage[p])
      <3>1. EditsIt(mntPage[p], j)
        BY <1>7, <2>2 DEF MntInv, FilesApart
      <3> QED BY <1>7, <2>2, <3>1 DEF EditsIt
    <2> QED BY <2>1, <2>2
  <1>8. ASSUME NEW q \in MntPages, q # p, c.file \in Held(mntPage[q]) PROVE EditsIt(mntPage[q], i)
    <2>1. c.file # 0
      BY <1>8 DEF Held
    <2>2. CASE c.file = contracts[i].file
      BY <1>8, <2>2 DEF MntInv, FilesApart
    <2>3. CASE EditsIt(mntPage[p], i) /\ c.file \in Held(mntPage[p])
      BY <1>8, <2>3 DEF MntInv, FilesApart, EditsIt
    <2> QED BY <2>1, <2>2, <2>3
  <1>9. FilesApart'
    <2>1. \A j, k \in 1..Len(contracts) : (j # k /\ contracts'[j].file = contracts'[k].file) => contracts'[j].file = 0
      <3> SUFFICES ASSUME NEW j \in 1..Len(contracts), NEW k \in 1..Len(contracts), j # k, contracts'[j].file = contracts'[k].file
                   PROVE  contracts'[j].file = 0
        OBVIOUS
      <3>1. CASE j = i
        BY <1>2, <1>7, <3>1
      <3>2. CASE k = i
        BY <1>2, <1>7, <3>2
      <3>3. CASE j # i /\ k # i
        BY <1>2, <3>3 DEF MntInv, FilesApart
      <3> QED BY <3>1, <3>2, <3>3
    <2>2. \A q \in MntPages : \A j \in 1..Len(contracts) : contracts'[j].file \in Held(mntPage'[q]) => EditsIt(mntPage'[q], j)
      <3> SUFFICES ASSUME NEW q \in MntPages, NEW j \in 1..Len(contracts), contracts'[j].file \in Held(mntPage'[q])
                   PROVE  EditsIt(mntPage'[q], j)
        OBVIOUS
      <3>1. q # p /\ mntPage'[q] = mntPage[q]
        BY <1>5
      <3>2. CASE j = i
        BY <1>2, <1>8, <3>1, <3>2
      <3>3. CASE j # i
        BY <1>2, <3>1, <3>3 DEF MntInv, FilesApart
      <3> QED BY <3>2, <3>3
    <2>3. ASSUME NEW q \in MntPages, NEW r \in MntPages, q # r, NEW f \in Held(mntPage'[q]), f \in Held(mntPage'[r])
          PROVE  mntPage'[q].on = "edit" /\ EditsIt(mntPage'[r], mntPage'[q].of)
      <3>1. mntPage'[q] = mntPage[q] /\ mntPage'[r] = mntPage[r]
        BY <1>5, <2>3
      <3> QED BY <2>3, <3>1 DEF MntInv, FilesApart
    <2> QED BY <1>2, <2>1, <2>2, <2>3 DEF FilesApart, Held, EditsIt
  <1>10. NewFilesLive'
    <2>1. ASSUME NEW q \in MntPages, mntPage'[q].on = "new", NEW f \in Held(mntPage'[q]) PROVE f \in mntFiles'
      <3>1. mntPage'[q] = mntPage[q]
        BY <1>5, <2>1
      <3>2. f \in mntFiles
        BY <2>1, <3>1 DEF MntInv, NewFilesLive
      <3>3. contracts[i].file # f
        BY <2>1, <3>1 DEF MntInv, FilesApart, EditsIt
      <3> QED BY <3>2, <3>3
    <2> QED BY <2>1 DEF NewFilesLive, Held
  <1>11. ContractFileLives'
    <2>1. ASSUME NEW j \in 1..Len(contracts), contracts'[j].live, contracts'[j].file # 0 PROVE contracts'[j].file \in mntFiles'
      <3>1. CASE j = i
        BY <1>2, <2>1, <3>1
      <3>2. CASE j # i
        <4>1. contracts'[j] = contracts[j] /\ contracts[j].file \in mntFiles
          BY <1>2, <2>1, <3>2 DEF MntInv, ContractFileLives
        <4>2. contracts[j].file # contracts[i].file
          BY <2>1, <3>2, <4>1 DEF MntInv, FilesApart
        <4> QED BY <4>1, <4>2
      <3> QED BY <3>1, <3>2
    <2> QED BY <1>2, <2>1 DEF ContractFileLives
  <1> QED BY <1>1, <1>3, <1>4, <1>6, <1>9, <1>10, <1>11 DEF MntInv

LEMMA DeleteMntKeeps == ASSUME MntInv, NEW p \in MntPages, DeleteMnt(p) PROVE MntInv'
  <1>1. PICK i, old : i = mntPage[p].of /\ old = contracts[i]
    OBVIOUS
  <1>2. i \in 1..Len(contracts)
    BY <1>1 DEF DeleteMnt, MntInv, MntPageGood
  <1>3. old \in ContractShape /\ SentWhole(old) /\ InOrder(mntPast[i]) /\ (old.type = "FREE" /\ mntPast[i] = << >> => old.file = 0)
    BY <1>1, <1>2 DEF MntInv, ContractsGood
  <1>4. PICK c : c = [old EXCEPT !.live = FALSE]
    OBVIOUS
  <1>5. /\ contracts' = [contracts EXCEPT ![i].live = FALSE] /\ mntFiles' = mntFiles \ {contracts[i].file}
        /\ Turn(p, NoMntPage) /\ UNCHANGED <<mntPast, mntUploads>>
    BY <1>1 DEF DeleteMnt
  <1>6. contracts' = [contracts EXCEPT ![i] = c]
    BY <1>1, <1>4, <1>5
  <1>7. c \in ContractShape /\ SentWhole(c) /\ c.file = old.file /\ c.type = old.type /\ ~c.live
    BY <1>3, <1>4 DEF ContractShape, SentWhole
  <1>8. MntPageGood(NoMntPage) /\ Held(NoMntPage) = {}
    BY NoPageGood
  <1>9. /\ InOrder(mntPast') /\ Len(mntPast') = Len(mntPast) /\ InOrder(mntPast'[i])
        /\ \A j \in 1..Len(contracts) : j # i => mntPast'[j] = mntPast[j]
        /\ c.type = "FREE" /\ mntPast'[i] = << >> => c.file = 0
    <2>1. InOrder(mntPast)
      BY DEF MntInv, ContractsGood
    <2>2. mntPast' = mntPast
      BY <1>5
    <2> QED BY <1>3, <1>7, <2>1, <2>2 DEF InOrder
  <1>10. PICK gone : gone = {contracts[i].file}
    OBVIOUS
  <1>11. gone \subseteq {contracts[i].file} /\ mntFiles' = mntFiles \ gone /\ mntUploads' = mntUploads
    BY <1>5, <1>10
  <1>12. (c.file # 0 => c.file = contracts[i].file) /\ ~c.live
    BY <1>1, <1>7
  <1> QED BY <1>2, <1>5, <1>6, <1>7, <1>8, <1>9, <1>11, <1>12, ContractTurns

LEMMA UpdateMntKeeps == ASSUME MntInv, NEW p \in MntPages, UpdateMnt(p) PROVE MntInv'
  <1>1. PICK page_, i, old : page_ = mntPage[p] /\ i = page_.of /\ old = contracts[i]
    OBVIOUS
  <1>2. /\ MntPageGood(page_) /\ page_ \in MntPageShape(page_) /\ page_.on = "edit" /\ page_.busy /\ i \in 1..Len(contracts)
        /\ page_.fields \in ContractShape /\ SentWhole(page_.fields) /\ page_.seen \in ContractShape /\ page_.fields.live
    BY <1>1, MntPageNow DEF UpdateMnt, MntPageGood
  <1>3. PICK c : c = page_.fields
    OBVIOUS
  <1>4. CASE old.live /\ FileTaken(c.file)
    <2>1. /\ contracts' = [contracts EXCEPT ![i] = c]
          /\ mntPast' = [mntPast EXCEPT ![i] = Append(@, MntVersion(old, c))]
          /\ mntFiles' = IF old.file = c.file THEN mntFiles ELSE mntFiles \ {old.file}
          /\ Turn(p, [NoMntPage EXCEPT !.on = "detail", !.of = i, !.seen = c])
          /\ mntUploads' = mntUploads
      BY <1>1, <1>3, <1>4 DEF UpdateMnt
    <2>2. PICK was : was = MntVersion(old, c)
      OBVIOUS
    <2>3. PICK versions : versions = Append(mntPast[i], was)
      OBVIOUS
    <2>4. InOrder(mntPast) /\ Len(mntPast) = Len(contracts) /\ InOrder(mntPast[i])
      BY <1>2 DEF MntInv, ContractsGood
    <2>5. mntPast' = [mntPast EXCEPT ![i] = versions]
      BY <2>1, <2>2, <2>3
    <2>6. InOrder(versions) /\ versions # << >>
      <3>1. Len(versions) = Len(mntPast[i]) + 1
        BY <2>3, <2>4, Appended
      <3>2. InOrder(versions) /\ Len(mntPast[i]) \in Nat
        BY <2>3, <2>4, Appended
      <3> QED BY <3>1, <3>2
    <2>7. /\ InOrder(mntPast') /\ Len(mntPast') = Len(mntPast) /\ mntPast'[i] = versions
          /\ \A j \in 1..Len(contracts) : j # i => mntPast'[j] = mntPast[j]
      <3>1. PICK rows : rows = mntPast
        OBVIOUS
      <3>2. PICK next : next = [rows EXCEPT ![i] = versions]
        OBVIOUS
      <3>3. InOrder(rows) /\ i \in 1..Len(rows)
        BY <1>2, <2>4, <3>1
      <3>4. InOrder(next) /\ Len(next) = Len(rows) /\ \A j \in 1..Len(rows) : next[j] = IF j = i THEN versions ELSE rows[j]
        BY <3>2, <3>3, Replaced
      <3>5. mntPast' = next
        BY <2>5, <3>1, <3>2
      <3> QED BY <1>2, <2>4, <3>1, <3>3, <3>4, <3>5 DEF InOrder
    <2>8. PICK gone : gone = IF old.file = c.file THEN {} ELSE {old.file}
      OBVIOUS
    <2>9. gone \subseteq {contracts[i].file} /\ mntFiles' = mntFiles \ gone
      BY <1>1, <2>1, <2>8
    <2>10. c.file # 0 => c.file \in Held(mntPage[p]) /\ EditsIt(mntPage[p], i) /\ c.file \in mntFiles'
      BY <1>1, <1>2, <1>3, <1>4, <2>8, <2>9 DEF Held, EditsIt, FileTaken
    <2>11. PICK blank : blank = NoMntPage
      OBVIOUS
    <2>12. PICK pg : pg = [blank EXCEPT !.on = "detail", !.of = i, !.seen = c]
      OBVIOUS
    <2>16. c \in ContractShape /\ SentWhole(c) /\ i \in Nat
      <3>1. Len(contracts) \in Nat
        BY DEF MntInv, ContractsGood, InOrder
      <3> QED BY <1>2, <1>3, <3>1
    <2>13. blank \in MntPageShape(blank) /\ ~blank.busy
      BY <2>11, NoPageGood DEF MntPageGood, NoMntPage
    <2>14. pg \in MntPageShape(pg) /\ pg.on = "detail" /\ pg.of = i /\ ~pg.busy
      BY <2>12, <2>13, <2>16 DEF MntPageShape
    <2>15. MntPageGood(pg) /\ Held(pg) = {} /\ Turn(p, pg)
      BY <1>2, <2>1, <2>11, <2>12, <2>14 DEF MntPageGood, Held
    <2>17. InOrder(mntPast'[i]) /\ ~(c.type = "FREE" /\ mntPast'[i] = << >>)
      BY <2>6, <2>7
    <2> QED BY <1>2, <2>1, <2>7, <2>9, <2>10, <2>15, <2>16, <2>17, ContractTurns
  <1>5. CASE ~(old.live /\ FileTaken(c.file))
    <2>1. PICK fields : fields = [c EXCEPT !.file = page_.seen.file]
      OBVIOUS
    <2>2. PICK pg : pg = [page_ EXCEPT !.busy = FALSE, !.fields = fields]
      OBVIOUS
    <2>3. Turn(p, [page_ EXCEPT !.busy = FALSE, !.fields.file = page_.seen.file]) /\ StoreSame
      BY <1>1, <1>3, <1>5 DEF UpdateMnt, StoreSame
    <2>4. [page_ EXCEPT !.busy = FALSE, !.fields.file = page_.seen.file] = pg
      BY <1>2, <1>3, <2>1, <2>2 DEF MntPageShape, ContractShape
    <2>5. fields \in ContractShape /\ fields.file = page_.seen.file /\ fields.project = c.project /\ fields.live
      BY <1>2, <1>3, <2>1 DEF ContractShape
    <2>6. /\ pg \in MntPageShape(pg) /\ pg.on = "edit" /\ pg.of = i /\ ~pg.busy /\ pg.fields = fields /\ pg.seen = page_.seen
      BY <1>1, <1>2, <2>2, <2>5 DEF MntPageShape
    <2>7. MntPageGood(pg)
      BY <1>2, <1>3, <2>5, <2>6 DEF MntPageGood, SentWhole
    <2>8. Held(pg) \subseteq Held(page_)
      BY <1>2, <2>5, <2>6 DEF Held
    <2> QED BY <1>1, <1>2, <2>3, <2>4, <2>6, <2>7, <2>8, PageTurns
  <1> QED BY <1>4, <1>5

\* What is uploaded, or left as it is, before a contract is sent.
LEMMA SendMntKeeps == ASSUME MntInv, NEW p \in MntPages, NEW ok \in BOOLEAN, SendMnt(p, ok) PROVE MntInv'
  <1>1. PICK old : old = mntPage[p]
    OBVIOUS
  <1>2. MntPageGood(old) /\ old.fields \in ContractShape /\ old \in MntPageShape(old) /\ old.seen \in ContractShape
    BY <1>1, MntPageNow
  <1>3. old.on \in {"new", "edit"} /\ SentWhole(old.fields)
    BY <1>1, <1>2 DEF SendMnt, MntSendable, SentWhole, MntPageGood
  <1>4. CASE ~old.attach
    <2>1. PICK pg : pg = [old EXCEPT !.busy = TRUE]
      OBVIOUS
    <2>2. Turn(p, pg) /\ StoreSame
      BY <1>1, <1>4, <2>1 DEF SendMnt, StoreSame
    <2>3. /\ pg \in MntPageShape(pg) /\ pg.on = old.on /\ pg.of = old.of /\ pg.seen = old.seen
          /\ pg.fields = old.fields /\ pg.attach = old.attach
      BY <1>2, <2>1 DEF MntPageShape
    <2> QED BY <1>1, <1>2, <1>3, <2>2, <2>3, FieldsTurn DEF MntPageGood
  <1>5. CASE old.attach /\ ok
    <2>1. PICK f : f = mntUploads + 1
      OBVIOUS
    <2>2. PICK fields : fields = [old.fields EXCEPT !.file = f]
      OBVIOUS
    <2>3. PICK pg : pg = [old EXCEPT !.busy = TRUE, !.fields = fields]
      OBVIOUS
    <2>4. /\ Turn(p, [old EXCEPT !.busy = TRUE, !.fields.file = f]) /\ mntUploads' = f /\ mntFiles' = mntFiles \union {f}
          /\ UNCHANGED <<contracts, mntPast>>
      BY <1>1, <1>5, <2>1 DEF SendMnt
    <2>5. [old EXCEPT !.busy = TRUE, !.fields.file = f] = pg
      BY <1>2, <2>2, <2>3 DEF MntPageShape, ContractShape
    <2>6. mntPage' = [mntPage EXCEPT ![p] = pg]
      BY <2>4, <2>5 DEF Turn
    <2>7. mntUploads \in Nat /\ f \in Nat
      BY <2>1 DEF MntInv, FilesUploaded
    <2>8. fields \in ContractShape /\ fields.file = f /\ SentWhole(fields) /\ fields.live = old.fields.live /\ fields.type = old.fields.type
      BY <1>2, <1>3, <2>2, <2>7 DEF ContractShape, SentWhole
    <2>9. /\ pg \in MntPageShape(pg) /\ pg.on = old.on /\ pg.of = old.of /\ pg.seen = old.seen
          /\ pg.fields = fields /\ pg.attach = old.attach
      BY <1>2, <2>3, <2>8 DEF MntPageShape
    <2>10. MntPageGood(pg)
      BY <1>2, <1>5, <2>8, <2>9 DEF MntPageGood, SentWhole
    <2>11. Held(pg) \subseteq Held(old) \union {f}
      BY <2>8, <2>9 DEF Held
    <2>12. /\ mntPage' = [q \in MntPages |-> mntPage'[q]] /\ mntPage'[p] = pg
           /\ \A q \in MntPages : q # p => mntPage'[q] = mntPage[q]
      BY <2>6 DEF MntInv
    <2>13. /\ \A q \in MntPages : f \notin Held(mntPage[q])
           /\ \A i \in 1..Len(contracts) : contracts[i].file # f
      <3>1. ASSUME NEW i \in 1..Len(contracts) PROVE contracts[i].file # f
        <4>1. contracts[i].file \in Nat /\ contracts[i].file <= mntUploads
          BY DEF MntInv, FilesUploaded, ContractsGood, ContractShape
        <4> QED BY <2>1, <2>7, <4>1
      <3>2. ASSUME NEW q \in MntPages PROVE f \notin Held(mntPage[q])
        <4>1. Held(mntPage[q]) \subseteq 1..mntUploads
          BY DEF MntInv, FilesUploaded
        <4> QED BY <2>1, <2>7, <4>1
      <3> QED BY <3>1, <3>2
    <2>14. ASSUME NEW q \in MntPages PROVE MntPageGood(mntPage[q])'
      <3>1. PICK page_ : page_ = mntPage'[q]
        OBVIOUS
      <3>2. MntPageGood(page_)
        BY <2>10, <2>12, <3>1 DEF MntInv
      <3> QED BY <2>4, <3>1, <3>2 DEF MntPageGood
    <2>15. FilesUploaded'
      <3>1. ASSUME NEW q \in MntPages PROVE Held(mntPage'[q]) \subseteq 1..f
        <4>1. Held(mntPage'[q]) \subseteq Held(mntPage[q]) \union {f}
          BY <1>1, <2>11, <2>12
        <4>2. Held(mntPage[q]) \subseteq 1..mntUploads
          BY DEF MntInv, FilesUploaded
        <4> QED BY <2>1, <2>7, <4>1, <4>2
      <3>2. ASSUME NEW i \in 1..Len(contracts) PROVE contracts[i].file <= f
        <4>1. contracts[i].file \in Nat /\ contracts[i].file <= mntUploads
          BY DEF MntInv, FilesUploaded, ContractsGood, ContractShape
        <4> QED BY <2>1, <2>7, <4>1
      <3>3. mntFiles' \subseteq 1..f
        BY <2>1, <2>4, <2>7 DEF MntInv, FilesUploaded
      <3> QED BY <2>4, <2>7, <3>1, <3>2, <3>3 DEF FilesUploaded, Held
    <2>16. FilesApart'
      <3>1. \A q \in MntPages : /\ mntPage'[q].on = mntPage[q].on /\ mntPage'[q].of = mntPage[q].of
                                /\ Held(mntPage'[q]) \subseteq Held(mntPage[q]) \union {f}
                                /\ q # p => Held(mntPage'[q]) = Held(mntPage[q])
        BY <1>1, <2>9, <2>11, <2>12
      <3>2. \A q \in MntPages : \A i \in 1..Len(contracts) : contracts[i].file \in Held(mntPage'[q]) => EditsIt(mntPage'[q], i)
        BY <2>13, <3>1 DEF MntInv, FilesApart, EditsIt
      <3>3. ASSUME NEW q \in MntPages, NEW r \in MntPages, q # r, NEW g \in Held(mntPage'[q]), g \in Held(mntPage'[r])
            PROVE  mntPage'[q].on = "edit" /\ EditsIt(mntPage'[r], mntPage'[q].of)
        <4>1. g \in Held(mntPage[q]) /\ g \in Held(mntPage[r])
          BY <2>13, <3>1, <3>3
        <4>2. mntPage[q].on = "edit" /\ EditsIt(mntPage[r], mntPage[q].of)
          BY <3>3, <4>1 DEF MntInv, FilesApart
        <4> QED BY <3>1, <4>2 DEF EditsIt
      <3>4. \A i, j \in 1..Len(contracts) : (i # j /\ contracts[i].file = contracts[j].file) => contracts[i].file = 0
        BY DEF MntInv, FilesApart
      <3> QED BY <2>4, <3>2, <3>3, <3>4 DEF FilesApart, Held, EditsIt
    <2>17. NewFilesLive'
      <3>1. ASSUME NEW q \in MntPages, mntPage'[q].on = "new" PROVE Held(mntPage'[q]) \subseteq mntFiles'
        <4>1. CASE q = p
          <5>1. Held(pg) \subseteq {f}
            BY <2>8, <2>9, <2>12, <3>1, <4>1 DEF Held
          <5> QED BY <2>4, <2>12, <4>1, <5>1
        <4>2. CASE q # p
          BY <2>4, <2>12, <3>1, <4>2 DEF MntInv, NewFilesLive
        <4> QED BY <4>1, <4>2
      <3> QED BY <3>1 DEF NewFilesLive, Held
    <2>18. ContractsGood' /\ ContractFileLives'
      BY <2>4, ContractsStay DEF MntInv, ContractFileLives
    <2> QED BY <2>12, <2>14, <2>15, <2>16, <2>17, <2>18 DEF MntInv
  <1>6. CASE old.attach /\ ~ok
    <2>1. UNCHANGED mntPage /\ StoreSame
      BY <1>1, <1>6 DEF SendMnt, StoreSame
    <2>2. mntPage' = [mntPage EXCEPT ![p] = old]
      BY <1>1, <2>1 DEF MntInv
    <2> QED BY <1>1, <1>2, <2>1, <2>2, FormTurns DEF Turn
  <1> QED BY <1>4, <1>5, <1>6

\* A contract is registered with the file its form has uploaded.
LEMMA RegisterMntKeeps == ASSUME MntInv, NEW p \in MntPages, NEW lost \in BOOLEAN, RegisterMnt(p, lost) PROVE MntInv'
  <1>1. PICK old, c : old = mntPage[p] /\ c = old.fields
    OBVIOUS
  <1>2. /\ MntPageGood(old) /\ c \in ContractShape /\ old \in MntPageShape(old) /\ old.on = "new" /\ old.busy
        /\ SentWhole(c) /\ (c.type = "FREE" => c.file = 0)
    BY <1>1, MntPageNow DEF RegisterMnt, MntPageGood
  <1>3. PICK rows, versions : rows = Append(contracts, c) /\ versions = Append(mntPast, << >>)
    OBVIOUS
  <1>4. contracts' = rows /\ mntPast' = versions /\ UNCHANGED <<mntFiles, mntUploads>>
    BY <1>1, <1>3 DEF RegisterMnt
  <1>5. PICK n : n = Len(contracts)
    OBVIOUS
  <1>6. /\ InOrder(contracts) /\ InOrder(mntPast) /\ Len(mntPast) = n /\ n \in Nat
        /\ InOrder(rows) /\ InOrder(versions) /\ Len(rows) = n + 1 /\ Len(versions) = n + 1
        /\ \A i \in 1..n : rows[i] = contracts[i] /\ versions[i] = mntPast[i]
        /\ rows[n + 1] = c /\ versions[n + 1] = << >>
    <2>1. InOrder(contracts) /\ InOrder(mntPast) /\ Len(mntPast) = n
      BY <1>5 DEF MntInv, ContractsGood
    <2> QED BY <1>3, <1>5, <2>1, Appended
  <1>7. ContractsGood'
    <2>1. InOrder(<< >>)
      BY EmptySeq DEF InOrder
    <2>2. ASSUME NEW i \in 1..(n + 1)
          PROVE  /\ rows[i] \in ContractShape /\ SentWhole(rows[i]) /\ InOrder(versions[i])
                 /\ rows[i].type = "FREE" /\ versions[i] = << >> => rows[i].file = 0
      <3>1. CASE i = n + 1
        BY <1>2, <1>6, <2>1, <3>1
      <3>2. CASE i \in 1..n
        BY <1>5, <1>6, <3>2 DEF MntInv, ContractsGood
      <3> QED BY <1>6, <3>1, <3>2
    <2>3. \A i \in 1..Len(contracts') :
             /\ contracts'[i] \in ContractShape /\ SentWhole(contracts'[i]) /\ InOrder(mntPast'[i])
             /\ contracts'[i].type = "FREE" /\ mntPast'[i] = << >> => contracts'[i].file = 0
      BY <1>4, <1>6, <2>2
    <2>4. InOrder(contracts') /\ InOrder(mntPast') /\ Len(mntPast') = Len(contracts')
      BY <1>4, <1>6
    <2> QED BY <2>3, <2>4 DEF ContractsGood, InOrder, SentWhole, ContractShape
  <1>8. PICK pg : Turn(p, pg) /\ MntPageGood(pg) /\ Held(pg) = {}
    <2>1. CASE lost
      <3>1. PICK fields : fields = [c EXCEPT !.file = 0]
        OBVIOUS
      <3>2. PICK pg : pg = [old EXCEPT !.busy = FALSE, !.fields = fields]
        OBVIOUS
      <3>3. Turn(p, [old EXCEPT !.busy = FALSE, !.fields.file = 0])
        BY <1>1, <2>1 DEF RegisterMnt
      <3>4. [old EXCEPT !.busy = FALSE, !.fields.file = 0] = pg
        BY <1>1, <1>2, <3>1, <3>2 DEF MntPageShape, ContractShape
      <3>5. fields \in ContractShape /\ fields.file = 0 /\ fields.live = c.live /\ fields.type = c.type
        BY <1>2, <3>1 DEF ContractShape
      <3>6. pg \in MntPageShape(pg) /\ pg.on = "new" /\ ~pg.busy /\ pg.fields = fields /\ pg.attach = old.attach
        BY <1>2, <3>2, <3>5 DEF MntPageShape
      <3>7. MntPageGood(pg) /\ Held(pg) = {}
        BY <1>1, <1>2, <3>5, <3>6 DEF MntPageGood, Held
      <3> QED BY <3>3, <3>4, <3>7
    <2>2. CASE ~lost
      BY <2>2, NoPageGood DEF RegisterMnt
    <2> QED BY <2>1, <2>2
  <1>9. /\ mntPage' = [q \in MntPages |-> mntPage'[q]] /\ mntPage'[p] = pg
        /\ \A q \in MntPages : q # p => mntPage'[q] = mntPage[q]
    BY <1>8 DEF MntInv, Turn
  <1>10. ASSUME NEW q \in MntPages PROVE MntPageGood(mntPage[q])'
    <2>1. PICK page_ : page_ = mntPage'[q]
      OBVIOUS
    <2>2. MntPageGood(page_)
      BY <1>8, <1>9, <2>1 DEF MntInv
    <2>3. page_.of \in 1..n => page_.of \in 1..(n + 1)
      BY <1>6
    <2> QED BY <1>4, <1>5, <1>6, <2>1, <2>2, <2>3 DEF MntPageGood
  <1>11. c.file # 0 => c.file \in Held(old)
    BY <1>1, <1>2 DEF Held
  <1>12. \A q \in MntPages : Held(mntPage'[q]) = {} \/ (q # p /\ mntPage'[q] = mntPage[q])
    BY <1>8, <1>9
  <1>13. FilesUploaded'
    <2>1. ASSUME NEW i \in 1..(n + 1) PROVE rows[i].file <= mntUploads
      <3>1. CASE i = n + 1
        <4>1. mntUploads \in Nat /\ (c.file = 0 \/ c.file \in 1..mntUploads)
          BY <1>1, <1>11 DEF MntInv, FilesUploaded
        <4> QED BY <1>6, <3>1, <4>1
      <3>2. CASE i \in 1..n
        BY <1>5, <1>6, <3>2 DEF MntInv, FilesUploaded
      <3> QED BY <1>6, <3>1, <3>2
    <2>2. \A q \in MntPages : Held(mntPage'[q]) \subseteq 1..mntUploads
      BY <1>12 DEF MntInv, FilesUploaded
    <2> QED BY <1>4, <1>6, <2>1, <2>2 DEF MntInv, FilesUploaded, Held
  <1>14. ASSUME NEW i \in 1..n, contracts[i].file = c.file PROVE c.file = 0
    BY <1>1, <1>2, <1>5, <1>11, <1>14 DEF MntInv, FilesApart, EditsIt
  <1>15. ASSUME NEW q \in MntPages, q # p PROVE c.file \notin Held(mntPage[q])
    BY <1>1, <1>2, <1>11, <1>15 DEF MntInv, FilesApart, Held
  <1>16. FilesApart'
    <2>1. ASSUME NEW i \in 1..(n + 1), NEW j \in 1..(n + 1), i # j, rows[i].file = rows[j].file PROVE rows[i].file = 0
      <3>1. CASE i = n + 1
        <4>1. j \in 1..n
          BY <1>6, <2>1, <3>1
        <4> QED BY <1>6, <1>14, <2>1, <3>1, <4>1
      <3>2. CASE j = n + 1
        <4>1. i \in 1..n
          BY <1>6, <2>1, <3>2
        <4> QED BY <1>6, <1>14, <2>1, <3>2, <4>1
      <3>3. CASE i \in 1..n /\ j \in 1..n
        BY <1>5, <1>6, <2>1, <3>3 DEF MntInv, FilesApart
      <3> QED BY <1>6, <3>1, <3>2, <3>3
    <2>2. ASSUME NEW q \in MntPages, NEW i \in 1..(n + 1), rows[i].file \in Held(mntPage'[q]) PROVE EditsIt(mntPage'[q], i)
      <3>1. q # p /\ mntPage'[q] = mntPage[q]
        BY <1>12, <2>2
      <3>2. i # n + 1
        BY <1>6, <1>15, <2>2, <3>1
      <3>3. i \in 1..n
        BY <1>6, <3>2
      <3> QED BY <1>5, <1>6, <2>2, <3>1, <3>3 DEF MntInv, FilesApart
    <2>3. ASSUME NEW q \in MntPages, NEW r \in MntPages, q # r, NEW f \in Held(mntPage'[q]), f \in Held(mntPage'[r])
          PROVE  mntPage'[q].on = "edit" /\ EditsIt(mntPage'[r], mntPage'[q].of)
      <3>1. mntPage'[q] = mntPage[q] /\ mntPage'[r] = mntPage[r]
        BY <1>12, <2>3
      <3> QED BY <2>3, <3>1 DEF MntInv, FilesApart
    <2> QED BY <1>4, <1>6, <2>1, <2>2, <2>3 DEF FilesApart, Held, EditsIt
  <1>17. NewFilesLive'
    <2>1. ASSUME NEW q \in MntPages, mntPage'[q].on = "new" PROVE Held(mntPage'[q]) \subseteq mntFiles
      BY <1>12, <2>1 DEF MntInv, NewFilesLive
    <2> QED BY <1>4, <2>1 DEF NewFilesLive, Held
  <1>18. ContractFileLives'
    <2>1. ASSUME NEW i \in 1..(n + 1), rows[i].live, rows[i].file # 0 PROVE rows[i].file \in mntFiles
      <3>1. CASE i = n + 1
        <4>1. Held(old) \subseteq mntFiles
          BY <1>1, <1>2 DEF MntInv, NewFilesLive
        <4> QED BY <1>6, <1>11, <2>1, <3>1, <4>1
      <3>2. CASE i \in 1..n
        BY <1>5, <1>6, <2>1, <3>2 DEF MntInv, ContractFileLives
      <3> QED BY <1>6, <3>1, <3>2
    <2> QED BY <1>4, <1>6, <2>1 DEF ContractFileLives
  <1> QED BY <1>7, <1>9, <1>10, <1>13, <1>16, <1>17, <1>18 DEF MntInv

LEMMA MntInvStays == MntInv /\ MaintenanceNext => MntInv'
  <1> SUFFICES ASSUME MntInv, NEW p \in MntPages,
                      \/ MntUsersArrive(p) \/ TypeMntText(p) \/ AttachContract(p) \/ UpdateMnt(p) \/ BackToLive(p)
                      \/ DeleteMnt(p) \/ LeaveMnt(p)
                      \/ \E type \in {"FREE", "PAID"} : OpenMntForm(p, type)
                      \/ \E project \in Projects : ChooseProject(p, project)
                      \/ \E who \in {"rep", "manager"}, u \in MntStaff \union {NoMntUser} : ChoosePerson(p, who, u)
                      \/ \E yes \in BOOLEAN : SendMnt(p, yes) \/ RegisterMnt(p, yes)
                      \/ \E i \in 1..Len(contracts) : OpenMnt(p, i) \/ OpenMntEdit(p, i)
                      \/ \E n \in 1..MaxMntRuns : ChooseVersion(p, n) \/ \E ok \in BOOLEAN : VersionArrives(p, n, ok)
               PROVE  MntInv'
    BY DEF MaintenanceNext
  <1> QED BY OpeningKeeps, UsersArriveKeeps, ChooseProjectKeeps, ChoosePersonKeeps, TypeMntTextKeeps, AttachContractKeeps,
             VersionsKeep, SendMntKeeps, RegisterMntKeeps, UpdateMntKeeps, DeleteMntKeeps DEF MntPeople

LEMMA MntRests == MntInv /\ UNCHANGED mntVars => MntInv'
  <1> SUFFICES ASSUME MntInv, UNCHANGED mntVars PROVE MntInv'
    OBVIOUS
  <1>1. UNCHANGED <<contracts, mntPast, mntFiles, mntUploads, mntPage>>
    BY DEF mntVars
  <1>2. \A q \in MntPages : MntPageGood(mntPage[q])'
    BY <1>1 DEF MntInv, MntPageGood
  <1>3. FilesUploaded' /\ FilesApart' /\ NewFilesLive' /\ ContractFileLives'
    BY <1>1 DEF MntInv, FilesUploaded, FilesApart, NewFilesLive, ContractFileLives, Held, EditsIt
  <1>4. ContractsGood'
    BY <1>1, ContractsStay DEF MntInv
  <1> QED BY <1>1, <1>2, <1>3, <1>4 DEF MntInv

-----------------------------------------------------------------------------
(* Result reports of projects: the file a report has is there, unless it   *)
(* is in the past of another project.                                      *)

PrjPageShape(pg) ==
    [at : {pg.at}, project : Nat, detail : {pg.detail}, users : {pg.users}, pm : {pg.pm}, rep : {pg.rep},
     picked : {pg.picked}, attached : {pg.attached}, send : {pg.send}, file : Nat, reads : {pg.reads},
     chosen : {pg.chosen}, past : {pg.past}]

PrjPageGood(pg) ==
    /\ pg \in PrjPageShape(pg) /\ pg.project \in 0..Len(projects) /\ pg.file \in 0..uploads /\ pg.detail.report \in 0..uploads
    /\ (pg.at = "detail" \/ pg.send # "no") => pg.project # 0

ProjectGood(proj) ==
    /\ proj \in [live : BOOLEAN, pm : {proj.pm}, rep : {proj.rep}, report : 0..uploads, past : {proj.past}]
    /\ InOrder(proj.past)

PrjInv ==
    /\ uploads \in Nat /\ InOrder(projects) /\ \A i \in 1..Len(projects) : ProjectGood(projects[i])
    /\ prjPage = [p \in PrjPages |-> prjPage[p]] /\ \A p \in PrjPages : PrjPageGood(prjPage[p])
    /\ ReportFileLives

LEMMA NoPrjPageGood == uploads \in Nat /\ InOrder(projects) => PrjPageGood(NoPrjPage)
  <1> SUFFICES ASSUME uploads \in Nat, InOrder(projects) PROVE PrjPageGood(NoPrjPage)
    OBVIOUS
  <1>1. PICK none : none = NoDetail
    OBVIOUS
  <1>2. none.report = 0
    BY <1>1 DEF NoDetail
  <1>3. PICK pg : pg = NoPrjPage
    OBVIOUS
  <1>4. pg = [at |-> "list", project |-> 0, detail |-> none, users |-> FALSE, pm |-> NoOne, rep |-> NoOne,
              picked |-> FALSE, attached |-> FALSE, send |-> "no", file |-> 0, reads |-> {}, chosen |-> 0, past |-> 0]
    BY <1>1, <1>3 DEF NoPrjPage
  <1>5. Len(projects) \in Nat
    BY DEF InOrder
  <1>6. pg \in PrjPageShape(pg) /\ pg.project = 0 /\ pg.file = 0 /\ pg.detail = none /\ pg.at = "list" /\ pg.send = "no"
    BY <1>4 DEF PrjPageShape
  <1> QED BY <1>2, <1>3, <1>5, <1>6 DEF PrjPageGood

LEMMA PrjInvStarts == ProjectInit => PrjInv
  <1> SUFFICES ASSUME ProjectInit PROVE PrjInv
    OBVIOUS
  <1>1. uploads = 0 /\ removed = {} /\ prjPage = [p \in PrjPages |-> NoPrjPage]
    BY DEF ProjectInit
  <1>2. PICK n : n = Len(FirstProjects)
    OBVIOUS
  <1>3. n \in Nat
    BY <1>2, ProjectResultAssumption
  <1>4. \A i \in 1..n : \E pm, rep, past : /\ InOrder(past)
                                           /\ projects[i] = [live |-> TRUE, pm |-> pm, rep |-> rep, report |-> 0, past |-> past]
    <2> SUFFICES ASSUME NEW i \in 1..n
                 PROVE  \E pm, rep, past : /\ InOrder(past)
                                           /\ projects[i] = [live |-> TRUE, pm |-> pm, rep |-> rep, report |-> 0, past |-> past]
      OBVIOUS
    <2>1. PICK pm, rep : pm = FirstProjects[i].pm /\ rep = FirstProjects[i].rep
      OBVIOUS
    <2>2. PICK version : version = Version([pm |-> pm, rep |-> rep, report |-> 0])
      OBVIOUS
    <2>3. PICK past : past = <<version>>
      OBVIOUS
    <2>4. projects[i] = [live |-> TRUE, pm |-> pm, rep |-> rep, report |-> 0, past |-> past]
      BY <1>2, <2>1, <2>2, <2>3 DEF ProjectInit
    <2>5. InOrder(past)
      BY <2>3 DEF InOrder
    <2> QED BY <2>4, <2>5
  <1>5. InOrder(projects) /\ Len(projects) = n
    <2>1. PICK rows : rows = projects
      OBVIOUS
    <2>2. rows = [i \in 1..n |-> rows[i]]
      BY <1>2, <2>1 DEF ProjectInit
    <2>3. DOMAIN rows = 1..n
      BY <2>2
    <2>4. rows \in [1..n -> {rows[i] : i \in DOMAIN rows}]
      BY <2>2, <2>3
    <2>5. rows \in Seq({rows[i] : i \in DOMAIN rows})
      BY <1>3, <2>4
    <2> QED BY <1>3, <2>1, <2>3, <2>5 DEF InOrder
  <1>6. ASSUME NEW i \in 1..n PROVE ProjectGood(projects[i]) /\ projects[i].report = 0
    <2>1. PICK pm, rep, past : InOrder(past) /\ projects[i] = [live |-> TRUE, pm |-> pm, rep |-> rep, report |-> 0, past |-> past]
      BY <1>4
    <2> QED BY <1>1, <2>1 DEF ProjectGood
  <1>7. uploads \in Nat
    BY <1>1
  <1>8. \A p \in PrjPages : PrjPageGood(prjPage[p])
    BY <1>1, <1>5, <1>7, NoPrjPageGood
  <1>9. ReportFileLives
    BY <1>1 DEF ReportFileLives
  <1> QED BY <1>1, <1>5, <1>6, <1>7, <1>8, <1>9 DEF PrjInv

\* A page turns and the projects do not.
LEMMA PrjPageTurns ==
    ASSUME PrjInv, UNCHANGED ProjectStore, NEW p \in PrjPages, NEW pg, PrjTurn(p, pg), PrjPageGood(pg)
    PROVE  PrjInv'
  <1>1. projects' = projects /\ uploads' = uploads /\ removed' = removed
    BY DEF ProjectStore
  <1>2. /\ prjPage' = [q \in PrjPages |-> prjPage'[q]] /\ prjPage'[p] = pg
        /\ \A q \in PrjPages : q # p => prjPage'[q] = prjPage[q]
    BY DEF PrjInv, PrjTurn
  <1>3. ASSUME NEW q \in PrjPages PROVE PrjPageGood(prjPage[q])'
    <2>1. PICK page_ : page_ = prjPage'[q]
      OBVIOUS
    <2>2. PrjPageGood(page_)
      BY <1>2, <2>1 DEF PrjInv
    <2> QED BY <1>1, <2>1, <2>2 DEF PrjPageGood
  <1>4. ReportFileLives'
    BY <1>1 DEF PrjInv, ReportFileLives, GivenTwice, EverOf
  <1>5. ASSUME NEW i \in 1..Len(projects) PROVE ProjectGood(projects[i])'
    <2>1. PICK proj : proj = projects'[i]
      OBVIOUS
    <2>2. ProjectGood(proj)
      BY <1>1, <2>1 DEF PrjInv
    <2> QED BY <1>1, <2>1, <2>2 DEF ProjectGood, InOrder
  <1> QED BY <1>1, <1>2, <1>3, <1>4, <1>5 DEF PrjInv, InOrder

LEMMA PrjPageNow ==
    ASSUME PrjInv, NEW p \in PrjPages
    PROVE  PrjPageGood(prjPage[p]) /\ prjPage[p] \in PrjPageShape(prjPage[p]) /\ uploads \in Nat /\ Len(projects) \in Nat
  BY DEF PrjInv, PrjPageGood, InOrder

\* Of a page only these five fields say whether it is good.
LEMMA PrjSame ==
    ASSUME NEW old, NEW pg, PrjPageGood(old), pg \in PrjPageShape(pg), pg.project = old.project, pg.file = old.file,
           pg.detail = old.detail, pg.at = old.at, pg.send \in {old.send, "no"}
    PROVE  PrjPageGood(pg)
  BY DEF PrjPageGood

\* Matching people changes two fields.
LEMMA PeopleOnGood == ASSUME NEW old, PrjPageGood(old) PROVE PrjPageGood(PeopleOn(old))
  <1>1. CASE old.users /\ old.detail # NoDetail
    <2>1. PICK pm, rep : pm = UserNamed(old.detail.pm, old.pm) /\ rep = UserNamed(old.detail.rep, old.rep)
      OBVIOUS
    <2>2. PICK pg : pg = [old EXCEPT !.pm = pm, !.rep = rep]
      OBVIOUS
    <2>3. PeopleOn(old) = pg
      BY <1>1, <2>1, <2>2 DEF PeopleOn, MatchedPeople
    <2>4. old \in PrjPageShape(old)
      BY DEF PrjPageGood
    <2>5. /\ pg \in PrjPageShape(pg) /\ pg.project = old.project /\ pg.file = old.file /\ pg.detail = old.detail /\ pg.at = old.at
          /\ pg.send = old.send
      BY <2>2, <2>4 DEF PrjPageShape
    <2> QED BY <2>3, <2>5, PrjSame
  <1>2. CASE ~(old.users /\ old.detail # NoDetail)
    BY <1>2 DEF PeopleOn
  <1> QED BY <1>1, <1>2

\* What happens on a page alone.
LEMMA PrjPageKeeps ==
    ASSUME PrjInv, NEW p \in PrjPages,
           \/ OpenResultForm(p) \/ PrjUsersArrive(p) \/ AttachReport(p) \/ SendResult(p) \/ BackToProject(p) \/ LeaveProject(p)
           \/ \E u : PickManager(p, u)
           \/ \E i \in 1..Len(projects) : SelectProject(p, i) \/ \E at \in {"edit", "detail"} : OpenProject(p, i, at)
           \/ \E n \in 1..MaxPrjRuns : PickVersion(p, n) \/ \E ok \in BOOLEAN : PastArrives(p, n, ok)
    PROVE  PrjInv'
  <1>1. PICK old, blank : old = prjPage[p] /\ blank = NoPrjPage
    OBVIOUS
  <1>2. /\ PrjPageGood(old) /\ old \in PrjPageShape(old) /\ PrjPageGood(blank) /\ blank \in PrjPageShape(blank)
        /\ uploads \in Nat /\ Len(projects) \in Nat /\ blank.send = "no"
    <2>1. PrjPageGood(blank) /\ blank.send = "no"
      BY <1>1, NoPrjPageGood DEF PrjInv, NoPrjPage
    <2> QED BY <1>1, <2>1, PrjPageNow DEF PrjPageGood
  <1>3. ASSUME OpenResultForm(p) PROVE PrjInv'
    <2>1. PICK pg : pg = [blank EXCEPT !.at = "new"]
      OBVIOUS
    <2>2. /\ pg \in PrjPageShape(pg) /\ pg.project = blank.project /\ pg.file = blank.file /\ pg.detail = blank.detail
          /\ pg.at = "new" /\ pg.send = "no"
      BY <1>2, <2>1 DEF PrjPageShape
    <2>3. PrjPageGood(pg)
      BY <1>2, <2>2 DEF PrjPageGood
    <2>4. PrjTurn(p, pg) /\ UNCHANGED ProjectStore
      BY <1>1, <1>3, <2>1 DEF OpenResultForm
    <2> QED BY <2>3, <2>4, PrjPageTurns
  <1>4. ASSUME PrjUsersArrive(p) PROVE PrjInv'
    <2>1. PICK came : came = [old EXCEPT !.users = TRUE]
      OBVIOUS
    <2>2. /\ came \in PrjPageShape(came) /\ came.project = old.project /\ came.file = old.file /\ came.detail = old.detail
          /\ came.at = old.at /\ came.send = old.send
      BY <1>2, <2>1 DEF PrjPageShape
    <2>3. PrjPageGood(PeopleOn(came))
      BY <1>2, <2>2, PrjSame, PeopleOnGood
    <2>4. PrjTurn(p, PeopleOn(came)) /\ UNCHANGED ProjectStore
      BY <1>1, <1>4, <2>1 DEF PrjUsersArrive
    <2> QED BY <2>3, <2>4, PrjPageTurns
  <1>5. ASSUME AttachReport(p) PROVE PrjInv'
    <2>1. PICK pg : pg = [old EXCEPT !.attached = TRUE]
      OBVIOUS
    <2>2. /\ pg \in PrjPageShape(pg) /\ pg.project = old.project /\ pg.file = old.file /\ pg.detail = old.detail
          /\ pg.at = old.at /\ pg.send = old.send
      BY <1>2, <2>1 DEF PrjPageShape
    <2>3. PrjPageGood(pg)
      BY <1>2, <2>2, PrjSame
    <2>4. PrjTurn(p, pg) /\ UNCHANGED ProjectStore
      BY <1>1, <1>5, <2>1 DEF AttachReport
    <2> QED BY <2>3, <2>4, PrjPageTurns
  <1>6. ASSUME SendResult(p) PROVE PrjInv'
    <2>1. PICK send : send = IF old.attached THEN "file" ELSE "project"
      OBVIOUS
    <2>2. PICK pg : pg = [old EXCEPT !.send = send, !.file = 0]
      OBVIOUS
    <2>3. /\ pg \in PrjPageShape(pg) /\ pg.project = old.project /\ pg.file = 0 /\ pg.detail = old.detail
          /\ pg.at = old.at /\ pg.send = send
      BY <1>2, <2>2 DEF PrjPageShape
    <2>4. PrjTurn(p, pg) /\ UNCHANGED ProjectStore /\ old.project # 0
      BY <1>1, <1>6, <2>1, <2>2 DEF SendResult, Complete
    <2>5. PrjPageGood(pg)
      BY <1>2, <2>3, <2>4 DEF PrjPageGood
    <2> QED BY <2>4, <2>5, PrjPageTurns
  <1>7. ASSUME BackToProject(p) PROVE PrjInv'
    <2>1. PICK pg : pg = [old EXCEPT !.chosen = 0, !.past = 0]
      OBVIOUS
    <2>2. /\ pg \in PrjPageShape(pg) /\ pg.project = old.project /\ pg.file = old.file /\ pg.detail = old.detail
          /\ pg.at = old.at /\ pg.send = old.send
      BY <1>2, <2>1 DEF PrjPageShape
    <2>3. PrjPageGood(pg)
      BY <1>2, <2>2, PrjSame
    <2>4. PrjTurn(p, pg) /\ UNCHANGED ProjectStore
      BY <1>1, <1>7, <2>1 DEF BackToProject
    <2> QED BY <2>3, <2>4, PrjPageTurns
  <1>8. ASSUME LeaveProject(p) PROVE PrjInv'
    BY <1>1, <1>2, <1>8, PrjPageTurns DEF LeaveProject
  <1>9. ASSUME NEW u, PickManager(p, u) PROVE PrjInv'
    <2>1. PICK pg : pg = [old EXCEPT !.pm = u, !.picked = TRUE]
      OBVIOUS
    <2>2. /\ pg \in PrjPageShape(pg) /\ pg.project = old.project /\ pg.file = old.file /\ pg.detail = old.detail
          /\ pg.at = old.at /\ pg.send = old.send
      BY <1>2, <2>1 DEF PrjPageShape
    <2>3. PrjPageGood(pg)
      BY <1>2, <2>2, PrjSame
    <2>4. PrjTurn(p, pg) /\ UNCHANGED ProjectStore
      BY <1>1, <1>9, <2>1 DEF PickManager
    <2> QED BY <2>3, <2>4, PrjPageTurns
  <1>10. ASSUME NEW i \in 1..Len(projects), SelectProject(p, i) PROVE PrjInv'
    <2>1. PICK reads : reads = old.reads \union {i}
      OBVIOUS
    <2>2. PICK pg : pg = [old EXCEPT !.project = i, !.reads = reads]
      OBVIOUS
    <2>3. /\ pg \in PrjPageShape(pg) /\ pg.project = i /\ pg.file = old.file /\ pg.detail = old.detail
          /\ pg.at = old.at /\ pg.send = old.send
      <3>1. i \in Nat
        BY <1>2
      <3> QED BY <1>2, <2>2, <3>1 DEF PrjPageShape
    <2>4. PrjPageGood(pg)
      BY <1>2, <2>3 DEF PrjPageGood
    <2>5. [old EXCEPT !.project = i, !.reads = @ \union {i}] = pg
      BY <1>2, <2>1, <2>2 DEF PrjPageShape
    <2>6. PrjTurn(p, pg) /\ UNCHANGED ProjectStore
      BY <1>1, <1>10, <2>5 DEF SelectProject
    <2> QED BY <2>4, <2>6, PrjPageTurns
  <1>11. ASSUME NEW i \in 1..Len(projects), NEW at \in {"edit", "detail"}, OpenProject(p, i, at) PROVE PrjInv'
    <2>1. PICK reads : reads = {i}
      OBVIOUS
    <2>2. PICK pg : pg = [blank EXCEPT !.at = at, !.project = i, !.reads = reads]
      OBVIOUS
    <2>3. /\ pg \in PrjPageShape(pg) /\ pg.project = i /\ pg.file = blank.file /\ pg.detail = blank.detail /\ pg.send = "no"
      <3>1. i \in Nat
        BY <1>2
      <3> QED BY <1>2, <2>2, <3>1 DEF PrjPageShape
    <2>4. PrjPageGood(pg)
      BY <1>2, <2>3 DEF PrjPageGood
    <2>5. PrjTurn(p, pg) /\ UNCHANGED ProjectStore
      BY <1>1, <1>11, <2>1, <2>2 DEF OpenProject
    <2> QED BY <2>4, <2>5, PrjPageTurns
  <1>12. ASSUME NEW n \in 1..MaxPrjRuns, PickVersion(p, n) PROVE PrjInv'
    <2>1. PICK reads : reads = old.reads \union {-n}
      OBVIOUS
    <2>2. PICK pg : pg = [old EXCEPT !.chosen = n, !.reads = reads]
      OBVIOUS
    <2>3. /\ pg \in PrjPageShape(pg) /\ pg.project = old.project /\ pg.file = old.file /\ pg.detail = old.detail
          /\ pg.at = old.at /\ pg.send = old.send
      BY <1>2, <2>2 DEF PrjPageShape
    <2>4. PrjPageGood(pg)
      BY <1>2, <2>3, PrjSame
    <2>5. [old EXCEPT !.chosen = n, !.reads = @ \union {-n}] = pg
      BY <1>2, <2>1, <2>2 DEF PrjPageShape
    <2>6. PrjTurn(p, pg) /\ UNCHANGED ProjectStore
      BY <1>1, <1>12, <2>5 DEF PickVersion
    <2> QED BY <2>4, <2>6, PrjPageTurns
  <1>13. ASSUME NEW n \in 1..MaxPrjRuns, NEW ok \in BOOLEAN, PastArrives(p, n, ok) PROVE PrjInv'
    <2>1. PICK reads, past : reads = old.reads \ {-n} /\ past = IF ok THEN n ELSE old.past
      OBVIOUS
    <2>2. PICK pg : pg = [old EXCEPT !.reads = reads, !.past = past]
      OBVIOUS
    <2>3. /\ pg \in PrjPageShape(pg) /\ pg.project = old.project /\ pg.file = old.file /\ pg.detail = old.detail
          /\ pg.at = old.at /\ pg.send = old.send
      BY <1>2, <2>2 DEF PrjPageShape
    <2>4. PrjPageGood(pg)
      BY <1>2, <2>3, PrjSame
    <2>5. [old EXCEPT !.reads = @ \ {-n}, !.past = IF ok THEN n ELSE old.past] = pg
      BY <1>2, <2>1, <2>2 DEF PrjPageShape
    <2>6. PrjTurn(p, pg) /\ UNCHANGED ProjectStore
      BY <1>1, <1>13, <2>5 DEF PastArrives
    <2> QED BY <2>4, <2>6, PrjPageTurns
  <1> QED BY <1>3, <1>4, <1>5, <1>6, <1>7, <1>8, <1>9, <1>10, <1>11, <1>12, <1>13

LEMMA ProjectArrivesKeeps ==
    ASSUME PrjInv, NEW p \in PrjPages, NEW i \in 1..Len(projects), NEW ok \in BOOLEAN, ProjectArrives(p, i, ok) PROVE PrjInv'
  <1>1. PICK old, read : old = prjPage[p] /\ read = prjPage[p].reads \ {i}
    OBVIOUS
  <1>2. PrjPageGood(old) /\ old \in PrjPageShape(old) /\ uploads \in Nat /\ Len(projects) \in Nat
    BY <1>1, PrjPageNow
  <1>3. PICK came : came = [old EXCEPT !.reads = read]
    OBVIOUS
  <1>4. /\ came \in PrjPageShape(came) /\ came.project = old.project /\ came.file = old.file /\ came.detail = old.detail
        /\ came.at = old.at /\ came.send = old.send
    BY <1>2, <1>3 DEF PrjPageShape
  <1>5. PrjPageGood(came)
    BY <1>2, <1>4, PrjSame
  <1>6. [prjPage[p] EXCEPT !.reads = @ \ {i}] = came
    BY <1>1, <1>2, <1>3 DEF PrjPageShape
  <1>7. PICK detail, picked : detail = Detail(i) /\ picked = (came.picked /\ Detail(i).pm = NoOne)
    OBVIOUS
  <1>8. /\ UNCHANGED ProjectStore
        /\ PrjTurn(p, IF ok THEN PeopleOn([came EXCEPT !.detail = detail, !.picked = picked])
                      ELSE IF came.at = "new" THEN came ELSE NoPrjPage)
    BY <1>6, <1>7 DEF ProjectArrives
  <1>9. CASE ok
    <2>1. PICK pg : pg = [came EXCEPT !.detail = detail, !.picked = picked]
      OBVIOUS
    <2>2. detail.report \in 0..uploads
      <3>1. PICK proj : proj = projects[i]
        OBVIOUS
      <3>2. proj.report \in 0..uploads
        BY <3>1 DEF PrjInv, ProjectGood
      <3> QED BY <1>7, <3>1, <3>2 DEF Detail
    <2>3. /\ pg \in PrjPageShape(pg) /\ pg.project = came.project /\ pg.file = came.file /\ pg.detail = detail
          /\ pg.at = came.at /\ pg.send = came.send
      BY <1>4, <2>1 DEF PrjPageShape
    <2>4. PrjPageGood(pg)
      BY <1>5, <2>2, <2>3 DEF PrjPageGood
    <2>5. PrjTurn(p, PeopleOn(pg))
      BY <1>8, <1>9, <2>1
    <2> QED BY <1>8, <2>4, <2>5, PeopleOnGood, PrjPageTurns
  <1>10. CASE ~ok
    <2>1. PrjPageGood(NoPrjPage)
      BY NoPrjPageGood DEF PrjInv
    <2>2. PICK pg : pg = IF came.at = "new" THEN came ELSE NoPrjPage
      OBVIOUS
    <2>3. PrjPageGood(pg) /\ PrjTurn(p, pg)
      BY <1>5, <1>8, <1>10, <2>1, <2>2
    <2> QED BY <1>8, <2>3, PrjPageTurns
  <1> QED BY <1>9, <1>10

\* The report has the file that is uploaded next.
LEMMA UploadReportKeeps == ASSUME PrjInv, NEW p \in PrjPages, NEW ok \in BOOLEAN, UploadReport(p, ok) PROVE PrjInv'
  <1>1. PICK old : old = prjPage[p]
    OBVIOUS
  <1>2. PrjPageGood(old) /\ old \in PrjPageShape(old) /\ uploads \in Nat /\ Len(projects) \in Nat
    BY <1>1, PrjPageNow
  <1>3. CASE ok
    <2>1. PICK f : f = uploads + 1
      OBVIOUS
    <2>2. PICK pg : pg = [old EXCEPT !.send = "project", !.file = f]
      OBVIOUS
    <2>3. PrjTurn(p, pg) /\ uploads' = f /\ projects' = projects /\ removed' = removed /\ old.send = "file"
      BY <1>1, <1>3, <2>1, <2>2 DEF UploadReport
    <2>4. f \in Nat /\ 0..uploads \subseteq 0..f /\ 1..uploads \subseteq 1..f /\ f \in 0..f
      BY <1>2, <2>1
    <2>5. /\ pg \in PrjPageShape(pg) /\ pg.project = old.project /\ pg.file = f /\ pg.detail = old.detail
          /\ pg.at = old.at /\ pg.send = "project"
      BY <1>2, <2>2, <2>4 DEF PrjPageShape
    <2>6. /\ prjPage' = [q \in PrjPages |-> prjPage'[q]] /\ prjPage'[p] = pg
          /\ \A q \in PrjPages : q # p => prjPage'[q] = prjPage[q]
      BY <2>3 DEF PrjInv, PrjTurn
    <2>7. ASSUME NEW q \in PrjPages PROVE PrjPageGood(prjPage[q])'
      <3>1. PICK page_, was : page_ = prjPage'[q] /\ was = prjPage[q]
        OBVIOUS
      <3>2. PrjPageGood(was) /\ (q # p => page_ = was) /\ (q = p => page_ = pg /\ was = old)
        BY <1>1, <2>6, <3>1 DEF PrjInv
      <3>3. /\ page_ \in PrjPageShape(page_) /\ page_.project \in 0..Len(projects) /\ page_.file \in 0..f
            /\ page_.detail.report \in 0..f
            /\ (page_.at = "detail" \/ page_.send # "no") => page_.project # 0
        BY <2>3, <2>4, <2>5, <3>2 DEF PrjPageGood
      <3> QED BY <2>3, <3>1, <3>3 DEF PrjPageGood
    <2>8. ASSUME NEW i \in 1..Len(projects) PROVE ProjectGood(projects[i])'
      <3>1. PICK proj : proj = projects'[i]
        OBVIOUS
      <3>2. ProjectGood(proj)
        BY <2>3, <3>1 DEF PrjInv
      <3>3. proj \in [live : BOOLEAN, pm : {proj.pm}, rep : {proj.rep}, report : 0..f, past : {proj.past}] /\ InOrder(proj.past)
        BY <2>4, <3>2 DEF ProjectGood
      <3> QED BY <2>3, <3>1, <3>3 DEF ProjectGood, InOrder
    <2>9. ReportFileLives'
      <3>1. GivenTwice \subseteq GivenTwice'
        BY <2>3, <2>4 DEF GivenTwice, EverOf
      <3> QED BY <2>3, <3>1 DEF PrjInv, ReportFileLives
    <2> QED BY <2>3, <2>4, <2>6, <2>7, <2>8, <2>9 DEF PrjInv, InOrder
  <1>4. CASE ~ok
    <2>1. PICK pg : pg = [old EXCEPT !.send = "no"]
      OBVIOUS
    <2>2. PrjTurn(p, pg) /\ UNCHANGED ProjectStore
      BY <1>1, <1>4, <2>1 DEF UploadReport, ProjectStore
    <2>3. /\ pg \in PrjPageShape(pg) /\ pg.project = old.project /\ pg.file = old.file /\ pg.detail = old.detail
          /\ pg.at = old.at /\ pg.send = "no"
      BY <1>2, <2>1 DEF PrjPageShape
    <2> QED BY <1>2, <2>2, <2>3, PrjSame, PrjPageTurns
  <1> QED BY <1>3, <1>4

\* A project is stored or deleted: its report's file goes into its past or stays in it, and only this
\* file may be deleted.
LEMMA ProjectTurns ==
    ASSUME PrjInv, NEW p \in PrjPages, NEW i \in 1..Len(projects), NEW proj, ProjectGood(proj),
           projects' = [projects EXCEPT ![i] = proj], uploads' = uploads,
           \/ proj.past = projects[i].past /\ proj.report = projects[i].report
           \/ \E version : version.report = projects[i].report /\ proj.past = Append(projects[i].past, version),
           NEW gone, gone \subseteq {projects[i].report} \ {0}, removed' = removed \union gone,
           (proj.live /\ proj.report # 0) => gone = {} /\ proj.report \notin removed,
           NEW pg, PrjTurn(p, pg), PrjPageGood(pg)
    PROVE  PrjInv'
  <1>1. PICK n : n = Len(projects)
    OBVIOUS
  <1>2. /\ Len(projects') = n /\ InOrder(projects') /\ projects'[i] = proj /\ n \in Nat
        /\ \A j \in 1..n : j # i => projects'[j] = projects[j]
    <2>1. PICK rows : rows = projects
      OBVIOUS
    <2>2. PICK next : next = [rows EXCEPT ![i] = proj]
      OBVIOUS
    <2>3. InOrder(rows) /\ i \in 1..Len(rows)
      BY <2>1 DEF PrjInv
    <2>4. /\ InOrder(next) /\ Len(next) = Len(rows) /\ \A j \in 1..Len(rows) : next[j] = IF j = i THEN proj ELSE rows[j]
          /\ Len(rows) \in Nat
      BY <2>2, <2>3, Replaced
    <2>5. projects' = next
      BY <2>1, <2>2
    <2> QED BY <1>1, <2>1, <2>3, <2>4, <2>5
  <1>3. /\ prjPage' = [q \in PrjPages |-> prjPage'[q]] /\ prjPage'[p] = pg
        /\ \A q \in PrjPages : q # p => prjPage'[q] = prjPage[q]
    BY DEF PrjInv, PrjTurn
  <1>4. ASSUME NEW q \in PrjPages PROVE PrjPageGood(prjPage[q])'
    <2>1. PICK page_ : page_ = prjPage'[q]
      OBVIOUS
    <2>2. PrjPageGood(page_)
      BY <1>3, <2>1 DEF PrjInv
    <2> QED BY <1>1, <1>2, <2>1, <2>2 DEF PrjPageGood
  <1>5. ASSUME NEW j \in 1..n PROVE ProjectGood(projects[j])'
    <2>1. PICK row : row = projects'[j]
      OBVIOUS
    <2>2. ProjectGood(row)
      BY <1>1, <1>2, <2>1 DEF PrjInv
    <2> QED BY <2>1, <2>2 DEF ProjectGood, InOrder
  <1>6. \A j \in 1..n : EverOf(j) \subseteq EverOf(j)'
    <2>1. ASSUME NEW j \in 1..n, j # i PROVE EverOf(j) \subseteq EverOf(j)'
      BY <1>2, <2>1 DEF EverOf
    <2>2. EverOf(i) \subseteq EverOf(i)'
      <3>1. PICK former, last : former = projects[i].past /\ last = projects[i].report
        OBVIOUS
      <3>2. InOrder(former)
        BY <1>1, <3>1 DEF PrjInv, ProjectGood
      <3>3. CASE proj.past = former /\ proj.report = last
        BY <1>2, <3>1, <3>3 DEF EverOf
      <3>4. CASE \E version : version.report = last /\ proj.past = Append(former, version)
        <4>1. PICK version : version.report = last /\ proj.past = Append(former, version)
          BY <3>4
        <4>2. PICK longer : longer = Append(former, version)
          OBVIOUS
        <4>3. /\ Len(former) \in Nat /\ Len(longer) = Len(former) + 1 /\ longer[Len(former) + 1] = version
              /\ \A m \in 1..Len(former) : longer[m] = former[m]
          BY <3>2, <4>2, Appended
        <4>4. ASSUME NEW f \in {former[m].report : m \in 1..Len(former)} \union {last}
              PROVE  f \in {longer[m].report : m \in 1..Len(longer)}
          <5>1. CASE f = last
            BY <4>1, <4>3, <5>1
          <5>2. CASE \E m \in 1..Len(former) : f = former[m].report
            <6>1. PICK m \in 1..Len(former) : f = former[m].report
              BY <5>2
            <6>2. m \in 1..Len(longer) /\ longer[m] = former[m]
              BY <4>3
            <6> QED BY <6>1, <6>2
          <5> QED BY <5>1, <5>2
        <4>5. projects'[i].past = longer
          BY <1>2, <4>1, <4>2
        <4> QED BY <3>1, <4>4, <4>5 DEF EverOf
      <3> QED BY <3>1, <3>3, <3>4
    <2> QED BY <2>1, <2>2
  <1>7. GivenTwice \subseteq GivenTwice'
    <2> SUFFICES ASSUME NEW f \in GivenTwice PROVE f \in GivenTwice'
      OBVIOUS
    <2>1. PICK j \in 1..n, k \in 1..n : j # k /\ f \in EverOf(j) /\ f \in EverOf(k)
      BY <1>1 DEF GivenTwice
    <2>2. f \in EverOf(j)' /\ f \in EverOf(k)' /\ f \in 1..uploads
      BY <1>6, <2>1 DEF GivenTwice
    <2> QED BY <1>2, <2>1, <2>2 DEF GivenTwice
  <1>8. ASSUME NEW j \in 1..n, projects'[j].live, projects'[j].report # 0, projects'[j].report \in removed'
        PROVE  projects'[j].report \in GivenTwice'
    <2>1. CASE j = i
      BY <1>2, <1>8, <2>1
    <2>2. CASE j # i
      <3>1. PICK f : f = projects[j].report
        OBVIOUS
      <3>2. projects'[j] = projects[j]
        BY <1>2, <2>2
      <3>3. CASE f \in removed
        BY <1>1, <1>7, <1>8, <3>1, <3>2, <3>3 DEF PrjInv, ReportFileLives
      <3>4. CASE f \in gone
        <4>1. f = projects[i].report /\ f # 0
          BY <3>4
        <4>2. f \in EverOf(i) /\ f \in EverOf(j)
          BY <3>1, <4>1 DEF EverOf
        <4>3. f \in EverOf(i)' /\ f \in EverOf(j)'
          BY <1>1, <1>6, <4>2
        <4>4. f \in 0..uploads
          BY <1>1, <3>1 DEF PrjInv, ProjectGood
        <4>5. f \in 1..uploads
          BY <4>1, <4>4 DEF PrjInv
        <4> QED BY <1>1, <1>2, <2>2, <3>1, <3>2, <4>3, <4>5 DEF GivenTwice
      <3> QED BY <1>8, <3>1, <3>2, <3>3, <3>4
    <2> QED BY <2>1, <2>2
  <1>9. ReportFileLives'
    BY <1>2, <1>8 DEF ReportFileLives
  <1>10. uploads' \in Nat
    BY DEF PrjInv
  <1> QED BY <1>2, <1>3, <1>4, <1>5, <1>9, <1>10 DEF PrjInv, InOrder

LEMMA DeleteProjectKeeps == ASSUME PrjInv, NEW p \in PrjPages, DeleteProject(p) PROVE PrjInv'
  <1>1. PICK i, old : i = prjPage[p].project /\ old = projects[i]
    OBVIOUS
  <1>2. i \in 1..Len(projects) /\ PrjPageGood(NoPrjPage)
    <2>1. PrjPageGood(prjPage[p]) /\ prjPage[p].at = "detail" /\ Len(projects) \in Nat
      BY PrjPageNow DEF DeleteProject
    <2>2. i \in 0..Len(projects) /\ i # 0
      BY <1>1, <2>1 DEF PrjPageGood
    <2> QED BY <2>1, <2>2, NoPrjPageGood DEF PrjInv
  <1>3. ProjectGood(old)
    BY <1>1, <1>2 DEF PrjInv
  <1>4. PICK proj : proj = [old EXCEPT !.live = FALSE]
    OBVIOUS
  <1>5. ProjectGood(proj) /\ proj.past = old.past /\ proj.report = old.report /\ ~proj.live
    BY <1>3, <1>4 DEF ProjectGood
  <1>6. PICK gone : gone = {old.report} \ {0}
    OBVIOUS
  <1>7. /\ projects' = [projects EXCEPT ![i].live = FALSE] /\ removed' = removed \union gone /\ uploads' = uploads
        /\ PrjTurn(p, NoPrjPage)
    BY <1>1, <1>6 DEF DeleteProject
  <1>8. projects' = [projects EXCEPT ![i] = proj]
    BY <1>1, <1>4, <1>7
  <1>9. gone \subseteq {projects[i].report} \ {0} /\ proj.past = projects[i].past /\ proj.report = projects[i].report
    BY <1>1, <1>5, <1>6
  <1> QED BY <1>2, <1>5, <1>7, <1>8, <1>9, ProjectTurns

LEMMA StoreResultKeeps == ASSUME PrjInv, NEW p \in PrjPages, NEW told \in BOOLEAN, StoreResult(p, told) PROVE PrjInv'
  <1>1. PICK page_, i, old, file : page_ = prjPage[p] /\ i = page_.project /\ old = projects[i] /\ file = ReportSent(page_)
    OBVIOUS
  <1>2. PrjPageGood(page_) /\ page_ \in PrjPageShape(page_) /\ uploads \in Nat /\ Len(projects) \in Nat /\ page_.send = "project"
    BY <1>1, PrjPageNow DEF StoreResult
  <1>3. i \in 1..Len(projects)
    <2>1. i \in 0..Len(projects) /\ i # 0
      BY <1>1, <1>2 DEF PrjPageGood
    <2> QED BY <1>2, <2>1
  <1>4. PICK pg : pg = IF told THEN NoPrjPage ELSE [page_ EXCEPT !.send = "no"]
    OBVIOUS
  <1>5. PrjTurn(p, pg) /\ uploads' = uploads
    BY <1>1, <1>4 DEF StoreResult
  <1>6. PrjPageGood(pg)
    <2>1. CASE told
      BY <1>4, <2>1, NoPrjPageGood DEF PrjInv
    <2>2. CASE ~told
      <3>1. pg = [page_ EXCEPT !.send = "no"]
        BY <1>4, <2>2
      <3>2. /\ pg \in PrjPageShape(pg) /\ pg.project = page_.project /\ pg.file = page_.file /\ pg.detail = page_.detail
            /\ pg.at = page_.at /\ pg.send = "no"
        BY <1>2, <3>1 DEF PrjPageShape
      <3> QED BY <1>2, <3>2, PrjSame
    <2> QED BY <2>1, <2>2
  <1>7. file \in 0..uploads
    BY <1>1, <1>2 DEF ReportSent, PrjPageGood
  <1>8. ProjectGood(old)
    BY <1>1, <1>3 DEF PrjInv
  <1>9. CASE old.live /\ ReportFound(file)
    <2>1. PICK rep, pm : rep = RepSent(page_) /\ pm = page_.pm
      OBVIOUS
    <2>2. PICK next : next = [old EXCEPT !.pm = pm, !.rep = rep, !.report = file]
      OBVIOUS
    <2>3. PICK version : version = Version(old)
      OBVIOUS
    <2>4. PICK past : past = Append(old.past, version)
      OBVIOUS
    <2>5. PICK proj : proj = [next EXCEPT !.past = past]
      OBVIOUS
    <2>6. PICK gone : gone = IF file = 0 THEN {old.report} \ {0} ELSE {}
      OBVIOUS
    <2>7. PastOf(old, next) = past
      BY <2>3, <2>4 DEF PastOf
    <2>8. /\ projects' = [projects EXCEPT ![i] = proj]
          /\ removed' = IF file = 0 THEN removed \union ({old.report} \ {0}) ELSE removed
      BY <1>1, <1>9, <2>1, <2>2, <2>5, <2>7 DEF StoreResult
    <2>9. removed' = removed \union gone
      BY <2>6, <2>8
    <2>10. InOrder(past)
      BY <1>8, <2>4, Appended DEF ProjectGood
    <2>11. /\ proj \in [live : BOOLEAN, pm : {proj.pm}, rep : {proj.rep}, report : 0..uploads, past : {proj.past}]
           /\ proj.past = past /\ proj.report = file
      BY <1>7, <1>8, <2>2, <2>5 DEF ProjectGood
    <2>12. ProjectGood(proj)
      BY <2>10, <2>11 DEF ProjectGood
    <2>13. version.report = old.report
      BY <2>3 DEF Version
    <2>14. file # 0 => gone = {} /\ file \notin removed
      BY <1>9, <2>6 DEF ReportFound
    <2>15. gone \subseteq {projects[i].report} \ {0}
      BY <1>1, <2>6
    <2>16. \E version_ : version_.report = projects[i].report /\ proj.past = Append(projects[i].past, version_)
      BY <1>1, <2>4, <2>11, <2>13
    <2> QED BY <1>3, <1>5, <1>6, <2>8, <2>9, <2>11, <2>12, <2>14, <2>15, <2>16, ProjectTurns
  <1>10. CASE ~(old.live /\ ReportFound(file))
    <2>1. UNCHANGED ProjectStore
      BY <1>1, <1>5, <1>10 DEF StoreResult, ProjectStore
    <2> QED BY <1>5, <1>6, <2>1, PrjPageTurns
  <1> QED BY <1>9, <1>10

LEMMA PrjInvStays == PrjInv /\ ProjectNext => PrjInv'
  <1> SUFFICES ASSUME PrjInv, NEW p \in PrjPages,
                      \/ OpenResultForm(p) \/ PrjUsersArrive(p) \/ AttachReport(p) \/ SendResult(p)
                      \/ BackToProject(p) \/ DeleteProject(p) \/ LeaveProject(p)
                      \/ \E u \in ToSet(PrjUsers) \union {NoOne} : PickManager(p, u)
                      \/ \E ok \in BOOLEAN : UploadReport(p, ok) \/ StoreResult(p, ok)
                      \/ \E i \in 1..Len(projects) :
                           \/ SelectProject(p, i)
                           \/ \E at \in {"edit", "detail"} : OpenProject(p, i, at)
                           \/ \E ok \in BOOLEAN : ProjectArrives(p, i, ok)
                      \/ \E n \in 1..MaxPrjRuns : PickVersion(p, n) \/ \E ok \in BOOLEAN : PastArrives(p, n, ok)
               PROVE  PrjInv'
    BY DEF ProjectNext
  <1> QED BY PrjPageKeeps, ProjectArrivesKeeps, UploadReportKeeps, DeleteProjectKeeps, StoreResultKeeps

LEMMA ProjectsRest == PrjInv /\ UNCHANGED prjVars => PrjInv'
  <1> SUFFICES ASSUME PrjInv, UNCHANGED prjVars PROVE PrjInv'
    OBVIOUS
  <1>1. UNCHANGED <<projects, uploads, removed, prjPage>>
    BY DEF prjVars
  <1>2. ASSUME NEW q \in PrjPages PROVE PrjPageGood(prjPage[q])'
    BY <1>1 DEF PrjInv, PrjPageGood
  <1>3. ASSUME NEW i \in 1..Len(projects) PROVE ProjectGood(projects[i])'
    <2>1. PICK proj : proj = projects'[i]
      OBVIOUS
    <2>2. ProjectGood(proj)
      BY <1>1, <2>1 DEF PrjInv
    <2> QED BY <1>1, <2>1, <2>2 DEF ProjectGood, InOrder
  <1>4. ReportFileLives'
    BY <1>1 DEF PrjInv, ReportFileLives, GivenTwice, EverOf
  <1> QED BY <1>1, <1>2, <1>3, <1>4 DEF PrjInv, InOrder

-----------------------------------------------------------------------------
(* The pages side by side: one works, the others stay as they are.         *)

DeliveryInv == OrderInv /\ RepInv /\ LicInv /\ ChatInv

LEMMA OrderRests == OrderInv /\ UNCHANGED orderVars => OrderInv'
  <1> SUFFICES ASSUME OrderInv, UNCHANGED orderVars PROVE OrderInv'
    OBVIOUS
  <1>1. UNCHANGED <<orders, orderForm, orderSend>>
    BY DEF orderVars
  <1> QED BY <1>1 DEF OrderInv, OrderShape, CheckedAlways, OrderUnderWay, HasReport, OneEach, InOrder

LEMMA ReportRests == RepInv /\ UNCHANGED repVars => RepInv'
  BY DEF repVars, RepInv, RepShape, LoadingMeansRunning, GroupsWhole

LEMMA LicencesRest == LicInv /\ UNCHANGED licVars => LicInv'
  <1> SUFFICES ASSUME LicInv, UNCHANGED licVars PROVE LicInv'
    OBVIOUS
  <1>1. UNCHANGED <<licences, batches>>
    BY DEF licVars
  <1>2. ASSUME NEW call PROVE HeldCalls(call)' = HeldCalls(call) /\ StoredFor(call)' = StoredFor(call)
    BY <1>1 DEF HeldCalls, StoredFor
  <1>3. ASSUME NEW call PROVE (Cardinality(HeldCalls(call)) <= Cardinality(StoredFor(call)))'
    BY <1>2 DEF LicInv
  <1> QED BY <1>1, <1>3 DEF LicInv, InOrder, BatchShape

LEMMA ChatRests == ChatInv /\ UNCHANGED chatVars => ChatInv'
  <1> SUFFICES ASSUME ChatInv, UNCHANGED chatVars PROVE ChatInv'
    OBVIOUS
  <1>1. UNCHANGED <<chats, indexed, strays, asked, chatCalls>>
    BY DEF chatVars
  <1>2. Asks' = Asks /\ \A c \in chatCalls' : c \in CallShape(c)
    BY <1>1 DEF Asks, ChatInv
  <1> QED BY <1>1, <1>2, NoneStored, OtherKeeps

LEMMA DeliveryInvStays == DeliveryInv /\ [DeliveryNext]_deliveryVars => DeliveryInv'
  <1> SUFFICES ASSUME DeliveryInv, [DeliveryNext]_deliveryVars PROVE DeliveryInv'
    OBVIOUS
  <1>1. OrderInv /\ RepInv /\ LicInv /\ ChatInv
    BY DEF DeliveryInv
  <1>2. OrderNext \/ UNCHANGED orderVars
    BY DEF DeliveryNext, Works, deliveryVars
  <1>3. RepNext \/ UNCHANGED repVars
    BY DEF DeliveryNext, Works, deliveryVars
  <1>4. LicNext \/ UNCHANGED licVars
    BY DEF DeliveryNext, Works, deliveryVars
  <1>5. ChatNext \/ UNCHANGED chatVars
    BY DEF DeliveryNext, Works, deliveryVars
  <1>6. OrderInv' /\ RepInv'
    BY <1>1, <1>2, <1>3, OrderInvStays, RepInvStays, OrderRests, ReportRests
  <1>7. LicInv' /\ ChatInv'
    BY <1>1, <1>4, <1>5, LicInvStays, ChatInvStays, LicencesRest, ChatRests
  <1> QED BY <1>6, <1>7 DEF DeliveryInv

LEMMA DeliveryInvPromises == DeliveryInv => OnceAndWhole
  <1> SUFFICES ASSUME DeliveryInv PROVE OnceAndWhole
    OBVIOUS
  <1>1. OneReportWhenChecked
    BY DEF DeliveryInv, OrderInv, CheckedAlways, OneEach, OneReportWhenChecked
  <1>2. LoadingMeansRunning /\ GroupsWhole
    BY DEF DeliveryInv, RepInv
  <1>3. RequestedAllStored /\ QuestionStoredOnce
    BY HeldIsStored, ChatInvPromises DEF DeliveryInv
  <1> QED BY <1>1, <1>2, <1>3 DEF OnceAndWhole

\* Whatever the users of the pages type, send, repeat and reload, however answers overtake each
\* other and calls fail: a question is stored once, an opportunity whose list was read before every
\* sending has one report, the report's button is disabled exactly while a request of this load
\* runs, options of one group are ticked together, and every licence of a submission reported as
\* done is stored. The order reports there are at first must exist and be of different opportunities.
THEOREM EachOnce ==
    ASSUME \A rows \in StoredOrders : OneEach(rows)
    PROVE  DeliverySpec => []OnceAndWhole
  <1>1. DeliveryInit => DeliveryInv
    BY OrderInvStarts, RepInvStarts, LicInvStarts, ChatInvStarts DEF DeliveryInit, DeliveryInv
  <1> QED BY <1>1, DeliveryInvStays, DeliveryInvPromises, PTL DEF DeliverySpec

\* FilesOutOfIndex, of the chatbot: a file put into the index for a question stays there only as
\* long as the asking that uploaded it has not ended, unless the upload's answer was lost or the
\* removal itself failed.
THEOREM FilesLeaveTheIndex == DeliverySpec => []FilesOutOfIndex
  <1>1. DeliveryInit => ChatInv
    BY ChatInvStarts DEF DeliveryInit
  <1>2. ChatInv /\ [DeliveryNext]_deliveryVars => ChatInv'
    <2>1. [DeliveryNext]_deliveryVars => ChatNext \/ UNCHANGED chatVars
      BY DEF DeliveryNext, Works, deliveryVars
    <2> QED BY <2>1, ChatInvStays, ChatRests
  <1> QED BY <1>1, <1>2, ChatInvPromises, PTL DEF DeliverySpec

\* What is offered to whoever is logged in.
OfferInv == PanelInv /\ BillInv /\ AlarmInv /\ SaysInv

LEMMA SaysRest == SaysInv /\ UNCHANGED chatVars => SaysInv'
  BY ChatRests, ChatsSayStays, CallsSayNext, WindowSaysStays DEF SaysInv

LEMMA OfferInvStays == OfferInv /\ [DeliveryNext]_deliveryVars => OfferInv'
  <1> SUFFICES ASSUME OfferInv, [DeliveryNext]_deliveryVars PROVE OfferInv'
    OBVIOUS
  <1>1. PanelInv /\ BillInv /\ AlarmInv /\ SaysInv
    BY DEF OfferInv
  <1>2. PanelNext \/ UNCHANGED panelVars
    BY DEF DeliveryNext, Works, deliveryVars
  <1>3. BillingNext \/ UNCHANGED billVars
    BY DEF DeliveryNext, Works, deliveryVars
  <1>4. AlarmsNext \/ UNCHANGED alarmVars
    BY DEF DeliveryNext, Works, deliveryVars
  <1>5. ChatNext \/ UNCHANGED chatVars
    BY DEF DeliveryNext, Works, deliveryVars
  <1>6. PanelInv' /\ BillInv'
    BY <1>1, <1>2, <1>3, PanelInvStays, BillInvStays, PanelRests, BillRests
  <1>7. AlarmInv' /\ SaysInv'
    BY <1>1, <1>4, <1>5, AlarmInvStays, SaysInvStays, AlarmsRest, SaysRest
  <1> QED BY <1>6, <1>7 DEF OfferInv

\* Whoever logs in, switches accounts or reloads, whatever calls fail and however late their answers
\* come: the current approver of a document that is shown as it is, once its reads have come back, is
\* offered the decision and a billing's invoice is issued by its issuer; the alarms kept for an account
\* are of that account and marked read only when they are, the two late answers excepted that Alarms
\* records; and an answer is shown in the conversation its question was asked in.
THEOREM OfferedRightly == DeliverySpec => []OfferedToTheirUser
  <1>1. DeliveryInit => OfferInv
    BY PanelInvStarts, BillInvStarts, AlarmInvStarts, SaysInvStarts DEF DeliveryInit, OfferInv
  <1>2. OfferInv => OfferedToTheirUser
    BY PanelInvOffers, BillInvPromises, AlarmInvPromises, SaysInvPromises DEF OfferInv, OfferedToTheirUser
  <1> QED BY <1>1, <1>2, OfferInvStays, PTL DEF DeliverySpec

\* Whose rows name files: billings, maintenance contracts and projects.
FileInv == BillInv /\ MntInv /\ PrjInv

LEMMA FileInvStays == FileInv /\ [DeliveryNext]_deliveryVars => FileInv'
  <1> SUFFICES ASSUME FileInv, [DeliveryNext]_deliveryVars PROVE FileInv'
    OBVIOUS
  <1>1. BillInv /\ MntInv /\ PrjInv
    BY DEF FileInv
  <1>2. BillingNext \/ UNCHANGED billVars
    BY DEF DeliveryNext, Works, deliveryVars
  <1>3. MaintenanceNext \/ UNCHANGED mntVars
    BY DEF DeliveryNext, Works, deliveryVars
  <1>4. ProjectNext \/ UNCHANGED prjVars
    BY DEF DeliveryNext, Works, deliveryVars
  <1>5. BillInv' /\ MntInv' /\ PrjInv'
    BY <1>1, <1>2, <1>3, <1>4, BillInvStays, MntInvStays, PrjInvStays, BillRests, MntRests, ProjectsRest
  <1> QED BY <1>5 DEF FileInv

\* Whatever stale pages send, whichever uploads, saves and deletions fail or overtake each other: the
\* invoice of a billing, the file of a maintenance contract and the file of a project's report are not
\* deleted while the row names them (the one double remark and the file of two projects excepted that
\* Billing and ProjectResult record), and no answered question leaves its file in the index.
THEOREM FilesStay == DeliverySpec => []FilesStayWithTheirRows
  <1>1. DeliveryInit => FileInv
    BY BillInvStarts, MntInvStarts, PrjInvStarts DEF DeliveryInit, FileInv
  <1>2. FileInv => InvoiceFileKept /\ ContractFileLives /\ ReportFileLives
    BY BillInvPromises, MntInvPromises DEF FileInv, PrjInv
  <1>3. InvoiceFileKept /\ ContractFileLives /\ ReportFileLives /\ FilesOutOfIndex => FilesStayWithTheirRows
    BY DEF FilesStayWithTheirRows
  <1> QED BY <1>1, <1>2, <1>3, FileInvStays, FilesLeaveTheIndex, PTL DEF DeliverySpec

=============================================================================
