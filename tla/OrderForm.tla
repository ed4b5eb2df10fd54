----------------------------- MODULE OrderForm -----------------------------
(***************************************************************************)
(* Writing an order report: order-report-form.tsx, its sections under      *)
(* order/, contract-api.ts and the service behind them.                    *)
(*                                                                         *)
(* The opportunity chosen brings its customer, and the customer's first    *)
(* contact once the list of contacts has come. The sheet adds up the rows  *)
(* typed in it and shares them among the classes of sales; the service     *)
(* prices and adds up the rows it is sent, and the page of a stored report *)
(* shares them again. Whether the opportunity has a report already is      *)
(* asked by the form alone, before it sends a new one.                     *)
(***************************************************************************)
EXTENDS Integers, Sequences

CONSTANTS
    CustomerOf,      \* CustomerOf[o]: company of the o-th opportunity
    Staffed,         \* companies that have a contact
    ListPrice,       \* ListPrice[p]: unit price of product p, 0 when it has none
    ClassOf,         \* ClassOf[p]: class of product p
    OrderQuantities, \* numbers typed in a row
    StoredOrders,    \* reports stored at first
    MaxOrderChanges, \* bound: changes made in the form
    MaxOrderSends,   \* bound: times it is sent
    MaxOrderFaults   \* bound: calls that fail or whose answer is lost

NoProduct == "none"
NoCompany == 0

Sides == {"final", "partner"}
Classes == {"EMS", "FLOOR", "TOOLS"}
Cycles == {"month", "quarter"}
Fees == {"service", "other", "purchase"}

OrderCompanies == {CustomerOf[o] : o \in DOMAIN CustomerOf}

ASSUME OrderAssumption ==
    /\ NoProduct \notin DOMAIN ListPrice /\ NoCompany \notin OrderCompanies
    /\ DOMAIN ClassOf = DOMAIN ListPrice /\ \A p \in DOMAIN ClassOf : ClassOf[p] \in Classes
    /\ OrderQuantities \subseteq Nat /\ MaxOrderSends \in Nat

VARIABLES
    orders,      \* orders[r]: row r of the order_report table
    orderForm,   \* the open form
    orderReads,  \* lists of contacts asked for and not answered
    orderSend,   \* orderSend[s]: the s-th time the form was sent
    orderFaults  \* calls failed or unanswered so far

orderVars == <<orders, orderForm, orderReads, orderSend, orderFaults>>

OrderSends == 1..MaxOrderSends

-----------------------------------------------------------------------------
(* Amounts. One row of each kind; its price is 1 where the price is free.  *)

\* parseInt on a number written with separators: it stops at the first one.
WholeGroup(n) == IF n >= 1000 THEN n \div 1000 ELSE n

FeesOf(row, kinds) ==
    LET fee(k) == IF k \in kinds THEN row.fees[k] ELSE 0 IN fee("service") + fee("other") + fee("purchase")

\* The subtotals of the sheet, typed price and number multiplied.
LicenceTyped(form) == form.quantity * form.price

\* The total at the top of the sheet, purchases and discounts included.
SheetTotal(form) == LicenceTyped(form) + form.months + FeesOf(form, Fees) - form.discount

\* License.applyPrice: the service takes the price of the product.
LicencePriced(row) == IF row.product = NoProduct THEN 0 ELSE row.quantity * ListPrice[row.product]

\* OrderReport.calculateTotalAmount.
StoredTotal(row) == LicencePriced(row) + row.months + FeesOf(row, Fees)

\* The classes of sales the service keeps for licences.
StoredClass(row, class) ==
    IF row.product # NoProduct /\ ClassOf[row.product] = class THEN LicencePriced(row) ELSE 0

\* Mutant: other sales are left out of the remaining class.
DetailOthers_NoFees(row) == StoredClass(row, "TOOLS") + StoredClass(row, "FLOOR")

\* The page of a report computes the remaining class itself: it compares the labels of
\* the classes with their codes, and that of one class differs from its code.
DetailOthers(row) ==
    StoredClass(row, "TOOLS") + StoredClass(row, "FLOOR") + FeesOf(row, {"service", "other"})

\* The cell that should be zero: total, less purchases, less the classes shown.
DetailCheck(row) ==
    StoredTotal(row) - row.fees["purchase"]
      - (StoredClass(row, "EMS") + StoredClass(row, "FLOOR") + row.months + DetailOthers(row))

-----------------------------------------------------------------------------
(* The form.                                                               *)

NoSide == [company |-> NoCompany, contact |-> NoCompany]
NoFees == [k \in Fees |-> 0]

BlankOrder ==
    [opp |-> 0, sides |-> [d \in Sides |-> NoSide], product |-> NoProduct, quantity |-> 0,
     price |-> 0, fees |-> NoFees, months |-> 0, cycle |-> "", vat |-> FALSE, pm |-> FALSE, discount |-> 0]

\* Mutant: the cycle is read from another wording.
Reopened_NoCycle(row) ==
    [BlankOrder EXCEPT !.opp = row.opp, !.sides = row.sides, !.product = row.product, !.quantity = row.quantity,
        !.price = IF row.product = NoProduct THEN 0 ELSE ListPrice[row.product],
        !.fees = row.fees, !.months = row.months, !.vat = TRUE, !.pm = TRUE]

\* defaultValues of an edit; a discount is kept nowhere.
Reopened(row) ==
    [BlankOrder EXCEPT !.opp = row.opp, !.sides = row.sides, !.product = row.product, !.quantity = row.quantity,
        !.price = IF row.product = NoProduct THEN 0 ELSE ListPrice[row.product],
        !.fees = row.fees, !.months = row.months, !.cycle = row.cycle, !.vat = TRUE, !.pm = TRUE]

\* The form once the company of a side has changed: the list of its contacts is asked for,
\* and until it comes the one shown stays.
Asked(form, side) == {[to |-> "list", side |-> d, company |-> form.sides[d].company] : d \in side}

\* The report arrives; its contacts are asked for, and those of both sides are listed.
OrderLoaded ==
    /\ orderForm.phase = "loading" /\ orders[1].live
    /\ orderForm' = [orderForm EXCEPT !.phase = "open", !.sheet = Reopened(orders[1])]
    /\ orderReads' = Asked(Reopened(orders[1]), Sides)
    /\ UNCHANGED <<orders, orderSend, orderFaults>>

\* The products arrive; the tables of rows are shown from then on.
ProductsLoaded ==
    /\ ~orderForm.products /\ orderForm.phase = "open"
    /\ orderForm' = [orderForm EXCEPT !.products = TRUE]
    /\ UNCHANGED <<orders, orderReads, orderSend, orderFaults>>

ChangeOrder(next) ==
    /\ orderForm.phase = "open" /\ orderForm.changes < MaxOrderChanges
    /\ orderForm' = [orderForm EXCEPT !.sheet = next, !.changes = @ + 1]
    /\ UNCHANGED <<orders, orderSend, orderFaults>>

ChangeHeader(next) ==
    /\ orderForm.phase = "open" /\ orderForm' = [orderForm EXCEPT !.sheet = next]
    /\ UNCHANGED <<orders, orderReads, orderSend, orderFaults>>
ChangeRows(next) == orderForm.products /\ ChangeOrder(next) /\ UNCHANGED orderReads

\* Mutant: the contacts of the company before stay.
Picked_KeepsContact(sheet, o) ==
    [sheet EXCEPT !.opp = o, !.sides = [d \in Sides |-> [company |-> CustomerOf[o], contact |-> sheet.sides[d].contact]]]

Picked(sheet, o) ==
    [sheet EXCEPT !.opp = o, !.sides = [d \in Sides |-> [company |-> CustomerOf[o], contact |-> NoCompany]]]

\* handleSelectOpportunity: its customer on both sides, whose contacts are asked for
\* once to choose the first, and once on each side to list them.
PickOpportunity(o) ==
    /\ o # orderForm.sheet.opp
    /\ ChangeOrder(Picked(orderForm.sheet, o))
    /\ orderReads' = orderReads \cup {[to |-> "first", side |-> "both", company |-> CustomerOf[o]]}
                       \cup Asked(Picked(orderForm.sheet, o),
                              {d \in Sides : orderForm.sheet.sides[d].company # CustomerOf[o]})

\* The company of one side is chosen by itself.
ChooseCompany(d, c) ==
    LET next == [orderForm.sheet EXCEPT !.sides[d] = [company |-> c, contact |-> NoCompany]] IN
    /\ c # orderForm.sheet.sides[d].company
    /\ ChangeOrder(next)
    /\ orderReads' = orderReads \cup Asked(next, {d})

\* A contact is chosen in the list shown, be it that of the company before.
ChooseContact(d) ==
    /\ orderForm.listed[d] \in Staffed /\ orderForm.phase = "open" /\ orderForm.changes < MaxOrderChanges
    /\ orderForm' = [orderForm EXCEPT !.sheet.sides[d].contact = orderForm.listed[d], !.changes = @ + 1,
                        !.mixed = @ \/ orderForm.listed[d] # orderForm.sheet.sides[d].company]
    /\ UNCHANGED <<orders, orderReads, orderSend, orderFaults>>

\* The answer that chooses the first contact writes it on both sides, whatever company
\* they have by then.
FirstContactArrives(r) ==
    /\ r.to = "first" /\ orderForm.phase = "open"
    /\ orderReads' = orderReads \ {r}
    /\ orderForm' = IF r.company \in Staffed
                    THEN [orderForm EXCEPT !.sheet.sides = [d \in Sides |-> [@[d] EXCEPT !.contact = r.company]],
                           !.mixed = @ \/ \E d \in Sides : orderForm.sheet.sides[d].company # r.company]
                    ELSE orderForm
    /\ UNCHANGED <<orders, orderSend, orderFaults>>

\* A list of contacts arrives; nothing tells an old one from the one asked for last.
ContactsArrive(r) ==
    /\ r.to = "list" /\ orderForm.phase = "open"
    /\ orderReads' = orderReads \ {r}
    /\ orderForm' = [orderForm EXCEPT !.listed[r.side] = r.company]
    /\ UNCHANGED <<orders, orderSend, orderFaults>>

ContactsFail(r) ==
    /\ orderFaults < MaxOrderFaults /\ orderFaults' = orderFaults + 1
    /\ orderReads' = orderReads \ {r}
    /\ UNCHANGED <<orders, orderForm, orderSend>>

\* The product chosen brings its price; choosing none blanks it.
ChooseLicence(p) ==
    /\ p # orderForm.sheet.product
    /\ ChangeRows([orderForm.sheet EXCEPT !.product = p, !.price = IF p = NoProduct THEN 0 ELSE ListPrice[p]])

\* The project manager and the kind of VAT, chosen once.
ChooseManager == ~orderForm.sheet.pm /\ ChangeHeader([orderForm.sheet EXCEPT !.pm = TRUE])
ChooseVat == ~orderForm.sheet.vat /\ ChangeHeader([orderForm.sheet EXCEPT !.vat = TRUE])
TypePrice(n) == n # orderForm.sheet.price /\ ChangeRows([orderForm.sheet EXCEPT !.price = n])
TypeQuantity(n) == n # orderForm.sheet.quantity /\ ChangeRows([orderForm.sheet EXCEPT !.quantity = n])
TypeFee(k, n) == n # orderForm.sheet.fees[k] /\ ChangeRows([orderForm.sheet EXCEPT !.fees[k] = n])
TypeMonths(n, c) == n # orderForm.sheet.months /\ ChangeRows([orderForm.sheet EXCEPT !.months = n, !.cycle = c])
TypeDiscount(n) == n # orderForm.sheet.discount /\ ChangeRows([orderForm.sheet EXCEPT !.discount = n])

-----------------------------------------------------------------------------
(* Sending it.                                                             *)

\* Mutant: services are not sent.
OrderPayload_NoService(sheet) ==
    [opp |-> sheet.opp, sides |-> sheet.sides, product |-> sheet.product,
     quantity |-> IF sheet.product = NoProduct THEN 0 ELSE WholeGroup(IF sheet.quantity = 0 THEN 1 ELSE sheet.quantity),
     fees |-> [sheet.fees EXCEPT !["service"] = 0],
     months |-> WholeGroup(sheet.months),
     vat |-> sheet.vat,
     cycle |-> IF sheet.months > 0 /\ sheet.cycle = "" THEN "month" ELSE sheet.cycle]

\* Neither the price typed nor the discount is sent; a licence without a number is one.
OrderPayload(sheet) ==
    [opp |-> sheet.opp, sides |-> sheet.sides, product |-> sheet.product,
     quantity |-> IF sheet.product = NoProduct THEN 0 ELSE WholeGroup(IF sheet.quantity = 0 THEN 1 ELSE sheet.quantity),
     fees |-> [k \in Fees |-> IF k = "service" THEN sheet.fees[k] ELSE WholeGroup(sheet.fees[k])],
     months |-> WholeGroup(sheet.months),
     vat |-> sheet.vat,
     cycle |-> IF sheet.months > 0 /\ sheet.cycle = "" THEN "month" ELSE sheet.cycle]

\* Mutant: the contacts are not asked for.
OrderComplete_NoContact(sheet) ==
    /\ sheet.pm /\ \A d \in Sides : sheet.sides[d].company # NoCompany
    /\ sheet.product # NoProduct => sheet.price > 0

\* What onSubmit asks for.
OrderComplete(sheet) ==
    /\ sheet.pm /\ \A d \in Sides : sheet.sides[d].company # NoCompany /\ sheet.sides[d].contact # NoCompany
    /\ sheet.product # NoProduct => sheet.price > 0

NoOrderSend == [phase |-> "idle", row |-> {}]

\* The button is disabled from the moment the report itself is sent.
OrderButton == orderForm.phase = "open" /\ \A s \in OrderSends : orderSend[s].phase # "sent"

\* onSubmit. A new report first asks for the list; a form that lacks something stops.
SubmitOrder(s) ==
    /\ OrderButton /\ orderForm.sheet.opp # 0 /\ OrderComplete(orderForm.sheet)
    /\ orderSend[s].phase = "idle" /\ \A q \in 1..(s - 1) : orderSend[q].phase # "idle"
    /\ orderSend' = [orderSend EXCEPT ![s] =
         [phase |-> IF orderForm.kind = "new" THEN "checking" ELSE "sent",
          row |-> {OrderPayload(orderForm.sheet)}]]
    /\ orderForm' = [orderForm EXCEPT !.raced = @ \/ \E q \in OrderSends : orderSend[q].phase = "checking"]
    /\ UNCHANGED <<orders, orderReads, orderFaults>>

HasReport(o) == \E r \in DOMAIN orders : orders[r].live /\ orders[r].opp = o

\* Mutant: the list is not looked at.
CheckPasses_Always(o) == TRUE

CheckPasses(o) == ~HasReport(o)

\* getOrderReports: a report of the opportunity stops the sending, a failure does not.
OrderChecked(s) ==
    /\ orderSend[s].phase = "checking"
    /\ \E row \in orderSend[s].row :
         \/ CheckPasses(row.opp) /\ orderSend' = [orderSend EXCEPT ![s].phase = "sent"] /\ UNCHANGED <<orderFaults, orderForm>>
         \/ ~CheckPasses(row.opp) /\ orderSend' = [orderSend EXCEPT ![s] = [NoOrderSend EXCEPT !.phase = "refused"]]
            /\ UNCHANGED <<orderFaults, orderForm>>
         \/ /\ orderFaults < MaxOrderFaults /\ orderFaults' = orderFaults + 1
            /\ orderSend' = [orderSend EXCEPT ![s].phase = "sent"]
            /\ orderForm' = [orderForm EXCEPT !.unchecked = TRUE]
    /\ UNCHANGED <<orders, orderReads>>

\* The service reads the name of the VAT, and the price of the product, without looking
\* whether there is one.
OrderRefused(row) ==
    \/ ~row.vat \/ (row.product # NoProduct /\ ListPrice[row.product] = 0)
    \/ orderForm.kind = "edit" /\ ~orders[1].live

StoredRow(row) ==
    [opp |-> row.opp, sides |-> row.sides, product |-> row.product, quantity |-> row.quantity,
     fees |-> row.fees, months |-> row.months, cycle |-> row.cycle, live |-> TRUE]

\* create and update: nothing there asks whether the opportunity has a report already.
OrderWritten(row) ==
    IF orderForm.kind = "edit" THEN [orders EXCEPT ![1] = StoredRow(row)] ELSE Append(orders, StoredRow(row))

\* onSuccess leaves; an answer lost is told as a failure.
OrderAnswered(s) ==
    /\ orderSend[s].phase = "sent"
    /\ \E row \in orderSend[s].row :
         \/ /\ ~OrderRefused(row) /\ orders' = OrderWritten(row)
            /\ orderSend' = [orderSend EXCEPT ![s] = [NoOrderSend EXCEPT !.phase = "saved"]]
            /\ orderForm' = [orderForm EXCEPT !.phase = "left"]
            /\ UNCHANGED orderFaults
         \/ /\ OrderRefused(row)
            /\ orderSend' = [orderSend EXCEPT ![s] = [NoOrderSend EXCEPT !.phase = "refused"]]
            /\ UNCHANGED <<orders, orderForm, orderFaults>>
         \/ /\ orderFaults < MaxOrderFaults /\ orderFaults' = orderFaults + 1
            /\ UNCHANGED orders \/ (~OrderRefused(row) /\ orders' = OrderWritten(row))
            /\ orderSend' = [orderSend EXCEPT ![s] = [NoOrderSend EXCEPT !.phase = "refused"]]
            /\ UNCHANGED orderForm
    /\ UNCHANGED orderReads

-----------------------------------------------------------------------------

OrderInit ==
    \E kind \in {"new", "edit"}, rows \in StoredOrders :
      /\ kind = "edit" => rows # << >>
      /\ orders = rows
      /\ orderForm \in {[kind |-> kind, phase |-> IF kind = "edit" THEN "loading" ELSE "open",
              sheet |-> [BlankOrder EXCEPT !.opp = o],
              listed |-> [d \in Sides |-> NoCompany], products |-> FALSE, unchecked |-> FALSE,
              mixed |-> FALSE, raced |-> FALSE, changes |-> 0]
            \* A new form may inherit the number of an opportunity, without its company.
            : o \in IF kind = "new" THEN {0, 1} ELSE {0}}
      /\ orderReads = {}
      /\ orderSend = [s \in OrderSends |-> NoOrderSend]
      /\ orderFaults = 0

OrderNext ==
    \/ OrderLoaded \/ ProductsLoaded
    \/ \E o \in DOMAIN CustomerOf : PickOpportunity(o)
    \/ \E d \in Sides : ChooseContact(d) \/ \E c \in OrderCompanies : ChooseCompany(d, c)
    \/ \E r \in orderReads : FirstContactArrives(r) \/ ContactsArrive(r) \/ ContactsFail(r)
    \/ ChooseManager \/ ChooseVat
    \/ \E p \in DOMAIN ListPrice \cup {NoProduct} : ChooseLicence(p)
    \/ \E n \in OrderQuantities :
         \/ TypePrice(n) \/ TypeQuantity(n) \/ TypeDiscount(n)
         \/ \E k \in Fees : TypeFee(k, n)
         \/ \E c \in Cycles : TypeMonths(n, c)
    \/ \E s \in OrderSends : SubmitOrder(s) \/ OrderChecked(s) \/ OrderAnswered(s)

-----------------------------------------------------------------------------
(* Properties.                                                             *)

\* Every variable keeps its type; a stored report names a company and a contact on each
\* side, and its numbers are what the service can read.
OrderTypeOK ==
    /\ \A r \in DOMAIN orders :
         /\ orders[r].opp \in DOMAIN CustomerOf
         /\ \A d \in Sides : orders[r].sides[d].company \in OrderCompanies /\ orders[r].sides[d].contact \in Staffed
         /\ orders[r].product = NoProduct \/ (orders[r].quantity \in 1..999 /\ ListPrice[orders[r].product] > 0)
    /\ orderForm.changes \in 0..MaxOrderChanges /\ orderFaults \in 0..MaxOrderFaults

\* A sheet whose prices are those listed, without discount and without a number that is
\* written with a separator where a whole number is read.
Plain(sheet) ==
    /\ sheet.discount = 0 /\ sheet.months < 1000 /\ \A k \in {"other", "purchase"} : sheet.fees[k] < 1000
    /\ IF sheet.product = NoProduct THEN sheet.quantity * sheet.price = 0
       ELSE sheet.price = ListPrice[sheet.product] /\ sheet.quantity \in 1..999

\* What is sent adds up, on the server, to the total the sheet showed, however the rows
\* came there, when the sheet is plain.
TotalAsShown ==
    [][\A s \in OrderSends : (orderSend[s].phase = "idle" /\ orderSend'[s].phase # "idle" /\ Plain(orderForm.sheet)) =>
         \A row \in orderSend'[s].row : StoredTotal(row) = SheetTotal(orderForm.sheet)]_orderVars

\* A report opened and saved without a change is sent as it is stored.
UntouchedOrderKept ==
    [][\A s \in OrderSends :
         (orderSend[s].phase = "idle" /\ orderSend'[s].phase = "sent" /\ orderForm.changes = 0) =>
            \A row \in orderSend'[s].row : StoredRow(row) = orders[1]]_orderVars

\* A contact is one of the company on its side, unless it was chosen in a list of the
\* company before, or came with an opportunity chosen before.
ContactsOfCompany ==
    orderForm.mixed \/ \A d \in Sides :
        orderForm.sheet.sides[d].contact \in {NoCompany, orderForm.sheet.sides[d].company}

\* No opportunity has two reports, whatever answers were lost and sent again, unless the
\* list could not be read or the form was sent twice while it was being read.
OneReportWhenChecked ==
    orderForm.kind = "new" /\ ~orderForm.unchecked /\ ~orderForm.raced =>
      \A r, q \in DOMAIN orders : r # q => orders[r].opp # orders[q].opp

\* The cell of the page that should read zero does, for every stored report without a
\* licence of the class whose label is not its code.
DetailAddsUp ==
    \A r \in DOMAIN orders :
        (orders[r].product = NoProduct \/ ClassOf[orders[r].product] # "FLOOR") => DetailCheck(orders[r]) = 0

=============================================================================
