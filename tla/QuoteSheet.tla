----------------------------- MODULE QuoteSheet -----------------------------
(***************************************************************************)
(* Quotations: the sheet (quotation-sheet.tsx), the calls and the cache in *)
(* localStorage (sales-quotation-backend.ts), and the price list, which an *)
(* administrator changes meanwhile.                                        *)
(*                                                                         *)
(* A quotation has one solution line.  Older rows stored the price of the  *)
(* whole line where newer ones store the price of a unit; the client tells *)
(* them apart by comparing with the list price.                            *)
(***************************************************************************)
EXTENDS Naturals, Sequences, FiniteSets

CONSTANTS
    Prices,       \* list prices a product may have
    Offers,       \* unit prices typed into the sheet
    Quantities,   \* quantities typed into the sheet
    LegacyRows,   \* rows there may be that hold the price of the whole line
    MaxQuotes,    \* bound: rows of the quotation table
    MaxEntries,   \* bound: sheets opened plus changes made to them
    MaxRepricing, \* bound: changes of the price list
    MaxLost       \* bound: calls that fail

QuoteRow == [quantity : Nat \ {0}, consumer : Nat, supply : Nat, shown : Nat, listed : Nat, live : BOOLEAN]

\* An older row that holds the price of several units, and that the client can tell.
ASSUME QuoteAssumption ==
    /\ Prices \subseteq Nat /\ Offers \subseteq Nat /\ Quantities \subseteq Nat \ {0}
    /\ \A row \in LegacyRows :
         /\ row \in QuoteRow /\ row.live /\ row.quantity > 1
         /\ row.supply = row.shown * row.quantity /\ row.supply >= row.consumer
    /\ MaxQuotes \in Nat /\ MaxEntries \in Nat /\ MaxRepricing \in Nat /\ MaxLost \in Nat

VARIABLES
    price,     \* unit price of the product in the price list
    repriced,  \* times it has changed
    quote,     \* quote[q]: row q of the quotation table, with what the sheet showed
    cache,     \* localStorage "orbis.quotations": the rows kept there
    sheet,     \* the open sheet
    listing,   \* another tab reading the list
    lost,      \* calls failed so far
    entries    \* sheets opened and changes made so far

quoteVars == <<price, repriced, quote, cache, sheet, listing, lost, entries>>

NoSheet == [phase |-> "closed", of |-> 0, products |-> FALSE, listed |-> 0, quantity |-> 1,
            offer |-> 0, consumer |-> 0, untouched |-> TRUE]
NoListing == [phase |-> "idle", rows |-> {}, overlapped |-> {}]

-----------------------------------------------------------------------------
(* Prices.                                                                 *)

\* Mutant: a product without a list price is capped as well.
Capped_AtZero(consumer, offer) == IF offer >= consumer THEN consumer - 1 ELSE offer

\* Mutant: a price equal to the list price is let through.
Capped_EqualAllowed(consumer, offer) ==
    IF consumer > 0 /\ offer > consumer THEN consumer - 1 ELSE offer

\* syncSolutionRowValues, normalizeQuotationForm: a unit is sold below its list price.
Capped(consumer, offer) == IF consumer > 0 /\ offer >= consumer THEN consumer - 1 ELSE offer

LineTotal(row) == row.supply * row.quantity

\* isLegacyLineSupplyPrice: dearer than the list price, so it must be the whole line.
LegacyLine(row) == row.quantity > 1 /\ row.supply >= row.consumer

Rounded(n, d) == (2 * n + d) \div (2 * d)

\* Mutant: the line total is taken for the price of a unit.
UnitPrice_Line(row) == LineTotal(row)

\* resolveSupplyUnitPrice.
UnitPrice(row) == IF LegacyLine(row) THEN Rounded(row.supply, row.quantity) ELSE row.supply

-----------------------------------------------------------------------------
(* The sheet.                                                              *)

\* Mutant: the price list overrides the price offered as well.
Synced_Offer(next, listPrice) == [next EXCEPT !.consumer = listPrice, !.offer = Capped(listPrice, listPrice)]

\* Every change of the row takes the list price over, if the list has arrived.
Synced(next, listPrice) ==
    [next EXCEPT !.consumer = listPrice, !.offer = Capped(listPrice, next.offer)]

NewSheet ==
    /\ sheet = NoSheet /\ entries < MaxEntries /\ Len(quote) < MaxQuotes
    /\ sheet' = [NoSheet EXCEPT !.phase = "open", !.untouched = FALSE]
    /\ UNCHANGED <<price, repriced, quote, cache, listing, lost>>
    /\ entries' = entries + 1

\* loadBackendQuotationRecordDetail: the stored row becomes the form.
OpenSheet(q) ==
    /\ sheet = NoSheet /\ entries < MaxEntries /\ quote[q].live
    /\ sheet' = [NoSheet EXCEPT !.phase = "open", !.of = q, !.quantity = quote[q].quantity,
                   !.offer = UnitPrice(quote[q]), !.consumer = quote[q].consumer]
    /\ UNCHANGED <<price, repriced, quote, cache, listing, lost>>
    /\ entries' = entries + 1

\* The price list arrives, after the form: all rows are synchronized with it once.
ProductsLoaded ==
    /\ sheet.phase = "open" /\ ~sheet.products
    /\ sheet' = Synced([sheet EXCEPT !.products = TRUE, !.listed = price], price)
    /\ UNCHANGED <<price, repriced, quote, cache, listing, lost, entries>>

\* The product can only be chosen from the list; a line already there can be edited
\* without it.
Entry(next) ==
    /\ sheet.phase = "open" /\ entries < MaxEntries
    /\ sheet.products \/ sheet.of # 0
    /\ sheet' = Synced([next EXCEPT !.untouched = FALSE],
                       IF sheet.products THEN sheet.listed ELSE sheet.consumer)
    /\ UNCHANGED <<price, repriced, quote, cache, listing, lost>>
    /\ entries' = entries + 1

EnterQuantity(n) == Entry([sheet EXCEPT !.quantity = n])
EnterOffer(n) == Entry([sheet EXCEPT !.offer = n])

CloseSheet ==
    /\ sheet.phase = "open"
    /\ sheet' = NoSheet
    /\ UNCHANGED <<price, repriced, quote, cache, listing, lost, entries>>

-----------------------------------------------------------------------------
(* Saving, deleting, reading the list.                                     *)

\* buildQuotationPayload and QuotationSolutionItem: the server takes the list price of
\* the moment and the unit price of the sheet.
Row == LET offer == Capped(sheet.consumer, sheet.offer) IN
       [quantity |-> sheet.quantity, consumer |-> price, supply |-> offer,
        shown |-> offer, listed |-> sheet.consumer, live |-> TRUE]

Complete == sheet.phase = "open" /\ (sheet.products \/ sheet.of # 0)

\* Mutant: only the record just saved is kept.
Kept_Alone(q) == {q}

\* mergeAndSaveQuotation: the record goes into what is cached now.
Kept(q) == cache \cup {q}

Saves(q) ==
    /\ cache' = Kept(q)
    /\ listing' = IF listing.phase = "idle" THEN listing
                  ELSE [listing EXCEPT !.overlapped = @ \cup {q}]
    /\ sheet' = NoSheet
    /\ UNCHANGED <<price, repriced, lost, entries>>

CreateQuotation ==
    /\ Complete /\ sheet.of = 0 /\ Len(quote) < MaxQuotes
    /\ quote' = Append(quote, Row)
    /\ Saves(Len(quote'))

UpdateQuotation ==
    /\ Complete /\ sheet.of # 0 /\ quote[sheet.of].live
    /\ quote' = [quote EXCEPT ![sheet.of] = Row]
    /\ Saves(sheet.of)

SaveRejected ==
    /\ Complete /\ lost < MaxLost
    /\ lost' = lost + 1
    /\ UNCHANGED <<price, repriced, quote, cache, sheet, listing, entries>>

DeleteQuotation(q) ==
    /\ quote[q].live /\ sheet = NoSheet
    /\ quote' = [quote EXCEPT ![q].live = FALSE]
    /\ cache' = cache \ {q}
    /\ UNCHANGED <<price, repriced, sheet, listing, lost, entries>>

\* loadBackendQuotationRecords: the list, ...
ListQuotations ==
    /\ listing = NoListing
    /\ listing' = [phase |-> "sent", rows |-> {}, overlapped |-> {}]
    /\ UNCHANGED <<price, repriced, quote, cache, sheet, lost, entries>>

QuotationsListed ==
    /\ listing.phase = "sent"
    /\ listing' = [listing EXCEPT !.phase = "listed", !.rows = {q \in DOMAIN quote : quote[q].live}]
    /\ UNCHANGED <<price, repriced, quote, cache, sheet, lost, entries>>

\* ... then every detail (or, without it, the entry of the list); the result replaces
\* whatever the cache holds by then.
QuotationsMerged ==
    /\ listing.phase = "listed"
    /\ cache' = listing.rows
    /\ listing' = NoListing
    /\ UNCHANGED <<price, repriced, quote, sheet, lost, entries>>

ListRejected ==
    /\ listing.phase = "sent" /\ lost < MaxLost
    /\ lost' = lost + 1
    /\ listing' = NoListing
    /\ UNCHANGED <<price, repriced, quote, cache, sheet, entries>>

\* The administrator changes the price list.
Reprice(n) ==
    /\ repriced < MaxRepricing /\ n # price
    /\ price' = n /\ repriced' = repriced + 1
    /\ UNCHANGED <<quote, cache, sheet, listing, lost, entries>>

-----------------------------------------------------------------------------

QuoteInit ==
    /\ price \in Prices /\ repriced = 0
    /\ quote \in {<< >>} \cup {<<row>> : row \in LegacyRows} /\ cache = {}
    /\ sheet = NoSheet /\ listing = NoListing /\ lost = 0 /\ entries = 0

QuoteNext ==
    \/ NewSheet \/ ProductsLoaded \/ CloseSheet
    \/ CreateQuotation \/ UpdateQuotation \/ SaveRejected
    \/ ListQuotations \/ QuotationsListed \/ QuotationsMerged \/ ListRejected
    \/ \E q \in DOMAIN quote : OpenSheet(q) \/ DeleteQuotation(q)
    \/ \E n \in Quantities : EnterQuantity(n)
    \/ \E n \in Offers : EnterOffer(n)
    \/ \E n \in Prices : Reprice(n)

-----------------------------------------------------------------------------
(* Properties.                                                             *)

\* Every variable keeps its type: prices never fall below zero, and what is cached or
\* listed has been stored.
QuoteTypeOK ==
    /\ price \in Prices /\ repriced \in 0..MaxRepricing /\ lost \in 0..MaxLost /\ entries \in 0..MaxEntries
    /\ \A q \in DOMAIN quote : quote[q] \in QuoteRow
    /\ sheet.offer \in Nat /\ sheet.consumer \in Nat /\ sheet.of \in 0..Len(quote)
    /\ cache \cup listing.rows \cup listing.overlapped \subseteq DOMAIN quote

\* The price of a unit that the sheet showed when it was saved is the one read back,
\* although the stored row may also mean the price of the whole line; as long as the
\* list price did not fall between the sheet's reading it and the save, and is not 0.
PriceReadsBack ==
    \A q \in DOMAIN quote :
        (quote[q].listed > 0 /\ quote[q].consumer >= quote[q].listed)
            => UnitPrice(quote[q]) = quote[q].shown

Updates(q) == quote' # quote /\ sheet.of = q /\ sheet' = NoSheet /\ quote'[q].live

\* Saving a sheet whose lines the user did not touch keeps the price of a unit, whenever
\* the list price still lies above it, for rows of either kind.
EditKeepsPrice ==
    [][\A q \in DOMAIN quote :
         (/\ Updates(q) /\ sheet.untouched
          /\ UnitPrice(quote[q]) < sheet.consumer /\ sheet.consumer <= price)
            => UnitPrice(quote'[q]) = UnitPrice(quote[q])]_quoteVars

\* A quotation leaves the local cache only when it is deleted, or by a reading of the
\* list that was under way when it was saved.
SavedStaysCached ==
    [][\A q \in cache \ cache' : ~quote'[q].live \/ ~quote[q].live \/ q \in listing.overlapped]_quoteVars

=============================================================================
