----------------------------- MODULE Documents -----------------------------
(***************************************************************************)
(* The documents of a shop and what a device is told of them: the writes   *)
(* of quotations, purchase orders, delivery orders, supplier invoices,     *)
(* settlements, purchase returns and sales, reduced to what the lists      *)
(* show, and the reads: the delta feed of every kind (getAll with a        *)
(* lastSyncTimestamp), its listing by dates and its detail.                *)
(*                                                                         *)
(* A listing carries figures of other documents, so a feed must send a     *)
(* document again when one of those changes.  A device keeps the listings  *)
(* of one kind, asks for what changed since its last serverTimestamp, and  *)
(* may restore listings by date.                                           *)
(*                                                                         *)
(* A document's lines are never written without the document: the feeds'   *)
(* branches over lines send nothing more.  All writes commit at once; what *)
(* overlapping writes do to each other is in Receiving, Payables and       *)
(* SaleLifecycle.                                                          *)
(***************************************************************************)
EXTENDS Integers, FiniteSets

CONSTANTS
    Quotes, Orders, Deliveries, Invoices, Settlements, Returns, Sales, \* documents there may be
    Id,        \* the id a sale is given: later ones are larger
    ColdCap,   \* how many of the newest sales a device gets that has none
    Watched,   \* the kinds of document a device may keep
    Starts,    \* the documents there may be at first
    MaxWrites  \* bound: writes of a behaviour

Docs == Quotes \cup Orders \cup Deliveries \cup Invoices \cup Settlements \cup Returns
        \cup Sales
None == "none"
Of == [quotation |-> Quotes, order |-> Orders, delivery |-> Deliveries,
       invoice |-> Invoices, settlement |-> Settlements, return |-> Returns,
       sale |-> Sales]

Ways == {"delivery", "laundry"}
\* face: what other documents' lists show of it, a number, a date or a
\* reference that an edit may change; new: stamped since the timestamp of the
\* device; up: the quotation of an order, the order of a delivery or an
\* invoice; inv: the invoice of a delivery or a return; set: the settlement of
\* an invoice or a return; drawn: the invoice has drawn on an advance; void: a
\* settlement is CANCELLED, which its payment status does not say; way: how a
\* sale leaves the shop, by delivery or against a laundry ticket, if not over the
\* counter; out: the ways it has left.
Row == [life: {"absent", "live", "deleted"},
        status: {"open", "Completed", "Partially Paid", "Paid", "CANCELLED", "COMPLETED",
                 "PARTIAL", "PAID", "WRITTEN OFF", "Reversed", "Delivered"},
        face: 0..1, new: BOOLEAN, up: Quotes \cup Orders \cup {None},
        inv: Invoices \cup {None}, set: Settlements \cup {None},
        drawn: BOOLEAN, void: BOOLEAN, way: SUBSET Ways, out: SUBSET Ways]
NoRow == [life |-> "absent", status |-> "open", face |-> 0, new |-> FALSE, up |-> None,
          inv |-> None, set |-> None, drawn |-> FALSE, void |-> FALSE,
          way |-> {}, out |-> {}]

ASSUME DocumentsAssumption ==
    /\ None \notin Docs /\ IsFiniteSet(Docs) /\ MaxWrites \in Nat
    /\ Id \in [Sales -> Nat] /\ ColdCap \in Nat
    /\ \A s, t \in Sales : Id[s] = Id[t] => s = t
    /\ Watched \subseteq DOMAIN Of /\ Starts \subseteq [Docs -> Row]

VARIABLES
    kind,   \* the kind of document the device keeps
    row,    \* the documents
    pull,   \* a feed request: its query was answered, its timestamp not yet taken
    copy,   \* the listings the device holds
    lost,   \* history: documents whose change no later request will bring
    writes  \* writes so far

vars == <<kind, row, pull, copy, lost, writes>>

NoCopy == [own |-> None]

----------------------------------------------------------------------------
(* Listings and details *)

Present(d) == row[d].life # "absent"
Live(d)    == row[d].life = "live"
Own(d)     == [life |-> row[d].life, status |-> row[d].status, face |-> row[d].face,
               void |-> row[d].void]

OrdersOf(Q)     == {o \in Orders : Live(o) /\ row[o].up \in Q}
DeliveriesOf(O) == {d \in Deliveries : Live(d) /\ row[d].up \in O}
InvoicesOf(O)   == {i \in Invoices : Live(i) /\ row[i].up \in O}
Delivered(I)    == {d \in Deliveries : Live(d) /\ row[d].inv \in I}
ReturnsOf(I)    == {r \in Returns : Live(r) /\ row[r].inv \in I}
Counted(R)      == {r \in R : row[r].status = "COMPLETED"}
SettledBy(I)    == {row[i].set : i \in I} \ {None}
Faces(D)        == {<<d, row[d].face>> : d \in D}

QuoteListed(q) ==
    LET os == OrdersOf({q}) is == InvoicesOf(os)
    IN  [own |-> Own(q), orders |-> os, deliveries |-> DeliveriesOf(os), invoices |-> is,
         settlements |-> {<<row[i].up, row[i].set>> : i \in {j \in is : row[j].set # None}},
         returns |-> Counted(ReturnsOf(is))]

OrderListed(o) ==
    [own |-> Own(o), deliveries |-> DeliveriesOf({o}), invoices |-> InvoicesOf({o}),
     settlements |-> SettledBy(InvoicesOf({o})),
     returns |-> Counted(ReturnsOf(InvoicesOf({o})))]

\* The invoice a delivery shows: not a deleted one, nor a cancelled one.
ShownInvoice(d) == {i \in Invoices : i = row[d].inv /\ Live(i) /\ row[i].status # "CANCELLED"}

DeliveryListed(d) ==
    [own |-> Own(d), order |-> Faces({o \in Orders : o = row[d].up /\ Live(o)}),
     invoice |-> Faces(ShownInvoice(d)),
     settlement |-> Faces(SettledBy(ShownInvoice(d))),
     returns |-> Counted(ReturnsOf({row[d].inv}))]

\* fetchSettlementsById: with the fields that say how much was paid.
SettlementFields(I) == {<<s, Own(s)>> : s \in SettledBy(I)}

InvoiceListed(i) ==
    [own |-> Own(i), order |-> Faces({o \in Orders : o = row[i].up /\ Live(o)}),
     deliveries |-> Faces(Delivered({i})), settlement |-> SettlementFields({i}),
     returns |-> Counted(ReturnsOf({i}))]

LinkedTo(s) == {i \in Invoices : Live(i) /\ row[i].set = s}

\* The returns of a settlement are those stamped with it.
SettlementListed(s) ==
    [own |-> Own(s), invoices |-> LinkedTo(s),
     orders |-> Faces({row[i].up : i \in LinkedTo(s)} \ {None}),
     deliveries |-> Delivered(LinkedTo(s)),
     returns |-> {r \in Counted(Returns) : Live(r) /\ row[r].set = s}]

ReturnListed(r) ==
    [own |-> Own(r), invoice |-> Faces({row[r].inv} \ {None})]

\* toSalesSyncRow: a sale's listing shows nothing but the sale.
SaleListed(s) == [own |-> Own(s), way |-> row[s].way, out |-> row[s].out]

\* The details, as far as they answer what the listing answers.
QuoteDetail(q) ==
    LET os == OrdersOf({q}) is == InvoicesOf(os)
    IN  [own |-> Own(q), orders |-> os, deliveries |-> UNION {DeliveriesOf({o}) : o \in os},
         invoices |-> UNION {InvoicesOf({o}) : o \in os},
         settlements |-> UNION {{<<o, s>> : s \in {t \in SettledBy(InvoicesOf({o})) : Live(t)}} :
                                o \in os},
         returns |-> Counted(ReturnsOf(is))]

OrderDetail(o) ==
    [own |-> Own(o), deliveries |-> DeliveriesOf({o}), invoices |-> InvoicesOf({o}),
     settlements |-> {s \in Settlements : \E i \in InvoicesOf({o}) : row[i].set = s},
     returns |-> Counted(ReturnsOf(InvoicesOf({o})))]

\* Returns are looked up only when the invoice is shown.
DeliveryDetail(d) ==
    [own |-> Own(d), order |-> Faces({o \in Orders : o = row[d].up /\ Live(o)}),
     invoice |-> Faces(ShownInvoice(d)),
     settlement |-> Faces({s \in SettledBy(ShownInvoice(d)) : Live(s)}),
     returns |-> Counted(ReturnsOf(ShownInvoice(d)))]

\* The order is shown even when it was deleted.
InvoiceDetail(i) ==
    [own |-> Own(i), order |-> Faces({row[i].up} \ {None}),
     deliveries |-> Faces(Delivered({i})), settlement |-> SettlementFields({i}),
     returns |-> Counted(ReturnsOf({i}))]

\* The returns of a settlement are all those of its invoices, the cancelled
\* ones too.
SettlementDetail(s) ==
    [own |-> Own(s), invoices |-> LinkedTo(s),
     orders |-> Faces({row[i].up : i \in LinkedTo(s)} \ {None}),
     deliveries |-> UNION {Delivered({i}) : i \in LinkedTo(s)},
     returns |-> ReturnsOf(LinkedTo(s))]

ReturnDetail(r) == [own |-> Own(r), invoice |-> Faces({row[r].inv} \ {None})]

\* Further lists: invoices that may be settled, deliveries that may be
\* invoiced, and the returns of one invoice.
CompletedInvoices == {i \in Invoices : Live(i) /\ row[i].status = "Completed"}
UninvoicedDeliveries == {d \in Deliveries : Live(d) /\ row[d].inv = None}
ReturnsByInvoice(i) == ReturnsOf({i})

\* Lists of sales: those that owe, those to be delivered and the delivered.
LiveSales     == {s \in Sales : Live(s)}
PartiallyPaid == {s \in LiveSales : row[s].status = "Partially Paid"}
DeliveryList  == {s \in LiveSales : /\ "delivery" \in row[s].way \ row[s].out
                                   /\ row[s].status \in {"Completed", "Partially Paid"}}
DeliveredList == {s \in LiveSales : "delivery" \in row[s].way \cap row[s].out}

\* What a device with no timestamp gets: the newest sales, and every order that
\* awaits its collection, however old.
Uncollected == {s \in LiveSales : "laundry" \in row[s].way \ row[s].out}
Newest == {s \in LiveSales : Cardinality({t \in LiveSales : Id[t] > Id[s]}) < ColdCap}
\* Mutant: the newest sales only.
NewestOnly == Newest
ColdStart == Uncollected \cup Newest

----------------------------------------------------------------------------
(* Feeds: the documents sent for what was written since a timestamp.  The   *)
(* relations of a filter look at deleted documents too.                    *)

New(D)       == \E d \in D : Present(d) /\ row[d].new
AllOrders(Q) == {o \in Orders : row[o].up \in Q}
AllOf(S, O)  == {d \in S : row[d].up \in O}
AllDeliveries(I) == {d \in Deliveries : row[d].inv \in I}
AllReturns(I) == {r \in Returns : row[r].inv \in I}

\* An invoice, its settlement or one of its returns was written.
NewInvoice(I) == New(I) \/ New(SettledBy(I)) \/ New(AllReturns(I))

QuoteSent(q) ==
    LET os == AllOrders({q})
    IN  New({q}) \/ New(os) \/ New(AllOf(Deliveries, os)) \/ NewInvoice(AllOf(Invoices, os))

\* Mutant: the returns of its invoices are not looked at.
OrderSentBlind(o) ==
    \/ New({o}) \/ New(AllOf(Deliveries, {o})) \/ New(AllOf(Invoices, {o}))
    \/ New(SettledBy(AllOf(Invoices, {o})))

OrderSent(o) ==
    New({o}) \/ New(AllOf(Deliveries, {o})) \/ NewInvoice(AllOf(Invoices, {o}))

DeliverySent(d) ==
    New({d}) \/ NewInvoice({row[d].inv} \ {None}) \/ New({row[d].up} \ {None})

\* The quotation of its order is looked at too.
InvoiceSent(i) ==
    LET os == {row[i].up} \ {None}
    IN  \/ NewInvoice({i}) \/ New(AllDeliveries({i})) \/ New(os)
        \/ New({row[o].up : o \in os} \ {None})

\* The invoices are passed through, to their returns, and not looked at.
SettlementSent(s) ==
    \/ New({s}) \/ New({r \in Returns : row[r].set = s})
    \/ New(AllReturns({i \in Invoices : row[i].set = s}))

ReturnSent(r) == New({r})

\* A deleted sale is not sent.
SaleSent(s) == Live(s) /\ New({s})

Sent(d) ==
    \/ d \in Quotes /\ QuoteSent(d)
    \/ d \in Orders /\ OrderSent(d)
    \/ d \in Deliveries /\ DeliverySent(d)
    \/ d \in Invoices /\ InvoiceSent(d)
    \/ d \in Settlements /\ SettlementSent(d)
    \/ d \in Returns /\ ReturnSent(d)
    \/ d \in Sales /\ SaleSent(d)

\* The listings of documents by their dates, the deleted ones too.
QuotesDated(D)      == [q \in {x \in D : Present(x)} |-> QuoteListed(q)]
OrdersDated(D)      == [o \in {x \in D : Present(x)} |-> OrderListed(o)]
DeliveriesDated(D)  == [d \in {x \in D : Present(x)} |-> DeliveryListed(d)]
InvoicesDated(D)    == [i \in {x \in D : Present(x)} |-> InvoiceListed(i)]
SettlementsDated(D) == [s \in {x \in D : Present(x)} |-> SettlementListed(s)]
ReturnsDated(D)     == [r \in {x \in D : Present(x)} |-> ReturnListed(r)]
\* but no deleted sale.
SalesDated(D)       == [s \in {x \in D : Live(x)} |-> SaleListed(s)]

Listings(D) ==
    CASE kind = "quotation"  -> QuotesDated(D)      [] kind = "order"    -> OrdersDated(D)
      [] kind = "delivery"   -> DeliveriesDated(D)  [] kind = "invoice"  -> InvoicesDated(D)
      [] kind = "settlement" -> SettlementsDated(D) [] kind = "return"   -> ReturnsDated(D)
      [] kind = "sale"       -> SalesDated(D)

Dated(D) == DOMAIN Listings(D)
Shown(d) == IF d \in Dated({d}) THEN Listings({d})[d] ELSE NoCopy

\* The device has restored what there was.
Init ==
    /\ kind \in Watched /\ row \in Starts /\ pull = "none"
    /\ copy = [d \in Of[kind] |-> Shown(d)] /\ lost = {} /\ writes = 0

----------------------------------------------------------------------------
(* The device *)

Feed == {d \in Of[kind] : Present(d) /\ Sent(d)}

Keep(D) == copy' = [d \in Of[kind] |-> IF d \in D THEN Shown(d) ELSE copy[d]]

\* getAll: the query first, the timestamp when the answer is built.
Answer ==
    /\ pull = "none" /\ pull' = "answered" /\ Keep(Feed) /\ lost' = lost \ Feed
    /\ UNCHANGED <<kind, row, writes>>
Stamp ==
    /\ pull = "answered" /\ pull' = "none"
    /\ row' = [d \in Docs |-> [row[d] EXCEPT !.new = FALSE]]
    /\ UNCHANGED <<kind, copy, lost, writes>>

\* getByDateRange, which a device asks for when it restores what it had.
Restore ==
    /\ Keep(Dated(Of[kind])) /\ lost' = lost \ Dated(Of[kind])
    /\ UNCHANGED <<kind, row, pull, writes>>

\* A device that lost its sales asks without a timestamp; the older ones it will
\* have when it restores them by date, or when they change.
ColdSync ==
    /\ kind = "sale" /\ pull = "none" /\ pull' = "answered"
    /\ copy' = [s \in Sales |-> IF s \in ColdStart THEN Shown(s) ELSE NoCopy]
    /\ lost' = {s \in LiveSales : s \notin Uncollected /\ copy'[s] = NoCopy}
    /\ UNCHANGED <<kind, row, writes>>

\* getPartiallyPaidSales, of all sales or of those written since a timestamp;
\* what it answers replaces what the device has.
PullOwing ==
    /\ kind = "sale"
    /\ \E S \in {PartiallyPaid, {s \in PartiallyPaid : row[s].new}} : Keep(S) /\ lost' = lost \ S
    /\ UNCHANGED <<kind, row, pull, writes>>

----------------------------------------------------------------------------
(* Writes *)

\* A change of the listing, or of an older one's stamp, that no feed will notice.
Slips(d) == (Shown(d)' # Shown(d)) \/ (Sent(d) /\ ~Sent(d)')

\* Commits new rows.  A transaction may have stamped its rows before the last
\* timestamp of the device, and commits between a query and its timestamp go
\* unnoticed as well.  blind: documents a feed does not send for this write.
Put(ch, blind) ==
    \E late \in BOOLEAN :
        /\ writes < MaxWrites /\ writes' = writes + 1 /\ UNCHANGED <<kind, pull, copy>>
        /\ row' = [d \in Docs |-> IF d \in DOMAIN ch THEN [ch[d] EXCEPT !.new = ~late]
                                                     ELSE row[d]]
        /\ lost' = (lost \cup (blind \cap Of[kind])) \cup
                   IF late \/ pull = "answered" THEN {d \in Of[kind] : Slips(d)} ELSE {}

Born      == [NoRow EXCEPT !.life = "live"]
One(d, r) == [x \in {d} |-> r]
Turned(d) == 1 - row[d].face
QuoteOf(o) == IF o = None THEN {} ELSE {row[o].up} \ {None}

\* Quotations.
QuoteCreate(q) == row[q].life = "absent" /\ Put(One(q, Born), {})

\* A cancelling update cancels the live orders too; the cancel endpoint does not.
QuoteEdit(q, to) ==
    /\ Live(q)
    /\ LET os == IF to = "CANCELLED" THEN OrdersOf({q}) ELSE {}
       IN  Put([d \in {q} \cup os |-> [row[d] EXCEPT !.status = to]], {})
QuoteCancel(q) == Live(q) /\ Put(One(q, [row[q] EXCEPT !.status = "CANCELLED"]), {})
QuoteDelete(q) ==
    Live(q) /\ OrdersOf({q}) = {} /\ Put(One(q, [row[q] EXCEPT !.life = "deleted"]), {})

\* Orders.  An update that does not name the quotation drops it.
OrderCreate(o, q) ==
    /\ row[o].life = "absent" /\ (q # None => Present(q))
    /\ Put(One(o, [Born EXCEPT !.up = q]), {})
OrderEdit(o, q, to) ==
    /\ Live(o) /\ (q # None => Present(q))
    /\ Put(One(o, [row[o] EXCEPT !.up = q, !.status = to, !.face = Turned(o)]),
           ({row[o].up} \ {q}) \cup SettledBy(InvoicesOf({o})))
OrderCancel(o) == Live(o) /\ Put(One(o, [row[o] EXCEPT !.status = "CANCELLED"]), {})

\* An advance paid on the order, corrected or withdrawn.
OrderAdvance(o) == Live(o) /\ row[o].status # "CANCELLED" /\ Put(One(o, row[o]), {})

OrderDelete(o) ==
    /\ Live(o) /\ DeliveriesOf({o}) = {} /\ InvoicesOf({o}) = {}
    /\ Put(One(o, [row[o] EXCEPT !.life = "deleted"]), {})

\* Deliveries.  Quantities decide whether the order's status is written: hit.
DeliveryCreate(d, o, hit) ==
    /\ row[d].life = "absent" /\ (o # None => Live(o)) /\ (hit => o # None)
    /\ LET made == [Born EXCEPT !.up = o]
       IN  Put([x \in {d} \cup (IF hit THEN {o} ELSE {}) |->
                    IF x = d THEN made ELSE [row[x] EXCEPT !.status = "open"]], {})

\* A cancellation that finds the delivery cancelled writes only the order.
DeliveryEdit(d, o, to, hit) ==
    LET claimed == ~(to = "CANCELLED" /\ row[d].status = "CANCELLED")
        target  == IF claimed /\ o # None THEN o ELSE row[d].up
    IN  /\ Live(d) /\ (o # None => o = row[d].up \/ Live(o)) /\ (hit => target # None)
        /\ Put([x \in (IF claimed THEN {d} ELSE {}) \cup (IF hit THEN {target} ELSE {}) |->
                    IF x = d THEN [row[d] EXCEPT !.up = o, !.status = to, !.face = Turned(d)]
                    ELSE [row[x] EXCEPT !.status = "open"]],
               IF claimed /\ o # row[d].up THEN {row[d].up} \cup QuoteOf(row[d].up) ELSE {})
DeliveryDelete(d) ==
    /\ Live(d)
    /\ Put(One(d, [row[d] EXCEPT !.life = "deleted"]), SettledBy({row[d].inv} \ {None}))

Cancelled == {i \in Invoices : Live(i) /\ row[i].status = "CANCELLED"}

\* Invoices.  Drawing on the order's advance, or not, is a matter of amounts.
InvoiceCreate(i, o, D, drawn) ==
    /\ row[i].life = "absent" /\ (o # None => Live(o)) /\ (drawn => o # None)
    /\ \A d \in D : Live(d) /\ (row[d].inv # None => row[d].inv \in Cancelled)
    /\ Put([x \in {i} \cup ({o} \ {None}) \cup D |->
                CASE x = i -> [Born EXCEPT !.status = "Completed", !.up = o, !.drawn = drawn]
                  [] x = o -> [row[o] EXCEPT !.status = "open"]
                  [] x \in D -> [row[x] EXCEPT !.inv = i]], {})

\* Cancelling unlinks the deliveries, and gives the draw back to the order the
\* invoice had when the transaction read it; a settled invoice keeps its status.
InvoiceEdit(i, o, to) ==
    LET was     == row[i]
        cancels == to = "CANCELLED"
        back    == cancels /\ was.set = None /\ was.status # "CANCELLED" /\ was.drawn
    IN  /\ Live(i) /\ (o # None => o = was.up \/ Live(o))
        /\ Put([x \in {i} \cup (IF cancels THEN Delivered({i}) ELSE {})
                          \cup (IF back THEN {was.up} \ {None} ELSE {}) |->
                    CASE x = i -> [was EXCEPT !.up = o, !.face = Turned(i),
                                       !.drawn = @ /\ ~(back /\ was.up # None),
                                       !.status = IF was.set = None THEN to ELSE @]
                      [] x \in Deliveries -> [row[x] EXCEPT !.inv = None]
                      [] x \in Orders -> row[x]],
               (IF o # was.up THEN {was.up} \cup QuoteOf(was.up) ELSE {})
               \cup SettledBy({i}) \cup AllReturns({i}))

\* Mutant: the deliveries stay linked.
InvoiceDeleteLinked(i) ==
    /\ Live(i) /\ row[i].set = None
    /\ Put(One(i, [row[i] EXCEPT !.life = "deleted", !.drawn = FALSE]), {})

InvoiceDelete(i) ==
    /\ Live(i) /\ row[i].set = None
    /\ LET back == IF row[i].drawn THEN {row[i].up} \ {None} ELSE {}
       IN  Put([x \in {i} \cup Delivered({i}) \cup back |->
                    CASE x = i -> [row[i] EXCEPT !.life = "deleted", !.drawn = FALSE]
                      [] x \in Deliveries -> [row[x] EXCEPT !.inv = None]
                      [] x \in Orders -> row[x]], {})

\* Settlements; none is ever deleted.
SettlementCreate(s, I, full) ==
    /\ row[s].life = "absent" /\ I # {} /\ I \subseteq CompletedInvoices
    /\ \A i \in I : row[i].set = None
    /\ Put([x \in {s} \cup I |->
                IF x = s THEN [Born EXCEPT !.status = IF full THEN "PAID" ELSE "PARTIAL"]
                ELSE [row[x] EXCEPT !.set = s,
                          !.status = IF full THEN "Paid" ELSE "Partially Paid"]], {})

\* Tax numbers of its invoices may be given, and then they decide the status.
SettlementEdit(s, I, void) ==
    /\ Live(s) /\ I \subseteq LinkedTo(s) /\ (I # {} => ~void)
    /\ Put([x \in {s} \cup I |->
                IF x = s THEN [row[s] EXCEPT !.face = Turned(s), !.void = void] ELSE row[x]], {})

\* What a settlement owes does not count what was written off.
SettlementPay(s, full) ==
    /\ Live(s) /\ ~row[s].void /\ row[s].status # "PAID"
    /\ Put([x \in {s} \cup (IF full THEN LinkedTo(s) ELSE {}) |->
                IF x = s THEN [row[s] EXCEPT !.status = IF full THEN "PAID" ELSE "PARTIAL"]
                ELSE [row[x] EXCEPT !.status = "Paid"]], {})
SettlementWriteOff(s) ==
    /\ Live(s) /\ ~row[s].void /\ row[s].status = "PARTIAL"
    /\ Put([x \in {s} \cup LinkedTo(s) |->
                IF x = s THEN [row[s] EXCEPT !.status = "WRITTEN OFF"]
                ELSE [row[x] EXCEPT !.status = "Paid"]], {})

\* Returns, of paid invoices.
Open(r) == Live(r) /\ row[r].status # "CANCELLED"
ReturnCreate(r, i) ==
    /\ row[r].life = "absent" /\ Live(i) /\ row[i].status = "Paid"
    /\ Put(One(r, [Born EXCEPT !.status = "COMPLETED", !.inv = i, !.set = row[i].set]), {})
ReturnEdit(r)   == Open(r) /\ Put(One(r, row[r]), {})
ReturnCancel(r) == Open(r) /\ Put(One(r, [row[r] EXCEPT !.status = "CANCELLED"]), {})
ReturnDelete(r) ==
    Open(r) /\ Put(One(r, [row[r] EXCEPT !.life = "deleted", !.status = "CANCELLED"]), {})

\* Sales.  Ids are given in order.
SaleCreate(s, way, paid) ==
    /\ row[s].life = "absent" /\ \A t \in Sales : Id[t] < Id[s] => Present(t)
    /\ Put(One(s, [Born EXCEPT !.way = way,
                      !.status = IF paid THEN "Completed" ELSE "Partially Paid"]), {})
SalePay(s, full) ==
    /\ s \in PartiallyPaid
    /\ Put(One(s, [row[s] EXCEPT !.face = Turned(s),
                      !.status = IF full THEN "Completed" ELSE @]), {})
\* A void, a return or a refund.
SaleReverse(s) ==
    /\ Live(s) /\ row[s].status = "Completed"
    /\ Put(One(s, [row[s] EXCEPT !.status = "Reversed"]), {})
SalesDeliver(S) ==
    /\ S # {} /\ S \subseteq DeliveryList
    /\ Put([s \in S |-> [row[s] EXCEPT !.out = @ \cup {"delivery"},
                            !.status = IF @ = "Completed" THEN "Delivered" ELSE @]], {})
\* Whatever became of the sale; one that owes nothing is Completed again.
SaleCollect(s) ==
    /\ Present(s) /\ "laundry" \in row[s].way
    /\ Put(One(s, [row[s] EXCEPT !.out = @ \cup {"laundry"},
                      !.status = IF @ = "Partially Paid" THEN @ ELSE "Completed"]), {})
\* The name, phone or address on it.
SaleContact(s) == Live(s) /\ Put(One(s, [row[s] EXCEPT !.face = Turned(s)]), {})
SaleDelete(s)  == Live(s) /\ Put(One(s, [row[s] EXCEPT !.life = "deleted"]), {s})

----------------------------------------------------------------------------

QuoteNext ==
    \E q \in Quotes :
        QuoteCreate(q) \/ QuoteCancel(q) \/ QuoteDelete(q)
        \/ \E to \in {"open", "CANCELLED"} : QuoteEdit(q, to)
OrderNext ==
    \E o \in Orders :
        \/ OrderCancel(o) \/ OrderAdvance(o) \/ OrderDelete(o)
        \/ \E q \in Quotes \cup {None} :
               OrderCreate(o, q) \/ \E to \in {"open", "CANCELLED"} : OrderEdit(o, q, to)
DeliveryNext ==
    \E d \in Deliveries :
        \/ DeliveryDelete(d)
        \/ \E o \in Orders \cup {None}, hit \in BOOLEAN :
               DeliveryCreate(d, o, hit)
               \/ \E to \in {"open", "CANCELLED"} : DeliveryEdit(d, o, to, hit)
InvoiceNext ==
    \E i \in Invoices :
        \/ InvoiceDelete(i)
        \/ \E o \in Orders \cup {None} :
               \/ \E D \in SUBSET Deliveries, drawn \in BOOLEAN : InvoiceCreate(i, o, D, drawn)
               \/ \E to \in {"Completed", "Paid", "CANCELLED"} : InvoiceEdit(i, o, to)
SettlementNext ==
    \E s \in Settlements :
        \/ SettlementWriteOff(s)
        \/ \E I \in SUBSET Invoices, b \in BOOLEAN :
               SettlementCreate(s, I, b) \/ SettlementEdit(s, I, b)
        \/ \E full \in BOOLEAN : SettlementPay(s, full)
ReturnNext ==
    \E r \in Returns :
        ReturnEdit(r) \/ ReturnCancel(r) \/ ReturnDelete(r)
        \/ \E i \in Invoices : ReturnCreate(r, i)

SaleNext ==
    \/ \E s \in Sales :
           \/ SaleReverse(s) \/ SaleCollect(s) \/ SaleContact(s) \/ SaleDelete(s)
           \/ \E paid \in BOOLEAN : SalePay(s, paid) \/ \E way \in SUBSET Ways : SaleCreate(s, way, paid)
    \/ \E S \in SUBSET Sales : SalesDeliver(S)

\* No list of sales shows another document, and none of theirs a sale: writes
\* of the others are left out.
Next == \/ Answer \/ Stamp \/ Restore \/ ColdSync \/ PullOwing
        \/ kind = "sale" /\ SaleNext
        \/ /\ kind # "sale"
           /\ QuoteNext \/ OrderNext \/ DeliveryNext \/ InvoiceNext \/ SettlementNext \/ ReturnNext

Spec == Init /\ [][Next]_vars

----------------------------------------------------------------------------
(* Properties *)

\* A listing that is not the one the device holds is in the device's next
\* feed, unless a feed is known not to bring it: a write that committed around
\* a timestamp, an order or a quotation that a document left, a settlement
\* whose deliveries or orders changed, a return whose invoice did, a sale that
\* was deleted or, on a device that lost its sales, is neither new nor awaits its
\* collection.
ChangeResent ==
    \A d \in Of[kind] : copy[d] # Shown(d) => d \in Feed \cup lost

\* Whoever opens a live document sees what its list said: the same orders,
\* deliveries, invoices and settlements, and the same returns, but that the
\* detail of a settlement counts cancelled returns and those of its invoices
\* that carry no settlement.  Every live delivery that an invoice may take is
\* offered for it.  A sale to be delivered is on one of the delivery lists until
\* it is reversed, and on the second for good.
ViewsAgree ==
    /\ \A q \in Quotes : Live(q) => QuoteDetail(q) = QuoteListed(q)
    /\ \A o \in Orders : Live(o) => OrderDetail(o) = OrderListed(o)
    /\ \A d \in Deliveries : Live(d) => DeliveryDetail(d) = DeliveryListed(d)
    /\ \A i \in Invoices : Live(i) => InvoiceDetail(i) = InvoiceListed(i)
    /\ \A s \in Settlements : Live(s) =>
         [SettlementDetail(s) EXCEPT !.returns = {r \in Counted(@) : row[r].set # None}]
         = SettlementListed(s)
    /\ \A r \in Returns : Live(r) => ReturnDetail(r) = ReturnListed(r)
    /\ \A i \in Invoices : Live(i) => Counted(ReturnsByInvoice(i)) = InvoiceListed(i).returns
    /\ \A d \in Deliveries : Live(d) /\ ShownInvoice(d) = {} => d \in UninvoicedDeliveries
    /\ \A s \in LiveSales : "delivery" \in row[s].way /\ row[s].status # "Reversed"
         => (s \in DeliveryList) # (s \in DeliveredList)
=============================================================================
