------------------------------ MODULE Payables ------------------------------
(***************************************************************************)
(* The money of procurement: the advances paid on a purchase order         *)
(* (purchase-order.service.ts), the invoices that draw them down           *)
(* (invoice.service.ts), and the settlements that pay what is left, at     *)
(* once, in parts, or with a write-off (invoice_settlement.service.ts,     *)
(* money.ts).                                                              *)
(*                                                                         *)
(* A request of a worker begins with the reads before its transaction,     *)
(* opens it if the transaction reads what its writes depend on, and        *)
(* commits: increments go to the row as it then is, absolute values are    *)
(* those that were computed from what was read.                            *)
(*                                                                         *)
(* Amounts are whole numbers of the fraction the columns keep; Minor of    *)
(* them make the smallest amount the currency can pay.                     *)
(***************************************************************************)
EXTENDS Integers, FiniteSets, Sums

CONSTANTS
    Orders,      \* purchase orders there are or may be
    Standing,    \* those that stand at first, without an advance
    Advances,    \* down payments that may be recorded
    Invoices,    \* supplier invoices that may be entered
    Settlements, \* settlements that may be made
    Workers,     \* requests in flight at once
    Totals,      \* totals an order or an invoice may have
    Rates,       \* percentages of an invoice an order may draw
    Amounts,     \* amounts a request may pay
    Rebates,     \* rebates a settlement may carry, 0 for none
    Minor,       \* fractions in the smallest payable amount
    Floor,       \* a shortfall that may always be written off
    Mixes,       \* sets of operations to consider together
    MaxRequests  \* bound: requests of a behaviour

OrderOps      == {"order", "editOrder", "cancelOrder", "deleteOrder"}
AdvanceOps    == {"advance", "editAdvance", "deleteAdvance"}
InvoiceOps    == {"bill", "cancelBill", "editBill", "deleteBill"}
SettlementOps == {"settle", "amend", "pay", "markPaid"}
Ops == OrderOps \cup AdvanceOps \cup InvoiceOps \cup SettlementOps

None == "none"
NoRate == -1  \* the column is null

ASSUME PayablesAssumption ==
    /\ None \notin Orders \cup Advances \cup Invoices \cup Settlements
    /\ Standing \subseteq Orders /\ IsFiniteSet(Advances) /\ IsFiniteSet(Invoices)
    /\ Totals \subseteq Nat /\ Rates \subseteq 0..100 /\ Amounts \subseteq Nat \ {0}
    /\ Rebates \subseteq Nat /\ Minor \in Nat \ {0} /\ Floor \in Nat
    /\ Mixes \subseteq SUBSET Ops /\ MaxRequests \in Nat

VARIABLES
    mix,        \* the operations of this behaviour
    order,      \* purchase orders, with the advance paid and drawn
    advance,    \* the ledger of down payments
    invoice,    \* invoices, with the draw stamped on them
    settlement, \* settlements, with the amount their row says was paid
    rows,       \* sum of the payment rows of each settlement
    tx,         \* what each worker has read and is about to commit
    begun,      \* requests begun
    raced,      \* history: two requests overlapped
    moved       \* history: an invoice was moved to another order

books == <<order, advance, invoice, settlement, rows>>
vars  == <<mix, books, tx, begun, raced, moved>>

Lives == {"absent", "live", "deleted"}
OrderRow      == [life: Lives, status: {"CONFIRMED", "COMPLETED", "CANCELLED"},
                  total: Nat, rate: Int, amount: Int, applied: Int]
AdvanceRow    == [life: Lives, order: Orders \cup {None}, amount: Nat]
InvoiceRow    == [life: Lives, status: {"Completed", "Partially Paid", "Paid", "CANCELLED"},
                  order: Orders \cup {None}, total: Nat, dp: Nat,
                  settlement: Settlements \cup {None}]
SettlementRow == [life: Lives, status: {"COMPLETED", "CANCELLED"}, due: Nat, paid: Nat,
                  writeOff: Nat, payment: {"PAID", "PARTIAL"}]

\* doc: the document written; order: the one it belongs to; of: the invoices
\* of a request; n, m: amounts asked for; to: a status or a choice written;
\* saw, sawInv: the order or the invoices as read; seen: a settlement as read.
NoOrder      == [life |-> "absent", status |-> "CONFIRMED", total |-> 0, rate |-> NoRate,
                 amount |-> 0, applied |-> 0]
NoAdvance    == [life |-> "absent", order |-> None, amount |-> 0]
NoInvoice    == [life |-> "absent", status |-> "Completed", order |-> None, total |-> 0,
                 dp |-> 0, settlement |-> None]
NoSettlement == [life |-> "absent", status |-> "COMPLETED", due |-> 0, paid |-> 0,
                 writeOff |-> 0, payment |-> "PARTIAL"]
NoPlan == [stage |-> "idle", op |-> "order", doc |-> None, order |-> None, of |-> {},
           n |-> 0, m |-> 0, to |-> None, saw |-> NoOrder,
           sawInv |-> [i \in Invoices |-> NoInvoice], seen |-> NoSettlement]
Plan == [stage: {"idle", "asked", "open"}, op: Ops,
         doc: Orders \cup Advances \cup Invoices \cup Settlements \cup {None},
         order: Orders \cup {None}, of: SUBSET Invoices, n: Int, m: Int,
         to: {"CONFIRMED", "Completed", "CANCELLED", "COMPLETED", "keep", "set", "clear", None},
         saw: OrderRow, sawInv: [Invoices -> InvoiceRow], seen: SettlementRow]

TypeOK ==
    /\ mix \in Mixes /\ begun \in 0..MaxRequests /\ raced \in BOOLEAN /\ moved \in BOOLEAN
    /\ order \in [Orders -> OrderRow] /\ advance \in [Advances -> AdvanceRow]
    /\ invoice \in [Invoices -> InvoiceRow] /\ rows \in [Settlements -> Nat]
    /\ settlement \in [Settlements -> SettlementRow]
    /\ tx \in [Workers -> Plan]

Init ==
    /\ mix \in Mixes
    /\ \E total \in Totals, rate \in Rates :
            order = [o \in Orders |-> IF o \notin Standing THEN NoOrder
                       ELSE [NoOrder EXCEPT !.life = "live", !.total = total, !.rate = rate]]
    /\ advance = [a \in Advances |-> NoAdvance] /\ invoice = [i \in Invoices |-> NoInvoice]
    /\ settlement = [s \in Settlements |-> NoSettlement]
    /\ rows = [s \in Settlements |-> 0]
    /\ tx = [w \in Workers |-> NoPlan] /\ begun = 0 /\ raced = FALSE /\ moved = FALSE

----------------------------------------------------------------------------
(* The steps of a request *)

\* Requests whose transaction reads what its writes depend on.
Reading == {"bill", "cancelBill"}

Begin(w, p) ==
    /\ p.op \in mix /\ tx[w].stage = "idle" /\ begun < MaxRequests
    /\ tx' = [tx EXCEPT ![w] = [p EXCEPT !.stage = IF p.op \in Reading THEN "asked"
                                                                       ELSE "open"]]
    /\ begun' = begun + 1
    /\ raced' = (raced \/ \E v \in Workers : tx[v].stage # "idle")
    /\ UNCHANGED <<mix, books, moved>>

Open(w, p) ==
    /\ tx[w].stage = "asked"
    /\ tx' = [tx EXCEPT ![w] = [p EXCEPT !.stage = "open"]]
    /\ UNCHANGED <<mix, books, begun, raced, moved>>

Does(w, op) == tx[w].stage = "open" /\ tx[w].op = op
Done(w)     == tx' = [tx EXCEPT ![w] = NoPlan] /\ UNCHANGED <<mix, begun, raced>>

\* Refused in the transaction, a deadlock's victim, or cut off.
Abort(w) == tx[w].stage # "idle" /\ Done(w) /\ UNCHANGED <<books, moved>>

Least(a, b)    == IF a < b THEN a ELSE b
Greatest(a, b) == IF a > b THEN a ELSE b

----------------------------------------------------------------------------
(* Orders *)

\* createMany: an order may come with its draw rate and a first advance, which
\* no guard holds to the order's total.
MakeOrder(w, o, a, total, rate, n) ==
    \/ /\ order[o].life = "absent" /\ advance[a].life = "absent"
       /\ Begin(w, [NoPlan EXCEPT !.op = "order", !.order = o, !.doc = a, !.n = n, !.m = rate,
                                  !.saw = [NoOrder EXCEPT !.total = total]])
    \/ /\ Does(w, "order") /\ Done(w) /\ tx[w].order = o /\ tx[w].doc = a
       /\ order[o].life = "absent" /\ advance[a].life = "absent"
       /\ tx[w].n = n /\ tx[w].m = rate /\ tx[w].saw.total = total
       /\ order' = [order EXCEPT ![o] = [NoOrder EXCEPT !.life = "live", !.total = total,
                                                        !.rate = rate, !.amount = n]]
       /\ advance' = IF n = 0 THEN advance
                     ELSE [advance EXCEPT ![a] = [life |-> "live", order |-> o, amount |-> n]]
       /\ UNCHANGED <<invoice, settlement, rows, moved>>

\* clearDownPaymentPercentageIfUnused: the advance is in the WHERE.
Clears(o, saw) == order[o].amount <= 0

\* A PO update writes the total and the status it is given, and keeps, sets or
\* clears the rate.
EditOrder(w, o, total, rate, to) ==
    \/ /\ order[o].life = "live" /\ (to = "set" <=> rate # NoRate)
       /\ Begin(w, [NoPlan EXCEPT !.op = "editOrder", !.order = o, !.n = total, !.m = rate,
                                  !.to = to, !.saw = order[o]])
    \/ /\ Does(w, "editOrder") /\ Done(w) /\ tx[w].order = o
       /\ tx[w].n = total /\ tx[w].m = rate /\ tx[w].to = to
       /\ order' = [order EXCEPT ![o].total = total, ![o].status = "CONFIRMED",
                        ![o].rate = IF to = "keep" THEN @
                                    ELSE IF to = "set" THEN rate
                                    ELSE IF Clears(o, tx[w].saw) THEN NoRate ELSE @]
       /\ UNCHANGED <<advance, invoice, settlement, rows, moved>>

\* The advance of an order that is cancelled stays as it is.
CancelOrder(w, o) ==
    \/ order[o].life = "live" /\ Begin(w, [NoPlan EXCEPT !.op = "cancelOrder", !.order = o])
    \/ /\ Does(w, "cancelOrder") /\ Done(w) /\ tx[w].order = o
       /\ order' = [order EXCEPT ![o].status = "CANCELLED"]
       /\ UNCHANGED <<advance, invoice, settlement, rows, moved>>

DeleteOrder(w, o) ==
    \/ /\ order[o].life = "live"
       /\ \A i \in Invoices : ~(invoice[i].life = "live" /\ invoice[i].order = o)
       /\ Begin(w, [NoPlan EXCEPT !.op = "deleteOrder", !.order = o])
    \/ /\ Does(w, "deleteOrder") /\ Done(w) /\ tx[w].order = o
       /\ order' = [order EXCEPT ![o].life = "deleted"]
       /\ UNCHANGED <<advance, invoice, settlement, rows, moved>>

----------------------------------------------------------------------------
(* Advances.  The guards and the new total come from the order as it was    *)
(* read before the transaction; only a new advance is added to the column. *)

Payable(o) == order[o].life = "live" /\ order[o].status # "CANCELLED"

AddAdvance(w, a, o, n, rate) ==
    \/ /\ Payable(o) /\ advance[a].life = "absent" /\ order[o].amount + n <= order[o].total
       /\ Begin(w, [NoPlan EXCEPT !.op = "advance", !.doc = a, !.order = o, !.n = n, !.m = rate])
    \/ /\ Does(w, "advance") /\ Done(w) /\ tx[w].doc = a /\ tx[w].order = o
       /\ tx[w].n = n /\ tx[w].m = rate /\ advance[a].life = "absent"
       /\ advance' = [advance EXCEPT ![a] = [life |-> "live", order |-> o, amount |-> n]]
       /\ order' = [order EXCEPT ![o].amount = @ + n,
                                 ![o].rate = IF rate = NoRate THEN @ ELSE rate]
       /\ UNCHANGED <<invoice, settlement, rows, moved>>

\* What an edit or a deletion makes of the advance: absolute.
Recomputed(a, n) == order[advance[a].order].amount - advance[a].amount + n

\* Mutant: an advance is held to the order's total only.
Untied(o, total) == TRUE
\* Nor may it fall below what the invoices have drawn.
CoversDrawn(o, total) == total >= order[o].applied

EditAdvance(w, a, n, rate) ==
    \/ LET o == advance[a].order IN
       /\ advance[a].life = "live" /\ Payable(o)
       /\ CoversDrawn(o, Recomputed(a, n)) /\ Recomputed(a, n) <= order[o].total
       /\ Begin(w, [NoPlan EXCEPT !.op = "editAdvance", !.doc = a, !.order = o, !.n = n,
                                  !.m = rate, !.saw = [order[o] EXCEPT !.amount = Recomputed(a, n)]])
    \/ /\ Does(w, "editAdvance") /\ Done(w) /\ tx[w].doc = a /\ tx[w].n = n /\ tx[w].m = rate
       /\ advance' = [advance EXCEPT ![a].amount = n]
       /\ order' = [order EXCEPT ![tx[w].order].amount = tx[w].saw.amount,
                                 ![tx[w].order].rate = IF rate = NoRate THEN @ ELSE rate]
       /\ UNCHANGED <<invoice, settlement, rows, moved>>

DeleteAdvance(w, a) ==
    \/ LET o == advance[a].order IN
       /\ advance[a].life = "live" /\ Payable(o) /\ CoversDrawn(o, Recomputed(a, 0))
       /\ Begin(w, [NoPlan EXCEPT !.op = "deleteAdvance", !.doc = a, !.order = o,
                                  !.saw = [order[o] EXCEPT !.amount = Recomputed(a, 0)]])
    \/ /\ Does(w, "deleteAdvance") /\ Done(w) /\ tx[w].doc = a
       /\ advance' = [advance EXCEPT ![a].life = "deleted"]
       /\ order' = [order EXCEPT ![tx[w].order].amount = tx[w].saw.amount]
       /\ UNCHANGED <<invoice, settlement, rows, moved>>

----------------------------------------------------------------------------
(* Invoices *)

\* calcDownPaymentDraw, of an order and an invoice's total.
Draw(po, total) ==
    LET byRate  == (total * po.rate) \div 100
        balance == po.amount - po.applied
    IN  IF byRate <= 0 \/ balance <= 0 THEN 0 ELSE Least(byRate, balance)

\* Mutant: every invoice of a request draws on the balance it began with.
DrawnApart(po, I, total, draw) == \A i \in I : draw[i] = Draw(po, total)
\* The invoices of one request draw one after the other: each sees what those
\* before it have taken.
Drawn(po, I, total, draw) ==
    \E turn \in [I -> 1..Cardinality(I)] :
        /\ \A i, j \in I : turn[i] = turn[j] => i = j
        /\ \A i \in I : LET before == {j \in I : turn[j] < turn[i]} IN
              draw[i] = Draw([po EXCEPT !.applied = @ + SumOver(draw, before)], total)

\* The order is checked before the transaction and must still be live in it;
\* its balance is that of the transaction's snapshot.
Bill(w, I, o, total) ==
    \/ /\ I # {} /\ \A i \in I : invoice[i].life = "absent"
       /\ o # None => order[o].life = "live"
       /\ Begin(w, [NoPlan EXCEPT !.op = "bill", !.of = I, !.order = o, !.n = total])
    \/ /\ tx[w].op = "bill" /\ tx[w].of = I /\ tx[w].order = o /\ tx[w].n = total
       /\ Open(w, IF o = None THEN tx[w] ELSE [tx[w] EXCEPT !.saw = order[o]])
    \/ /\ Does(w, "bill") /\ Done(w) /\ tx[w].of = I /\ tx[w].order = o /\ tx[w].n = total
       /\ \A i \in I : invoice[i].life = "absent"
       /\ o # None => order[o].life = "live"
       /\ \E draw \in [I -> 0..total] :
             /\ Drawn(tx[w].saw, I, total, draw)
             /\ invoice' = [i \in Invoices |-> IF i \notin I THEN invoice[i] ELSE
                              [NoInvoice EXCEPT !.life = "live", !.order = o, !.total = total,
                                                !.dp = draw[i]]]
             /\ order' = IF o = None THEN order
                         ELSE [order EXCEPT ![o].status = "COMPLETED",
                                            ![o].applied = @ + SumOver(draw, I)]
       /\ UNCHANGED <<advance, settlement, rows, moved>>

\* Mutant: a settled invoice takes the status of the request.
Overwritten(i, to) == to
\* A settlement seen before the transaction keeps the invoice's status.
Status(i, to) == IF invoice[i].settlement # None THEN None ELSE to

\* What the cancelled invoice drew goes back to the order it names.
GivesBack(i, p) == /\ p.sawInv[i].order # None /\ p.sawInv[i].dp > 0
                   /\ p.to # None /\ p.sawInv[i].status # "CANCELLED"

Restored(o, n) == [order EXCEPT ![o].applied = @ - n]

CancelBill(w, i) ==
    \/ /\ invoice[i].life = "live"
       /\ Begin(w, [NoPlan EXCEPT !.op = "cancelBill", !.of = {i}, !.to = Status(i, "CANCELLED")])
    \/ /\ tx[w].op = "cancelBill" /\ tx[w].of = {i}
       /\ Open(w, [tx[w] EXCEPT !.sawInv = [NoPlan.sawInv EXCEPT ![i] = invoice[i]]])
    \/ LET saw == tx[w].sawInv[i] IN
       /\ Does(w, "cancelBill") /\ Done(w) /\ tx[w].of = {i}
       /\ invoice' = [invoice EXCEPT ![i].status = IF tx[w].to = None THEN @ ELSE tx[w].to,
                                     ![i].dp = IF GivesBack(i, tx[w]) THEN 0 ELSE @]
       /\ order' = IF GivesBack(i, tx[w]) THEN Restored(saw.order, saw.dp) ELSE order
       /\ UNCHANGED <<advance, settlement, rows, moved>>

\* Any other update, with the status Completed: the total and the order may
\* change, the draw stays what it was.
EditBill(w, i, o, total) ==
    \/ /\ invoice[i].life = "live" /\ (o # None => order[o].life = "live")
       /\ Begin(w, [NoPlan EXCEPT !.op = "editBill", !.of = {i}, !.order = o, !.n = total,
                                  !.to = Status(i, "Completed")])
    \/ /\ Does(w, "editBill") /\ Done(w) /\ tx[w].of = {i} /\ tx[w].order = o /\ tx[w].n = total
       /\ invoice' = [invoice EXCEPT ![i].status = IF tx[w].to = None THEN @ ELSE tx[w].to,
                                     ![i].order = o, ![i].total = total]
       /\ moved' = (moved \/ (invoice[i].dp # 0 /\ invoice[i].order # o))
       /\ UNCHANGED <<order, advance, settlement, rows>>

\* The draw given back is the one read before the transaction.
DeleteBill(w, i) ==
    \/ /\ invoice[i].life = "live" /\ invoice[i].settlement = None
       /\ Begin(w, [NoPlan EXCEPT !.op = "deleteBill", !.of = {i},
                                  !.sawInv = [NoPlan.sawInv EXCEPT ![i] = invoice[i]]])
    \/ LET saw == tx[w].sawInv[i] IN
       /\ Does(w, "deleteBill") /\ Done(w) /\ tx[w].of = {i}
       /\ order' = IF saw.order # None /\ saw.dp > 0 THEN Restored(saw.order, saw.dp) ELSE order
       /\ invoice' = [invoice EXCEPT ![i].life = "deleted", ![i].dp = 0]
       /\ UNCHANGED <<advance, settlement, rows, moved>>

----------------------------------------------------------------------------
(* Settlements *)

\* roundToCurrency, half up.
Round(v) == ((v + Minor \div 2) \div Minor) * Minor
\* markAsPaidCap: the floor, or a thousandth of the bill.
WriteOffCap(bill) == Round(Greatest(Floor, bill \div 1000))

\* What the invoices of a settlement still owe, as the request saw them.
Owed(p) == SumOver([i \in p.of |-> p.sawInv[i].total - p.sawInv[i].dp], p.of)

\* The flat share of a rebate: what rounding leaves goes to the last invoice.
Share(I, i, rebate) ==
    LET flat == rebate \div Cardinality(I)
        last == CHOOSE j \in I : TRUE
    IN  IF i = last THEN rebate - (Cardinality(I) - 1) * flat ELSE flat

Paying(full) == IF full THEN "PAID" ELSE "PARTIAL"
Marked(full) == IF full THEN "Paid" ELSE "Partially Paid"

\* resolveInitialPayment: nothing is paid only where nothing is owed.
Initial(n, due) == n <= due /\ (n = 0 => due = 0) /\ n >= 0

\* The client asks for what it sees owed, less the rebate.  The invoices are
\* checked before the transaction; a rebate rewrites their totals from what was
\* read then, and all of them are linked whatever they are linked to by then.
Settle(w, s, I, n, rebate) ==
    LET saw == [i \in Invoices |-> IF i \in I THEN invoice[i] ELSE NoInvoice]
        p   == [NoPlan EXCEPT !.op = "settle", !.doc = s, !.of = I, !.n = n, !.m = rebate,
                              !.sawInv = saw]
    IN
    \/ /\ settlement[s].life = "absent" /\ I # {}
       /\ \A i \in I : /\ invoice[i].life = "live" /\ invoice[i].status = "Completed"
                       /\ invoice[i].settlement = None /\ rebate <= invoice[i].total
       /\ Initial(n, Owed(p) - rebate)
       /\ Begin(w, p)
    \/ LET due  == Owed(tx[w]) - rebate
           full == n >= due
       IN
       /\ Does(w, "settle") /\ Done(w) /\ tx[w].doc = s /\ tx[w].of = I /\ tx[w].n = n
       /\ tx[w].m = rebate /\ settlement[s].life = "absent"
       /\ settlement' = [settlement EXCEPT ![s] =
                            [NoSettlement EXCEPT !.life = "live", !.due = due, !.paid = n,
                                                 !.payment = Paying(full)]]
       /\ rows' = [rows EXCEPT ![s] = n]
       /\ invoice' = [i \in Invoices |->
            IF i \notin I \/ (rebate = 0 /\ invoice[i].life # "live") THEN invoice[i] ELSE
            [invoice[i] EXCEPT !.settlement = s, !.status = Marked(full),
                !.total = IF rebate = 0 THEN @
                          ELSE tx[w].sawInv[i].total - Share(I, i, rebate)]]
       /\ UNCHANGED <<order, advance, moved>>

\* updateSettlement writes the amount or the status it is given; what was paid,
\* and whether that is all, stays.
Amend(w, s, due, to) ==
    \/ /\ settlement[s].life = "live"
       /\ Begin(w, [NoPlan EXCEPT !.op = "amend", !.doc = s, !.n = due, !.to = to])
    \/ /\ Does(w, "amend") /\ Done(w) /\ tx[w].doc = s /\ tx[w].n = due /\ tx[w].to = to
       /\ settlement' = [settlement EXCEPT ![s].due = due, ![s].status = to]
       /\ UNCHANGED <<order, advance, invoice, rows, moved>>

AllPaid(s) == [i \in Invoices |->
    IF invoice[i].settlement = s /\ invoice[i].life = "live"
    THEN [invoice[i] EXCEPT !.status = "Paid"] ELSE invoice[i]]

\* Mutant: the payment is added to the column and not to the ledger.
Unrecorded(s, n) == rows[s]
Recorded(s, n) == rows[s] + n
\* Judged, like the new sum, on the row read before the transaction.
Full(row, n) == row.paid + n >= row.due

Pay(w, s, n) ==
    \/ /\ settlement[s].life = "live" /\ settlement[s].status # "CANCELLED"
       /\ n <= settlement[s].due - settlement[s].paid
       /\ Begin(w, [NoPlan EXCEPT !.op = "pay", !.doc = s, !.n = n, !.seen = settlement[s]])
    \/ LET full == Full(tx[w].seen, n) IN
       /\ Does(w, "pay") /\ Done(w) /\ tx[w].doc = s /\ tx[w].n = n
       /\ rows' = [rows EXCEPT ![s] = Recorded(s, n)]
       /\ settlement' = [settlement EXCEPT ![s].paid = tx[w].seen.paid + n,
                                           ![s].payment = Paying(full)]
       /\ invoice' = IF full THEN AllPaid(s) ELSE invoice
       /\ UNCHANGED <<order, advance, moved>>

Outstanding(row) == Round(row.due) - Round(row.paid + row.writeOff)

\* evaluateMarkAsPaid: a shortfall within the cap.
CanMarkPaid(row) == Outstanding(row) \in 1..WriteOffCap(Round(row.due))

MarkPaid(w, s) ==
    \/ LET row == settlement[s] IN
       /\ row.life = "live" /\ row.status # "CANCELLED" /\ row.payment = "PARTIAL"
       /\ CanMarkPaid(row)
       /\ Begin(w, [NoPlan EXCEPT !.op = "markPaid", !.doc = s, !.seen = row])
    \/ LET p == tx[w] IN
       /\ Does(w, "markPaid") /\ Done(w) /\ p.doc = s
       /\ invoice' = AllPaid(s)
       /\ settlement' = [settlement EXCEPT ![s].payment = "PAID",
                            ![s].writeOff = p.seen.writeOff + Outstanding(p.seen)]
       /\ UNCHANGED <<order, advance, rows, moved>>

Request(w) ==
    \/ \E o \in Orders, total \in Totals, rate \in Rates \cup {NoRate} :
        \/ \E a \in Advances, n \in Amounts \cup {0} : MakeOrder(w, o, a, total, rate, n)
        \/ \E to \in {"keep", "set", "clear"} : EditOrder(w, o, total, rate, to)
    \/ \E o \in Orders : CancelOrder(w, o) \/ DeleteOrder(w, o)
    \/ \E a \in Advances, n \in Amounts, rate \in Rates \cup {NoRate} :
        \/ \E o \in Orders : AddAdvance(w, a, o, n, rate)
        \/ EditAdvance(w, a, n, rate)
    \/ \E a \in Advances : DeleteAdvance(w, a)
    \/ \E o \in Orders \cup {None}, total \in Totals :
        \/ \E I \in SUBSET Invoices : Bill(w, I, o, total)
        \/ \E i \in Invoices : EditBill(w, i, o, total)
    \/ \E i \in Invoices : CancelBill(w, i) \/ DeleteBill(w, i)
    \/ \E s \in Settlements :
        \/ \E I \in SUBSET Invoices, n \in Amounts \cup {0}, rebate \in Rebates :
                Settle(w, s, I, n, rebate)
        \/ \E due \in Amounts, to \in {"COMPLETED", "CANCELLED"} : Amend(w, s, due, to)
        \/ \E n \in Amounts : Pay(w, s, n)
        \/ MarkPaid(w, s)
    \/ Abort(w)

Next == \E w \in Workers : Request(w)

Spec == Init /\ [][Next]_vars

----------------------------------------------------------------------------
(* Properties *)

\* What a row of the ledger, or an invoice, adds to the order's advance or draw.
Paid(a, o)  == IF advance[a].life = "live" /\ advance[a].order = o THEN advance[a].amount ELSE 0
Stamp(i, o) == IF invoice[i].life = "live" /\ invoice[i].order = o THEN invoice[i].dp ELSE 0
Advanced(o) == SumOver([a \in Advances |-> Paid(a, o)], Advances)
Stamped(o)  == SumOver([i \in Invoices |-> Stamp(i, o)], Invoices)

\* Unless requests overlapped, the advance of an order is the sum of its
\* ledger, and, while no invoice that drew on it changed orders, what counts as
\* drawn is stamped on the order's invoices and lies within the advance.
AdvanceAccounted ==
    ~raced => \A o \in Orders :
        /\ order[o].life = "live" => order[o].amount = Advanced(o)
        /\ ~moved => /\ order[o].applied = Stamped(o)
                     /\ order[o].applied <= order[o].amount

\* However requests overlap, the rate an advance is drawn at is cleared only
\* while there is no advance, so that none is stranded without a rate.
RateKept ==
    \A o \in Orders : order[o].rate # NoRate /\ order'[o].rate = NoRate =>
        order[o].amount <= 0 /\ order'[o].amount <= 0

\* However payments overlap, a settlement never claims more money than its
\* ledger holds; unless they overlapped it claims all of it.
PaidBacked ==
    \A s \in Settlements : /\ settlement[s].paid <= rows[s]
                           /\ ~raced => settlement[s].paid = rows[s]

\* A settlement becomes PAID only when the ledger and the write-off make up the
\* bill, to less than the smallest payable amount: however payments and
\* write-offs overlap, as long as no edit of the bill races with them.  What is
\* written off at a time stays within the cap, unless requests overlapped.
PaidCovers ==
    \A s \in Settlements :
        /\ ~raced' \/ "amend" \notin mix =>
             (settlement'[s].payment = "PAID" /\ settlement[s].payment # "PAID"
              => rows'[s] + settlement'[s].writeOff > settlement'[s].due - Minor)
        /\ ~raced' => settlement'[s].writeOff - settlement[s].writeOff
                         <= WriteOffCap(Round(settlement'[s].due))

\* The advance of an order: what it amounts to, and that none is stranded.
AdvanceSound == [][AdvanceAccounted' /\ RateKept]_vars

\* What a settlement claims to be paid, and when it may call itself PAID.
PaidSound == [][PaidBacked' /\ PaidCovers]_vars

\* Every variable has its type and, unless requests overlapped, the invoices of
\* a settlement that is PAID are Paid, and one is Partially Paid only under one
\* that is not.
InvoicesFollow == TypeOK /\ (~raced => \A i \in Invoices :
        invoice[i].life = "live" /\ invoice[i].settlement # None
        => IF settlement[invoice[i].settlement].payment = "PAID"
           THEN invoice[i].status = "Paid"
           ELSE invoice[i].status \in {"Partially Paid", "Paid"})
=============================================================================
