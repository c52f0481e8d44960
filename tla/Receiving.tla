------------------------------ MODULE Receiving ------------------------------
(***************************************************************************)
(* The goods side of procurement, for one purchase order of one item: the  *)
(* quotation and the order (quotation.service.ts,                          *)
(* purchase-order.service.ts), the deliveries received against it          *)
(* (delivery-order.service.ts), the supplier invoices that bill them       *)
(* (invoice.service.ts, invoice_settlement.service.ts), the returns of     *)
(* what was invoiced (purchase-return.service.ts), and the balance and the *)
(* receipt layers of the outlet that all of them move.                     *)
(*                                                                         *)
(* A request is up to three steps of a worker.  Begin makes the reads      *)
(* before the transaction.  Open takes the lock the transaction begins     *)
(* with, the document number of a creation or the row a cancellation       *)
(* claims, and reads the snapshot behind it.  Commit applies the writes:   *)
(* relative ones to the row as it then is, conditional ones when their     *)
(* WHERE matches, absolute ones from what was read.                        *)
(***************************************************************************)
EXTENDS Integers, FiniteSets, Sums

CONSTANTS
    Deliveries,  \* delivery orders that may be received
    Invoices,    \* supplier invoices that may be entered
    Returns,     \* purchase returns that may be made
    Workers,     \* requests in flight at once
    Ordered,     \* quantity on the purchase order
    Quantities,  \* quantities a delivery or a return may carry
    Opening,     \* stock at the outlet before the order, in no receipt here
    Mixes,       \* sets of operations to consider together
    MaxRequests  \* bound: requests and sales of a behaviour

OrderOps    == {"confirm", "cancelOrder", "deleteOrder", "cancelQuote", "deleteQuote"}
DeliveryOps == {"deliver", "takeBack", "editDelivery", "deleteDelivery"}
InvoiceOps  == {"bill", "cancelBill", "editBill", "deleteBill", "settle"}
ReturnOps   == {"return", "cancelReturn", "editReturn", "deleteReturn"}
Ops == OrderOps \cup DeliveryOps \cup InvoiceOps \cup ReturnOps \cup {"sell"}

None == "none"

ASSUME ReceivingAssumption ==
    /\ IsFiniteSet(Deliveries) /\ IsFiniteSet(Returns)
    /\ None \notin Deliveries \cup Invoices /\ Deliveries \cap Returns = {}
    /\ Ordered \in Nat \ {0} /\ Quantities \subseteq Nat \ {0} /\ Opening \in Nat
    /\ Mixes \subseteq SUBSET Ops /\ MaxRequests \in Nat

VARIABLES
    mix,      \* the operations of this behaviour
    quote,    \* status of the quotation the order came from
    order,    \* the purchase order; quoted while it names the quotation
    delivery, \* delivery orders
    invoice,  \* invoices
    return,   \* purchase returns
    balance,  \* available quantity of the item at the outlet
    moved,    \* Opening and the sum of its stock movements
    receipt,  \* the receipt layer each delivery made
    tx,       \* what each worker has read and is about to commit
    begun,    \* requests begun and sales made
    sold,     \* history: quantity sold
    raced,    \* history: two requests overlapped
    undone    \* history: how often each delivery was taken out of stock, each
              \* return put back

docs  == <<quote, order, delivery, invoice, return>>
stock == <<balance, moved, receipt, sold>>
vars  == <<mix, docs, stock, tx, begun, raced, undone>>

Lives == {"absent", "live", "deleted"}
OrderStatus == {"CONFIRMED", "PARTIALLY DELIVERED", "DELIVERED", "COMPLETED", "CANCELLED"}
OrderRow    == [life: Lives, status: OrderStatus, quoted: {"yes", "no"}]
DeliveryRow == [life: Lives, status: {"Received", "CANCELLED"}, qty: Nat,
                invoice: Invoices \cup {None}]
InvoiceRow  == [life: Lives, status: {"Completed", "Paid", "CANCELLED"}, qty: Nat,
                settled: {"yes", "no"}]
ReturnRow   == [life: Lives, status: {"COMPLETED", "CANCELLED"}, qty: Nat,
                invoice: Invoices \cup {None}, receipt: Deliveries \cup {None}]
ReceiptRow  == [life: Lives, left: Nat]

\* id: the document written; qty: its quantity; to: the status written, None
\* for none; of: the deliveries billed or unlinked, or whose layer a return
\* draws on; inv: the invoice returned against; seen: the balance or the layer
\* as read.
NoPlan == [stage |-> "idle", op |-> "sell", id |-> None, qty |-> 0, to |-> None,
           of |-> {}, inv |-> None, seen |-> 0]
Plan == [stage: {"idle", "asked", "open"}, op: Ops,
         id: Deliveries \cup Invoices \cup Returns \cup {None}, qty: Nat,
         to: OrderStatus \cup {"Received", "Completed", "yes", "no", None},
         of: SUBSET Deliveries, inv: Invoices \cup {None}, seen: Int]

TypeOK ==
    /\ mix \in Mixes /\ quote \in {"open", "CANCELLED", "deleted"} /\ order \in OrderRow
    /\ delivery \in [Deliveries -> DeliveryRow] /\ invoice \in [Invoices -> InvoiceRow]
    /\ return \in [Returns -> ReturnRow] /\ receipt \in [Deliveries -> ReceiptRow]
    /\ balance \in Int /\ moved \in Int /\ sold \in Nat /\ begun \in 0..MaxRequests
    /\ tx \in [Workers -> Plan] /\ raced \in BOOLEAN
    /\ undone \in [Deliveries \cup Returns -> Nat]

Init ==
    /\ mix \in Mixes
    /\ quote = "open"
    /\ order = [life |-> "live", status |-> "CONFIRMED", quoted |-> "yes"]
    /\ delivery = [d \in Deliveries |-> [life |-> "absent", status |-> "Received",
                                         qty |-> 0, invoice |-> None]]
    /\ invoice = [i \in Invoices |-> [life |-> "absent", status |-> "Completed",
                                      qty |-> 0, settled |-> "no"]]
    /\ return = [r \in Returns |-> [life |-> "absent", status |-> "COMPLETED", qty |-> 0,
                                    invoice |-> None, receipt |-> None]]
    /\ balance = Opening /\ moved = Opening /\ sold = 0
    /\ receipt = [d \in Deliveries |-> [life |-> "absent", left |-> 0]]
    /\ tx = [w \in Workers |-> NoPlan] /\ begun = 0 /\ raced = FALSE
    /\ undone = [x \in Deliveries \cup Returns |-> 0]

----------------------------------------------------------------------------
(* The steps of a request *)

\* Requests whose transaction reads what its writes depend on.
Reading == {"deliver", "takeBack", "editDelivery", "cancelBill",
            "return", "cancelReturn", "deleteReturn"}

Begin(w, p) ==
    /\ p.op \in mix /\ tx[w].stage = "idle" /\ begun < MaxRequests
    /\ tx' = [tx EXCEPT ![w] = [p EXCEPT !.stage = IF p.op \in Reading THEN "asked"
                                                                       ELSE "open"]]
    /\ begun' = begun + 1
    /\ raced' = (raced \/ \E v \in Workers : tx[v].stage # "idle")
    /\ UNCHANGED <<mix, docs, stock, undone>>

Does(w, op) == tx[w].stage = "open" /\ tx[w].op = op
Done(w)     == tx' = [tx EXCEPT ![w] = NoPlan] /\ UNCHANGED <<mix, begun, raced>>

\* The row locked before the snapshot is taken, until the end: the counter
\* that numbers deliveries or returns, or the document a claim is made on.
Lock(p) == CASE p.op \in {"deliver", "return"}        -> {p.op}
             [] p.op \in {"takeBack", "cancelReturn"} -> {p.id}
             [] OTHER                                 -> {}

Open(w, p) ==
    /\ tx[w].stage = "asked"
    /\ \A v \in Workers : tx[v].stage = "open" => Lock(tx[v]) \cap Lock(p) = {}
    /\ tx' = [tx EXCEPT ![w] = [p EXCEPT !.stage = "open"]]
    /\ UNCHANGED <<mix, docs, stock, begun, raced, undone>>

\* Refused in the transaction, a deadlock's victim, or cut off.
Abort(w) ==
    /\ tx[w].stage # "idle" /\ Done(w)
    /\ UNCHANGED <<docs, stock, undone>>

Lesser(a, b)  == IF a < b THEN a ELSE b
Greater(a, b) == IF a > b THEN a ELSE b

Live == {d \in Deliveries : delivery[d].life = "live"}
Kept == {d \in Live : delivery[d].status # "CANCELLED"}
Qty(D) == SumOver([d \in Deliveries |-> delivery[d].qty], D)

\* What the deliveries make of the order's status; one deleted keeps its own.
Standing(n, none) ==
    CASE order.life # "live" -> None
      [] n >= Ordered        -> "DELIVERED"
      [] n \in 1..Ordered-1  -> "PARTIALLY DELIVERED"
      [] OTHER               -> none

Restatus(to) == order' = IF to = None THEN order ELSE [order EXCEPT !.status = to]

----------------------------------------------------------------------------
(* The order and its quotation *)

\* A PO update writes the status it is given, and drops the quotation unless
\* the request names it again.
Confirm(w, quoted) ==
    \/ /\ order.life = "live"
       /\ Begin(w, [NoPlan EXCEPT !.op = "confirm", !.to = quoted])
    \/ /\ Does(w, "confirm") /\ Done(w) /\ tx[w].to = quoted
       /\ order' = [order EXCEPT !.status = "CONFIRMED", !.quoted = quoted]
       /\ UNCHANGED <<quote, delivery, invoice, return, stock, undone>>

CancelOrder(w) ==
    \/ order.life = "live" /\ Begin(w, [NoPlan EXCEPT !.op = "cancelOrder"])
    \/ /\ Does(w, "cancelOrder") /\ Done(w)
       /\ order' = [order EXCEPT !.status = "CANCELLED"]
       /\ UNCHANGED <<quote, delivery, invoice, return, stock, undone>>

\* What keeps an order from being deleted.
Undocumented == Live = {} /\ \A i \in Invoices : invoice[i].life # "live"

DeleteOrder(w) ==
    \/ /\ order.life = "live" /\ Undocumented
       /\ Begin(w, [NoPlan EXCEPT !.op = "deleteOrder"])
    \/ /\ Does(w, "deleteOrder") /\ Done(w)
       /\ order' = [order EXCEPT !.life = "deleted"]
       /\ UNCHANGED <<quote, delivery, invoice, return, stock, undone>>

Quoted == order.life = "live" /\ order.quoted = "yes"

\* A quotation update to CANCELLED cancels its orders; the cancel endpoint
\* cancels the quotation alone.
CancelQuote(w, cascade) ==
    \/ /\ quote # "deleted"
       /\ Begin(w, [NoPlan EXCEPT !.op = "cancelQuote",
                                  !.to = IF cascade /\ Quoted THEN "CANCELLED" ELSE None])
    \/ /\ Does(w, "cancelQuote") /\ Done(w)
       /\ quote' = IF quote = "deleted" THEN quote ELSE "CANCELLED"
       /\ Restatus(IF Quoted THEN tx[w].to ELSE None)
       /\ UNCHANGED <<delivery, invoice, return, stock, undone>>

DeleteQuote(w) ==
    \/ quote # "deleted" /\ ~Quoted /\ Begin(w, [NoPlan EXCEPT !.op = "deleteQuote"])
    \/ /\ Does(w, "deleteQuote") /\ Done(w)
       /\ quote' = "deleted"
       /\ UNCHANGED <<order, delivery, invoice, return, stock, undone>>

----------------------------------------------------------------------------
(* Deliveries *)

\* receiptQtyAfterDebt: into a negative balance the delivery first pays back
\* what was already used.
AfterDebt(b, q) == IF b >= 0 THEN q ELSE Lesser(q, Greater(0, b + q))

\* createMany: the order is checked before the transaction and may be deleted
\* by then; deliveries that were cancelled count towards its status.
Deliver(w, d, q) ==
    \/ /\ order.life = "live" /\ delivery[d].life = "absent"
       /\ Begin(w, [NoPlan EXCEPT !.op = "deliver", !.id = d, !.qty = q])
    \/ /\ tx[w].op = "deliver" /\ tx[w].id = d /\ tx[w].qty = q
       /\ Open(w, [tx[w] EXCEPT !.seen = balance, !.to = Standing(Qty(Live) + q, None)])
    \/ LET n == AfterDebt(tx[w].seen, q) IN
       /\ Does(w, "deliver") /\ Done(w) /\ tx[w].id = d /\ tx[w].qty = q
       /\ delivery[d].life = "absent"
       /\ delivery' = [delivery EXCEPT ![d].life = "live", ![d].qty = q]
       /\ balance' = balance + q /\ moved' = moved + q
       /\ receipt' = IF n = 0 THEN receipt ELSE [receipt EXCEPT ![d] = [life |-> "live", left |-> n]]
       /\ Restatus(tx[w].to)
       /\ UNCHANGED <<quote, invoice, return, sold, undone>>

\* Mutant: the claim does not ask for the status it leaves.
ClaimedTwice(d) == delivery[d].life = "live"
\* The conditional update by which a cancellation claims the delivery.
Claimed(d) == delivery[d].life = "live" /\ delivery[d].status # "CANCELLED"

\* Mutant: what is left of the layer is taken out, not what was received.
TakenLeft(d) == receipt[d].left
TakenOut(d) == delivery[d].qty

\* GREATEST(LEAST(b, 0), b - q): a cancellation never goes, nor lifts, below zero.
Clamped(b, q) == Greater(Lesser(b, 0), b - q)

\* Update to CANCELLED.  The one that claims the delivery takes its stock out;
\* another writes nothing, and both set the order's status.
TakeBack(w, d) ==
    \/ /\ delivery[d].life = "live"
       /\ Begin(w, [NoPlan EXCEPT !.op = "takeBack", !.id = d])
    \/ /\ tx[w].op = "takeBack" /\ tx[w].id = d
       /\ Open(w, [tx[w] EXCEPT !.to = Standing(Qty(Kept \ {d}), "CONFIRMED")])
    \/ /\ Does(w, "takeBack") /\ Done(w) /\ tx[w].id = d
       /\ Restatus(tx[w].to)
       /\ IF Claimed(d)
          THEN /\ delivery' = [delivery EXCEPT ![d].status = "CANCELLED"]
               /\ balance' = Clamped(balance, TakenOut(d))
               /\ moved' = moved - TakenOut(d)
               /\ receipt' = [receipt EXCEPT ![d].life = IF @ = "live" THEN "deleted" ELSE @]
               /\ undone' = [undone EXCEPT ![d] = @ + 1]
          ELSE UNCHANGED <<delivery, balance, moved, receipt, undone>>
       /\ UNCHANGED <<quote, invoice, return, sold>>

\* Update with the status Received, which one that was cancelled takes as well.
EditDelivery(w, d) ==
    \/ /\ delivery[d].life = "live"
       /\ Begin(w, [NoPlan EXCEPT !.op = "editDelivery", !.id = d])
    \/ /\ tx[w].op = "editDelivery" /\ tx[w].id = d
       /\ Open(w, [tx[w] EXCEPT !.to = Standing(Qty(Kept \cup ({d} \cap Live)), "CONFIRMED")])
    \/ /\ Does(w, "editDelivery") /\ Done(w) /\ tx[w].id = d
       /\ delivery' = [delivery EXCEPT ![d].status = "Received"]
       /\ Restatus(tx[w].to)
       /\ UNCHANGED <<quote, invoice, return, stock, undone>>

\* Neither the stock nor the order's status follows.
DeleteDelivery(w, d) ==
    \/ /\ delivery[d].life = "live"
       /\ Begin(w, [NoPlan EXCEPT !.op = "deleteDelivery", !.id = d])
    \/ /\ Does(w, "deleteDelivery") /\ Done(w) /\ tx[w].id = d
       /\ delivery' = [delivery EXCEPT ![d].life = "deleted"]
       /\ UNCHANGED <<quote, order, invoice, return, stock, undone>>

----------------------------------------------------------------------------
(* Invoices *)

Linked(i) == {d \in Live : delivery[d].invoice = i}

\* What createMany lets an invoice bill.
Billable == {d \in Live : \/ delivery[d].invoice = None
                          \/ /\ invoice[delivery[d].invoice].life = "live"
                             /\ invoice[delivery[d].invoice].status = "CANCELLED"}

Link(D, i) == [d \in Deliveries |-> [delivery[d] EXCEPT !.invoice = IF d \in D THEN i ELSE @]]

\* The deliveries are checked before the transaction, and linked to the new
\* invoice whatever they are linked to by then; the quantity is the client's.
\* The order must still be live.
Bill(w, i, D, q) ==
    \/ /\ order.life = "live" /\ invoice[i].life = "absent" /\ D # {} /\ D \subseteq Billable
       /\ Begin(w, [NoPlan EXCEPT !.op = "bill", !.id = i, !.qty = q, !.of = D])
    \/ /\ Does(w, "bill") /\ Done(w) /\ tx[w].id = i /\ tx[w].of = D /\ tx[w].qty = q
       /\ invoice[i].life = "absent" /\ order.life = "live"
       /\ invoice' = [invoice EXCEPT ![i].life = "live", ![i].qty = q]
       /\ order' = [order EXCEPT !.status = "COMPLETED"]
       /\ delivery' = Link(D \cap Live, i)
       /\ UNCHANGED <<quote, return, stock, undone>>

Status(i, to) == IF invoice[i].settled = "yes" THEN None ELSE to

\* Mutant: a cancelled invoice keeps its deliveries.
Unreleased(i) == {}
Released(i) == Linked(i)

\* Update to CANCELLED.  A settlement seen before the transaction keeps the
\* status, yet the deliveries are released.
CancelBill(w, i) ==
    \/ /\ invoice[i].life = "live"
       /\ Begin(w, [NoPlan EXCEPT !.op = "cancelBill", !.id = i, !.to = Status(i, "CANCELLED")])
    \/ /\ tx[w].op = "cancelBill" /\ tx[w].id = i
       /\ Open(w, [tx[w] EXCEPT !.of = Linked(i)])
    \/ /\ Does(w, "cancelBill") /\ Done(w) /\ tx[w].id = i
       /\ invoice' = [invoice EXCEPT ![i].status = IF tx[w].to = None THEN @ ELSE tx[w].to]
       /\ delivery' = IF tx[w].of = {} THEN delivery ELSE Link(Released(i), None)
       /\ UNCHANGED <<quote, order, return, stock, undone>>

\* Any other update, with the status Completed; it may change the quantity.
EditBill(w, i, q) ==
    \/ /\ invoice[i].life = "live"
       /\ Begin(w, [NoPlan EXCEPT !.op = "editBill", !.id = i, !.qty = q,
                                  !.to = Status(i, "Completed")])
    \/ /\ Does(w, "editBill") /\ Done(w) /\ tx[w].id = i /\ tx[w].qty = q
       /\ invoice' = [invoice EXCEPT ![i].status = IF tx[w].to = None THEN @ ELSE tx[w].to,
                                     ![i].qty = q]
       /\ UNCHANGED <<quote, order, delivery, return, stock, undone>>

DeleteBill(w, i) ==
    \/ /\ invoice[i].life = "live" /\ invoice[i].settled = "no"
       /\ Begin(w, [NoPlan EXCEPT !.op = "deleteBill", !.id = i])
    \/ /\ Does(w, "deleteBill") /\ Done(w) /\ tx[w].id = i
       /\ invoice' = [invoice EXCEPT ![i].life = "deleted"]
       /\ delivery' = Link(Released(i), None)
       /\ UNCHANGED <<quote, order, return, stock, undone>>

\* A settlement that pays the invoice in full.
Settle(w, i) ==
    \/ /\ invoice[i].life = "live" /\ invoice[i].status = "Completed" /\ invoice[i].settled = "no"
       /\ Begin(w, [NoPlan EXCEPT !.op = "settle", !.id = i])
    \/ /\ Does(w, "settle") /\ Done(w) /\ tx[w].id = i
       /\ invoice' = IF invoice[i].life # "live" THEN invoice
                     ELSE [invoice EXCEPT ![i].settled = "yes", ![i].status = "Paid"]
       /\ UNCHANGED <<quote, order, delivery, return, stock, undone>>

----------------------------------------------------------------------------
(* Purchase returns *)

Against(i)  == {r \in Returns : /\ return[r].life = "live" /\ return[r].invoice = i
                                /\ return[r].status = "COMPLETED"}
Returned(i) == SumOver([r \in Returns |-> return[r].qty], Against(i))
\* Mutant: what was returned before is not counted.
Invoiced(i) == invoice[i].qty
Returnable(i) == invoice[i].qty - Returned(i)

\* A layer that holds no more than is returned is deleted as it stands.
Drawn(d, p, q) == IF q >= p.seen THEN [receipt[d] EXCEPT !.life = "deleted"]
                                 ELSE [receipt[d] EXCEPT !.left = p.seen - q]

\* What may be returned is checked before the transaction; its snapshot gives
\* the balance and, in no order that is promised, a layer of a delivery billed.
Return(w, r, i, q) ==
    \/ /\ return[r].life = "absent" /\ q <= Returnable(i)
       /\ invoice[i].life = "live" /\ invoice[i].status = "Paid"
       /\ Begin(w, [NoPlan EXCEPT !.op = "return", !.id = r, !.inv = i, !.qty = q])
    \/ /\ tx[w].op = "return" /\ tx[w].id = r /\ tx[w].inv = i /\ tx[w].qty = q
       /\ Linked(i) # {} /\ q <= balance
       /\ LET layers == {d \in Linked(i) : receipt[d].life = "live"} IN
          \/ layers = {} /\ Open(w, tx[w])
          \/ \E d \in layers : Open(w, [tx[w] EXCEPT !.of = {d}, !.seen = receipt[d].left])
    \/ /\ Does(w, "return") /\ Done(w) /\ tx[w].id = r /\ tx[w].inv = i /\ tx[w].qty = q
       /\ return[r].life = "absent"
       /\ return' = [return EXCEPT ![r] =
                        [life |-> "live", status |-> "COMPLETED", qty |-> q, invoice |-> i,
                         receipt |-> IF tx[w].of = {} THEN None ELSE CHOOSE d \in tx[w].of : TRUE]]
       /\ balance' = balance - q /\ moved' = moved - q
       /\ receipt' = [d \in Deliveries |->
                        IF d \in tx[w].of THEN Drawn(d, tx[w], q) ELSE receipt[d]]
       /\ UNCHANGED <<quote, order, delivery, invoice, sold, undone>>

Standable(r) == return[r].life = "live" /\ return[r].status # "CANCELLED"

\* A layer seen deleted comes back with what was returned; another gets it on
\* top of what was seen in it.
Refilled(d, p, q) ==
    IF p.to = "yes" THEN [life |-> "live", left |-> q]
                    ELSE [receipt[d] EXCEPT !.left = p.seen + q]

\* cancel claims the return; deletePurchaseReturn does not.
PutBack(w, r, op) ==
    \/ Standable(r) /\ Begin(w, [NoPlan EXCEPT !.op = op, !.id = r])
    \/ LET d == return[r].receipt IN
       /\ tx[w].op = op /\ tx[w].id = r
       /\ IF d = None THEN Open(w, tx[w])
          ELSE Open(w, [tx[w] EXCEPT !.of = {d}, !.seen = receipt[d].left,
                                     !.to = IF receipt[d].life = "deleted" THEN "yes" ELSE "no"])
    \/ LET q == return[r].qty IN
       /\ Does(w, op) /\ Done(w) /\ tx[w].id = r
       /\ op = "cancelReturn" => Standable(r)
       /\ return' = [return EXCEPT ![r].status = "CANCELLED",
                                   ![r].life = IF op = "deleteReturn" THEN "deleted" ELSE @]
       /\ balance' = balance + q /\ moved' = moved + q
       /\ receipt' = [d \in Deliveries |-> IF d \in tx[w].of THEN Refilled(d, tx[w], q)
                                                           ELSE receipt[d]]
       /\ undone' = [undone EXCEPT ![r] = @ + 1]
       /\ UNCHANGED <<quote, order, delivery, invoice, sold>>

\* Update with the status COMPLETED, refused of one that was seen cancelled.
EditReturn(w, r) ==
    \/ Standable(r) /\ Begin(w, [NoPlan EXCEPT !.op = "editReturn", !.id = r])
    \/ /\ Does(w, "editReturn") /\ Done(w) /\ tx[w].id = r
       /\ return' = [return EXCEPT ![r].status = "COMPLETED"]
       /\ UNCHANGED <<quote, order, delivery, invoice, stock, undone>>

----------------------------------------------------------------------------
(* Sales of the outlet: one unit, out of some layer or out of stock in none *)

Sell ==
    /\ "sell" \in mix /\ balance >= 1 /\ begun < MaxRequests
    /\ begun' = begun + 1
    /\ raced' = (raced \/ \E v \in Workers : tx[v].stage # "idle")
    /\ balance' = balance - 1 /\ moved' = moved - 1 /\ sold' = sold + 1
    /\ \/ UNCHANGED receipt
       \/ \E d \in Deliveries : /\ receipt[d].life = "live" /\ receipt[d].left > 0
                                 /\ receipt' = [receipt EXCEPT ![d].left = @ - 1]
    /\ UNCHANGED <<mix, docs, tx, undone>>

Request(w) ==
    \/ \E quoted \in {"yes", "no"} : Confirm(w, quoted)
    \/ CancelOrder(w) \/ DeleteOrder(w) \/ DeleteQuote(w)
    \/ \E cascade \in BOOLEAN : CancelQuote(w, cascade)
    \/ \E d \in Deliveries :
        \/ \E q \in Quantities : Deliver(w, d, q)
        \/ TakeBack(w, d) \/ EditDelivery(w, d) \/ DeleteDelivery(w, d)
    \/ \E i \in Invoices :
        \/ \E q \in Quantities : \/ EditBill(w, i, q)
                                \/ \E D \in SUBSET Deliveries : Bill(w, i, D, q)
        \/ CancelBill(w, i) \/ DeleteBill(w, i) \/ Settle(w, i)
    \/ \E r \in Returns :
        \/ \E i \in Invoices, q \in Quantities : Return(w, r, i, q)
        \/ \E op \in {"cancelReturn", "deleteReturn"} : PutBack(w, r, op)
        \/ EditReturn(w, r)
    \/ Abort(w)

Next == (\E w \in Workers : Request(w)) \/ Sell

Spec == Init /\ [][Next]_vars

----------------------------------------------------------------------------
(* Properties *)

\* However cancellations overlap, the stock of a delivery is taken out only by
\* the request that takes it from received to CANCELLED.
TakenBackOnTransition ==
    [][\A d \in Deliveries : undone'[d] > undone[d] =>
            delivery[d].status # "CANCELLED" /\ delivery'[d].status = "CANCELLED"]_vars

\* Every document that is CANCELLED, and no other, was undone, once: nothing
\* was reopened or restored twice.
UndoneOnce ==
    /\ \A d \in Deliveries : undone[d] = IF delivery[d].status = "CANCELLED" THEN 1 ELSE 0
    /\ \A r \in Returns : undone[r] = IF return[r].status = "CANCELLED" THEN 1 ELSE 0

Received == SumOver([d \in Deliveries |-> IF delivery[d].status = "Received"
                                         THEN delivery[d].qty ELSE 0], Deliveries)
SentBack == SumOver([r \in Returns |-> IF return[r].status = "COMPLETED"
                                      THEN return[r].qty ELSE 0], Returns)

\* The balance is what the movements say.  A cancellation short of stock is the
\* one thing that leaves more.
BalanceCovers ==
    /\ balance >= moved
    /\ (\A d \in Deliveries : undone[d] = 0) => balance = moved

\* The movements explain the balance, and while every document was undone as
\* often as it says, the documents explain the movements.
StockExplained ==
    /\ BalanceCovers
    /\ UndoneOnce => moved = Opening + Received - SentBack - sold

\* The invoice a delivery is linked to exists and is not cancelled, so that a
\* delivery on no active invoice can always be billed again.
LinksLive ==
    \A d \in Live : delivery[d].invoice # None =>
        /\ invoice[delivery[d].invoice].life = "live"
        /\ invoice[delivery[d].invoice].status # "CANCELLED"

\* Unless requests overlapped, no delivery or invoice outlives its order.
NoOrphans ==
    ~raced /\ order.life = "deleted" =>
        Live = {} /\ \A i \in Invoices : invoice[i].life # "live"

\* No delivery is left on a dead invoice, and no document without its order.
LinksSound == LinksLive /\ NoOrphans

\* Unless requests overlapped, the returns of an invoice stay within what it
\* bills as they are made, and never take stock below zero.
ReturnsFit ==
    [][\A i \in Invoices : ~raced /\ Returned(i)' > Returned(i) =>
            Returned(i)' <= invoice[i].qty /\ balance' >= 0]_vars
=============================================================================
