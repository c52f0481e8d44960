--------------------------- MODULE ReceivingProofs ---------------------------
(***************************************************************************)
(* Proofs about Receiving, for any number of deliveries, invoices, returns *)
(* and requests in flight: types, the claim of a cancellation, the links   *)
(* between deliveries and invoices, what outlives an order, and the        *)
(* balance against the movements.                                          *)
(***************************************************************************)
EXTENDS Receiving, SumLemmas

\* A plan whose target is one its operation writes, and which read a layer
\* where it is to write one.
Fits(p) ==
    /\ p \in Plan
    /\ p.op \in {"cancelQuote", "deliver", "takeBack", "editDelivery"} =>
          p.to \in OrderStatus \cup {None}
    /\ p.op = "cancelBill" => p.to \in {"CANCELLED", None}
    /\ p.op = "editBill" => p.to \in {"Completed", None}
    /\ p.op \in ReturnOps => p.seen \in Nat

TypeInv == TypeOK /\ \A w \in Workers : Fits(tx[w])

LEMMA NoPlanFits == Fits(NoPlan)
BY DEF NoPlan, Plan, Fits, Ops, OrderOps, DeliveryOps, InvoiceOps, ReturnOps

BillOps == {"cancelBill", "editBill", "deleteBill", "settle"}

Reverting == {"cancelReturn", "deleteReturn", "editReturn"}

\* What a request checks before it begins.
Allowed(p) ==
    /\ p.op = "deleteOrder" => Undocumented
    /\ p.op \in {"deliver", "bill"} => order.life = "live"
    /\ p.op \in BillOps => p.id \in Invoices /\ invoice[p.id].life = "live"
    /\ p.op = "return" => p.inv \in Invoices /\ p.qty <= Returnable(p.inv)
    /\ p.op \in Reverting => p.id \in Returns /\ Standable(p.id)

\* What it goes on with after the reads of its transaction.
Reopened(w, p) ==
    /\ p.op = tx[w].op /\ p.id = tx[w].id
    /\ p.op = "cancelBill" => p.of = Linked(p.id)
    /\ p.op = "return" => p.inv = tx[w].inv /\ p.qty = tx[w].qty /\ p.qty <= balance

\* What a commit may write.
Written ==
    /\ quote' \in {"open", "CANCELLED", "deleted"} /\ order' \in OrderRow
    /\ delivery' \in [Deliveries -> DeliveryRow] /\ invoice' \in [Invoices -> InvoiceRow]
    /\ return' \in [Returns -> ReturnRow] /\ receipt' \in [Deliveries -> ReceiptRow]
    /\ balance' \in Int /\ moved' \in Int /\ sold' \in Nat
    /\ undone' \in [Deliveries \cup Returns -> Nat]

\* The steps of a request, whatever its operation.
Steps(w) ==
    \/ \E p : Fits(p) /\ Allowed(p) /\ Begin(w, p)
    \/ \E p : Fits(p) /\ Reopened(w, p) /\ Open(w, p)
    \/ tx[w].stage # "idle" /\ Done(w) /\ Written

LEMMA BeginStep ==
    ASSUME NEW w, NEW p, Fits(p), Allowed(p), Begin(w, p)
    PROVE  Steps(w)
BY DEF Steps

LEMMA OpenStep ==
    ASSUME NEW w, NEW p, Fits(p), Reopened(w, p), Open(w, p)
    PROVE  Steps(w)
BY DEF Steps

LEMMA CommitStep ==
    ASSUME NEW w, NEW op, Does(w, op), Done(w), Written
    PROVE  Steps(w)
BY DEF Steps, Does

LEMMA StandingType ==
    ASSUME NEW n, NEW none \in {None, "CONFIRMED"}
    PROVE  Standing(n, none) \in OrderStatus \cup {None}
BY DEF Standing, OrderStatus

LEMMA RestatusType ==
    ASSUME TypeOK, NEW to \in OrderStatus \cup {None}, Restatus(to)
    PROVE  order' \in OrderRow /\ order'.life = order.life
BY DEF Restatus, TypeOK, OrderRow

LEMMA OrderOpsSteps ==
    ASSUME TypeInv, NEW w \in Workers,
           \/ \E quoted \in {"yes", "no"} : Confirm(w, quoted)
           \/ CancelOrder(w) \/ DeleteOrder(w) \/ DeleteQuote(w)
           \/ \E cascade \in BOOLEAN : CancelQuote(w, cascade)
    PROVE  Steps(w)
<1> USE NoPlanFits DEF Ops, OrderOps, ReturnOps
<1>1. ASSUME NEW quoted \in {"yes", "no"}, Confirm(w, quoted) PROVE Steps(w)
  <2>1. Fits([NoPlan EXCEPT !.op = "confirm", !.to = quoted]) /\ Allowed([NoPlan EXCEPT !.op = "confirm", !.to = quoted])
    BY <1>1 DEF Allowed, Reverting, BillOps, Plan, Fits, NoPlan
  <2>2. CASE Begin(w, [NoPlan EXCEPT !.op = "confirm", !.to = quoted])
    BY <2>1, <2>2, BeginStep
  <2>3. CASE Does(w, "confirm") /\ Done(w) /\ order' = [order EXCEPT !.status = "CONFIRMED", !.quoted = quoted]
             /\ UNCHANGED <<quote, delivery, invoice, return, stock, undone>>
    <3>1. Written
      BY <2>3 DEF TypeInv, TypeOK, Written, OrderRow, OrderStatus, stock
    <3> QED
      BY <2>3, <3>1, CommitStep
  <2> QED
    BY <1>1, <2>2, <2>3 DEF Confirm
<1>2. ASSUME CancelOrder(w) PROVE Steps(w)
  <2>1. Fits([NoPlan EXCEPT !.op = "cancelOrder"]) /\ Allowed([NoPlan EXCEPT !.op = "cancelOrder"])
    BY <1>2 DEF Allowed, Reverting, BillOps, Plan, Fits, NoPlan
  <2>2. CASE Begin(w, [NoPlan EXCEPT !.op = "cancelOrder"])
    BY <2>1, <2>2, BeginStep
  <2>3. CASE Does(w, "cancelOrder") /\ Done(w) /\ order' = [order EXCEPT !.status = "CANCELLED"]
             /\ UNCHANGED <<quote, delivery, invoice, return, stock, undone>>
    <3>1. Written
      BY <2>3 DEF TypeInv, TypeOK, Written, OrderRow, OrderStatus, stock
    <3> QED
      BY <2>3, <3>1, CommitStep
  <2> QED
    BY <1>2, <2>2, <2>3 DEF CancelOrder
<1>3. ASSUME DeleteOrder(w) PROVE Steps(w)
  <2>2. CASE Undocumented /\ Begin(w, [NoPlan EXCEPT !.op = "deleteOrder"])
    <3>1. /\ Fits([NoPlan EXCEPT !.op = "deleteOrder"])
          /\ Allowed([NoPlan EXCEPT !.op = "deleteOrder"])
      BY <2>2 DEF Allowed, Reverting, BillOps, Plan, Fits, NoPlan
    <3> QED
      BY <2>2, <3>1, BeginStep
  <2>3. CASE Does(w, "deleteOrder") /\ Done(w) /\ order' = [order EXCEPT !.life = "deleted"]
             /\ UNCHANGED <<quote, delivery, invoice, return, stock, undone>>
    <3>1. Written
      BY <2>3 DEF TypeInv, TypeOK, Written, OrderRow, Lives, stock
    <3> QED
      BY <2>3, <3>1, CommitStep
  <2> QED
    BY <1>3, <2>2, <2>3 DEF DeleteOrder
<1>4. ASSUME DeleteQuote(w) PROVE Steps(w)
  <2>1. Fits([NoPlan EXCEPT !.op = "deleteQuote"]) /\ Allowed([NoPlan EXCEPT !.op = "deleteQuote"])
    BY <1>4 DEF Allowed, Reverting, BillOps, Plan, Fits, NoPlan
  <2>2. CASE Begin(w, [NoPlan EXCEPT !.op = "deleteQuote"])
    BY <2>1, <2>2, BeginStep
  <2>3. CASE Does(w, "deleteQuote") /\ Done(w) /\ quote' = "deleted"
             /\ UNCHANGED <<order, delivery, invoice, return, stock, undone>>
    <3>1. Written
      BY <2>3 DEF TypeInv, TypeOK, Written, stock
    <3> QED
      BY <2>3, <3>1, CommitStep
  <2> QED
    BY <1>4, <2>2, <2>3 DEF DeleteQuote
<1>5. ASSUME NEW cascade \in BOOLEAN, CancelQuote(w, cascade) PROVE Steps(w)
  <2> DEFINE to == IF cascade /\ Quoted THEN "CANCELLED" ELSE None
  <2>1. Fits([NoPlan EXCEPT !.op = "cancelQuote", !.to = to]) /\ Allowed([NoPlan EXCEPT !.op = "cancelQuote", !.to = to])
    <3>1. to \in {"CANCELLED", None}
      OBVIOUS
    <3> HIDE DEF to
    <3> QED
      BY <3>1 DEF Allowed, Reverting, BillOps, Plan, OrderStatus, Fits, NoPlan
  <2>2. CASE Begin(w, [NoPlan EXCEPT !.op = "cancelQuote", !.to = to])
    BY <2>1, <2>2, BeginStep
  <2>3. CASE /\ Done(w) /\ Does(w, "cancelQuote")
             /\ quote' = IF quote = "deleted" THEN quote ELSE "CANCELLED"
             /\ Restatus(IF Quoted THEN tx[w].to ELSE None)
             /\ UNCHANGED <<delivery, invoice, return, stock, undone>>
    <3>1. tx[w].to \in OrderStatus \cup {None}
      BY <2>3 DEF TypeInv, Fits, Does
    <3>2. Written
      BY <2>3, <3>1, RestatusType DEF TypeInv, TypeOK, Written, stock
    <3> QED
      BY <2>3, <3>2, CommitStep
  <2> QED
    BY <1>5, <2>2, <2>3 DEF CancelQuote
<1> QED
  BY <1>1, <1>2, <1>3, <1>4, <1>5

LEMMA DeliverSteps ==
    ASSUME TypeInv, NEW w \in Workers, NEW d \in Deliveries, NEW q \in Quantities,
           Deliver(w, d, q)
    PROVE  Steps(w)
<1> USE NoPlanFits, ReceivingAssumption
<1> DEFINE p == [NoPlan EXCEPT !.op = "deliver", !.id = d, !.qty = q]
           o == [tx[w] EXCEPT !.seen = balance, !.to = Standing(Qty(Live) + q, None)]
<1>1. CASE order.life = "live" /\ Begin(w, p)
  <2>1. Fits(p) /\ Allowed(p)
    BY <1>1 DEF Allowed, Reverting, BillOps, Fits, Plan, NoPlan, Ops, DeliveryOps, ReturnOps
  <2> QED
    BY <1>1, <2>1, BeginStep
<1>2. CASE tx[w].op = "deliver" /\ Open(w, o)
  <2>1. Standing(Qty(Live) + q, None) \in OrderStatus \cup {None}
    BY StandingType
  <2>2. Fits(o) /\ Reopened(w, o)
    BY <1>2, <2>1 DEF TypeInv, TypeOK, Fits, Plan, ReturnOps, Reopened
  <2> HIDE DEF o
  <2> QED
    BY <1>2, <2>2, OpenStep
<1>3. CASE LET n == AfterDebt(tx[w].seen, q) IN
       /\ Does(w, "deliver") /\ Done(w)
       /\ delivery' = [delivery EXCEPT ![d].life = "live", ![d].qty = q]
       /\ balance' = balance + q /\ moved' = moved + q
       /\ receipt' = IF n = 0 THEN receipt ELSE [receipt EXCEPT ![d] = [life |-> "live", left |-> n]]
       /\ Restatus(tx[w].to)
       /\ UNCHANGED <<quote, invoice, return, sold, undone>>
  <2>1. tx[w].to \in OrderStatus \cup {None} /\ tx[w].seen \in Int
    BY <1>3 DEF TypeInv, Fits, Does, Plan
  <2>2. AfterDebt(tx[w].seen, q) \in Nat
    BY <2>1 DEF AfterDebt, Lesser, Greater
  <2>3. receipt' \in [Deliveries -> ReceiptRow]
    BY <1>3, <2>2 DEF TypeInv, TypeOK, ReceiptRow, Lives
  <2>4. delivery' \in [Deliveries -> DeliveryRow]
    BY <1>3 DEF TypeInv, TypeOK, DeliveryRow, Lives
  <2>5. order' \in OrderRow
    BY <1>3, <2>1, RestatusType DEF TypeInv
  <2>6. balance' \in Int /\ moved' \in Int
    BY <1>3 DEF TypeInv, TypeOK
  <2>7. Written
    BY <1>3, <2>3, <2>4, <2>5, <2>6 DEF TypeInv, TypeOK, Written
  <2> QED
    BY <1>3, <2>7, CommitStep
<1> QED
  BY <1>1, <1>2, <1>3 DEF Deliver

LEMMA ClampedType ==
    ASSUME NEW b \in Int, NEW q \in Nat
    PROVE  Clamped(b, q) \in Int /\ Clamped(b, q) >= b - q
BY DEF Clamped, Greater, Lesser

LEMMA TakeBackSteps ==
    ASSUME TypeInv, NEW w \in Workers, NEW d \in Deliveries, TakeBack(w, d)
    PROVE  Steps(w)
<1> USE NoPlanFits
<1> DEFINE p == [NoPlan EXCEPT !.op = "takeBack", !.id = d]
           o == [tx[w] EXCEPT !.to = Standing(Qty(Kept \ {d}), "CONFIRMED")]
<1>1. CASE Begin(w, p)
  <2>1. Fits(p) /\ Allowed(p)
    BY <1>1 DEF Allowed, Reverting, BillOps, Fits, Plan, NoPlan, Ops, DeliveryOps, ReturnOps
  <2> QED
    BY <1>1, <2>1, BeginStep
<1>2. CASE tx[w].op = "takeBack" /\ Open(w, o)
  <2>1. Standing(Qty(Kept \ {d}), "CONFIRMED") \in OrderStatus \cup {None}
    BY StandingType
  <2>2. Fits(o) /\ Reopened(w, o)
    BY <1>2, <2>1 DEF TypeInv, TypeOK, Fits, Plan, ReturnOps, Reopened
  <2> HIDE DEF o
  <2> QED
    BY <1>2, <2>2, OpenStep
<1>3. CASE Does(w, "takeBack") /\ Done(w) /\ Restatus(tx[w].to)
           /\ UNCHANGED <<quote, invoice, return, sold>>
           /\ IF Claimed(d)
              THEN /\ delivery' = [delivery EXCEPT ![d].status = "CANCELLED"]
                   /\ balance' = Clamped(balance, TakenOut(d))
                   /\ moved' = moved - TakenOut(d)
                   /\ receipt' = [receipt EXCEPT ![d].life = IF @ = "live" THEN "deleted" ELSE @]
                   /\ undone' = [undone EXCEPT ![d] = @ + 1]
              ELSE UNCHANGED <<delivery, balance, moved, receipt, undone>>
  <2>1. tx[w].to \in OrderStatus \cup {None}
    BY <1>3 DEF TypeInv, Fits, Does
  <2>2. order' \in OrderRow
    BY <1>3, <2>1, RestatusType DEF TypeInv
  <2>3. TakenOut(d) \in Nat
    BY DEF TakenOut, TypeInv, TypeOK, DeliveryRow
  <2> DEFINE b == Clamped(balance, TakenOut(d))
             taken == [delivery EXCEPT ![d].status = "CANCELLED"]
  <2>a. b \in Int /\ taken \in [Deliveries -> DeliveryRow]
    <3>1. b \in Int
      BY <2>3, ClampedType DEF TypeInv, TypeOK
    <3>2. taken \in [Deliveries -> DeliveryRow]
      BY DEF TypeInv, TypeOK, DeliveryRow
    <3> QED
      BY <3>1, <3>2
  <2>b. \/ balance' = b /\ moved' = moved - TakenOut(d) /\ delivery' = taken
        \/ UNCHANGED <<balance, moved, delivery>>
    BY <1>3
  <2> HIDE DEF b, taken
  <2>4. balance' \in Int /\ moved' \in Int
    BY <2>a, <2>b, <2>3 DEF TypeInv, TypeOK
  <2>5. receipt' \in [Deliveries -> ReceiptRow]
    BY <1>3 DEF TypeInv, TypeOK, ReceiptRow, Lives
  <2>6. delivery' \in [Deliveries -> DeliveryRow]
    BY <2>a, <2>b DEF TypeInv, TypeOK
  <2>7. undone' \in [Deliveries \cup Returns -> Nat]
    BY <1>3 DEF TypeInv, TypeOK
  <2>8. Written
    BY <1>3, <2>2, <2>4, <2>5, <2>6, <2>7 DEF TypeInv, TypeOK, Written
  <2> QED
    BY <1>3, <2>8, CommitStep
<1> QED
  BY <1>1, <1>2, <1>3 DEF TakeBack

LEMMA EditDeliverySteps ==
    ASSUME TypeInv, NEW w \in Workers, NEW d \in Deliveries,
           EditDelivery(w, d) \/ DeleteDelivery(w, d)
    PROVE  Steps(w)
<1> USE NoPlanFits
<1> DEFINE p(op) == [NoPlan EXCEPT !.op = op, !.id = d]
           o == [tx[w] EXCEPT !.to = Standing(Qty(Kept \cup ({d} \cap Live)), "CONFIRMED")]
<1>1. ASSUME NEW op \in {"editDelivery", "deleteDelivery"}, Begin(w, p(op)) PROVE Steps(w)
  <2>1. Fits(p(op)) /\ Allowed(p(op))
    BY <1>1 DEF Allowed, Reverting, BillOps, Fits, Plan, NoPlan, Ops, DeliveryOps, ReturnOps
  <2> QED
    BY <1>1, <2>1, BeginStep
<1>2. CASE tx[w].op = "editDelivery" /\ Open(w, o)
  <2>1. Standing(Qty(Kept \cup ({d} \cap Live)), "CONFIRMED") \in OrderStatus \cup {None}
    BY StandingType
  <2>2. Fits(o) /\ Reopened(w, o)
    BY <1>2, <2>1 DEF TypeInv, TypeOK, Fits, Plan, ReturnOps, Reopened
  <2> HIDE DEF o
  <2> QED
    BY <1>2, <2>2, OpenStep
<1>3. CASE Does(w, "editDelivery") /\ Done(w) /\ Restatus(tx[w].to)
           /\ delivery' = [delivery EXCEPT ![d].status = "Received"]
           /\ UNCHANGED <<quote, invoice, return, stock, undone>>
  <2>1. tx[w].to \in OrderStatus \cup {None}
    BY <1>3 DEF TypeInv, Fits, Does
  <2>2. order' \in OrderRow
    BY <1>3, <2>1, RestatusType DEF TypeInv
  <2>3. Written
    BY <1>3, <2>2 DEF TypeInv, TypeOK, Written, DeliveryRow, stock
  <2> QED
    BY <1>3, <2>3, CommitStep
<1>4. CASE Does(w, "deleteDelivery") /\ Done(w) /\ delivery' = [delivery EXCEPT ![d].life = "deleted"]
           /\ UNCHANGED <<quote, order, invoice, return, stock, undone>>
  <2>1. Written
    BY <1>4 DEF TypeInv, TypeOK, Written, DeliveryRow, Lives, stock
  <2> QED
    BY <1>4, <2>1, CommitStep
<1> QED
  BY <1>1, <1>2, <1>3, <1>4 DEF EditDelivery, DeleteDelivery

LEMMA LinkType ==
    ASSUME TypeOK, NEW D, NEW i \in Invoices \cup {None}
    PROVE  Link(D, i) \in [Deliveries -> DeliveryRow]
BY DEF TypeOK, Link, DeliveryRow

LEMMA BillSteps ==
    ASSUME TypeInv, NEW w \in Workers, NEW i \in Invoices, NEW D \in SUBSET Deliveries,
           NEW q \in Quantities, Bill(w, i, D, q)
    PROVE  Steps(w)
<1> USE NoPlanFits, ReceivingAssumption
<1> DEFINE p == [NoPlan EXCEPT !.op = "bill", !.id = i, !.qty = q, !.of = D]
<1>1. CASE order.life = "live" /\ Begin(w, p)
  <2>1. Fits(p) /\ Allowed(p)
    BY <1>1 DEF Allowed, Reverting, BillOps, Fits, Plan, NoPlan, Ops, InvoiceOps, ReturnOps
  <2> QED
    BY <1>1, <2>1, BeginStep
<1>2. CASE /\ Does(w, "bill") /\ Done(w)
           /\ invoice' = [invoice EXCEPT ![i].life = "live", ![i].qty = q]
           /\ order' = [order EXCEPT !.status = "COMPLETED"]
           /\ delivery' = Link(D \cap Live, i)
           /\ UNCHANGED <<quote, return, stock, undone>>
  <2>1. delivery' \in [Deliveries -> DeliveryRow]
    BY <1>2, LinkType DEF TypeInv
  <2> DEFINE row == [invoice[i] EXCEPT !.life = "live", !.qty = q]
  <2>5. invoice' = [invoice EXCEPT ![i] = row]
    BY <1>2 DEF TypeInv, TypeOK, InvoiceRow
  <2>6. row \in InvoiceRow
    BY DEF TypeInv, TypeOK, InvoiceRow, Lives
  <2> HIDE DEF row
  <2>2. invoice' \in [Invoices -> InvoiceRow]
    BY <2>5, <2>6 DEF TypeInv, TypeOK
  <2>4. order' \in OrderRow
    BY <1>2 DEF TypeInv, TypeOK, OrderRow, OrderStatus
  <2>3. Written
    BY <1>2, <2>1, <2>2, <2>4 DEF TypeInv, TypeOK, Written, stock
  <2> QED
    BY <1>2, <2>3, CommitStep
<1> QED
  BY <1>1, <1>2 DEF Bill

LEMMA CancelBillSteps ==
    ASSUME TypeInv, NEW w \in Workers, NEW i \in Invoices, CancelBill(w, i)
    PROVE  Steps(w)
<1> USE NoPlanFits
<1> DEFINE p == [NoPlan EXCEPT !.op = "cancelBill", !.id = i, !.to = Status(i, "CANCELLED")]
           o == [tx[w] EXCEPT !.of = Linked(i)]
<1>1. CASE invoice[i].life = "live" /\ Begin(w, p)
  <2>1. Status(i, "CANCELLED") \in {"CANCELLED", None}
    BY DEF Status
  <2>2. Fits(p) /\ Allowed(p)
    BY <2>1, <1>1 DEF Allowed, Reverting, BillOps, Fits, Plan, NoPlan, Ops, InvoiceOps, ReturnOps, OrderStatus
  <2> QED
    BY <1>1, <2>2, BeginStep
<1>2. CASE tx[w].op = "cancelBill" /\ tx[w].id = i /\ Open(w, o)
  <2>1. Fits(o)
    BY <1>2 DEF TypeInv, Fits, Plan, ReturnOps, Linked, Live
  <2>2. Reopened(w, o)
    BY <1>2 DEF TypeInv, Fits, Plan, Reopened
  <2> HIDE DEF o
  <2> QED
    BY <1>2, <2>1, <2>2, OpenStep
<1>3. CASE /\ Does(w, "cancelBill") /\ Done(w)
           /\ invoice' = [invoice EXCEPT ![i].status = IF tx[w].to = None THEN @ ELSE tx[w].to]
           /\ delivery' = IF tx[w].of = {} THEN delivery ELSE Link(Released(i), None)
           /\ UNCHANGED <<quote, order, return, stock, undone>>
  <2>1. delivery' \in [Deliveries -> DeliveryRow]
    BY <1>3, LinkType DEF TypeInv, TypeOK
  <2>2. tx[w].to \in {"CANCELLED", "Completed", None}
    BY <1>3 DEF TypeInv, Fits, Does
  <2>3. invoice' \in [Invoices -> InvoiceRow]
    BY <1>3, <2>2 DEF TypeInv, TypeOK, InvoiceRow
  <2>4. Written
    BY <1>3, <2>1, <2>3 DEF TypeInv, TypeOK, Written, stock
  <2> QED
    BY <1>3, <2>4, CommitStep
<1> QED
  BY <1>1, <1>2, <1>3 DEF CancelBill

LEMMA EditBillSteps ==
    ASSUME TypeInv, NEW w \in Workers, NEW i \in Invoices, NEW q \in Quantities,
           EditBill(w, i, q)
    PROVE  Steps(w)
<1> USE NoPlanFits, ReceivingAssumption
<1> DEFINE p == [NoPlan EXCEPT !.op = "editBill", !.id = i, !.qty = q, !.to = Status(i, "Completed")]
<1>1. CASE invoice[i].life = "live" /\ Begin(w, p)
  <2>1. Status(i, "Completed") \in {"Completed", None}
    BY DEF Status
  <2>2. Fits(p) /\ Allowed(p)
    BY <2>1, <1>1 DEF Allowed, Reverting, BillOps, Fits, Plan, NoPlan, Ops, InvoiceOps, ReturnOps, OrderStatus
  <2> QED
    BY <1>1, <2>2, BeginStep
<1>2. CASE /\ Does(w, "editBill") /\ Done(w)
           /\ invoice' = [invoice EXCEPT ![i].status = IF tx[w].to = None THEN @ ELSE tx[w].to,
                                         ![i].qty = q]
           /\ UNCHANGED <<quote, order, delivery, return, stock, undone>>
  <2> DEFINE status == IF tx[w].to = None THEN invoice[i].status ELSE tx[w].to
             row    == [invoice[i] EXCEPT !.status = status, !.qty = q]
  <2>1. tx[w].to \in {"CANCELLED", "Completed", None}
    BY <1>2 DEF TypeInv, Fits, Does
  <2>4. status \in {"Completed", "Paid", "CANCELLED"}
    BY <2>1 DEF TypeInv, TypeOK, InvoiceRow
  <2>5. invoice' = [invoice EXCEPT ![i] = row]
    BY <1>2 DEF TypeInv, TypeOK, InvoiceRow
  <2> HIDE DEF status
  <2>6. row \in InvoiceRow
    BY <2>4 DEF TypeInv, TypeOK, InvoiceRow
  <2> HIDE DEF row
  <2>2. invoice' \in [Invoices -> InvoiceRow]
    BY <2>5, <2>6 DEF TypeInv, TypeOK
  <2>3. Written
    BY <1>2, <2>2 DEF TypeInv, TypeOK, Written, stock
  <2> QED
    BY <1>2, <2>3, CommitStep
<1> QED
  BY <1>1, <1>2 DEF EditBill

LEMMA SettleSteps ==
    ASSUME TypeInv, NEW w \in Workers, NEW i \in Invoices, DeleteBill(w, i) \/ Settle(w, i)
    PROVE  Steps(w)
<1> USE NoPlanFits
<1> DEFINE p(op) == [NoPlan EXCEPT !.op = op, !.id = i]
<1>1. ASSUME NEW op \in {"deleteBill", "settle"}, invoice[i].life = "live", Begin(w, p(op)) PROVE Steps(w)
  <2>1. Fits(p(op)) /\ Allowed(p(op))
    BY <1>1 DEF Allowed, Reverting, BillOps, Fits, Plan, NoPlan, Ops, InvoiceOps, ReturnOps
  <2> QED
    BY <1>1, <2>1, BeginStep
<1>2. CASE /\ Does(w, "deleteBill") /\ Done(w) /\ invoice' = [invoice EXCEPT ![i].life = "deleted"]
           /\ delivery' = Link(Released(i), None)
           /\ UNCHANGED <<quote, order, return, stock, undone>>
  <2>1. delivery' \in [Deliveries -> DeliveryRow]
    BY <1>2, LinkType DEF TypeInv, TypeOK
  <2>2. invoice' \in [Invoices -> InvoiceRow]
    BY <1>2 DEF TypeInv, TypeOK, InvoiceRow, Lives
  <2>3. Written
    BY <1>2, <2>1, <2>2 DEF TypeInv, TypeOK, Written, stock
  <2> QED
    BY <1>2, <2>3, CommitStep
<1>3. CASE /\ Does(w, "settle") /\ Done(w)
           /\ invoice' = IF invoice[i].life # "live" THEN invoice
                         ELSE [invoice EXCEPT ![i].settled = "yes", ![i].status = "Paid"]
           /\ UNCHANGED <<quote, order, delivery, return, stock, undone>>
  <2>1. invoice' \in [Invoices -> InvoiceRow]
    BY <1>3 DEF TypeInv, TypeOK, InvoiceRow
  <2>2. Written
    BY <1>3, <2>1 DEF TypeInv, TypeOK, Written, stock
  <2> QED
    BY <1>3, <2>2, CommitStep
<1> QED
  BY <1>1, <1>2, <1>3 DEF DeleteBill, Settle

LEMMA ReturnSteps ==
    ASSUME TypeInv, NEW w \in Workers, NEW r \in Returns, NEW i \in Invoices,
           NEW q \in Quantities, Return(w, r, i, q)
    PROVE  Steps(w)
<1> USE NoPlanFits, ReceivingAssumption
<1> DEFINE p == [NoPlan EXCEPT !.op = "return", !.id = r, !.inv = i, !.qty = q]
           o(d) == [tx[w] EXCEPT !.of = {d}, !.seen = receipt[d].left]
           c == CHOOSE d \in tx[w].of : TRUE
           row == [life |-> "live", status |-> "COMPLETED", qty |-> q, invoice |-> i,
                   receipt |-> IF tx[w].of = {} THEN None ELSE c]
<1>1. CASE q <= Returnable(i) /\ Begin(w, p)
  <2>1. Fits(p) /\ Allowed(p)
    BY <1>1 DEF Allowed, Reverting, BillOps, Fits, Plan, NoPlan, Ops, ReturnOps
  <2> QED
    BY <1>1, <2>1, BeginStep
<1>2. CASE tx[w].op = "return" /\ tx[w].qty <= balance /\ Open(w, tx[w])
  <2>1. Fits(tx[w])
    BY DEF TypeInv
  <2>2. Reopened(w, tx[w])
    BY <1>2 DEF Reopened
  <2> QED
    BY <1>2, <2>1, <2>2, OpenStep
<1>3. ASSUME NEW d \in Deliveries, tx[w].op = "return", tx[w].qty <= balance, Open(w, o(d))
      PROVE  Steps(w)
  <2>1. receipt[d].left \in Nat
    BY DEF TypeInv, TypeOK, ReceiptRow
  <2>3. tx[w] \in Plan /\ {d} \in SUBSET Deliveries /\ receipt[d].left \in Int
    BY <2>1 DEF TypeInv, Fits
  <2>4. o(d) \in Plan
    BY <2>3 DEF Plan
  <2>5. /\ o(d).op = tx[w].op /\ o(d).id = tx[w].id /\ o(d).seen = receipt[d].left
        /\ o(d).inv = tx[w].inv /\ o(d).qty = tx[w].qty
    BY <2>3 DEF Plan
  <2> HIDE DEF o
  <2>2. Fits(o(d)) /\ Reopened(w, o(d))
    BY <1>3, <2>1, <2>4, <2>5 DEF Fits, Reopened
  <2> QED
    BY <1>3, <2>2, OpenStep
<1>4. CASE /\ Does(w, "return") /\ Done(w)
           /\ return' = [return EXCEPT ![r] = row]
           /\ balance' = balance - q /\ moved' = moved - q
           /\ receipt' = [d \in Deliveries |->
                            IF d \in tx[w].of THEN Drawn(d, tx[w], q) ELSE receipt[d]]
           /\ UNCHANGED <<quote, order, delivery, invoice, sold, undone>>
  <2>1. tx[w].of \subseteq Deliveries /\ tx[w].seen \in Nat
    BY <1>4 DEF TypeInv, Fits, Does, Plan, ReturnOps
  <2>2. tx[w].of # {} => c \in tx[w].of
    OBVIOUS
  <2>3. row \in ReturnRow
    BY <2>1, <2>2 DEF ReturnRow, Lives
  <2>4. \A d \in Deliveries : Drawn(d, tx[w], q) \in ReceiptRow
    BY <2>1 DEF TypeInv, TypeOK, Drawn, ReceiptRow, Lives
  <2>5. receipt' \in [Deliveries -> ReceiptRow]
    BY <1>4, <2>4 DEF TypeInv, TypeOK
  <2> HIDE DEF row
  <2>6. return' \in [Returns -> ReturnRow]
    BY <1>4, <2>3 DEF TypeInv, TypeOK
  <2>7. balance' \in Int /\ moved' \in Int
    BY <1>4 DEF TypeInv, TypeOK
  <2>8. Written
    BY <1>4, <2>5, <2>6, <2>7 DEF TypeInv, TypeOK, Written
  <2> QED
    BY <1>4, <2>8, CommitStep
<1>5. Linked(i) \subseteq Deliveries
  BY DEF Linked, Live
<1> QED
  BY <1>1, <1>2, <1>3, <1>4, <1>5 DEF Return

LEMMA PutBackSteps ==
    ASSUME TypeInv, NEW w \in Workers, NEW r \in Returns,
           NEW op \in {"cancelReturn", "deleteReturn"}, PutBack(w, r, op)
    PROVE  Steps(w)
<1> USE NoPlanFits
<1> DEFINE p == [NoPlan EXCEPT !.op = op, !.id = r]
           d0 == return[r].receipt
           to == IF receipt[d0].life = "deleted" THEN "yes" ELSE "no"
           o == [tx[w] EXCEPT !.of = {d0}, !.seen = receipt[d0].left, !.to = to]
           q == return[r].qty
<1>1. CASE Standable(r) /\ Begin(w, p)
  <2>1. Fits(p) /\ Allowed(p)
    BY <1>1 DEF Allowed, Reverting, BillOps, Fits, Plan, NoPlan, Ops, ReturnOps
  <2> QED
    BY <1>1, <2>1, BeginStep
<1>2. CASE tx[w].op = op /\ Open(w, tx[w])
  <2>1. Fits(tx[w])
    BY DEF TypeInv
  <2>2. Reopened(w, tx[w])
    BY <1>2 DEF Reopened
  <2> QED
    BY <1>2, <2>1, <2>2, OpenStep
<1>3. CASE d0 # None /\ tx[w].op = op /\ Open(w, o)
  <2>1. d0 \in Deliveries
    BY <1>3 DEF TypeInv, TypeOK, ReturnRow
  <2>2. receipt[d0].left \in Nat
    BY <2>1 DEF TypeInv, TypeOK, ReceiptRow
  <2>3. to \in {"yes", "no"}
    OBVIOUS
  <2>5. Fits(tx[w]) /\ tx[w].op \in {"cancelReturn", "deleteReturn"}
    BY <1>3 DEF TypeInv
  <2> HIDE DEF to, d0
  <2>7. tx[w] \in Plan /\ {d0} \in SUBSET Deliveries /\ receipt[d0].left \in Int
    BY <2>1, <2>2, <2>5 DEF Fits
  <2>6. o \in Plan
    BY <2>3, <2>7 DEF Plan
  <2>8. o.op = tx[w].op /\ o.id = tx[w].id /\ o.seen = receipt[d0].left
    BY <2>7 DEF Plan
  <2> HIDE DEF o
  <2>4. Fits(o) /\ Reopened(w, o)
    BY <2>2, <2>5, <2>6, <2>8 DEF Fits, Reopened
  <2> HIDE DEF o
  <2> QED
    BY <1>3, <2>4, OpenStep
<1>4. CASE /\ Does(w, op) /\ Done(w)
           /\ return' = [return EXCEPT ![r].status = "CANCELLED",
                                       ![r].life = IF op = "deleteReturn" THEN "deleted" ELSE @]
           /\ balance' = balance + q /\ moved' = moved + q
           /\ receipt' = [d \in Deliveries |-> IF d \in tx[w].of THEN Refilled(d, tx[w], q)
                                                               ELSE receipt[d]]
           /\ undone' = [undone EXCEPT ![r] = @ + 1]
           /\ UNCHANGED <<quote, order, delivery, invoice, sold>>
  <2>1. tx[w].seen \in Nat
    BY <1>4 DEF TypeInv, Fits, Does, ReturnOps
  <2>2. q \in Nat
    BY DEF TypeInv, TypeOK, ReturnRow
  <2>3. \A d \in Deliveries : Refilled(d, tx[w], q) \in ReceiptRow
    BY <2>1, <2>2 DEF TypeInv, TypeOK, Refilled, ReceiptRow, Lives
  <2> HIDE DEF q
  <2>4. receipt' \in [Deliveries -> ReceiptRow]
    BY <1>4, <2>3 DEF TypeInv, TypeOK
  <2> DEFINE life == IF op = "deleteReturn" THEN "deleted" ELSE return[r].life
             row  == [return[r] EXCEPT !.status = "CANCELLED", !.life = life]
  <2>9. return' = [return EXCEPT ![r] = row]
    BY <1>4 DEF TypeInv, TypeOK, ReturnRow
  <2>10. life \in Lives
    BY DEF TypeInv, TypeOK, ReturnRow, Lives
  <2> HIDE DEF life
  <2>11. row \in ReturnRow
    BY <2>10 DEF TypeInv, TypeOK, ReturnRow
  <2> HIDE DEF row
  <2>5. return' \in [Returns -> ReturnRow]
    BY <2>9, <2>11 DEF TypeInv, TypeOK
  <2>6. balance' \in Int /\ moved' \in Int
    BY <1>4, <2>2 DEF TypeInv, TypeOK
  <2>7. undone' \in [Deliveries \cup Returns -> Nat]
    BY <1>4 DEF TypeInv, TypeOK
  <2>8. Written
    BY <1>4, <2>4, <2>5, <2>6, <2>7 DEF TypeInv, TypeOK, Written
  <2> QED
    BY <1>4, <2>8, CommitStep
<1> QED
  BY <1>1, <1>2, <1>3, <1>4 DEF PutBack

LEMMA EditReturnSteps ==
    ASSUME TypeInv, NEW w \in Workers, NEW r \in Returns, EditReturn(w, r)
    PROVE  Steps(w)
<1> USE NoPlanFits
<1> DEFINE p == [NoPlan EXCEPT !.op = "editReturn", !.id = r]
<1>1. CASE Standable(r) /\ Begin(w, p)
  <2>1. Fits(p) /\ Allowed(p)
    BY <1>1 DEF Allowed, Reverting, BillOps, Fits, Plan, NoPlan, Ops, ReturnOps
  <2> QED
    BY <1>1, <2>1, BeginStep
<1>2. CASE Does(w, "editReturn") /\ Done(w) /\ return' = [return EXCEPT ![r].status = "COMPLETED"]
           /\ UNCHANGED <<quote, order, delivery, invoice, stock, undone>>
  <2>1. Written
    BY <1>2 DEF TypeInv, TypeOK, Written, ReturnRow, stock
  <2> QED
    BY <1>2, <2>1, CommitStep
<1> QED
  BY <1>1, <1>2 DEF EditReturn

LEMMA AbortSteps ==
    ASSUME TypeInv, NEW w \in Workers, Abort(w)
    PROVE  Steps(w)
BY DEF Steps, Abort, TypeInv, TypeOK, Written, docs, stock

LEMMA BeginType ==
    ASSUME TypeInv, NEW w \in Workers, NEW p, Fits(p), Begin(w, p)
    PROVE  TypeInv'
<1> DEFINE q == [p EXCEPT !.stage = IF p.op \in Reading THEN "asked" ELSE "open"]
<1>1. Fits(q)
  BY DEF Plan, Fits
<1>2. tx' = [tx EXCEPT ![w] = q]
  BY DEF Begin
<1> HIDE DEF q
<1>3. tx' \in [Workers -> Plan] /\ \A v \in Workers : Fits(tx'[v])
  BY <1>1, <1>2 DEF TypeInv, TypeOK, Fits
<1>4. begun' \in 0..MaxRequests
  BY ReceivingAssumption DEF Begin, TypeInv, TypeOK
<1>5. raced' \in BOOLEAN
  BY DEF Begin
<1>6. UNCHANGED <<mix, docs, stock, undone>>
  BY DEF Begin
<1> QED
  BY <1>3, <1>4, <1>5, <1>6 DEF TypeInv, TypeOK, docs, stock, Fits

LEMMA OpenType ==
    ASSUME TypeInv, NEW w \in Workers, NEW p, Fits(p), Open(w, p)
    PROVE  TypeInv'
<1> DEFINE q == [p EXCEPT !.stage = "open"]
<1>1. Fits(q)
  BY DEF Plan, Fits
<1>2. tx' = [tx EXCEPT ![w] = q]
  BY DEF Open
<1> HIDE DEF q
<1>3. tx' \in [Workers -> Plan] /\ \A v \in Workers : Fits(tx'[v])
  BY <1>1, <1>2 DEF TypeInv, TypeOK, Fits
<1>4. UNCHANGED <<mix, docs, stock, begun, raced, undone>>
  BY DEF Open
<1> QED
  BY <1>3, <1>4 DEF TypeInv, TypeOK, docs, stock, Fits

LEMMA CommitType ==
    ASSUME TypeInv, NEW w \in Workers, Done(w), Written
    PROVE  TypeInv'
<1>1. tx' = [tx EXCEPT ![w] = NoPlan]
  BY DEF Done
<1>2. tx' \in [Workers -> Plan] /\ \A v \in Workers : Fits(tx'[v])
  BY NoPlanFits, <1>1 DEF TypeInv, TypeOK, Fits
<1> QED
  BY <1>2 DEF TypeInv, TypeOK, Done, Written

LEMMA StepsType ==
    ASSUME TypeInv, NEW w \in Workers, Steps(w)
    PROVE  TypeInv'
BY BeginType, OpenType, CommitType DEF Steps

LEMMA SellType == ASSUME TypeInv, Sell PROVE TypeInv'
<1>1. receipt' \in [Deliveries -> ReceiptRow]
  <2>1. CASE UNCHANGED receipt
    BY <2>1 DEF TypeInv, TypeOK
  <2>2. ASSUME NEW d \in Deliveries, receipt[d].left > 0,
               receipt' = [receipt EXCEPT ![d].left = @ - 1]
        PROVE  receipt' \in [Deliveries -> ReceiptRow]
    BY <2>2 DEF TypeInv, TypeOK, ReceiptRow
  <2> QED
    BY <2>1, <2>2 DEF Sell
<1>2. balance' \in Int /\ moved' \in Int /\ sold' \in Nat /\ begun' \in 0..MaxRequests
  BY ReceivingAssumption DEF Sell, TypeInv, TypeOK
<1>3. raced' \in BOOLEAN /\ UNCHANGED <<mix, docs, tx, undone>>
  BY DEF Sell
<1> QED
  BY <1>1, <1>2, <1>3 DEF TypeInv, TypeOK, docs
LEMMA InitType == ASSUME Init PROVE TypeInv
<1>1. tx \in [Workers -> Plan] /\ \A w \in Workers : Fits(tx[w])
  BY NoPlanFits DEF Init, Fits
<1>2. order \in OrderRow /\ delivery \in [Deliveries -> DeliveryRow]
  BY DEF Init, OrderRow, OrderStatus, DeliveryRow, Lives
<1>3. invoice \in [Invoices -> InvoiceRow] /\ return \in [Returns -> ReturnRow]
  BY DEF Init, InvoiceRow, ReturnRow, Lives
<1>4. receipt \in [Deliveries -> ReceiptRow]
  BY DEF Init, ReceiptRow, Lives
<1>5. balance \in Int /\ moved \in Int /\ sold \in Nat /\ begun \in 0..MaxRequests
  BY ReceivingAssumption DEF Init
<1>7. raced \in BOOLEAN /\ quote = "open" /\ mix \in Mixes
  BY DEF Init
<1>6. undone \in [Deliveries \cup Returns -> Nat]
  BY DEF Init
<1> QED
  BY <1>1, <1>2, <1>3, <1>4, <1>5, <1>6, <1>7 DEF TypeInv, TypeOK

LEMMA RequestSteps == ASSUME TypeInv, NEW w \in Workers, Request(w) PROVE Steps(w)
BY OrderOpsSteps, DeliverSteps, TakeBackSteps, EditDeliverySteps, BillSteps, CancelBillSteps,
   EditBillSteps, SettleSteps, ReturnSteps, PutBackSteps, EditReturnSteps, AbortSteps DEF Request

LEMMA NextType == ASSUME TypeInv, [Next]_vars PROVE TypeInv'
<1>1. CASE UNCHANGED vars
  BY <1>1 DEF vars, docs, stock, TypeInv, TypeOK, Fits
<1>2. CASE Next
  BY <1>2, RequestSteps, StepsType, SellType DEF Next
<1> QED
  BY <1>1, <1>2

\* Every row, plan and layer keeps its type; a layer never holds less than
\* nothing, whatever overlaps.
THEOREM TypeCorrect == Spec => []TypeOK
<1>1. Init => TypeInv
  BY InitType
<1>2. TypeInv /\ [Next]_vars => TypeInv'
  BY NextType
<1>3. TypeInv => TypeOK
  BY DEF TypeInv
<1> QED
  BY <1>1, <1>2, <1>3, PTL DEF Spec

----------------------------------------------------------------------------
(* The claim of a cancellation *)

LEMMA UndoneSteps ==
    ASSUME [Next]_vars
    PROVE  \/ UNCHANGED undone
           \/ \E d \in Deliveries :
                 /\ Claimed(d) /\ delivery' = [delivery EXCEPT ![d].status = "CANCELLED"]
                 /\ undone' = [undone EXCEPT ![d] = @ + 1]
           \/ \E r \in Returns : undone' = [undone EXCEPT ![r] = @ + 1]
<1> USE DEF Begin, Open
<1>1. CASE UNCHANGED vars
  BY <1>1 DEF vars
<1>2. ASSUME NEW w \in Workers, NEW quoted, Confirm(w, quoted) PROVE UNCHANGED undone
  BY <1>2 DEF Confirm
<1>3. ASSUME NEW w \in Workers, CancelOrder(w) \/ DeleteOrder(w) \/ DeleteQuote(w)
      PROVE  UNCHANGED undone
  BY <1>3 DEF CancelOrder, DeleteOrder, DeleteQuote
<1>4. ASSUME NEW w \in Workers, NEW cascade, CancelQuote(w, cascade) PROVE UNCHANGED undone
  BY <1>4 DEF CancelQuote
<1>5. ASSUME NEW w \in Workers, NEW d \in Deliveries, NEW q, Deliver(w, d, q)
      PROVE  UNCHANGED undone
  BY <1>5 DEF Deliver
<1>6. ASSUME NEW w \in Workers, NEW d \in Deliveries, TakeBack(w, d)
      PROVE  \/ UNCHANGED undone
             \/ /\ Claimed(d) /\ delivery' = [delivery EXCEPT ![d].status = "CANCELLED"]
                /\ undone' = [undone EXCEPT ![d] = @ + 1]
  BY <1>6 DEF TakeBack
<1>7. ASSUME NEW w \in Workers, NEW d \in Deliveries, EditDelivery(w, d) \/ DeleteDelivery(w, d)
      PROVE  UNCHANGED undone
  BY <1>7 DEF EditDelivery, DeleteDelivery
<1>8. ASSUME NEW w \in Workers, NEW i \in Invoices, NEW q, NEW D,
             \/ Bill(w, i, D, q) \/ EditBill(w, i, q) \/ CancelBill(w, i) \/ DeleteBill(w, i)
             \/ Settle(w, i)
      PROVE  UNCHANGED undone
  BY <1>8 DEF Bill, EditBill, CancelBill, DeleteBill, Settle
<1>9. ASSUME NEW w \in Workers, NEW r \in Returns, NEW i \in Invoices, NEW q, Return(w, r, i, q)
      PROVE  UNCHANGED undone
  BY <1>9 DEF Return
<1>10. ASSUME NEW w \in Workers, NEW r \in Returns, NEW op, PutBack(w, r, op)
       PROVE  UNCHANGED undone \/ undone' = [undone EXCEPT ![r] = @ + 1]
  BY <1>10 DEF PutBack
<1>11. ASSUME NEW w \in Workers, NEW r \in Returns, EditReturn(w, r) \/ Abort(w)
       PROVE  UNCHANGED undone
  BY <1>11 DEF EditReturn, Abort
<1>12. ASSUME NEW w \in Workers, Abort(w) PROVE UNCHANGED undone
  BY <1>12 DEF Abort
<1>13. ASSUME Sell PROVE UNCHANGED undone
  BY <1>13 DEF Sell
<1> QED
  BY <1>1, <1>2, <1>3, <1>4, <1>5, <1>6, <1>7, <1>8, <1>9, <1>10, <1>11, <1>12, <1>13 DEF Next, Request

\* However cancellations of a delivery overlap, its stock is taken out only by
\* the one whose conditional update takes it from received to CANCELLED.
THEOREM DeliveryClaimed == Spec => TakenBackOnTransition
<1> DEFINE A == \A d \in Deliveries : undone'[d] > undone[d] =>
                    delivery[d].status # "CANCELLED" /\ delivery'[d].status = "CANCELLED"
<1>1. Init => TypeInv
  BY InitType
<1>2. TypeInv /\ [Next]_vars => TypeInv'
  BY NextType
<1>3. TypeInv /\ [Next]_vars => A
  <2> SUFFICES ASSUME TypeInv, [Next]_vars, NEW d \in Deliveries, undone'[d] > undone[d]
               PROVE  delivery[d].status # "CANCELLED" /\ delivery'[d].status = "CANCELLED"
    OBVIOUS
  <2>1. undone \in [Deliveries \cup Returns -> Nat] /\ delivery \in [Deliveries -> DeliveryRow]
    BY DEF TypeInv, TypeOK
  <2>2. CASE UNCHANGED undone
    BY <2>1, <2>2
  <2>3. ASSUME NEW e \in Deliveries, Claimed(e),
               delivery' = [delivery EXCEPT ![e].status = "CANCELLED"],
               undone' = [undone EXCEPT ![e] = @ + 1]
        PROVE  delivery[d].status # "CANCELLED" /\ delivery'[d].status = "CANCELLED"
    <3>1. d = e
      BY <2>1, <2>3
    <3> QED
      BY <2>1, <2>3, <3>1 DEF Claimed, DeliveryRow
  <2>4. ASSUME NEW r \in Returns, undone' = [undone EXCEPT ![r] = @ + 1]
        PROVE  FALSE
    BY <2>1, <2>4, ReceivingAssumption
  <2> QED
    BY <2>2, <2>3, <2>4, UndoneSteps
<1> QED
  BY <1>1, <1>2, <1>3, PTL DEF Spec, TakenBackOnTransition

----------------------------------------------------------------------------
(* The balance against the movements *)

LEMMA BalanceSteps ==
    ASSUME TypeInv, [Next]_vars
    PROVE  \/ UNCHANGED <<balance, moved>>
           \/ \E n \in Int : balance' = balance + n /\ moved' = moved + n
           \/ \E d \in Deliveries :
                 /\ balance' = Clamped(balance, TakenOut(d)) /\ moved' = moved - TakenOut(d)
                 /\ undone' = [undone EXCEPT ![d] = @ + 1]
<1> DEFINE Moves == \E n \in Int : balance' = balance + n /\ moved' = moved + n
<1>0. balance \in Int /\ moved \in Int
  BY DEF TypeInv, TypeOK
<1>1. CASE UNCHANGED vars
  BY <1>1 DEF vars, stock
<1>2. ASSUME NEW w \in Workers, NEW d \in Deliveries, NEW q \in Quantities, Deliver(w, d, q)
      PROVE  Moves \/ UNCHANGED <<balance, moved>>
  <2>1. q \in Int
    BY ReceivingAssumption
  <2>2. (balance' = balance + q /\ moved' = moved + q) \/ UNCHANGED <<balance, moved>>
    BY <1>2 DEF Deliver, Begin, Open, stock
  <2> QED
    BY <2>1, <2>2
<1>3. ASSUME NEW w \in Workers, NEW r \in Returns, NEW i \in Invoices, NEW q \in Quantities,
             Return(w, r, i, q)
      PROVE  Moves \/ UNCHANGED <<balance, moved>>
  <2>1. -q \in Int /\ q \in Int
    BY ReceivingAssumption
  <2>2. (balance' = balance - q /\ moved' = moved - q) \/ UNCHANGED <<balance, moved>>
    BY <1>3 DEF Return, Begin, Open, stock
  <2>4. balance - q = balance + (-q) /\ moved - q = moved + (-q)
    BY <1>0, <2>1
  <2>3. ASSUME balance' = balance - q, moved' = moved - q PROVE Moves
    <3>1. balance' = balance + (-q) /\ moved' = moved + (-q)
      BY <2>3, <2>4
    <3> QED
      BY <2>1, <3>1
  <2> QED
    BY <2>2, <2>3
<1>4. ASSUME NEW w \in Workers, NEW r \in Returns, NEW op, PutBack(w, r, op)
      PROVE  Moves \/ UNCHANGED <<balance, moved>>
  <2>1. return[r].qty \in Int
    BY DEF TypeInv, TypeOK, ReturnRow
  <2>2. \/ balance' = balance + return[r].qty /\ moved' = moved + return[r].qty
        \/ UNCHANGED <<balance, moved>>
    BY <1>4 DEF PutBack, Begin, Open, stock
  <2> QED
    BY <2>1, <2>2
<1>5. ASSUME Sell PROVE Moves
  <2>1. balance' = balance + (-1) /\ moved' = moved + (-1)
    BY <1>0, <1>5 DEF Sell
  <2> QED
    BY <2>1
<1> HIDE DEF Moves
<1>6. ASSUME NEW w \in Workers, NEW d \in Deliveries, TakeBack(w, d)
      PROVE  \/ UNCHANGED <<balance, moved>>
             \/ /\ balance' = Clamped(balance, TakenOut(d)) /\ moved' = moved - TakenOut(d)
                /\ undone' = [undone EXCEPT ![d] = @ + 1]
  BY <1>6 DEF TakeBack, Begin, Open, stock
<1>7. ASSUME NEW w \in Workers, NEW quoted, NEW cascade,
             \/ Confirm(w, quoted) \/ CancelOrder(w) \/ DeleteOrder(w) \/ DeleteQuote(w)
             \/ CancelQuote(w, cascade) \/ Abort(w)
      PROVE  UNCHANGED <<balance, moved>>
  BY <1>7 DEF Confirm, CancelOrder, DeleteOrder, DeleteQuote, CancelQuote, Abort, Begin, stock
<1>8. ASSUME NEW w \in Workers, NEW d \in Deliveries, EditDelivery(w, d) \/ DeleteDelivery(w, d)
      PROVE  UNCHANGED <<balance, moved>>
  BY <1>8 DEF EditDelivery, DeleteDelivery, Begin, Open, stock
<1>9. ASSUME NEW w \in Workers, NEW i \in Invoices, NEW q, NEW D,
             \/ Bill(w, i, D, q) \/ EditBill(w, i, q) \/ CancelBill(w, i) \/ DeleteBill(w, i)
             \/ Settle(w, i)
      PROVE  UNCHANGED <<balance, moved>>
  BY <1>9 DEF Bill, EditBill, CancelBill, DeleteBill, Settle, Begin, Open, stock
<1>10. ASSUME NEW w \in Workers, NEW r \in Returns, EditReturn(w, r)
       PROVE  UNCHANGED <<balance, moved>>
  BY <1>10 DEF EditReturn, Begin, stock
<1> QED
  BY <1>1, <1>2, <1>3, <1>4, <1>5, <1>6, <1>7, <1>8, <1>9, <1>10 DEF Next, Request, Moves

\* The balance never falls behind the sum of its movements, and is that sum
\* until the cancellation of a delivery finds less stock than it takes out.
THEOREM BalanceCovered == Spec => []BalanceCovers
<1>1. Init => TypeInv /\ BalanceCovers
  <2>1. Init => BalanceCovers
    BY ReceivingAssumption DEF Init, BalanceCovers
  <2> QED
    BY <2>1, InitType
<1>2. TypeInv /\ BalanceCovers /\ [Next]_vars => TypeInv' /\ BalanceCovers'
  <2> SUFFICES ASSUME TypeInv, BalanceCovers, [Next]_vars PROVE BalanceCovers'
    BY NextType
  <2>1. /\ balance \in Int /\ moved \in Int /\ undone \in [Deliveries \cup Returns -> Nat]
        /\ undone' \in [Deliveries \cup Returns -> Nat]
    BY NextType DEF TypeInv, TypeOK
  <2>2. ASSUME NEW d \in Deliveries, undone'[d] = 0 PROVE undone[d] = 0
    BY <2>1, <2>2, UndoneSteps
  <2>3. CASE UNCHANGED <<balance, moved>>
    BY <2>2, <2>3 DEF BalanceCovers
  <2>4. ASSUME NEW n \in Int, balance' = balance + n, moved' = moved + n PROVE BalanceCovers'
    BY <2>1, <2>2, <2>4 DEF BalanceCovers
  <2>5. ASSUME NEW d \in Deliveries, balance' = Clamped(balance, TakenOut(d)),
               moved' = moved - TakenOut(d), undone' = [undone EXCEPT ![d] = @ + 1]
        PROVE  BalanceCovers'
    <3>1. TakenOut(d) \in Nat
      BY DEF TakenOut, TypeInv, TypeOK, DeliveryRow
    <3>2. balance' \in Int /\ balance' >= balance - TakenOut(d)
      BY <2>1, <2>5, <3>1, ClampedType
    <3>3. balance' >= moved'
      BY <2>1, <2>5, <3>1, <3>2 DEF BalanceCovers
    <3>4. undone'[d] # 0
      BY <2>1, <2>5
    <3> QED
      BY <3>3, <3>4 DEF BalanceCovers
  <2> QED
    BY <2>3, <2>4, <2>5, BalanceSteps
<1> QED
  BY <1>1, <1>2, PTL DEF Spec

----------------------------------------------------------------------------
(* What outlives an order *)

\* Why nothing does: while no requests overlapped one is in flight at most, so
\* what it checked when it began holds until it commits.
OrphanInv ==
    ~raced =>
        /\ \A v, w \in Workers : tx[v].stage # "idle" /\ tx[w].stage # "idle" => v = w
        /\ \A w \in Workers : tx[w].stage # "idle" =>
              /\ tx[w].op = "deleteOrder" => Undocumented
              /\ tx[w].op \in {"deliver", "bill"} => order.life = "live"
        /\ order.life = "deleted" => Undocumented

\* No delivery or invoice comes to life, and the order stays as it was.
DocsShrink ==
    /\ Live' \subseteq Live /\ order'.life = order.life
    /\ \A i \in Invoices : invoice'[i].life = "live" => invoice[i].life = "live"

LEMMA BeginPlan ==
    ASSUME NEW w, NEW p \in Plan, Begin(w, p)
    PROVE  \E s \in Plan : /\ tx' = [tx EXCEPT ![w] = s]
                           /\ s.op = p.op /\ s.id = p.id /\ s.of = p.of
                           /\ s.inv = p.inv /\ s.qty = p.qty
                           /\ s.stage = "open" => p.op \notin Reading
<1> DEFINE s == [p EXCEPT !.stage = IF p.op \in Reading THEN "asked" ELSE "open"]
<1>1. /\ s \in Plan /\ s.op = p.op /\ s.id = p.id /\ s.of = p.of
                           /\ s.inv = p.inv /\ s.qty = p.qty
      /\ s.stage = "open" => p.op \notin Reading
      /\ s.inv = p.inv /\ s.qty = p.qty
  BY DEF Plan
<1>2. tx' = [tx EXCEPT ![w] = s]
  BY DEF Begin
<1> QED
  BY <1>1, <1>2

LEMMA OpenPlan ==
    ASSUME NEW w, NEW p \in Plan, Open(w, p)
    PROVE  \E s \in Plan : /\ tx' = [tx EXCEPT ![w] = s]
                           /\ s.op = p.op /\ s.id = p.id /\ s.of = p.of
                           /\ s.inv = p.inv /\ s.qty = p.qty
<1> DEFINE s == [p EXCEPT !.stage = "open"]
<1>1. s \in Plan /\ s.op = p.op /\ s.id = p.id /\ s.of = p.of
                           /\ s.inv = p.inv /\ s.qty = p.qty
  BY DEF Plan
<1>2. tx' = [tx EXCEPT ![w] = s]
  BY DEF Open
<1> QED
  BY <1>1, <1>2

LEMMA OrphanBegin ==
    ASSUME TypeInv, OrphanInv, NEW w \in Workers, NEW p, Fits(p), Allowed(p), Begin(w, p)
    PROVE  OrphanInv'
<1>0. p \in Plan
  BY DEF Fits
<1>1. PICK s \in Plan : tx' = [tx EXCEPT ![w] = s] /\ s.op = p.op
  BY <1>0, BeginPlan
<1>2. UNCHANGED docs /\ Undocumented' = Undocumented
  BY DEF Begin, docs, Undocumented, Live
<1>3. \A v \in Workers : ~raced' => ~raced /\ tx[v].stage = "idle"
  BY DEF Begin
<1>4. tx \in [Workers -> Plan]
  BY DEF TypeInv, TypeOK
<1> QED
  BY <1>1, <1>2, <1>3, <1>4 DEF OrphanInv, docs, Allowed

LEMMA OrphanOpen ==
    ASSUME TypeInv, OrphanInv, NEW w \in Workers, NEW p, Fits(p), Reopened(w, p), Open(w, p)
    PROVE  OrphanInv'
<1>1. PICK s \in Plan : tx' = [tx EXCEPT ![w] = s] /\ s.op = tx[w].op
  BY OpenPlan DEF Fits, Reopened
<1>2. UNCHANGED docs /\ Undocumented' = Undocumented /\ raced' = raced
  BY DEF Open, docs, Undocumented, Live
<1>3. tx \in [Workers -> Plan] /\ tx[w].stage # "idle"
  BY DEF TypeInv, TypeOK, Open
<1> QED
  BY <1>1, <1>2, <1>3 DEF OrphanInv, docs

LEMMA OrphanDone ==
    ASSUME TypeInv, OrphanInv, NEW w \in Workers, Done(w), tx[w].stage # "idle",
           ~raced => (order'.life = "deleted" => Undocumented')
    PROVE  OrphanInv'
<1>1. tx' = [tx EXCEPT ![w] = NoPlan] /\ raced' = raced /\ NoPlan.stage = "idle"
  BY DEF Done, NoPlan
<1>2. tx \in [Workers -> Plan]
  BY DEF TypeInv, TypeOK
<1>3. ~raced => \A v \in Workers : tx'[v].stage = "idle"
  BY <1>1, <1>2 DEF OrphanInv
<1> QED
  BY <1>1, <1>3 DEF OrphanInv

\* What a commit does to the documents, as far as this matters.
OrphanStep(w) ==
    \/ DocsShrink
    \/ Does(w, "deliver") /\ order'.life = order.life
    \/ Does(w, "bill") /\ order'.life = order.life
    \/ Does(w, "deleteOrder") /\ UNCHANGED <<delivery, invoice>>

LEMMA OrphanCommit ==
    ASSUME TypeInv, OrphanInv, NEW w \in Workers, Done(w), tx[w].stage # "idle", OrphanStep(w)
    PROVE  OrphanInv'
<1>1. CASE DocsShrink
  <2>1. Undocumented => Undocumented'
    BY <1>1 DEF Undocumented, DocsShrink
  <2> QED
    BY <1>1, <2>1, OrphanDone DEF OrphanInv, DocsShrink
<1>2. CASE order'.life = order.life /\ (Does(w, "deliver") \/ Does(w, "bill"))
  <2>1. ~raced => order'.life # "deleted"
    BY <1>2 DEF OrphanInv, Does
  <2> QED
    BY <2>1, OrphanDone
<1>3. CASE Does(w, "deleteOrder") /\ UNCHANGED <<delivery, invoice>>
  <2>1. ~raced => Undocumented
    BY <1>3 DEF OrphanInv, Does
  <2>2. Undocumented' = Undocumented
    BY <1>3 DEF Undocumented, Live
  <2> QED
    BY <2>1, <2>2, OrphanDone
<1> QED
  BY <1>1, <1>2, <1>3 DEF OrphanStep

LEMMA OrphanSteps ==
    ASSUME TypeInv, NEW w \in Workers, Request(w)
    PROVE  OrphanStep(w)
<1> USE DEF Begin, Open, docs, Live, DocsShrink
<1>1. ASSUME NEW quoted, Confirm(w, quoted) PROVE DocsShrink
  BY <1>1 DEF Confirm, TypeInv, TypeOK, OrderRow
<1>2. ASSUME CancelOrder(w) PROVE DocsShrink
  BY <1>2 DEF CancelOrder, TypeInv, TypeOK, OrderRow
<1>3. ASSUME DeleteOrder(w)
      PROVE  DocsShrink \/ (Does(w, "deleteOrder") /\ UNCHANGED <<delivery, invoice>>)
  BY <1>3 DEF DeleteOrder
<1>4. ASSUME DeleteQuote(w) PROVE DocsShrink
  BY <1>4 DEF DeleteQuote
<1>5. ASSUME NEW cascade, CancelQuote(w, cascade) PROVE DocsShrink
  BY <1>5 DEF CancelQuote, Restatus, TypeInv, TypeOK, OrderRow
<1>6. ASSUME NEW d \in Deliveries, NEW q, Deliver(w, d, q)
      PROVE  DocsShrink \/ (Does(w, "deliver") /\ order'.life = order.life)
  BY <1>6 DEF Deliver, Restatus, TypeInv, TypeOK, OrderRow
<1>7. ASSUME NEW d \in Deliveries, TakeBack(w, d) PROVE DocsShrink
  BY <1>7 DEF TakeBack, Restatus, TypeInv, TypeOK, OrderRow, DeliveryRow
<1>8. ASSUME NEW d \in Deliveries, EditDelivery(w, d) PROVE DocsShrink
  BY <1>8 DEF EditDelivery, Restatus, TypeInv, TypeOK, OrderRow, DeliveryRow
<1>9. ASSUME NEW d \in Deliveries, DeleteDelivery(w, d) PROVE DocsShrink
  BY <1>9 DEF DeleteDelivery, TypeInv, TypeOK, DeliveryRow
<1>10. ASSUME NEW i \in Invoices, NEW D, NEW q, Bill(w, i, D, q)
       PROVE  DocsShrink \/ (Does(w, "bill") /\ order'.life = order.life)
  BY <1>10 DEF Bill, TypeInv, TypeOK, OrderRow
<1>11. ASSUME NEW D, NEW i PROVE \A d \in Deliveries : Link(D, i)[d].life = delivery[d].life
  BY DEF Link, TypeInv, TypeOK, DeliveryRow
<1>12. ASSUME NEW i \in Invoices, CancelBill(w, i) PROVE DocsShrink
  <2>1. \A d \in Deliveries : delivery'[d].life = delivery[d].life
    BY <1>11, <1>12 DEF CancelBill
  <2>2. \A j \in Invoices : invoice'[j].life = invoice[j].life
    BY <1>12 DEF CancelBill, TypeInv, TypeOK, InvoiceRow
  <2>3. order' = order
    BY <1>12 DEF CancelBill
  <2> QED
    BY <2>1, <2>2, <2>3
<1>13. ASSUME NEW i \in Invoices, NEW q, EditBill(w, i, q) PROVE DocsShrink
  <2>1. \A j \in Invoices : invoice'[j].life = invoice[j].life
    BY <1>13 DEF EditBill, TypeInv, TypeOK, InvoiceRow
  <2>2. UNCHANGED <<order, delivery>>
    BY <1>13 DEF EditBill
  <2> QED
    BY <2>1, <2>2
<1>14. ASSUME NEW i \in Invoices, DeleteBill(w, i) PROVE DocsShrink
  <2>1. \A d \in Deliveries : delivery'[d].life = delivery[d].life
    BY <1>11, <1>14 DEF DeleteBill
  <2>2. \A j \in Invoices : invoice'[j].life = "live" => invoice[j].life = "live"
    BY <1>14 DEF DeleteBill, TypeInv, TypeOK, InvoiceRow
  <2>3. order' = order
    BY <1>14 DEF DeleteBill
  <2> QED
    BY <2>1, <2>2, <2>3
<1>15. ASSUME NEW i \in Invoices, Settle(w, i) PROVE DocsShrink
  <2>1. \A j \in Invoices : invoice'[j].life = "live" => invoice[j].life = "live"
    BY <1>15 DEF Settle, TypeInv, TypeOK, InvoiceRow
  <2>2. UNCHANGED <<order, delivery>>
    BY <1>15 DEF Settle
  <2> QED
    BY <2>1, <2>2
<1>16. ASSUME NEW r \in Returns, NEW i \in Invoices, NEW q, Return(w, r, i, q) PROVE DocsShrink
  BY <1>16 DEF Return
<1>17. ASSUME NEW r \in Returns, NEW op, PutBack(w, r, op) PROVE DocsShrink
  BY <1>17 DEF PutBack
<1>18. ASSUME NEW r \in Returns, EditReturn(w, r) PROVE DocsShrink
  BY <1>18 DEF EditReturn
<1>19. ASSUME Abort(w) PROVE DocsShrink
  BY <1>19 DEF Abort
<1> HIDE DEF DocsShrink, Begin, Open, docs, Live
<1> QED
  BY <1>1, <1>2, <1>3, <1>4, <1>5, <1>6, <1>7, <1>8, <1>9, <1>10, <1>12, <1>13, <1>14, <1>15,
     <1>16, <1>17, <1>18, <1>19 DEF Request, OrphanStep

LEMMA OrphanNext == ASSUME TypeInv, OrphanInv, [Next]_vars PROVE OrphanInv'
<1>1. CASE UNCHANGED vars
  BY <1>1 DEF vars, docs, OrphanInv, Undocumented, Live
<1>2. CASE Sell
  <2>1. UNCHANGED docs /\ Undocumented' = Undocumented /\ tx' = tx
    BY <1>2 DEF Sell, docs, Undocumented, Live
  <2>2. ~raced' => ~raced
    BY <1>2 DEF Sell
  <2> QED
    BY <2>1, <2>2 DEF OrphanInv, docs
<1>3. ASSUME NEW w \in Workers, Request(w) PROVE OrphanInv'
  BY <1>3, RequestSteps, OrphanSteps, OrphanBegin, OrphanOpen, OrphanCommit DEF Steps
<1> QED
  BY <1>1, <1>2, <1>3 DEF Next

\* A purchase order deleted while nothing else was in flight leaves no delivery
\* and no invoice behind, and none is added to it later.
THEOREM OrderLeavesNone == Spec => []NoOrphans
<1>1. Init => TypeInv /\ OrphanInv
  <2>1. Init => OrphanInv
    BY DEF Init, OrphanInv, NoPlan
  <2> QED
    BY <2>1, InitType
<1>2. TypeInv /\ OrphanInv /\ [Next]_vars => TypeInv' /\ OrphanInv'
  BY NextType, OrphanNext
<1>3. OrphanInv => NoOrphans
  BY DEF OrphanInv, NoOrphans, Undocumented
<1> QED
  BY <1>1, <1>2, <1>3, PTL DEF Spec

----------------------------------------------------------------------------
(* The links between deliveries and invoices *)

\* Why they hold: an invoice is entered Completed and a delivery unlinked, and
\* a request that found an invoice, or found it unlinked, still does.
LinkInv ==
    /\ LinksLive
    /\ \A i \in Invoices : invoice[i].life = "absent" => invoice[i].status = "Completed"
    /\ \A d \in Deliveries : delivery[d].life = "absent" => delivery[d].invoice = None
    /\ \A w \in Workers : tx[w].op \in BillOps =>
          tx[w].id \in Invoices /\ invoice[tx[w].id].life # "absent"
    /\ \A w \in Workers : Does(w, "cancelBill") /\ tx[w].of = {} => Linked(tx[w].id) = {}

\* What a step leaves of it.
LinkStep ==
    /\ LinksLive'
    /\ \A i \in Invoices :
          /\ invoice'[i].life = "absent" => invoice'[i].status = "Completed"
          /\ invoice[i].life # "absent" =>
                invoice'[i].life # "absent" /\ (Linked(i) = {} => Linked(i)' = {})
    /\ \A d \in Deliveries : delivery'[d].life = "absent" => delivery'[d].invoice = None

LEMMA LinkSame ==
    ASSUME LinkInv, UNCHANGED <<delivery, invoice>>
    PROVE  LinkStep
BY DEF LinkInv, LinkStep, LinksLive, Linked, Live

LEMMA LinkBegin ==
    ASSUME TypeInv, LinkInv, NEW w \in Workers, NEW p, Fits(p), Allowed(p), Begin(w, p)
    PROVE  LinkInv'
<1>0. p \in Plan
  BY DEF Fits
<1>1. PICK s \in Plan : /\ tx' = [tx EXCEPT ![w] = s] /\ s.op = p.op /\ s.id = p.id
                        /\ s.stage = "open" => p.op \notin Reading
      /\ s.inv = p.inv /\ s.qty = p.qty
  BY <1>0, BeginPlan
<1>2. UNCHANGED <<delivery, invoice>>
  BY DEF Begin, docs
<1>3. tx \in [Workers -> Plan]
  BY DEF TypeInv, TypeOK
<1>4. LinkStep
  BY <1>2, LinkSame
<1>5. s.op \in BillOps => s.id \in Invoices /\ invoice[s.id].life # "absent"
  BY <1>1 DEF Allowed
<1>6. s.op = "cancelBill" => s.stage # "open"
  BY <1>1 DEF Reading
<1>7. \A v \in Workers : tx'[v].op \in BillOps =>
          tx'[v].id \in Invoices /\ invoice'[tx'[v].id].life # "absent"
  BY <1>1, <1>2, <1>3, <1>5 DEF LinkInv
<1>8. \A v \in Workers : Does(v, "cancelBill")' /\ tx'[v].of = {} => Linked(tx[v].id)' = {}
  BY <1>1, <1>2, <1>3, <1>6 DEF LinkInv, Does, Linked, Live
<1> QED
  BY <1>4, <1>7, <1>8 DEF LinkInv, LinkStep

LEMMA LinkOpen ==
    ASSUME TypeInv, LinkInv, NEW w \in Workers, NEW p, Fits(p), Reopened(w, p), Open(w, p)
    PROVE  LinkInv'
<1>0. p \in Plan
  BY DEF Fits
<1>1. PICK s \in Plan : tx' = [tx EXCEPT ![w] = s] /\ s.op = p.op /\ s.id = p.id /\ s.of = p.of
                           /\ s.inv = p.inv /\ s.qty = p.qty
  BY <1>0, OpenPlan
<1>2. UNCHANGED <<delivery, invoice>>
  BY DEF Open, docs
<1>3. tx \in [Workers -> Plan]
  BY DEF TypeInv, TypeOK
<1>4. LinkStep
  BY <1>2, LinkSame
<1>5. s.op \in BillOps => s.id \in Invoices /\ invoice[s.id].life # "absent"
  BY <1>1 DEF Reopened, LinkInv
<1>6. s.op = "cancelBill" /\ s.of = {} => Linked(s.id) = {}
  BY <1>1 DEF Reopened
<1>7. \A v \in Workers : tx'[v].op \in BillOps =>
          tx'[v].id \in Invoices /\ invoice'[tx'[v].id].life # "absent"
  BY <1>1, <1>2, <1>3, <1>5 DEF LinkInv
<1>8. \A v \in Workers : Does(v, "cancelBill")' /\ tx'[v].of = {} => Linked(tx[v].id)' = {}
  BY <1>1, <1>2, <1>3, <1>6 DEF LinkInv, Does, Linked, Live
<1> QED
  BY <1>4, <1>7, <1>8 DEF LinkInv, LinkStep

LEMMA LinkCommit ==
    ASSUME TypeInv, LinkInv, NEW w \in Workers, Done(w), LinkStep
    PROVE  LinkInv'
<1>1. tx' = [tx EXCEPT ![w] = NoPlan] /\ NoPlan.op = "sell"
  BY DEF Done, NoPlan
<1>2. tx \in [Workers -> Plan]
  BY DEF TypeInv, TypeOK
<1>3. \A v \in Workers : tx'[v].op \in BillOps => v # w /\ tx'[v] = tx[v]
  BY <1>1, <1>2 DEF BillOps
<1>4. \A v \in Workers : tx'[v].op \in BillOps =>
          tx'[v].id \in Invoices /\ invoice'[tx'[v].id].life # "absent"
  BY <1>3 DEF LinkInv, LinkStep
<1>5. \A v \in Workers : Does(v, "cancelBill")' /\ tx'[v].of = {} => Linked(tx[v].id)' = {}
  BY <1>3 DEF LinkInv, LinkStep, Does, BillOps
<1> QED
  BY <1>4, <1>5 DEF LinkInv, LinkStep

LEMMA LinkKept ==
    ASSUME TypeInv, LinkInv,
           \A d \in Deliveries :
              /\ delivery'[d].invoice = delivery[d].invoice
              /\ delivery'[d].life = "live" => delivery[d].life = "live" \/ delivery[d].invoice = None
              /\ delivery'[d].life = "absent" => delivery[d].life = "absent",
           \A i \in Invoices :
              /\ invoice[i].life = "live" => invoice'[i].life = "live"
              /\ invoice'[i].life = "absent" => invoice'[i] = invoice[i]
              /\ invoice'[i].status = "CANCELLED" => invoice[i].status = "CANCELLED"
    PROVE  LinkStep
<1>1. \A d \in Deliveries : delivery[d].invoice \in Invoices \cup {None}
  BY DEF TypeInv, TypeOK, DeliveryRow
<1>2. LinksLive'
  BY <1>1 DEF LinkInv, LinksLive, Live
<1>3. ASSUME NEW i \in Invoices, Linked(i) = {} PROVE Linked(i)' = {}
  <2>1. i # None
    BY ReceivingAssumption
  <2> QED
    BY <1>3, <2>1 DEF Linked, Live
<1> QED
  BY <1>2, <1>3 DEF LinkInv, LinkStep

LEMMA BillLinks ==
    ASSUME TypeInv, LinkInv, NEW w \in Workers, NEW i \in Invoices, NEW D, NEW q,
           Bill(w, i, D, q)
    PROVE  LinkStep
<1>1. CASE UNCHANGED <<delivery, invoice>>
  BY <1>1, LinkSame
<1>2. CASE /\ invoice[i].life = "absent" /\ delivery' = Link(D \cap Live, i)
           /\ invoice' = [invoice EXCEPT ![i].life = "live", ![i].qty = q]
  <2>1. \A d \in Deliveries :
          /\ delivery'[d].life = delivery[d].life
          /\ delivery'[d].invoice = IF d \in D \cap Live THEN i ELSE delivery[d].invoice
    BY <1>2 DEF Link, TypeInv, TypeOK, DeliveryRow
  <2>2. invoice'[i].life = "live" /\ invoice'[i].status = "Completed"
    BY <1>2 DEF LinkInv, TypeInv, TypeOK, InvoiceRow
  <2>3. \A j \in Invoices : j # i => invoice'[j] = invoice[j]
    BY <1>2 DEF TypeInv, TypeOK
  <2>4. \A d \in Deliveries : delivery[d].invoice \in Invoices \cup {None}
    BY DEF TypeInv, TypeOK, DeliveryRow
  <2>5. Live' = Live /\ Live \subseteq Deliveries
    BY <2>1 DEF Live
  <2>6. LinksLive'
    BY <2>1, <2>2, <2>3, <2>4, <2>5 DEF LinkInv, LinksLive
  <2>7. ASSUME NEW j \in Invoices, invoice[j].life # "absent", Linked(j) = {}
        PROVE  Linked(j)' = {}
    BY <1>2, <2>1, <2>5, <2>7 DEF Linked
  <2>8. \A d \in Deliveries : delivery'[d].life = "absent" => delivery'[d].invoice = None
    BY <2>1 DEF LinkInv, Live
  <2>9. \A j \in Invoices :
          /\ invoice'[j].life = "absent" => invoice'[j].status = "Completed"
          /\ invoice[j].life # "absent" => invoice'[j].life # "absent"
    BY <2>2, <2>3 DEF LinkInv
  <2> QED
    BY <2>6, <2>7, <2>8, <2>9 DEF LinkStep
<1> QED
  BY <1>1, <1>2 DEF Bill, Begin, docs

\* Taking the deliveries of an invoice that was there off it leaves no link to it.
LEMMA UnlinkLinks ==
    ASSUME TypeInv, LinkInv, NEW i \in Invoices, invoice[i].life # "absent",
           \/ delivery' = Link(Linked(i), None)
           \/ delivery' = delivery /\ Linked(i) = {},
           \A j \in Invoices : j # i => invoice'[j] = invoice[j],
           invoice'[i].life # "absent"
    PROVE  LinkStep
<1>1. \A d \in Deliveries :
        /\ delivery'[d].life = delivery[d].life
        /\ delivery'[d].invoice = IF d \in Linked(i) THEN None ELSE delivery[d].invoice
  BY DEF Link, TypeInv, TypeOK, DeliveryRow
<1>2. Live' = Live
  BY <1>1 DEF Live
<1>3. \A d \in Deliveries : delivery[d].invoice \in Invoices \cup {None}
  BY DEF TypeInv, TypeOK, DeliveryRow
<1>4. \A d \in Live : delivery'[d].invoice # i
  BY <1>1, ReceivingAssumption DEF Linked, Live
<1>5. LinksLive'
  BY <1>1, <1>2, <1>3, <1>4 DEF LinkInv, LinksLive, Live
<1>6. ASSUME NEW j \in Invoices, Linked(j) = {} PROVE Linked(j)' = {}
  BY <1>1, <1>2, <1>6, ReceivingAssumption DEF Linked, Live
<1>7. \A d \in Deliveries : delivery'[d].life = "absent" => delivery'[d].invoice = None
  BY <1>1 DEF LinkInv
<1> QED
  BY <1>5, <1>6, <1>7 DEF LinkInv, LinkStep

LEMMA LinkSteps ==
    ASSUME TypeInv, LinkInv, NEW w \in Workers, Request(w)
    PROVE  LinkStep
<1> USE DEF Begin, Open, docs
<1>1. ASSUME NEW quoted, NEW cascade,
             \/ Confirm(w, quoted) \/ CancelOrder(w) \/ DeleteOrder(w) \/ DeleteQuote(w)
             \/ CancelQuote(w, cascade) \/ Abort(w)
      PROVE  LinkStep
  BY <1>1, LinkSame DEF Confirm, CancelOrder, DeleteOrder, DeleteQuote, CancelQuote, Abort
<1>2. ASSUME NEW r \in Returns, NEW i, NEW q, NEW op,
             Return(w, r, i, q) \/ PutBack(w, r, op) \/ EditReturn(w, r)
      PROVE  LinkStep
  BY <1>2, LinkSame DEF Return, PutBack, EditReturn
<1>3. ASSUME NEW d \in Deliveries, NEW q, Deliver(w, d, q) PROVE LinkStep
  <2>1. CASE /\ delivery[d].life = "absent" /\ invoice' = invoice
             /\ delivery' = [delivery EXCEPT ![d].life = "live", ![d].qty = q]
    <3>1. \A e \in Deliveries :
            /\ delivery'[e].invoice = delivery[e].invoice
            /\ delivery'[e].life = IF e = d THEN "live" ELSE delivery[e].life
      BY <2>1 DEF TypeInv, TypeOK, DeliveryRow
    <3>2. delivery[d].invoice = None
      BY <2>1 DEF LinkInv
    <3> QED
      BY <2>1, <3>1, <3>2, LinkKept
  <2> QED
    BY <1>3, <2>1, LinkSame DEF Deliver
<1>4. ASSUME NEW d \in Deliveries, TakeBack(w, d) \/ EditDelivery(w, d) \/ DeleteDelivery(w, d)
      PROVE  LinkStep
  <2>1. invoice' = invoice
    BY <1>4 DEF TakeBack, EditDelivery, DeleteDelivery
  <2>2. \A e \in Deliveries :
          /\ delivery'[e].invoice = delivery[e].invoice
          /\ delivery'[e].life \in {delivery[e].life, "deleted"}
    BY <1>4 DEF TakeBack, EditDelivery, DeleteDelivery, TypeInv, TypeOK, DeliveryRow
  <2> QED
    BY <2>1, <2>2, LinkKept
<1>5. ASSUME NEW i \in Invoices, NEW D, NEW q, Bill(w, i, D, q) PROVE LinkStep
  BY <1>5, BillLinks
<1>6. ASSUME NEW i \in Invoices, CancelBill(w, i) PROVE LinkStep
  <2>1. CASE /\ Does(w, "cancelBill") /\ tx[w].id = i
             /\ invoice' = [invoice EXCEPT ![i].status = IF tx[w].to = None THEN @ ELSE tx[w].to]
             /\ delivery' = IF tx[w].of = {} THEN delivery ELSE Link(Released(i), None)
    <3>1. invoice[i].life # "absent" /\ (tx[w].of = {} => Linked(i) = {})
      BY <2>1 DEF LinkInv, Does, BillOps
    <3>2. invoice'[i].life = invoice[i].life /\ \A j \in Invoices : j # i => invoice'[j] = invoice[j]
      BY <2>1 DEF TypeInv, TypeOK, InvoiceRow
    <3>3. delivery' = Link(Linked(i), None) \/ (delivery' = delivery /\ Linked(i) = {})
      BY <2>1, <3>1 DEF Released
    <3> QED
      BY <3>1, <3>2, <3>3, UnlinkLinks
  <2> QED
    BY <1>6, <2>1, LinkSame DEF CancelBill
<1>7. ASSUME NEW i \in Invoices, DeleteBill(w, i) PROVE LinkStep
  <2>1. CASE /\ Does(w, "deleteBill") /\ tx[w].id = i
             /\ invoice' = [invoice EXCEPT ![i].life = "deleted"]
             /\ delivery' = Link(Released(i), None)
    <3>1. invoice[i].life # "absent"
      BY <2>1 DEF LinkInv, Does, BillOps
    <3>2. invoice'[i].life = "deleted" /\ \A j \in Invoices : j # i => invoice'[j] = invoice[j]
      BY <2>1 DEF TypeInv, TypeOK, InvoiceRow
    <3> QED
      BY <2>1, <3>1, <3>2, UnlinkLinks DEF Released
  <2> QED
    BY <1>7, <2>1, LinkSame DEF DeleteBill
<1>8. ASSUME NEW i \in Invoices, NEW q, EditBill(w, i, q) PROVE LinkStep
  <2>1. CASE /\ Does(w, "editBill") /\ tx[w].id = i /\ delivery' = delivery
             /\ invoice' = [invoice EXCEPT ![i].status = IF tx[w].to = None THEN @ ELSE tx[w].to,
                                           ![i].qty = q]
    <3>1. tx[w].to \in {"Completed", None} /\ invoice[i].life # "absent"
      BY <2>1 DEF TypeInv, Fits, LinkInv, Does, BillOps
    <3>2. \A j \in Invoices :
            /\ invoice'[j].life = invoice[j].life /\ (j # i => invoice'[j] = invoice[j])
            /\ invoice'[j].status \in {invoice[j].status, "Completed"}
      BY <2>1, <3>1 DEF TypeInv, TypeOK, InvoiceRow
    <3> QED
      BY <2>1, <3>1, <3>2, LinkKept
  <2> QED
    BY <1>8, <2>1, LinkSame DEF EditBill
<1>9. ASSUME NEW i \in Invoices, Settle(w, i) PROVE LinkStep
  <2>1. CASE invoice' = [invoice EXCEPT ![i].settled = "yes", ![i].status = "Paid"]
             /\ invoice[i].life = "live" /\ delivery' = delivery
    <3>1. \A j \in Invoices :
            /\ invoice'[j].life = invoice[j].life
            /\ invoice[j].life = "live" \/ invoice'[j] = invoice[j]
            /\ invoice'[j].status \in {invoice[j].status, "Paid"}
      BY <2>1 DEF TypeInv, TypeOK, InvoiceRow
    <3> QED
      BY <2>1, <3>1, LinkKept
  <2> QED
    BY <1>9, <2>1, LinkSame DEF Settle
<1> HIDE DEF Begin, Open, docs
<1> QED
  BY <1>1, <1>2, <1>3, <1>4, <1>5, <1>6, <1>7, <1>8, <1>9 DEF Request

LEMMA LinkNext == ASSUME TypeInv, LinkInv, [Next]_vars PROVE LinkInv'
<1>1. CASE UNCHANGED vars
  BY <1>1 DEF vars, docs, LinkInv, LinksLive, Linked, Live, Does
<1>2. CASE Sell
  BY <1>2 DEF Sell, docs, LinkInv, LinksLive, Linked, Live, Does
<1>3. ASSUME NEW w \in Workers, Request(w) PROVE LinkInv'
  BY <1>3, RequestSteps, LinkSteps, LinkBegin, LinkOpen, LinkCommit DEF Steps
<1> QED
  BY <1>1, <1>2, <1>3 DEF Next

\* However bills, cancellations, deletions and settlements overlap, a delivery
\* is never left on an invoice that is cancelled or deleted.
THEOREM LinkedToLive == Spec => []LinksLive
<1>1. Init => TypeInv /\ LinkInv
  <2>1. Init => LinkInv
    BY DEF Init, LinkInv, LinksLive, Live, Does, NoPlan, BillOps
  <2> QED
    BY <2>1, InitType
<1>2. TypeInv /\ LinkInv /\ [Next]_vars => TypeInv' /\ LinkInv'
  BY NextType, LinkNext
<1>3. LinkInv => LinksLive
  BY DEF LinkInv
<1> QED
  BY <1>1, <1>2, <1>3, PTL DEF Spec

\* For every set of documents and requests, a delivery is on no dead invoice,
\* and none outlives an order deleted while nothing else was in flight.
THEOREM LinksStaySound == Spec => []LinksSound
  BY LinkedToLive, OrderLeavesNone, PTL DEF LinksSound

----------------------------------------------------------------------------
(* The documents against the movements *)

\* What each document has put into stock, and taken out, so far.
StockIn   == [d \in Deliveries |-> delivery[d].qty * (1 - undone[d])]
StockBack == [r \in Returns |-> return[r].qty * (1 - undone[r])]

\* The documents explain the movements, a document undone too often included;
\* a document not made yet holds nothing, and only one that was made is undone.
GoodsInv ==
    /\ moved = Opening + SumOver(StockIn, Deliveries) - SumOver(StockBack, Returns) - sold
    /\ \A d \in Deliveries : delivery[d].life = "absent" => delivery[d].qty = 0 /\ undone[d] = 0
    /\ \A r \in Returns : return[r].life = "absent" => return[r].qty = 0 /\ undone[r] = 0
    /\ \A w \in Workers : tx[w].stage # "idle" /\ tx[w].op \in Reverting =>
          tx[w].id \in Returns /\ return[tx[w].id].life # "absent"

\* Documents that are there stay, with the quantity they were made with.
DeliveriesKeep ==
    \A d \in Deliveries : /\ delivery'[d].qty = delivery[d].qty
                          /\ delivery'[d].life = "absent" => delivery[d].life = "absent"
ReturnsKeep ==
    \A r \in Returns : /\ return'[r].qty = return[r].qty
                       /\ return'[r].life = "absent" => return[r].life = "absent"

Delivers(d, q) ==
    /\ delivery[d].life = "absent"
    /\ delivery' = [delivery EXCEPT ![d].life = "live", ![d].qty = q]
    /\ moved' = moved + q /\ UNCHANGED <<return, sold, undone>>
TakesBack(d) ==
    /\ Claimed(d) /\ DeliveriesKeep /\ moved' = moved - delivery[d].qty
    /\ undone' = [undone EXCEPT ![d] = @ + 1] /\ UNCHANGED <<return, sold>>
SendsBack(r, q) ==
    /\ return[r].life = "absent" /\ DOMAIN return' = Returns
    /\ \A x \in Returns \ {r} : return'[x] = return[x]
    /\ return'[r].life = "live" /\ return'[r].qty = q
    /\ moved' = moved - q /\ UNCHANGED <<delivery, sold, undone>>
PutsBack(w, r) ==
    /\ tx[w].stage # "idle" /\ tx[w].op \in Reverting /\ tx[w].id = r
    /\ ReturnsKeep /\ moved' = moved + return[r].qty
    /\ undone' = [undone EXCEPT ![r] = @ + 1] /\ UNCHANGED <<delivery, sold>>

GoodsStep(w) ==
    \/ DeliveriesKeep /\ ReturnsKeep /\ UNCHANGED <<moved, sold, undone>>
    \/ \E d \in Deliveries, q \in Quantities : Delivers(d, q)
    \/ \E d \in Deliveries : TakesBack(d)
    \/ \E r \in Returns, q \in Quantities : SendsBack(r, q)
    \/ \E r \in Returns : PutsBack(w, r)

LEMMA GoodsSteps ==
    ASSUME TypeInv, NEW w \in Workers, Request(w)
    PROVE  GoodsStep(w)
<1> DEFINE Same == DeliveriesKeep /\ ReturnsKeep /\ UNCHANGED <<moved, sold, undone>>
<1> USE DEF Begin, Open, docs, stock, DeliveriesKeep, ReturnsKeep
<1>1. ASSUME NEW quoted, Confirm(w, quoted) PROVE Same
  BY <1>1 DEF Confirm
<1>2. ASSUME CancelOrder(w) \/ DeleteOrder(w) \/ DeleteQuote(w) PROVE Same
  BY <1>2 DEF CancelOrder, DeleteOrder, DeleteQuote
<1>3. ASSUME NEW cascade, CancelQuote(w, cascade) PROVE Same
  BY <1>3 DEF CancelQuote
<1>4. ASSUME NEW d \in Deliveries, NEW q \in Quantities, Deliver(w, d, q)
      PROVE  Same \/ Delivers(d, q)
  BY <1>4 DEF Deliver, Delivers
<1>5. ASSUME NEW d \in Deliveries, TakeBack(w, d) PROVE Same \/ TakesBack(d)
  <2>1. ASSUME delivery' = [delivery EXCEPT ![d].status = "CANCELLED"] PROVE DeliveriesKeep
    BY <2>1 DEF TypeInv, TypeOK, DeliveryRow
  <2> QED
    BY <1>5, <2>1 DEF TakeBack, TakesBack, TakenOut
<1>6. ASSUME NEW d \in Deliveries, EditDelivery(w, d) PROVE Same
  <2>1. ASSUME delivery' = [delivery EXCEPT ![d].status = "Received"] PROVE DeliveriesKeep
    BY <2>1 DEF TypeInv, TypeOK, DeliveryRow
  <2> QED
    BY <1>6, <2>1 DEF EditDelivery
<1>7. ASSUME NEW d \in Deliveries, DeleteDelivery(w, d) PROVE Same
  BY <1>7 DEF DeleteDelivery, TypeInv, TypeOK, DeliveryRow
<1>8. ASSUME NEW D, NEW i
      PROVE \A d \in Deliveries : /\ Link(D, i)[d].life = delivery[d].life
                                  /\ Link(D, i)[d].qty = delivery[d].qty
  BY DEF Link, TypeInv, TypeOK, DeliveryRow
<1>9. ASSUME NEW i \in Invoices, NEW D, NEW q, Bill(w, i, D, q) PROVE Same
  BY <1>8, <1>9 DEF Bill
<1>10. ASSUME NEW i \in Invoices, CancelBill(w, i) \/ DeleteBill(w, i) PROVE Same
  <2>1. /\ (delivery' = delivery \/ delivery' = Link(Released(i), None)
            \/ UNCHANGED <<docs, stock, undone>>)
        /\ UNCHANGED <<return, moved, sold, undone>>
    BY <1>10 DEF CancelBill, DeleteBill
  <2> QED
    BY <1>8, <2>1
<1>11. ASSUME NEW i \in Invoices, NEW q, EditBill(w, i, q) \/ Settle(w, i) PROVE Same
  BY <1>11 DEF EditBill, Settle
<1>12. ASSUME NEW r \in Returns, NEW i \in Invoices, NEW q \in Quantities, Return(w, r, i, q)
       PROVE  Same \/ SendsBack(r, q)
  <2>1. DOMAIN return = Returns
    BY DEF TypeInv, TypeOK
  <2>2. CASE UNCHANGED <<docs, stock, undone>>
    BY <2>2
  <2>3. ASSUME NEW x, return' = [return EXCEPT ![r] =
                   [life |-> "live", status |-> "COMPLETED", qty |-> q, invoice |-> i,
                    receipt |-> x]]
        PROVE  /\ DOMAIN return' = Returns /\ \A y \in Returns \ {r} : return'[y] = return[y]
               /\ return'[r].life = "live" /\ return'[r].qty = q
    BY <2>1, <2>3
  <2> QED
    BY <1>12, <2>2, <2>3 DEF Return, SendsBack
<1>13. ASSUME NEW r \in Returns, NEW op \in {"cancelReturn", "deleteReturn"}, PutBack(w, r, op)
       PROVE  Same \/ PutsBack(w, r)
  <2>1. ASSUME return' = [return EXCEPT ![r].status = "CANCELLED",
                             ![r].life = IF op = "deleteReturn" THEN "deleted" ELSE @]
        PROVE  ReturnsKeep
    BY <2>1 DEF TypeInv, TypeOK, ReturnRow
  <2> QED
    BY <1>13, <2>1 DEF PutBack, PutsBack, Does, Reverting
<1>14. ASSUME NEW r \in Returns, EditReturn(w, r) PROVE Same
  BY <1>14 DEF EditReturn, TypeInv, TypeOK, ReturnRow
<1>15. ASSUME Abort(w) PROVE Same
  BY <1>15 DEF Abort
<1> HIDE DEF Begin, Open, docs, stock, DeliveriesKeep, ReturnsKeep
<1> QED
  BY <1>1, <1>2, <1>3, <1>4, <1>5, <1>6, <1>7, <1>9, <1>10, <1>11, <1>12, <1>13, <1>14, <1>15
     DEF Request, GoodsStep

LEMMA StockRows ==
    ASSUME TypeInv
    PROVE  /\ \A d \in Deliveries : /\ StockIn[d] = delivery[d].qty * (1 - undone[d])
                                    /\ StockIn[d] \in Int
           /\ \A r \in Returns : /\ StockBack[r] = return[r].qty * (1 - undone[r])
                                 /\ StockBack[r] \in Int
<1>1. ASSUME NEW d \in Deliveries PROVE delivery[d].qty \in Nat /\ undone[d] \in Nat
  BY DEF TypeInv, TypeOK, DeliveryRow
<1>2. ASSUME NEW r \in Returns PROVE return[r].qty \in Nat /\ undone[r] \in Nat
  BY DEF TypeInv, TypeOK, ReturnRow
<1>3. ASSUME NEW a \in Nat, NEW b \in Nat PROVE a * (1 - b) \in Int
  OBVIOUS
<1> QED
  BY <1>1, <1>2, <1>3 DEF StockIn, StockBack

\* The reversals in flight are of returns that were made.
LEMMA RevertsMade ==
    ASSUME TypeInv, GoodsInv, NEW w \in Workers, Steps(w),
           \A r \in Returns : return'[r].life = "absent" => return[r].life = "absent"
    PROVE  \A v \in Workers : tx'[v].stage # "idle" /\ tx'[v].op \in Reverting =>
              tx'[v].id \in Returns /\ return'[tx'[v].id].life # "absent"
<1>1. tx \in [Workers -> Plan]
  BY DEF TypeInv, TypeOK
<1>2. ASSUME NEW p, Fits(p), Allowed(p), Begin(w, p)
      PROVE  \E s \in Plan : /\ tx' = [tx EXCEPT ![w] = s]
                             /\ s.op \in Reverting => /\ s.id \in Returns
                                                      /\ return[s.id].life # "absent"
  <2>1. p \in Plan
    BY <1>2 DEF Fits
  <2>2. PICK s \in Plan : tx' = [tx EXCEPT ![w] = s] /\ s.op = p.op /\ s.id = p.id
    BY <1>2, <2>1, BeginPlan
  <2> QED
    BY <1>2, <2>2 DEF Allowed, Standable
<1>3. ASSUME NEW p, Fits(p), Reopened(w, p), Open(w, p)
      PROVE  \E s \in Plan : /\ tx' = [tx EXCEPT ![w] = s]
                             /\ s.op \in Reverting => /\ s.id \in Returns
                                                      /\ return[s.id].life # "absent"
  <2>1. p \in Plan
    BY <1>3 DEF Fits
  <2>2. PICK s \in Plan : tx' = [tx EXCEPT ![w] = s] /\ s.op = p.op /\ s.id = p.id
    BY <1>3, <2>1, OpenPlan
  <2>3. p.op = tx[w].op /\ p.id = tx[w].id /\ tx[w].stage = "asked"
    BY <1>3 DEF Reopened, Open
  <2> QED
    BY <2>2, <2>3 DEF GoodsInv
<1>4. CASE Done(w)
  BY <1>1, <1>4 DEF Done, NoPlan, GoodsInv
<1>5. ASSUME NEW s \in Plan, tx' = [tx EXCEPT ![w] = s],
             s.op \in Reverting => s.id \in Returns /\ return[s.id].life # "absent"
      PROVE  \A v \in Workers : tx'[v].stage # "idle" /\ tx'[v].op \in Reverting =>
                tx'[v].id \in Returns /\ return'[tx'[v].id].life # "absent"
  <2>1. \A v \in Workers : tx'[v] = IF v = w THEN s ELSE tx[v]
    BY <1>1, <1>5
  <2> QED
    BY <1>5, <2>1 DEF GoodsInv
<1> QED
  BY <1>2, <1>3, <1>4, <1>5 DEF Steps

LEMMA GoodsNext == ASSUME TypeInv, GoodsInv, [Next]_vars PROVE GoodsInv'
<1> DEFINE In   == SumOver(StockIn, Deliveries)
           Back == SumOver(StockBack, Returns)
           Absent == /\ \A d \in Deliveries :
                          delivery[d].life = "absent" => delivery[d].qty = 0 /\ undone[d] = 0
                     /\ \A r \in Returns :
                          return[r].life = "absent" => return[r].qty = 0 /\ undone[r] = 0
           Made == \A v \in Workers : tx[v].stage # "idle" /\ tx[v].op \in Reverting =>
                      tx[v].id \in Returns /\ return[tx[v].id].life # "absent"
<1>1. TypeInv'
  BY NextType
<1>2. PICK i, b : i = StockIn' /\ b = StockBack'
  OBVIOUS
<1>3. /\ \A d \in Deliveries : /\ StockIn[d] = delivery[d].qty * (1 - undone[d])
                               /\ StockIn[d] \in Int
      /\ \A r \in Returns : /\ StockBack[r] = return[r].qty * (1 - undone[r])
                            /\ StockBack[r] \in Int
  BY StockRows
<1>4. /\ \A d \in Deliveries : delivery'[d].qty \in Nat /\ undone'[d] \in Nat
      /\ \A r \in Returns : return'[r].qty \in Nat /\ undone'[r] \in Nat
      /\ \A d \in Deliveries : delivery[d].qty \in Nat /\ undone[d] \in Nat
      /\ \A r \in Returns : return[r].qty \in Nat /\ undone[r] \in Nat
      /\ moved \in Int /\ sold \in Nat /\ Opening \in Nat
      /\ undone \in [Deliveries \cup Returns -> Nat]
      /\ DOMAIN delivery = Deliveries
      /\ IsFiniteSet(Deliveries) /\ IsFiniteSet(Returns) /\ Deliveries \cap Returns = {}
  BY <1>1, ReceivingAssumption DEF TypeInv, TypeOK, DeliveryRow, ReturnRow
<1>5. /\ \A d \in Deliveries : /\ i[d] = delivery'[d].qty * (1 - undone'[d])
                               /\ i[d] \in Int
      /\ \A r \in Returns : /\ b[r] = return'[r].qty * (1 - undone'[r])
                            /\ b[r] \in Int
  <2>1. ASSUME NEW q \in Nat, NEW n \in Nat PROVE q * (1 - n) \in Int
    OBVIOUS
  <2> QED
    BY <1>2, <1>4, <2>1 DEF StockIn, StockBack
<1>6. In \in Int /\ Back \in Int /\ moved = Opening + In - Back - sold
  BY <1>3, <1>4, SumOverInt DEF GoodsInv
<1>7. Absent /\ Made
  BY DEF GoodsInv
<1> HIDE DEF In, Back, Absent, Made
<1> SUFFICES moved' = Opening + SumOver(i, Deliveries) - SumOver(b, Returns) - sold' /\ Absent' /\ Made'
  BY <1>2 DEF GoodsInv, Absent, Made
\* The sum of a kind of document whose rows and reversals stay as they are.
<1>8. ASSUME \A d \in Deliveries : delivery'[d].qty = delivery[d].qty /\ undone'[d] = undone[d]
      PROVE  SumOver(i, Deliveries) = In
  <2>1. \A d \in Deliveries : StockIn[d] \in Int /\ StockIn[d] = i[d]
    BY <1>3, <1>5, <1>8
  <2> HIDE DEF In
  <2> QED
    BY <1>4, <2>1, SumOverSame DEF In
<1>9. ASSUME \A r \in Returns : return'[r].qty = return[r].qty /\ undone'[r] = undone[r]
      PROVE  SumOver(b, Returns) = Back
  <2>1. \A r \in Returns : StockBack[r] \in Int /\ StockBack[r] = b[r]
    BY <1>3, <1>5, <1>9
  <2> QED
    BY <1>4, <2>1, SumOverSame DEF Back
<1>10. ASSUME NEW w \in Workers, Steps(w), ReturnsKeep PROVE Made'
  BY <1>10, RevertsMade DEF Made, ReturnsKeep
<1>11. CASE UNCHANGED vars
  <2>1. UNCHANGED <<delivery, return, undone, moved, sold, tx>>
    BY <1>11 DEF vars, docs, stock
  <2> QED
    BY <1>6, <1>7, <1>8, <1>9, <2>1 DEF Absent, Made
<1>12. CASE Sell
  <2>1. UNCHANGED <<delivery, return, undone, tx>> /\ moved' = moved - 1 /\ sold' = sold + 1
    BY <1>12 DEF Sell, docs
  <2> QED
    BY <1>4, <1>6, <1>7, <1>8, <1>9, <2>1 DEF Absent, Made
<1>13. ASSUME NEW w \in Workers, Request(w)
       PROVE  moved' = Opening + SumOver(i, Deliveries) - SumOver(b, Returns) - sold' /\ Absent' /\ Made'
  <2>0. Steps(w)
    BY <1>13, RequestSteps
  <2>1. CASE DeliveriesKeep /\ ReturnsKeep /\ UNCHANGED <<moved, sold, undone>>
    <3>1. Absent'
      BY <1>7, <2>1 DEF Absent, DeliveriesKeep, ReturnsKeep
    <3> QED
      BY <1>6, <1>8, <1>9, <1>10, <2>0, <2>1, <3>1 DEF DeliveriesKeep, ReturnsKeep
  <2>2. ASSUME NEW d \in Deliveries, NEW q \in Quantities, Delivers(d, q)
        PROVE  moved' = Opening + SumOver(i, Deliveries) - SumOver(b, Returns) - sold'
               /\ Absent' /\ Made'
    <3>1. /\ delivery[d].qty = 0 /\ undone[d] = 0 /\ undone' = undone
          /\ return' = return /\ moved' = moved + q /\ sold' = sold /\ q \in Nat
      BY <1>7, <2>2, ReceivingAssumption DEF Absent, Delivers
    <3>2. delivery[d] \in DeliveryRow /\ delivery' = [delivery EXCEPT ![d].life = "live", ![d].qty = q]
      BY <2>2 DEF Delivers, TypeInv, TypeOK
    <3>3. /\ delivery'[d].qty = q /\ delivery'[d].life = "live"
          /\ \A e \in Deliveries \ {d} : delivery'[e] = delivery[e]
      BY <1>4, <3>2 DEF DeliveryRow
    <3>4. StockIn[d] = 0 /\ i[d] = q
      BY <1>3, <1>5, <3>1, <3>3
    <3>5. \A e \in Deliveries \ {d} : i[e] = StockIn[e]
      BY <1>3, <1>5, <3>1, <3>3
    <3>6. SumOver(i, Deliveries) = In + (i[d] - StockIn[d])
      BY <1>3, <1>4, <1>5, <3>5, SumOverChange DEF In
    <3>7. Absent' /\ ReturnsKeep
      BY <1>7, <3>1, <3>3 DEF Absent, ReturnsKeep
    <3> QED
      BY <1>4, <1>6, <1>9, <1>10, <2>0, <3>1, <3>4, <3>6, <3>7
  <2>3. ASSUME NEW d \in Deliveries, TakesBack(d)
        PROVE  moved' = Opening + SumOver(i, Deliveries) - SumOver(b, Returns) - sold'
               /\ Absent' /\ Made'
    <3>1. /\ DeliveriesKeep /\ return' = return /\ sold' = sold
          /\ moved' = moved - delivery[d].qty /\ delivery[d].life = "live"
          /\ undone'[d] = undone[d] + 1
          /\ \A x \in Deliveries \cup Returns : x # d => undone'[x] = undone[x]
      BY <1>4, <2>3 DEF TakesBack, Claimed
    <3>2. i[d] = StockIn[d] - delivery[d].qty
      <4>1. ASSUME NEW q \in Nat, NEW n \in Nat PROVE q * (1 - (n + 1)) = q * (1 - n) - q
        OBVIOUS
      <4>2. i[d] = delivery[d].qty * (1 - (undone[d] + 1))
        BY <1>5, <3>1 DEF DeliveriesKeep
      <4> QED
        BY <1>3, <1>4, <4>1, <4>2
    <3>3. \A e \in Deliveries \ {d} : i[e] = StockIn[e]
      BY <1>3, <1>5, <3>1 DEF DeliveriesKeep
    <3>4. SumOver(i, Deliveries) = In + (i[d] - StockIn[d])
      BY <1>3, <1>4, <1>5, <3>3, SumOverChange DEF In
    <3>5. ReturnsKeep /\ \A r \in Returns : undone'[r] = undone[r]
      BY <1>4, <3>1 DEF ReturnsKeep
    <3>6. Absent'
      BY <1>4, <1>7, <3>1, <3>5 DEF Absent, DeliveriesKeep
    <3>7. SumOver(b, Returns) = Back
      BY <1>9, <3>1, <3>5
    <3>8. SumOver(i, Deliveries) = In - delivery[d].qty
      BY <1>3, <1>4, <1>6, <3>2, <3>4
    <3> QED
      BY <1>4, <1>6, <1>10, <2>0, <3>1, <3>5, <3>6, <3>7, <3>8
  <2>4. ASSUME NEW r \in Returns, NEW q \in Quantities, SendsBack(r, q)
        PROVE  moved' = Opening + SumOver(i, Deliveries) - SumOver(b, Returns) - sold'
               /\ Absent' /\ Made'
    <3>1. /\ return[r].qty = 0 /\ undone[r] = 0 /\ undone' = undone
          /\ delivery' = delivery /\ moved' = moved - q /\ sold' = sold /\ q \in Nat
          /\ return'[r].qty = q /\ return'[r].life = "live"
          /\ \A x \in Returns \ {r} : return'[x] = return[x]
      BY <1>7, <2>4, ReceivingAssumption DEF Absent, SendsBack
    <3>2. StockBack[r] = 0 /\ b[r] = q
      BY <1>3, <1>5, <3>1
    <3>3. \A x \in Returns \ {r} : b[x] = StockBack[x]
      BY <1>3, <1>5, <3>1
    <3>4. SumOver(b, Returns) = Back + (b[r] - StockBack[r])
      BY <1>3, <1>4, <1>5, <3>3, SumOverChange DEF Back
    <3>5. Absent'
      BY <1>7, <3>1 DEF Absent
    <3>6. Made'
      <4>1. \A x \in Returns : return'[x].life = "absent" => return[x].life = "absent"
        BY <3>1
      <4> QED
        BY <2>0, <4>1, RevertsMade DEF Made
    <3> QED
      BY <1>4, <1>6, <1>8, <3>1, <3>2, <3>4, <3>5, <3>6
  <2>5. ASSUME NEW r \in Returns, PutsBack(w, r)
        PROVE  moved' = Opening + SumOver(i, Deliveries) - SumOver(b, Returns) - sold'
               /\ Absent' /\ Made'
    <3>1. /\ ReturnsKeep /\ delivery' = delivery /\ sold' = sold
          /\ moved' = moved + return[r].qty /\ return[r].life # "absent"
          /\ undone'[r] = undone[r] + 1
          /\ \A x \in Deliveries \cup Returns : x # r => undone'[x] = undone[x]
      BY <1>4, <1>7, <2>5 DEF PutsBack, Made
    <3>2. b[r] = StockBack[r] - return[r].qty
      <4>1. ASSUME NEW q \in Nat, NEW n \in Nat PROVE q * (1 - (n + 1)) = q * (1 - n) - q
        OBVIOUS
      <4>2. b[r] = return[r].qty * (1 - (undone[r] + 1))
        BY <1>5, <3>1 DEF ReturnsKeep
      <4> QED
        BY <1>3, <1>4, <4>1, <4>2
    <3>3. \A x \in Returns \ {r} : b[x] = StockBack[x]
      BY <1>3, <1>5, <3>1 DEF ReturnsKeep
    <3>4. SumOver(b, Returns) = Back + (b[r] - StockBack[r])
      BY <1>3, <1>4, <1>5, <3>3, SumOverChange DEF Back
    <3>5. \A d \in Deliveries : undone'[d] = undone[d]
      BY <1>4, <3>1
    <3>6. Absent'
      BY <1>4, <1>7, <3>1, <3>5 DEF Absent, ReturnsKeep
    <3>7. SumOver(i, Deliveries) = In
      BY <1>8, <3>1, <3>5
    <3>8. SumOver(b, Returns) = Back - return[r].qty
      BY <1>3, <1>4, <1>6, <3>2, <3>4
    <3> QED
      BY <1>4, <1>6, <1>10, <2>0, <3>1, <3>6, <3>7, <3>8
  <2> QED
    BY <1>13, <2>1, <2>2, <2>3, <2>4, <2>5, GoodsSteps DEF GoodsStep
<1> QED
  BY <1>11, <1>12, <1>13 DEF Next

LEMMA GoodsInit == ASSUME Init PROVE GoodsInv
<1>1. TypeInv
  BY InitType
<1>2. /\ \A d \in Deliveries : delivery[d].qty = 0 /\ undone[d] = 0
      /\ \A r \in Returns : return[r].qty = 0 /\ undone[r] = 0
  BY DEF Init
<1>3. /\ \A d \in Deliveries : StockIn[d] = 0
      /\ \A r \in Returns : StockBack[r] = 0
  BY <1>2 DEF StockIn, StockBack
<1>4. SumOver(StockIn, Deliveries) = 0 /\ SumOver(StockBack, Returns) = 0
  BY <1>3, ReceivingAssumption, SumOverZero
<1>5. moved = Opening + SumOver(StockIn, Deliveries) - SumOver(StockBack, Returns) - sold
  BY <1>4, ReceivingAssumption DEF Init
<1>6. \A w \in Workers : tx[w].stage = "idle"
  BY DEF Init, NoPlan
<1> QED
  BY <1>2, <1>5, <1>6 DEF GoodsInv

\* The balance is what the movements say, and as long as each document was
\* undone as often as its status says, the movements are the deliveries
\* received less the returns sent back and the sales, however requests overlap.
THEOREM StockIsExplained == Spec => []StockExplained
<1>1. Init => TypeInv /\ GoodsInv
  BY InitType, GoodsInit
<1>2. TypeInv /\ GoodsInv /\ [Next]_vars => TypeInv' /\ GoodsInv'
  BY NextType, GoodsNext
<1>3. TypeInv /\ GoodsInv => (UndoneOnce => moved = Opening + Received - SentBack - sold)
  <2> SUFFICES ASSUME TypeInv, GoodsInv, UndoneOnce
               PROVE  moved = Opening + Received - SentBack - sold
    OBVIOUS
  <2> DEFINE in   == [d \in Deliveries |-> IF delivery[d].status = "Received"
                                           THEN delivery[d].qty ELSE 0]
             back == [r \in Returns |-> IF return[r].status = "COMPLETED"
                                        THEN return[r].qty ELSE 0]
  <2>1. ASSUME NEW q \in Nat PROVE q * (1 - 0) = q /\ q * (1 - 1) = 0
    OBVIOUS
  <2>2. \A d \in Deliveries : StockIn[d] \in Int /\ StockIn[d] = in[d]
    <3>1. ASSUME NEW d \in Deliveries PROVE StockIn[d] \in Int /\ StockIn[d] = in[d]
      <4>1. delivery[d].qty \in Nat /\ delivery[d].status \in {"Received", "CANCELLED"}
        BY DEF TypeInv, TypeOK, DeliveryRow
      <4>2. /\ StockIn[d] \in Int /\ StockIn[d] = delivery[d].qty * (1 - undone[d])
            /\ undone[d] = IF delivery[d].status = "CANCELLED" THEN 1 ELSE 0
        BY StockRows DEF UndoneOnce
      <4> QED
        BY <2>1, <4>1, <4>2
    <3> QED
      BY <3>1
  <2>3. \A r \in Returns : StockBack[r] \in Int /\ StockBack[r] = back[r]
    <3>1. ASSUME NEW r \in Returns PROVE StockBack[r] \in Int /\ StockBack[r] = back[r]
      <4>1. return[r].qty \in Nat /\ return[r].status \in {"COMPLETED", "CANCELLED"}
        BY DEF TypeInv, TypeOK, ReturnRow
      <4>2. /\ StockBack[r] \in Int /\ StockBack[r] = return[r].qty * (1 - undone[r])
            /\ undone[r] = IF return[r].status = "CANCELLED" THEN 1 ELSE 0
        BY StockRows DEF UndoneOnce
      <4> QED
        BY <2>1, <4>1, <4>2
    <3> QED
      BY <3>1
  <2>4. Received = SumOver(in, Deliveries) /\ SentBack = SumOver(back, Returns)
    BY DEF Received, SentBack
  <2> HIDE DEF in, back
  <2>5. /\ SumOver(StockIn, Deliveries) = SumOver(in, Deliveries)
        /\ SumOver(StockBack, Returns) = SumOver(back, Returns)
    BY <2>2, <2>3, ReceivingAssumption, SumOverSame
  <2> QED
    BY <2>4, <2>5 DEF GoodsInv
<1> QED
  BY <1>1, <1>2, <1>3, BalanceCovered, PTL DEF Spec, StockExplained

----------------------------------------------------------------------------
(* What is returned of an invoice *)

\* While no requests overlapped, the one in flight still finds what it checked
\* when it began: what may be returned, the stock it takes, the return it edits.
ReturnInv ==
    ~raced =>
        /\ \A v, w \in Workers : tx[v].stage # "idle" /\ tx[w].stage # "idle" => v = w
        /\ \A w \in Workers : tx[w].stage # "idle" =>
              /\ tx[w].op = "return" => /\ tx[w].inv \in Invoices
                                        /\ tx[w].qty <= Returnable(tx[w].inv)
                                        /\ tx[w].stage = "open" => tx[w].qty <= balance
              /\ tx[w].op \in Reverting => tx[w].id \in Returns /\ Standable(tx[w].id)

LEMMA ReturnBegin ==
    ASSUME TypeInv, ReturnInv, NEW w \in Workers, NEW p, Fits(p), Allowed(p), Begin(w, p)
    PROVE  ReturnInv'
<1>1. p \in Plan
  BY DEF Fits
<1>2. PICK s \in Plan : /\ tx' = [tx EXCEPT ![w] = s]
                        /\ s.op = p.op /\ s.id = p.id /\ s.inv = p.inv /\ s.qty = p.qty
                        /\ s.stage = "open" => p.op \notin Reading
  BY <1>1, BeginPlan
<1>3. /\ \A j : Returnable(j)' = Returnable(j)
      /\ \A r : Standable(r)' <=> Standable(r)
  BY DEF Begin, docs, Returnable, Returned, Against, Standable
<1>4. ~raced' => ~raced /\ \A v \in Workers : tx[v].stage = "idle"
  BY DEF Begin
<1>5. \A v \in Workers : tx'[v] = IF v = w THEN s ELSE tx[v]
  BY <1>2 DEF TypeInv, TypeOK
<1>6. /\ p.op = "return" => p.inv \in Invoices /\ p.qty <= Returnable(p.inv)
      /\ p.op \in Reverting => p.id \in Returns /\ Standable(p.id)
  BY DEF Allowed
<1>7. p.op = "return" => p.op \in Reading
  BY DEF Reading
<1> QED
  BY <1>2, <1>3, <1>4, <1>5, <1>6, <1>7 DEF ReturnInv

LEMMA ReturnOpen ==
    ASSUME TypeInv, ReturnInv, NEW w \in Workers, NEW p, Fits(p), Reopened(w, p), Open(w, p)
    PROVE  ReturnInv'
<1>1. p \in Plan
  BY DEF Fits
<1>2. PICK s \in Plan : /\ tx' = [tx EXCEPT ![w] = s]
                        /\ s.op = p.op /\ s.id = p.id /\ s.inv = p.inv /\ s.qty = p.qty
  BY <1>1, OpenPlan
<1>3. /\ \A j : Returnable(j)' = Returnable(j)
      /\ \A r : Standable(r)' <=> Standable(r)
      /\ raced' = raced /\ balance' = balance /\ tx[w].stage # "idle"
  BY DEF Open, docs, stock, Returnable, Returned, Against, Standable
<1>4. \A v \in Workers : tx'[v] = IF v = w THEN s ELSE tx[v]
  BY <1>2 DEF TypeInv, TypeOK
<1>5. /\ p.op = tx[w].op /\ p.id = tx[w].id
      /\ p.op = "return" => p.inv = tx[w].inv /\ p.qty = tx[w].qty /\ p.qty <= balance
  BY DEF Reopened
<1>6. CASE raced
  BY <1>3, <1>6 DEF ReturnInv
<1>7. CASE ~raced
  <2>1. \A v \in Workers : tx[v].stage # "idle" => v = w
    BY <1>3, <1>7 DEF ReturnInv
  <2>2. /\ tx[w].op = "return" => /\ tx[w].inv \in Invoices
                                  /\ tx[w].qty <= Returnable(tx[w].inv)
        /\ tx[w].op \in Reverting => tx[w].id \in Returns /\ Standable(tx[w].id)
    BY <1>3, <1>7 DEF ReturnInv
  <2>3. \A v \in Workers : tx'[v].stage # "idle" => v = w
    BY <1>4, <2>1
  <2> QED
    BY <1>2, <1>3, <1>4, <1>5, <2>2, <2>3 DEF ReturnInv
<1> QED
  BY <1>6, <1>7

LEMMA ReturnNext == ASSUME TypeInv, ReturnInv, [Next]_vars PROVE ReturnInv'
<1>1. CASE UNCHANGED vars
  BY <1>1 DEF vars, docs, stock, ReturnInv, Returnable, Returned, Against, Standable
<1>2. CASE Sell
  <2>1. tx' = tx /\ (~raced' => ~raced /\ \A v \in Workers : tx[v].stage = "idle")
    BY <1>2 DEF Sell
  <2> QED
    BY <2>1 DEF ReturnInv
<1>3. ASSUME NEW w \in Workers, Done(w), tx[w].stage # "idle" PROVE ReturnInv'
  <2>1. raced' = raced /\ \A v \in Workers : tx'[v] = IF v = w THEN NoPlan ELSE tx[v]
    BY <1>3 DEF Done, TypeInv, TypeOK
  <2>2. ~raced => \A v \in Workers : tx'[v].stage = "idle"
    BY <1>3, <2>1 DEF ReturnInv, NoPlan
  <2> QED
    BY <2>1, <2>2 DEF ReturnInv
<1>4. ASSUME NEW w \in Workers, Request(w) PROVE ReturnInv'
  BY <1>3, <1>4, RequestSteps, ReturnBegin, ReturnOpen DEF Steps
<1> QED
  BY <1>1, <1>2, <1>4 DEF Next

\* What a request does to the returns.
Makes(w, r) ==
    /\ Does(w, "return") /\ return[r].life = "absent" /\ balance' = balance - tx[w].qty
    /\ \E x : return' = [return EXCEPT ![r] = [life |-> "live", status |-> "COMPLETED",
                            qty |-> tx[w].qty, invoice |-> tx[w].inv, receipt |-> x]]
Drops(r) ==
    \E x : return' = [return EXCEPT ![r].status = "CANCELLED", ![r].life = x]
Edits(w, r) ==
    /\ Does(w, "editReturn") /\ tx[w].id = r
    /\ return' = [return EXCEPT ![r].status = "COMPLETED"]

LEMMA ReturnRequest ==
    ASSUME TypeInv, NEW w \in Workers, Request(w)
    PROVE  \/ UNCHANGED return
           \/ \E r \in Returns : Makes(w, r) \/ Drops(r) \/ Edits(w, r)
<1> USE DEF Begin, Open, docs
<1>1. ASSUME NEW quoted, Confirm(w, quoted) PROVE UNCHANGED return
  BY <1>1 DEF Confirm
<1>2. ASSUME CancelOrder(w) \/ DeleteOrder(w) \/ DeleteQuote(w) PROVE UNCHANGED return
  BY <1>2 DEF CancelOrder, DeleteOrder, DeleteQuote
<1>3. ASSUME NEW cascade, CancelQuote(w, cascade) PROVE UNCHANGED return
  BY <1>3 DEF CancelQuote
<1>4. ASSUME NEW d \in Deliveries, NEW q, Deliver(w, d, q) PROVE UNCHANGED return
  BY <1>4 DEF Deliver
<1>5. ASSUME NEW d \in Deliveries, TakeBack(w, d) PROVE UNCHANGED return
  BY <1>5 DEF TakeBack
<1>6. ASSUME NEW d \in Deliveries, EditDelivery(w, d) \/ DeleteDelivery(w, d)
      PROVE  UNCHANGED return
  BY <1>6 DEF EditDelivery, DeleteDelivery
<1>7. ASSUME NEW i \in Invoices, NEW D, NEW q,
             \/ Bill(w, i, D, q) \/ EditBill(w, i, q) \/ CancelBill(w, i) \/ DeleteBill(w, i)
             \/ Settle(w, i)
      PROVE  UNCHANGED return
  BY <1>7 DEF Bill, EditBill, CancelBill, DeleteBill, Settle
<1>8. ASSUME NEW r \in Returns, NEW i \in Invoices, NEW q \in Quantities, Return(w, r, i, q)
      PROVE  UNCHANGED return \/ Makes(w, r)
  <2>1. CASE UNCHANGED docs
    BY <2>1
  <2>2. ASSUME Does(w, "return"), return[r].life = "absent", tx[w].inv = i, tx[w].qty = q,
               balance' = balance - q,
               return' = [return EXCEPT ![r] =
                        [life |-> "live", status |-> "COMPLETED", qty |-> q, invoice |-> i,
                         receipt |-> IF tx[w].of = {} THEN None ELSE CHOOSE d \in tx[w].of : TRUE]]
        PROVE  Makes(w, r)
    BY <2>2 DEF Makes
  <2> QED
    BY <1>8, <2>1, <2>2 DEF Return
<1>9. ASSUME NEW r \in Returns, NEW op \in {"cancelReturn", "deleteReturn"}, PutBack(w, r, op)
      PROVE  UNCHANGED return \/ Drops(r)
  <2>1. CASE UNCHANGED docs
    BY <2>1
  <2>2. ASSUME return' = [return EXCEPT ![r].status = "CANCELLED",
                             ![r].life = IF op = "deleteReturn" THEN "deleted" ELSE @]
        PROVE  Drops(r)
    BY <2>2 DEF Drops
  <2> QED
    BY <1>9, <2>1, <2>2 DEF PutBack
<1>10. ASSUME NEW r \in Returns, EditReturn(w, r) PROVE UNCHANGED return \/ Edits(w, r)
  BY <1>10 DEF EditReturn, Edits
<1>11. ASSUME Abort(w) PROVE UNCHANGED return
  BY <1>11 DEF Abort
<1> HIDE DEF Begin, Open, docs
<1> QED
  BY <1>1, <1>2, <1>3, <1>4, <1>5, <1>6, <1>7, <1>8, <1>9, <1>10, <1>11 DEF Request

LEMMA AgainstRows ==
    ASSUME TypeInv, NEW j
    PROVE  /\ Against(j) \subseteq Returns /\ IsFiniteSet(Against(j))
           /\ \A r \in Returns : return[r].qty \in Nat
           /\ Returned(j) \in Nat
<1>1. Against(j) \subseteq Returns /\ IsFiniteSet(Against(j))
  BY ReceivingAssumption, FS_Subset DEF Against
<1>2. \A r \in Returns : return[r].qty \in Nat
  BY DEF TypeInv, TypeOK, ReturnRow
<1>3. Returned(j) \in Nat
  <2> DEFINE f == [r \in Returns |-> return[r].qty]
  <2>1. \A r \in Against(j) : f[r] \in Nat
    BY <1>1, <1>2
  <2>2. Returned(j) = SumOver(f, Against(j))
    BY DEF Returned
  <2> HIDE DEF f
  <2> QED
    BY <1>1, <2>1, <2>2, SumOverNat
<1> QED
  BY <1>1, <1>2, <1>3

\* A step that keeps every quantity returned returns no more of an invoice
\* than the returns it leaves there did.
LEMMA ReturnedFewer ==
    ASSUME TypeInv, NEW j, \A r \in Returns : return'[r].qty = return[r].qty,
           Against(j)' \subseteq Against(j)
    PROVE  Returned(j)' <= Returned(j) /\ Returned(j)' \in Nat
<1> DEFINE f == [r \in Returns |-> return[r].qty]
           g == [r \in Returns |-> return'[r].qty]
           A == Against(j)
<1>1. PICK B : B = Against(j)'
  OBVIOUS
<1>2. /\ A \subseteq Returns /\ IsFiniteSet(A) /\ IsFiniteSet(A \ B) /\ IsFiniteSet(B)
      /\ B \in SUBSET A
      /\ \A r \in A : f[r] \in Int /\ f[r] \in Nat
      /\ \A r \in B : f[r] \in Int /\ f[r] = g[r]
  BY <1>1, AgainstRows, FS_Subset
<1>3. Returned(j) = SumOver(f, A) /\ Returned(j)' = SumOver(g, B)
  BY <1>1 DEF Returned
<1> HIDE DEF f, g, A
<1>4. SumOver(f, B) = SumOver(g, B)
  BY <1>2, SumOverSame
<1>5. SumOver(f, A) = SumOver(f, B) + SumOver(f, A \ B)
  BY <1>2, SumOverUnion
<1>6. SumOver(f, A \ B) \in Nat
  <2>1. \A r \in A \ B : f[r] \in Nat
    BY <1>2
  <2> QED
    BY <1>2, <2>1, SumOverNat
<1>7. SumOver(f, B) \in Nat
  <2>1. \A r \in B : f[r] \in Nat
    BY <1>2
  <2> QED
    BY <1>2, <2>1, SumOverNat
<1> QED
  BY <1>3, <1>4, <1>5, <1>6, <1>7

\* A return made adds its quantity to those of its invoice.
LEMMA ReturnedMore ==
    ASSUME TypeInv, NEW w \in Workers, NEW r \in Returns, Makes(w, r), NEW j
    PROVE  Returned(j)' = IF j = tx[w].inv THEN Returned(j) + tx[w].qty ELSE Returned(j)
<1> DEFINE f == [x \in Returns |-> return[x].qty]
           g == [x \in Returns |-> return'[x].qty]
           A == Against(j)
           q == tx[w].qty
<1>1. PICK B : B = Against(j)'
  OBVIOUS
<1>2. q \in Nat /\ return[r].life = "absent" /\ DOMAIN return = Returns
  BY DEF TypeInv, TypeOK, Plan, Makes
<1>3. /\ return'[r].qty = q /\ return'[r].life = "live" /\ return'[r].status = "COMPLETED"
      /\ return'[r].invoice = tx[w].inv
      /\ \A x \in Returns \ {r} : return'[x] = return[x]
  <2>1. PICK x : return' = [return EXCEPT ![r] =
                  [life |-> "live", status |-> "COMPLETED", qty |-> q,
                   invoice |-> tx[w].inv, receipt |-> x]]
    BY DEF Makes
  <2> QED
    BY <1>2, <2>1
<1>4. /\ A \subseteq Returns /\ IsFiniteSet(A) /\ IsFiniteSet(Returns) /\ r \notin A
      /\ \A x \in A : f[x] \in Int /\ f[x] = g[x]
      /\ \A x \in Returns : f[x] \in Int /\ g[x] \in Int
      /\ g[r] = q
  <2>1. A \subseteq Returns /\ IsFiniteSet(A) /\ IsFiniteSet(Returns) /\ r \notin A
    BY <1>2, AgainstRows, ReceivingAssumption DEF Against
  <2>2. \A x \in Returns : return[x].qty \in Nat
    BY AgainstRows
  <2>3. \A x \in Returns : /\ f[x] = return[x].qty
                           /\ g[x] = IF x = r THEN q ELSE return[x].qty
    BY <1>3
  <2> HIDE DEF f, g, A, q
  <2> QED
    BY <1>2, <2>1, <2>2, <2>3
<1>5. B = IF j = tx[w].inv THEN A \cup {r} ELSE A
  BY <1>1, <1>2, <1>3 DEF Against
<1>6. Returned(j) = SumOver(f, A) /\ Returned(j)' = SumOver(g, B)
  BY <1>1 DEF Returned
<1> HIDE DEF f, g, A
<1>7. SumOver(f, A) = SumOver(g, A)
  BY <1>4, SumOverSame
<1>8. SumOver(g, A \cup {r}) = SumOver(g, A) + g[r]
  BY <1>4, SumOverAdd
<1> QED
  BY <1>4, <1>5, <1>6, <1>7, <1>8

LEMMA ReturnsFitStep ==
    ASSUME TypeInv, ReturnInv, [Next]_vars, NEW j \in Invoices, ~raced,
           Returned(j)' > Returned(j)
    PROVE  Returned(j)' <= invoice[j].qty /\ balance' >= 0
<1>1. Returned(j) \in Nat /\ invoice[j].qty \in Nat /\ balance \in Int
  BY AgainstRows DEF TypeInv, TypeOK, InvoiceRow
<1>2. CASE UNCHANGED return
  BY <1>1, <1>2 DEF Returned, Against
<1>3. ASSUME NEW w \in Workers, NEW r \in Returns, Makes(w, r)
      PROVE  Returned(j)' <= invoice[j].qty /\ balance' >= 0
  <2>1. j = tx[w].inv /\ Returned(j)' = Returned(j) + tx[w].qty
    BY <1>1, <1>3, ReturnedMore
  <2>2. tx[w].qty <= Returnable(j) /\ tx[w].qty <= balance /\ tx[w].qty \in Nat
    BY <1>3, <2>1 DEF ReturnInv, Makes, Does, TypeInv, TypeOK, Plan
  <2>3. balance' = balance - tx[w].qty
    BY <1>3 DEF Makes
  <2> QED
    BY <1>1, <2>1, <2>2, <2>3 DEF Returnable
<1>4. ASSUME NEW r \in Returns, Drops(r) PROVE FALSE
  <2>0. DOMAIN return = Returns /\ return[r] \in ReturnRow
    BY DEF TypeInv, TypeOK
  <2>1. /\ \A x \in Returns : return'[x].qty = return[x].qty
        /\ \A x \in Returns \ {r} : return'[x] = return[x]
        /\ return'[r].status = "CANCELLED"
    BY <1>4, <2>0 DEF Drops, ReturnRow
  <2>2. Against(j)' \subseteq Against(j)
    BY <2>1 DEF Against
  <2>3. Returned(j)' <= Returned(j) /\ Returned(j)' \in Nat
    BY <2>1, <2>2, ReturnedFewer
  <2> QED
    BY <1>1, <2>3
<1>5. ASSUME NEW w \in Workers, NEW r \in Returns, Edits(w, r) PROVE FALSE
  <2>1. Standable(r)
    BY <1>5 DEF Edits, Does, ReturnInv, Reverting
  <2>2. \A x \in Returns : /\ return'[x].qty = return[x].qty
                           /\ return'[x].life = return[x].life
                           /\ return'[x].invoice = return[x].invoice
                           /\ return'[x].status = return[x].status
    BY <1>5, <2>1 DEF Edits, Standable, TypeInv, TypeOK, ReturnRow
  <2>3. Against(j)' \subseteq Against(j)
    BY <2>2 DEF Against
  <2>4. Returned(j)' <= Returned(j) /\ Returned(j)' \in Nat
    BY <2>2, <2>3, ReturnedFewer
  <2> QED
    BY <1>1, <2>4
<1>6. CASE Sell \/ UNCHANGED vars
  BY <1>2, <1>6 DEF Sell, vars, docs
<1>7. ASSUME NEW w \in Workers, Request(w)
      PROVE  Returned(j)' <= invoice[j].qty /\ balance' >= 0
  BY <1>2, <1>3, <1>4, <1>5, <1>7, ReturnRequest
<1> QED
  BY <1>6, <1>7 DEF Next

\* Unless requests overlapped, what is returned of an invoice stays within what
\* it bills as it is returned, and never takes the stock below zero.
THEOREM ReturnsStayWithin == Spec => ReturnsFit
<1> DEFINE A == \A i \in Invoices : ~raced /\ Returned(i)' > Returned(i) =>
                    Returned(i)' <= invoice[i].qty /\ balance' >= 0
<1>1. Init => TypeInv /\ ReturnInv
  <2>1. Init => ReturnInv
    BY DEF Init, ReturnInv, NoPlan
  <2> QED
    BY <2>1, InitType
<1>2. TypeInv /\ ReturnInv /\ [Next]_vars => TypeInv' /\ ReturnInv'
  BY NextType, ReturnNext
<1>3. TypeInv /\ ReturnInv /\ [Next]_vars => A
  BY ReturnsFitStep
<1> QED
  BY <1>1, <1>2, <1>3, PTL DEF Spec, ReturnsFit
=============================================================================
