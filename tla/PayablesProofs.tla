-------------------------- MODULE PayablesProofs --------------------------
(***************************************************************************)
(* The money of procurement, for every set of orders, advances, invoices,  *)
(* settlements and workers, every set of amounts and every mix of          *)
(* operations: the advances add up, no drawn advance is lost, what a       *)
(* settlement claims is in its ledger, and its invoices follow it.         *)
(*                                                                         *)
(* IInv, below, is the inductive invariant.  A request keeps in tx what it *)
(* read; what it will write is right only because of what still holds of   *)
(* that: Fits of every request, whatever it read; Steady however requests  *)
(* overlap; Current as long as it is alone.  The lemmas go one operation   *)
(* at a time: ...Steps (it begins, opens or commits), ...Commit (what the  *)
(* commit does to the rows), ...Accounts (the sums, when it is alone),     *)
(* ...Covers (what it pays), ...Holds (all of it).                         *)
(***************************************************************************)
EXTENDS Payables, SumLemmas

----------------------------------------------------------------------------
(* Arithmetic of rounding and of shares *)

LEMMA Divides ==
  ASSUME NEW v \in Int, NEW d \in Nat \ {0}
  PROVE  /\ v \div d \in Int /\ d * (v \div d) \in Int
         /\ d * (v \div d) <= v /\ v < d * (v \div d) + d
  OBVIOUS

LEMMA RoundBounds ==
  ASSUME NEW v \in Int
  PROVE  /\ Round(v) \in Int
         /\ Round(v) <= v + Minor \div 2 /\ v + Minor \div 2 - Minor < Round(v)
<1> DEFINE h == Minor \div 2
           q == (v + h) \div Minor
<1>1. Minor \in Nat \ {0} /\ h \in Int
  BY PayablesAssumption
<1>2. /\ q \in Int /\ Minor * q \in Int /\ Minor * q <= v + h /\ v + h < Minor * q + Minor
  BY <1>1, Divides
<1>3. Round(v) = Minor * q
  BY <1>1, <1>2 DEF Round
<1> QED
  BY <1>1, <1>2, <1>3

LEMMA ShareBounds ==
  ASSUME NEW I, IsFiniteSet(I), I # {}, NEW i \in I, NEW r \in Nat
  PROVE  Share(I, i, r) \in 0..r
<1> DEFINE c == Cardinality(I)
           f == r \div c
<1>1. c \in Nat \ {0}
  BY FS_CardinalityType, FS_EmptySet
<1>2. /\ f \in Int /\ c * f <= r /\ r < c * f + c
  BY <1>1, Divides
<1>3. f >= 0
  <2>1. SUFFICES ASSUME f <= -1 PROVE FALSE
    BY <1>2
  <2>2. c * f <= -c
    BY <1>1, <1>2, <2>1
  <2> QED
    BY <1>1, <1>2, <2>2
<1>4. (c - 1) * f = c * f - f /\ c * f \in Int
  BY <1>1, <1>2
<1>5. c * f >= f /\ (c - 1) * f >= 0
  BY <1>1, <1>2, <1>3
<1>6. Share(I, i, r) = r - (c - 1) * f \/ Share(I, i, r) = f
  BY DEF Share
<1> HIDE DEF f, c
<1> QED
  BY <1>2, <1>3, <1>4, <1>5, <1>6

LEMMA DrawBounds ==
  ASSUME NEW po \in OrderRow, NEW total \in Nat
  PROVE  Draw(po, total) \in Nat /\ (Draw(po, total) > 0 => Draw(po, total) <= po.amount - po.applied)
  BY DEF Draw, Least, OrderRow

\* What the invoices of one request draw lies within the balance they found.
LEMMA DrawnWithin ==
  ASSUME NEW po \in OrderRow, NEW I, IsFiniteSet(I), NEW total \in Nat,
         NEW draw \in [I -> 0..total], Drawn(po, I, total, draw)
  PROVE  /\ SumOver(draw, I) \in Nat
         /\ po.applied <= po.amount => po.applied + SumOver(draw, I) <= po.amount
<1>1. PICK turn \in [I -> 1..Cardinality(I)] :
        /\ \A i, j \in I : turn[i] = turn[j] => i = j
        /\ \A i \in I : draw[i] = Draw([po EXCEPT !.applied = @ + SumOver(draw, {j \in I : turn[j] < turn[i]})], total)
  BY DEF Drawn
<1>2. \A i \in I : draw[i] \in Nat
  OBVIOUS
<1>3. SumOver(draw, I) \in Nat
  BY <1>2, SumOverNat
<1> DEFINE S == {i \in I : draw[i] > 0}
<1>4. CASE S = {}
  <2>1. \A i \in I : draw[i] = 0
    BY <1>2, <1>4
  <2>2. SumOver(draw, I) = 0
    BY <2>1, SumOverZero
  <2> QED
    BY <2>2, <1>3 DEF OrderRow
<1>5. CASE S # {}
  <2> DEFINE c == Cardinality(I)
             T == {c - turn[i] : i \in S}
  <2>1. c \in Nat
    BY FS_CardinalityType
  <2>2. T \subseteq Nat /\ T # {}
    <3>1. \A i \in S : turn[i] \in 1..c
      BY <1>1
    <3> HIDE DEF c
    <3>2. \A i \in S : c - turn[i] \in Nat
      BY <2>1, <3>1
    <3> QED
      BY <1>5, <3>2
  <2>3. PICK m \in T : \A k \in T : m <= k
    BY <2>2, LeastNat
  <2>4. PICK i \in S : m = c - turn[i]
    OBVIOUS
  <2>5. \A j \in S : turn[j] <= turn[i]
    <3> TAKE j \in S
    <3>1. m <= c - turn[j]
      BY <2>3
    <3>2. turn[i] \in 1..c /\ turn[j] \in 1..c
      BY <1>1
    <3> HIDE DEF c
    <3> QED
      BY <2>1, <2>4, <3>1, <3>2
  <2> DEFINE B == {j \in I : turn[j] < turn[i]}
             A == B \cup {i}
  <2>6. i \in I /\ B \in SUBSET I /\ A \in SUBSET I /\ i \in I \ B
    <3>1. turn[i] \in 1..c
      BY <1>1
    <3> QED
      BY <2>1, <3>1
  <2>7. \A j \in I \ A : draw[j] = 0
    <3> SUFFICES ASSUME NEW j \in I \ A, draw[j] # 0 PROVE FALSE
      OBVIOUS
    <3>1. j \in S
      BY <1>2
    <3>2. turn[j] \in 1..c /\ turn[i] \in 1..c
      BY <1>1, <2>6
    <3>3. turn[j] = turn[i]
      BY <2>1, <2>5, <3>1, <3>2
    <3> QED
      BY <1>1, <2>6, <3>3
  <2> HIDE DEF A, B
  <2>8. SumOver(draw, I) = SumOver(draw, A)
    BY <1>2, <2>6, <2>7, SumOverPart
  <2>9. SumOver(draw, A) = SumOver(draw, B) + draw[i]
    BY <1>2, <2>6, SumOverAdd DEF A
  <2>10. SumOver(draw, B) \in Nat
    BY <1>2, <2>6, SumOverNat, FS_Subset
  <2> DEFINE p == [po EXCEPT !.applied = @ + SumOver(draw, B)]
  <2>11. p \in OrderRow /\ p.amount = po.amount /\ p.applied = po.applied + SumOver(draw, B)
    BY <2>10 DEF OrderRow
  <2>12. draw[i] = Draw(p, total) /\ draw[i] > 0
    BY <1>1, <2>6 DEF B
  <2>13. draw[i] <= p.amount - p.applied
    BY <2>11, <2>12, DrawBounds
  <2> QED
    BY <1>3, <2>8, <2>9, <2>10, <2>11, <2>13 DEF OrderRow
<1> QED
  BY <1>4, <1>5

----------------------------------------------------------------------------
(* What a request carries *)

\* What a plan says of itself.
Fits(p) ==
    /\ p.op = "settle" =>
         /\ p.of # {} /\ p.doc \in Settlements /\ p.m \in Nat
         /\ \A i \in p.of : p.m <= p.sawInv[i].total
         /\ Initial(p.n, Owed(p) - p.m)
    /\ p.op \in {"pay", "markPaid"} => p.doc \in Settlements
    /\ p.op = "pay" => p.n \in Nat
    /\ p.op = "markPaid" => CanMarkPaid(p.seen)
    /\ p.op \in {"editOrder", "advance", "editAdvance", "deleteAdvance"} => p.order \in Orders
    /\ p.op \in {"editAdvance", "deleteAdvance"} => p.doc \in Advances
    /\ p.op = "editOrder" /\ p.to = "set" => p.m # NoRate
    /\ p.op = "cancelBill" => p.to \in {"CANCELLED", None}
    /\ p.op = "editBill" => p.to \in {"Completed", None}

\* What stays true of it however requests overlap.
Steady(p) ==
    /\ p.op \in {"pay", "markPaid"} =>
         /\ settlement[p.doc].life = "live" /\ p.seen.paid <= rows[p.doc]
         /\ "amend" \notin mix => p.seen.due = settlement[p.doc].due
    /\ p.op \in {"editOrder", "advance", "editAdvance", "deleteAdvance"} =>
         order[p.order].life # "absent"

\* What is true while no other request is under way.
AdvanceCurrent(p) ==
    p.op \in {"editAdvance", "deleteAdvance"} =>
        /\ advance[p.doc].life = "live" /\ advance[p.doc].order = p.order
        /\ p.saw.amount = Recomputed(p.doc, IF p.op = "editAdvance" THEN p.n ELSE 0)
        /\ p.saw.amount >= order[p.order].applied
InvoiceCurrent(p) ==
    /\ p.op = "bill" /\ p.stage = "open" /\ p.order # None => p.saw = order[p.order]
    /\ p.op \in {"cancelBill", "deleteBill"} => \A i \in p.of : invoice[i].life = "live"
    /\ p.op = "editBill" /\ p.order # None => order[p.order].life # "absent"
    /\ p.op = "deleteBill" \/ (p.op = "cancelBill" /\ p.stage = "open") =>
         \A i \in p.of : p.sawInv[i] = invoice[i]
    /\ p.op \in {"cancelBill", "editBill"} /\ p.to # None =>
         \A i \in p.of : invoice[i].settlement = None
    /\ p.op = "settle" =>
         \A i \in p.of : invoice[i].life = "live" /\ invoice[i].settlement = None
PaymentCurrent(p) == p.op \in {"pay", "markPaid"} => p.seen = settlement[p.doc]
Current(p) == AdvanceCurrent(p) /\ InvoiceCurrent(p) /\ PaymentCurrent(p)

Ready(p) == p.op \in mix /\ Fits(p) /\ Steady(p) /\ Current(p)

Asked(w)  == \E p \in Plan : Begin(w, p) /\ Ready(p)
Opened(w) == \E p \in Plan :
    /\ Open(w, p)
    /\ p.op = tx[w].op /\ p.doc = tx[w].doc /\ p.order = tx[w].order /\ p.of = tx[w].of
    /\ p.n = tx[w].n /\ p.m = tx[w].m /\ p.to = tx[w].to /\ p.op \in Reading
    /\ p.op = "bill" /\ p.order # None => p.saw = order[p.order]
    /\ p.op = "cancelBill" => \A i \in p.of : p.sawInv[i] = invoice[i]

\* The ledger names orders, and every order that is not there is as if new.
Named ==
    /\ \A a \in Advances : advance[a].life = "live" => advance[a].order \in Orders
    /\ \A o \in Orders : order[o].life = "absent" => order[o].rate = NoRate
    /\ \A i \in Invoices : invoice[i].settlement # None =>
          settlement[invoice[i].settlement].life = "live"
TypeInv == TypeOK /\ Named

LEMMA PlanTyped ==
  ASSUME TypeOK
  PROVE  /\ NoOrder \in OrderRow /\ NoAdvance \in AdvanceRow /\ NoInvoice \in InvoiceRow
         /\ NoSettlement \in SettlementRow /\ NoPlan \in Plan
         /\ \A o \in Orders : order[o] \in OrderRow
         /\ \A a \in Advances : advance[a] \in AdvanceRow
         /\ \A i \in Invoices : invoice[i] \in InvoiceRow
         /\ \A s \in Settlements : settlement[s] \in SettlementRow /\ rows[s] \in Nat
         /\ \A w \in Workers : tx[w] \in Plan
<1>1. /\ NoOrder \in OrderRow /\ NoAdvance \in AdvanceRow /\ NoInvoice \in InvoiceRow
      /\ NoSettlement \in SettlementRow
  BY DEF NoOrder, OrderRow, Lives, NoRate, NoAdvance, AdvanceRow, NoInvoice, InvoiceRow,
         NoSettlement, SettlementRow
<1>2. NoPlan \in Plan
  BY <1>1 DEF NoPlan, Plan, Ops, OrderOps
<1> QED
  BY <1>1, <1>2 DEF TypeOK

\* What a request asks for is a number.
LEMMA Numbers ==
  /\ \A n \in Amounts \cup {0} : n \in Nat /\ n \in Int
  /\ \A n \in Totals : n \in Nat /\ n \in Int
  /\ \A n \in Rebates : n \in Nat /\ n \in Int
  /\ \A n \in Rates \cup {NoRate} : n \in Int
BY PayablesAssumption DEF NoRate

----------------------------------------------------------------------------
(* How requests begin, open and commit *)

LEMMA MakeOrderSteps ==
  ASSUME TypeInv, NEW w \in Workers, NEW o \in Orders, NEW a \in Advances, NEW total \in Totals,
         NEW rate \in Rates \cup {NoRate}, NEW n \in Amounts \cup {0}, MakeOrder(w, o, a, total, rate, n)
  PROVE  Asked(w) \/ Does(w, "order")
<1> DEFINE p == [NoPlan EXCEPT !.op = "order", !.order = o, !.doc = a, !.n = n, !.m = rate,
                                !.saw = [NoOrder EXCEPT !.total = total]]
<1>1. p \in Plan
  <2>1. [NoOrder EXCEPT !.total = total] \in OrderRow
    BY PlanTyped, PayablesAssumption DEF TypeInv, OrderRow, NoOrder
  <2> QED
    <3>1. NoPlan \in Plan /\ (\A s \in Settlements : settlement[s] \in SettlementRow) /\ \A x \in Orders : order[x] \in OrderRow
      BY PlanTyped DEF TypeInv
    <3>2. total \in Int /\ rate \in Int /\ n \in Int
      BY Numbers
    <3> QED
      BY <3>1, <3>2, <2>1 DEF Plan, Ops, OrderOps
<1>2. CASE Begin(w, p)
  <2>1. Ready(p)
    BY <1>2 DEF Ready, Fits, Steady, Current, AdvanceCurrent, InvoiceCurrent, PaymentCurrent, Begin, NoPlan
  <2> QED
    BY <1>1, <1>2, <2>1 DEF Asked
<1> QED
  BY <1>2 DEF MakeOrder

LEMMA EditOrderSteps ==
  ASSUME TypeInv, NEW w \in Workers, NEW o \in Orders, NEW total \in Totals,
         NEW rate \in Rates \cup {NoRate}, NEW to \in {"keep", "set", "clear"},
         EditOrder(w, o, total, rate, to)
  PROVE  Asked(w) \/ Does(w, "editOrder")
<1> DEFINE p == [NoPlan EXCEPT !.op = "editOrder", !.order = o, !.n = total, !.m = rate,
                                  !.to = to, !.saw = order[o]]
<1>1. p \in Plan
  <2>1. NoPlan \in Plan /\ (\A s \in Settlements : settlement[s] \in SettlementRow) /\ \A x \in Orders : order[x] \in OrderRow
    BY PlanTyped DEF TypeInv
  <2>2. total \in Int /\ rate \in Int
    BY Numbers
  <2> QED
    BY <2>1, <2>2 DEF Plan, Ops, OrderOps
<1>2. CASE order[o].life = "live" /\ (to = "set" <=> rate # NoRate) /\ Begin(w, p)
  <2>1. Ready(p)
    BY <1>2 DEF Ready, Fits, Steady, Current, AdvanceCurrent, InvoiceCurrent, PaymentCurrent, Begin, NoPlan
  <2> QED
    BY <1>1, <1>2, <2>1 DEF Asked
<1> QED
  BY <1>2 DEF EditOrder

LEMMA EndOrderSteps ==
  ASSUME TypeInv, NEW w \in Workers, NEW o \in Orders, CancelOrder(w, o) \/ DeleteOrder(w, o)
  PROVE  Asked(w) \/ Does(w, "cancelOrder") \/ Does(w, "deleteOrder")
<1>1. ASSUME NEW op \in {"cancelOrder", "deleteOrder"}, Begin(w, [NoPlan EXCEPT !.op = op, !.order = o])
      PROVE  Asked(w)
  <2> DEFINE p == [NoPlan EXCEPT !.op = op, !.order = o]
  <2>1. p \in Plan
    BY PlanTyped DEF TypeInv, Plan, Ops, OrderOps, NoPlan
  <2>2. Ready(p)
    BY <1>1 DEF Ready, Fits, Steady, Current, AdvanceCurrent, InvoiceCurrent, PaymentCurrent, Begin, NoPlan
  <2> QED
    BY <1>1, <2>1, <2>2 DEF Asked
<1> QED
  BY <1>1 DEF CancelOrder, DeleteOrder

LEMMA AddAdvanceSteps ==
  ASSUME TypeInv, NEW w \in Workers, NEW a \in Advances, NEW o \in Orders, NEW n \in Amounts,
         NEW rate \in Rates \cup {NoRate}, AddAdvance(w, a, o, n, rate)
  PROVE  Asked(w) \/ Does(w, "advance")
<1> DEFINE p == [NoPlan EXCEPT !.op = "advance", !.doc = a, !.order = o, !.n = n, !.m = rate]
<1>1. p \in Plan
  <2>1. NoPlan \in Plan /\ (\A s \in Settlements : settlement[s] \in SettlementRow) /\ \A x \in Orders : order[x] \in OrderRow
    BY PlanTyped DEF TypeInv
  <2>2. n \in Int /\ rate \in Int
    BY Numbers
  <2> QED
    BY <2>1, <2>2 DEF Plan, Ops, AdvanceOps
<1>2. CASE Payable(o) /\ Begin(w, p)
  <2>1. Ready(p)
    BY <1>2 DEF Ready, Fits, Steady, Current, AdvanceCurrent, InvoiceCurrent, PaymentCurrent, Begin, NoPlan, Payable
  <2> QED
    BY <1>1, <1>2, <2>1 DEF Asked
<1> QED
  BY <1>2 DEF AddAdvance

LEMMA EditAdvanceSteps ==
  ASSUME TypeInv, NEW w \in Workers, NEW a \in Advances, NEW n \in Amounts,
         NEW rate \in Rates \cup {NoRate}, EditAdvance(w, a, n, rate)
  PROVE  Asked(w) \/ Does(w, "editAdvance")
<1> DEFINE o == advance[a].order
           p == [NoPlan EXCEPT !.op = "editAdvance", !.doc = a, !.order = o, !.n = n,
                                  !.m = rate, !.saw = [order[o] EXCEPT !.amount = Recomputed(a, n)]]
<1>1. CASE /\ advance[a].life = "live" /\ Payable(o) /\ CoversDrawn(o, Recomputed(a, n))
           /\ Begin(w, p)
  <2>1. o \in Orders /\ order[o] \in OrderRow /\ advance[a] \in AdvanceRow /\ n \in Nat
    BY <1>1, PlanTyped, PayablesAssumption DEF TypeInv, Named
  <2>2. Recomputed(a, n) \in Int
    BY <2>1 DEF Recomputed, OrderRow, AdvanceRow
  <2>3. [order[o] EXCEPT !.amount = Recomputed(a, n)] \in OrderRow
    BY <2>1, <2>2 DEF OrderRow
  <2>4. p \in Plan
    <3>1. NoPlan \in Plan /\ (\A s \in Settlements : settlement[s] \in SettlementRow) /\ \A x \in Orders : order[x] \in OrderRow
      BY PlanTyped DEF TypeInv
    <3>2. n \in Int /\ rate \in Int
      BY Numbers
    <3> QED
      BY <3>1, <3>2, <2>1, <2>3 DEF Plan, Ops, AdvanceOps
  <2>5. Ready(p)
    <3>1. /\ p.op = "editAdvance" /\ p.doc = a /\ p.order = o /\ p.n = n /\ p.op \in mix
          /\ p.saw.amount = Recomputed(a, n)
      BY <1>1, <2>1 DEF NoPlan, OrderRow, Begin
    <3> HIDE DEF p
    <3> QED
      BY <1>1, <2>1, <3>1 DEF Ready, Fits, Steady, Current, AdvanceCurrent, InvoiceCurrent, PaymentCurrent,
           Payable, CoversDrawn
  <2> QED
    BY <1>1, <2>4, <2>5 DEF Asked
<1> QED
  BY <1>1 DEF EditAdvance

LEMMA DeleteAdvanceSteps ==
  ASSUME TypeInv, NEW w \in Workers, NEW a \in Advances, DeleteAdvance(w, a)
  PROVE  Asked(w) \/ Does(w, "deleteAdvance")
<1> DEFINE o == advance[a].order
           p == [NoPlan EXCEPT !.op = "deleteAdvance", !.doc = a, !.order = o,
                                  !.saw = [order[o] EXCEPT !.amount = Recomputed(a, 0)]]
<1>1. CASE /\ advance[a].life = "live" /\ Payable(o) /\ CoversDrawn(o, Recomputed(a, 0))
           /\ Begin(w, p)
  <2>1. o \in Orders /\ order[o] \in OrderRow /\ advance[a] \in AdvanceRow
    BY <1>1, PlanTyped, PayablesAssumption DEF TypeInv, Named
  <2>2. Recomputed(a, 0) \in Int
    BY <2>1 DEF Recomputed, OrderRow, AdvanceRow
  <2>3. [order[o] EXCEPT !.amount = Recomputed(a, 0)] \in OrderRow
    BY <2>1, <2>2 DEF OrderRow
  <2>4. p \in Plan
    BY <2>1, <2>3, PlanTyped, PayablesAssumption DEF TypeInv, Plan, Ops, AdvanceOps, NoRate, NoPlan
  <2>5. Ready(p)
    <3>1. /\ p.op = "deleteAdvance" /\ p.doc = a /\ p.order = o /\ p.op \in mix
          /\ p.saw.amount = Recomputed(a, 0)
      BY <1>1, <2>1 DEF NoPlan, OrderRow, Begin
    <3> HIDE DEF p
    <3> QED
      BY <1>1, <2>1, <3>1 DEF Ready, Fits, Steady, Current, AdvanceCurrent, InvoiceCurrent, PaymentCurrent,
           Payable, CoversDrawn
  <2> QED
    BY <1>1, <2>4, <2>5 DEF Asked
<1> QED
  BY <1>1 DEF DeleteAdvance

LEMMA BillSteps ==
  ASSUME TypeInv, NEW w \in Workers, NEW I \in SUBSET Invoices, NEW o \in Orders \cup {None},
         NEW total \in Totals, Bill(w, I, o, total)
  PROVE  Asked(w) \/ Opened(w) \/ Does(w, "bill")
<1> DEFINE p == [NoPlan EXCEPT !.op = "bill", !.of = I, !.order = o, !.n = total]
           q == IF o = None THEN tx[w] ELSE [tx[w] EXCEPT !.saw = order[o]]
<1>1. p \in Plan
  <2>1. NoPlan \in Plan /\ (\A s \in Settlements : settlement[s] \in SettlementRow) /\ \A x \in Orders : order[x] \in OrderRow
    BY PlanTyped DEF TypeInv
  <2>2. total \in Int
    BY Numbers
  <2> QED
    BY <2>1, <2>2 DEF Plan, Ops, InvoiceOps
<1>2. CASE Begin(w, p)
  <2>1. Ready(p)
    BY <1>2 DEF Ready, Fits, Steady, Current, AdvanceCurrent, InvoiceCurrent, PaymentCurrent, Begin, NoPlan
  <2> QED
    BY <1>1, <1>2, <2>1 DEF Asked
<1>3. CASE tx[w].op = "bill" /\ tx[w].order = o /\ Open(w, q)
  <2>1. tx[w] \in Plan
    BY PlanTyped DEF TypeInv
  <2>2. q \in Plan
    BY <2>1, PlanTyped DEF TypeInv, Plan
  <2>3. /\ q.op = tx[w].op /\ q.doc = tx[w].doc /\ q.order = tx[w].order /\ q.of = tx[w].of
        /\ q.n = tx[w].n /\ q.m = tx[w].m /\ q.to = tx[w].to
        /\ q.order # None => q.saw = order[q.order]
    BY <1>3, <2>1 DEF Plan
  <2> HIDE DEF q
  <2> QED
    BY <1>3, <2>2, <2>3 DEF Opened, Reading
<1> QED
  BY <1>2, <1>3 DEF Bill

LEMMA CancelBillSteps ==
  ASSUME TypeInv, NEW w \in Workers, NEW i \in Invoices, CancelBill(w, i)
  PROVE  Asked(w) \/ Opened(w) \/ Does(w, "cancelBill")
<1> DEFINE p == [NoPlan EXCEPT !.op = "cancelBill", !.of = {i}, !.to = Status(i, "CANCELLED")]
           q == [tx[w] EXCEPT !.sawInv = [NoPlan.sawInv EXCEPT ![i] = invoice[i]]]
<1>1. p \in Plan
  <2>1. NoPlan \in Plan /\ (\A s \in Settlements : settlement[s] \in SettlementRow) /\ \A x \in Orders : order[x] \in OrderRow
    BY PlanTyped DEF TypeInv
  <2>2. Status(i, "CANCELLED") \in {"CANCELLED", None} /\ Status(i, "Completed") \in {"Completed", None}
    BY DEF Status
  <2> QED
    BY <2>1, <2>2 DEF Plan, Ops, InvoiceOps
<1>2. CASE invoice[i].life = "live" /\ Begin(w, p)
  <2>1. Ready(p)
    BY <1>2 DEF Ready, Fits, Steady, Current, AdvanceCurrent, InvoiceCurrent, PaymentCurrent, Begin, NoPlan, Status
  <2> QED
    BY <1>1, <1>2, <2>1 DEF Asked
<1>3. CASE tx[w].op = "cancelBill" /\ tx[w].of = {i} /\ Open(w, q)
  <2>1. tx[w] \in Plan /\ invoice[i] \in InvoiceRow /\ NoInvoice \in InvoiceRow
    BY PlanTyped DEF TypeInv
  <2>2. [NoPlan.sawInv EXCEPT ![i] = invoice[i]] \in [Invoices -> InvoiceRow]
    BY <2>1 DEF NoPlan
  <2>3. q \in Plan
    BY <2>1, <2>2 DEF Plan
  <2>4. /\ q.op = tx[w].op /\ q.doc = tx[w].doc /\ q.order = tx[w].order /\ q.of = tx[w].of
        /\ q.n = tx[w].n /\ q.m = tx[w].m /\ q.to = tx[w].to
        /\ q.sawInv[i] = invoice[i]
    BY <1>3, <2>1, <2>2 DEF Plan, NoPlan
  <2> HIDE DEF q
  <2> QED
    BY <1>3, <2>3, <2>4 DEF Opened, Reading
<1> QED
  BY <1>2, <1>3 DEF CancelBill

LEMMA EditBillSteps ==
  ASSUME TypeInv, NEW w \in Workers, NEW i \in Invoices, NEW o \in Orders \cup {None},
         NEW total \in Totals, EditBill(w, i, o, total)
  PROVE  Asked(w) \/ Does(w, "editBill")
<1> DEFINE p == [NoPlan EXCEPT !.op = "editBill", !.of = {i}, !.order = o, !.n = total,
                                  !.to = Status(i, "Completed")]
<1>1. p \in Plan
  <2>1. NoPlan \in Plan /\ (\A s \in Settlements : settlement[s] \in SettlementRow) /\ \A x \in Orders : order[x] \in OrderRow
    BY PlanTyped DEF TypeInv
  <2>2. Status(i, "CANCELLED") \in {"CANCELLED", None} /\ Status(i, "Completed") \in {"Completed", None}
    BY DEF Status
  <2>3. total \in Int
    BY Numbers
  <2> QED
    BY <2>1, <2>3, <2>2 DEF Plan, Ops, InvoiceOps
<1>2. CASE (o # None => order[o].life = "live") /\ Begin(w, p)
  <2>1. Ready(p)
    BY <1>2 DEF Ready, Fits, Steady, Current, AdvanceCurrent, InvoiceCurrent, PaymentCurrent, Begin, NoPlan, Status
  <2> QED
    BY <1>1, <1>2, <2>1 DEF Asked
<1> QED
  BY <1>2 DEF EditBill

LEMMA DeleteBillSteps ==
  ASSUME TypeInv, NEW w \in Workers, NEW i \in Invoices, DeleteBill(w, i)
  PROVE  Asked(w) \/ Does(w, "deleteBill")
<1> DEFINE p == [NoPlan EXCEPT !.op = "deleteBill", !.of = {i},
                                  !.sawInv = [NoPlan.sawInv EXCEPT ![i] = invoice[i]]]
<1>1. CASE invoice[i].life = "live" /\ Begin(w, p)
  <2>1. invoice[i] \in InvoiceRow /\ NoInvoice \in InvoiceRow /\ NoPlan \in Plan
    BY PlanTyped DEF TypeInv
  <2>2. [NoPlan.sawInv EXCEPT ![i] = invoice[i]] \in [Invoices -> InvoiceRow]
    BY <2>1 DEF NoPlan
  <2>3. p \in Plan
    BY <2>1, <2>2 DEF Plan, Ops, InvoiceOps
  <2>4. /\ p.op = "deleteBill" /\ p.of = {i} /\ p.sawInv[i] = invoice[i] /\ p.op \in mix
    BY <1>1, <2>2 DEF NoPlan, Begin
  <2> HIDE DEF p
  <2>5. Ready(p)
    BY <1>1, <2>4 DEF Ready, Fits, Steady, Current, AdvanceCurrent, InvoiceCurrent, PaymentCurrent
  <2> QED
    BY <1>1, <2>3, <2>5 DEF Asked
<1> QED
  BY <1>1 DEF DeleteBill

LEMMA SettleSteps ==
  ASSUME TypeInv, NEW w \in Workers, NEW s \in Settlements, NEW I \in SUBSET Invoices,
         NEW n \in Amounts \cup {0}, NEW rebate \in Rebates, Settle(w, s, I, n, rebate)
  PROVE  Asked(w) \/ Does(w, "settle")
<1> DEFINE saw == [i \in Invoices |-> IF i \in I THEN invoice[i] ELSE NoInvoice]
           p == [NoPlan EXCEPT !.op = "settle", !.doc = s, !.of = I, !.n = n, !.m = rebate,
                              !.sawInv = saw]
<1>1. saw \in [Invoices -> InvoiceRow]
  BY PlanTyped DEF TypeInv
<1>2. p \in Plan
  <2> HIDE DEF saw
  <2> QED
    <3>1. NoPlan \in Plan /\ (\A t \in Settlements : settlement[t] \in SettlementRow) /\ \A x \in Orders : order[x] \in OrderRow
      BY PlanTyped DEF TypeInv
    <3>2. n \in Int /\ rebate \in Int
      BY Numbers
    <3> QED
      BY <3>1, <3>2, <1>1 DEF Plan, Ops, SettlementOps
<1>3. CASE /\ I # {} /\ \A i \in I : /\ invoice[i].life = "live"
                       /\ invoice[i].settlement = None /\ rebate <= invoice[i].total
           /\ Initial(n, Owed(p) - rebate) /\ Begin(w, p)
  <2>1. /\ p.op = "settle" /\ p.doc = s /\ p.of = I /\ p.n = n /\ p.m = rebate /\ p.sawInv = saw
        /\ p.op \in mix
    BY <1>3 DEF NoPlan, Begin
  <2>2. \A i \in I : saw[i] = invoice[i]
    OBVIOUS
  <2>3. rebate \in Nat
    BY PayablesAssumption
  <2> HIDE DEF p, saw
  <2>4. Ready(p)
    BY <1>3, <2>1, <2>2, <2>3 DEF Ready, Fits, Steady, Current, AdvanceCurrent, InvoiceCurrent, PaymentCurrent
  <2> QED
    BY <1>2, <1>3, <2>4 DEF Asked
<1> QED
  BY <1>3 DEF Settle

LEMMA AmendSteps ==
  ASSUME TypeInv, NEW w \in Workers, NEW s \in Settlements, NEW due \in Amounts,
         NEW to \in {"COMPLETED", "CANCELLED"}, Amend(w, s, due, to)
  PROVE  Asked(w) \/ Does(w, "amend")
<1> DEFINE p == [NoPlan EXCEPT !.op = "amend", !.doc = s, !.n = due, !.to = to]
<1>1. p \in Plan
  <2>1. NoPlan \in Plan /\ (\A t \in Settlements : settlement[t] \in SettlementRow) /\ \A x \in Orders : order[x] \in OrderRow
    BY PlanTyped DEF TypeInv
  <2>2. due \in Int
    BY Numbers
  <2> QED
    BY <2>1, <2>2 DEF Plan, Ops, SettlementOps
<1>2. CASE Begin(w, p)
  <2>1. Ready(p)
    BY <1>2 DEF Ready, Fits, Steady, Current, AdvanceCurrent, InvoiceCurrent, PaymentCurrent, Begin, NoPlan
  <2> QED
    BY <1>1, <1>2, <2>1 DEF Asked
<1> QED
  BY <1>2 DEF Amend

\* What a settlement claims to be paid is in the ledger.
Backed == \A s \in Settlements : settlement[s].paid <= rows[s]

LEMMA PaySteps ==
  ASSUME TypeInv, Backed, NEW w \in Workers, NEW s \in Settlements, NEW n \in Amounts, Pay(w, s, n)
  PROVE  Asked(w) \/ Does(w, "pay")
<1> DEFINE p == [NoPlan EXCEPT !.op = "pay", !.doc = s, !.n = n, !.seen = settlement[s]]
<1>1. p \in Plan
  <2>1. NoPlan \in Plan /\ (\A t \in Settlements : settlement[t] \in SettlementRow) /\ \A x \in Orders : order[x] \in OrderRow
    BY PlanTyped DEF TypeInv
  <2>2. n \in Int
    BY Numbers
  <2> QED
    BY <2>1, <2>2 DEF Plan, Ops, SettlementOps
<1>2. CASE settlement[s].life = "live" /\ Begin(w, p)
  <2>1. Ready(p)
    BY <1>2, PayablesAssumption DEF Ready, Fits, Steady, Current, AdvanceCurrent, InvoiceCurrent, PaymentCurrent,
       Begin, NoPlan, Backed
  <2> QED
    BY <1>1, <1>2, <2>1 DEF Asked
<1> QED
  BY <1>2 DEF Pay

LEMMA MarkPaidSteps ==
  ASSUME TypeInv, Backed, NEW w \in Workers, NEW s \in Settlements, MarkPaid(w, s)
  PROVE  Asked(w) \/ Does(w, "markPaid")
<1> DEFINE p == [NoPlan EXCEPT !.op = "markPaid", !.doc = s, !.seen = settlement[s]]
<1>1. p \in Plan
  BY PlanTyped, PayablesAssumption DEF TypeInv, Plan, Ops, SettlementOps, NoPlan
<1>2. CASE settlement[s].life = "live" /\ CanMarkPaid(settlement[s]) /\ Begin(w, p)
  <2>1. Ready(p)
    BY <1>2, PayablesAssumption DEF Ready, Fits, Steady, Current, AdvanceCurrent, InvoiceCurrent, PaymentCurrent,
       Begin, NoPlan, Backed
  <2> QED
    BY <1>1, <1>2, <2>1 DEF Asked
<1> QED
  BY <1>2 DEF MarkPaid

----------------------------------------------------------------------------
(* What no request takes back *)

Frame ==
    /\ mix' = mix
    /\ \A s \in Settlements : settlement[s].life = "live" =>
         /\ settlement'[s].life = "live" /\ rows'[s] >= rows[s]
         /\ "amend" \notin mix => settlement'[s].due = settlement[s].due
    /\ \A o \in Orders : order[o].life # "absent" => order'[o].life # "absent"

PlansInv == \A w \in Workers : tx[w].stage # "idle" =>
    tx[w].op \in mix /\ Fits(tx[w]) /\ Steady(tx[w])

LEMMA DoneTypes ==
  ASSUME TypeInv, NEW w \in Workers, Done(w)
  PROVE  /\ mix' \in Mixes /\ begun' \in 0..MaxRequests /\ raced' \in BOOLEAN
         /\ tx' \in [Workers -> Plan] /\ mix' = mix
<1>1. NoPlan \in Plan
  BY PlanTyped DEF TypeInv
<1> QED
  BY <1>1 DEF TypeInv, TypeOK, Done

\* What the rows of the books are: their types, and that they refer to what is there.
Books ==
    /\ order \in [Orders -> OrderRow] /\ advance \in [Advances -> AdvanceRow]
    /\ invoice \in [Invoices -> InvoiceRow] /\ rows \in [Settlements -> Nat]
    /\ settlement \in [Settlements -> SettlementRow] /\ Named

LEMMA CommitKeeps ==
  ASSUME TypeInv, NEW w \in Workers, Done(w), moved' \in BOOLEAN, Books'
  PROVE  TypeInv'
BY DoneTypes DEF TypeInv, TypeOK, Books

LEMMA BooksHold == TypeInv => Books
BY DEF TypeInv, TypeOK, Books

LEMMA OrdersKeep ==
  ASSUME TypeInv, NEW w \in Workers, Done(w), UNCHANGED <<invoice, settlement, rows, moved>>,
         advance' \in [Advances -> AdvanceRow], order' \in [Orders -> OrderRow],
         \A a \in Advances : advance'[a].life = "live" => advance'[a].order \in Orders,
         \A o \in Orders : \/ order'[o].life = "absent" /\ order[o].life = "absent"
                               /\ order'[o].rate = order[o].rate
                           \/ order'[o].life # "absent"
  PROVE  TypeInv' /\ Frame
<1>1. Books
  BY BooksHold
<1>2. Books'
  BY <1>1 DEF Books, Named
<1>3. moved' \in BOOLEAN
  BY DEF TypeInv, TypeOK
<1>4. Frame
  BY <1>1, DoneTypes DEF Frame, Books
<1> QED
  BY <1>2, <1>3, <1>4, CommitKeeps

\* The row of a new order, and that of one with an advance added.
NewRow(total, rate, n) == [NoOrder EXCEPT !.life = "live", !.total = total, !.rate = rate,
                                          !.amount = n]
AddedRow(r, n, rate) == [r EXCEPT !.amount = @ + n, !.rate = IF rate = NoRate THEN @ ELSE rate]

LEMMA NewOrder ==
  ASSUME NEW total \in Nat, NEW rate \in Int, NEW n \in Int
  PROVE  /\ NewRow(total, rate, n) \in OrderRow /\ NewRow(total, rate, n).life = "live"
         /\ NewRow(total, rate, n).amount = n /\ NewRow(total, rate, n).applied = 0
         /\ NewRow(total, rate, n).rate = rate
<1>1. NoOrder \in OrderRow /\ NoOrder.applied = 0
  BY DEF NoOrder, OrderRow, Lives, NoRate
<1> QED
  BY <1>1 DEF OrderRow, Lives, NewRow

LEMMA AddedTo ==
  ASSUME NEW r \in OrderRow, NEW n \in Int, NEW rate \in Int
  PROVE  /\ AddedRow(r, n, rate) \in OrderRow /\ AddedRow(r, n, rate).life = r.life
         /\ AddedRow(r, n, rate).applied = r.applied /\ AddedRow(r, n, rate).amount = r.amount + n
         /\ AddedRow(r, n, rate).rate = IF rate = NoRate THEN r.rate ELSE rate
<1>1. r.amount + n \in Int /\ r.rate \in Int
  BY DEF OrderRow
<1> QED
  BY <1>1 DEF OrderRow, AddedRow

LEMMA NewAdvance ==
  ASSUME NEW o \in Orders, NEW n \in Nat
  PROVE  LET new == [life |-> "live", order |-> o, amount |-> n]
         IN  new \in AdvanceRow /\ new.order \in Orders
BY DEF AdvanceRow, Lives

LEMMA MakeOrderCommit ==
  ASSUME TypeInv, NEW w \in Workers, NEW o \in Orders, NEW a \in Advances, NEW total \in Totals,
         NEW rate \in Rates \cup {NoRate}, NEW n \in Amounts \cup {0}, MakeOrder(w, o, a, total, rate, n),
         Does(w, "order")
  PROVE  /\ TypeInv' /\ Frame /\ Done(w) /\ UNCHANGED <<invoice, settlement, rows, moved>>
         /\ order[o].life = "absent" /\ order'[o].life = "live" /\ n \in Nat
         /\ order'[o].amount = n /\ order'[o].applied = 0
         /\ \A x \in Orders \ {o} : order'[x] = order[x]
         /\ advance[a].life = "absent"
         /\ \/ n = 0 /\ advance' = advance
            \/ /\ \A b \in Advances \ {a} : advance'[b] = advance[b]
               /\ advance'[a].life = "live" /\ advance'[a].order = o /\ advance'[a].amount = n
<1> DEFINE row == NewRow(total, rate, n)
           new == [life |-> "live", order |-> o, amount |-> n]
<1>1. /\ Done(w) /\ order[o].life = "absent" /\ advance[a].life = "absent"
      /\ order' = [order EXCEPT ![o] = row]
      /\ advance' = IF n = 0 THEN advance ELSE [advance EXCEPT ![a] = new]
      /\ UNCHANGED <<invoice, settlement, rows, moved>>
  BY DEF MakeOrder, Does, Begin, NewRow
<1>2. total \in Nat /\ rate \in Int /\ n \in Nat /\ n \in Int
  BY Numbers
<1>3. NoOrder \in OrderRow /\ Books
  BY PlanTyped, BooksHold DEF TypeInv
<1>4. /\ row \in OrderRow /\ row.life = "live" /\ row.amount = n /\ row.applied = 0
      /\ new \in AdvanceRow /\ new.order \in Orders
  <2>1. row \in OrderRow /\ row.life = "live" /\ row.amount = n /\ row.applied = 0
    BY <1>2, NewOrder
  <2>2. new \in AdvanceRow /\ new.order \in Orders
    BY <1>2, NewAdvance
  <2> QED
    BY <2>1, <2>2
<1>5. new.life = "live" /\ new.order = o /\ new.amount = n
  OBVIOUS
<1> HIDE DEF row, new
<1>6. order' \in [Orders -> OrderRow] /\ advance' \in [Advances -> AdvanceRow]
  BY <1>1, <1>3, <1>4 DEF Books
<1>7. \A x \in Advances : advance'[x].life = "live" => advance'[x].order \in Orders
  BY <1>1, <1>3, <1>4 DEF Books, Named
<1>8. \A x \in Orders : \/ order'[x] = order[x] \/ order'[x].life # "absent"
  BY <1>1, <1>3, <1>4 DEF Books
<1>9. TypeInv' /\ Frame
  BY <1>1, <1>6, <1>7, <1>8, OrdersKeep
<1>10. order'[o] = row /\ \A x \in Orders \ {o} : order'[x] = order[x]
  BY <1>1, <1>3 DEF Books
<1>11. \/ n = 0 /\ advance' = advance
       \/ advance'[a] = new /\ \A b \in Advances \ {a} : advance'[b] = advance[b]
  BY <1>1, <1>3 DEF Books
<1> QED
  BY <1>1, <1>2, <1>4, <1>9, <1>10, <1>11, <1>5

LEMMA EditOrderCommit ==
  ASSUME TypeInv, PlansInv, NEW w \in Workers, NEW o \in Orders, NEW total \in Totals,
         NEW rate \in Rates \cup {NoRate}, NEW to \in {"keep", "set", "clear"},
         EditOrder(w, o, total, rate, to), Does(w, "editOrder")
  PROVE  /\ TypeInv' /\ Frame /\ Done(w) /\ UNCHANGED <<advance, invoice, settlement, rows, moved>>
         /\ \A x \in Orders : /\ order'[x].life = order[x].life /\ order'[x].amount = order[x].amount
                              /\ order'[x].applied = order[x].applied
                              /\ order'[x].rate = NoRate /\ order[x].rate # NoRate
                                   => order[x].amount <= 0
<1> DEFINE r == IF to = "keep" THEN order[o].rate ELSE IF to = "set" THEN rate
                ELSE IF Clears(o, tx[w].saw) THEN NoRate ELSE order[o].rate
           row == [order[o] EXCEPT !.total = total, !.status = "CONFIRMED", !.rate = r]
<1>1. /\ Done(w) /\ tx[w].order = o /\ tx[w].m = rate /\ tx[w].to = to /\ order' = [order EXCEPT ![o] = row]
      /\ UNCHANGED <<advance, invoice, settlement, rows, moved>>
  BY DEF EditOrder, Does, Begin
<1>2. total \in Nat /\ rate \in Int /\ NoRate \in Int
  BY Numbers DEF NoRate
<1>3. Books /\ order[o] \in OrderRow
  BY BooksHold DEF Books
<1>4. order[o].life # "absent"
  BY <1>1 DEF PlansInv, Steady, Does
<1>5. to = "set" => rate # NoRate
  BY <1>1 DEF PlansInv, Fits, Does
<1>6. r = NoRate /\ order[o].rate # NoRate => order[o].amount <= 0
  BY <1>5 DEF Clears
<1>7. /\ row \in OrderRow /\ row.life # "absent" /\ row.life = order[o].life
      /\ row.amount = order[o].amount /\ row.applied = order[o].applied /\ row.rate = r
  BY <1>2, <1>3, <1>4 DEF OrderRow
<1> HIDE DEF row, r
<1>8. order' \in [Orders -> OrderRow]
  BY <1>1, <1>3, <1>7 DEF Books
<1>9. \A x \in Orders : \/ order'[x] = order[x] \/ order'[x].life # "absent"
  BY <1>1, <1>3, <1>7 DEF Books
<1>10. TypeInv' /\ Frame
  BY <1>1, <1>3, <1>8, <1>9, OrdersKeep DEF Books, Named
<1>11. order'[o] = row /\ \A x \in Orders \ {o} : order'[x] = order[x]
  BY <1>1, <1>3 DEF Books
<1> QED
  BY <1>1, <1>7, <1>10, <1>6, <1>11

LEMMA EndOrderCommit ==
  ASSUME TypeInv, NEW w \in Workers, NEW o \in Orders, CancelOrder(w, o) \/ DeleteOrder(w, o),
         tx[w].stage = "open"
  PROVE  /\ TypeInv' /\ Frame /\ Done(w) /\ UNCHANGED <<advance, invoice, settlement, rows, moved>>
         /\ \A x \in Orders : /\ order'[x].life = order[x].life \/ order'[x].life # "absent"
                              /\ order'[x].amount = order[x].amount
                              /\ order'[x].applied = order[x].applied
                              /\ order'[x].rate = order[x].rate
<1>1. /\ Done(w) /\ UNCHANGED <<advance, invoice, settlement, rows, moved>>
      /\ \/ order' = [order EXCEPT ![o].status = "CANCELLED"]
         \/ order' = [order EXCEPT ![o].life = "deleted"]
  BY DEF CancelOrder, DeleteOrder, Begin
<1>2. Books /\ order[o] \in OrderRow
  BY BooksHold DEF Books
<1>3. /\ [order[o] EXCEPT !.status = "CANCELLED"] \in OrderRow
      /\ [order[o] EXCEPT !.life = "deleted"] \in OrderRow
  BY <1>2 DEF OrderRow, Lives
<1>4. order' \in [Orders -> OrderRow]
  BY <1>1, <1>2, <1>3 DEF Books
<1>5. \A x \in Orders : /\ order'[x].rate = order[x].rate /\ order'[x].amount = order[x].amount
                        /\ order'[x].applied = order[x].applied
                        /\ order'[x].life = order[x].life \/ order'[x].life # "absent"
  BY <1>1, <1>2 DEF Books, OrderRow
<1>6. TypeInv' /\ Frame
  BY <1>1, <1>2, <1>4, <1>5, OrdersKeep DEF Books, Named
<1> QED
  BY <1>1, <1>5, <1>6

LEMMA AddAdvanceCommit ==
  ASSUME TypeInv, PlansInv, NEW w \in Workers, NEW a \in Advances, NEW o \in Orders, NEW n \in Amounts,
         NEW rate \in Rates \cup {NoRate}, AddAdvance(w, a, o, n, rate), Does(w, "advance")
  PROVE  /\ TypeInv' /\ Frame /\ Done(w) /\ UNCHANGED <<invoice, settlement, rows, moved>>
         /\ n \in Nat /\ order[o].life # "absent" /\ order'[o].life = order[o].life
         /\ order'[o].amount = order[o].amount + n /\ order'[o].applied = order[o].applied
         /\ order'[o].rate = NoRate => order[o].rate = NoRate
         /\ \A x \in Orders \ {o} : order'[x] = order[x]
         /\ \A b \in Advances \ {a} : advance'[b] = advance[b]
         /\ advance[a].life = "absent" /\ advance'[a].life = "live" /\ advance'[a].order = o
         /\ advance'[a].amount = n
<1> DEFINE row == AddedRow(order[o], n, rate)
           new == [life |-> "live", order |-> o, amount |-> n]
<1>1. /\ Done(w) /\ tx[w].order = o /\ advance[a].life = "absent" /\ advance' = [advance EXCEPT ![a] = new]
      /\ order' = [order EXCEPT ![o] = row]
      /\ UNCHANGED <<invoice, settlement, rows, moved>>
  BY DEF AddAdvance, Does, Begin, AddedRow
<1>2. rate \in Int /\ n \in Nat /\ n \in Int
  BY Numbers
<1>3. Books /\ order[o] \in OrderRow
  BY BooksHold DEF Books
<1>4. order[o].life # "absent"
  BY <1>1 DEF PlansInv, Steady, Does
<1>5. /\ row \in OrderRow /\ row.life # "absent" /\ row.life = order[o].life
      /\ row.amount = order[o].amount + n /\ row.applied = order[o].applied
      /\ row.rate = IF rate = NoRate THEN order[o].rate ELSE rate
      /\ new \in AdvanceRow /\ new.order \in Orders
  <2>1. /\ row \in OrderRow /\ row.life # "absent" /\ row.life = order[o].life
        /\ row.amount = order[o].amount + n /\ row.applied = order[o].applied
        /\ row.rate = IF rate = NoRate THEN order[o].rate ELSE rate
    BY <1>2, <1>3, <1>4, AddedTo
  <2>2. new \in AdvanceRow /\ new.order \in Orders
    BY <1>2, NewAdvance
  <2> QED
    BY <2>1, <2>2
<1>6. new.life = "live" /\ new.order = o /\ new.amount = n
  OBVIOUS
<1> HIDE DEF row, new
<1>7. order' \in [Orders -> OrderRow] /\ advance' \in [Advances -> AdvanceRow]
  BY <1>1, <1>3, <1>5 DEF Books
<1>8. \A x \in Advances : advance'[x].life = "live" => advance'[x].order \in Orders
  BY <1>1, <1>3, <1>5 DEF Books, Named
<1>9. \A x \in Orders : \/ order'[x] = order[x] \/ order'[x].life # "absent"
  BY <1>1, <1>3, <1>5 DEF Books
<1>10. TypeInv' /\ Frame
  BY <1>1, <1>7, <1>8, <1>9, OrdersKeep
<1>11. order'[o] = row /\ \A x \in Orders \ {o} : order'[x] = order[x]
  BY <1>1, <1>3 DEF Books
<1>12. advance'[a] = new /\ \A b \in Advances \ {a} : advance'[b] = advance[b]
  BY <1>1, <1>3 DEF Books
<1> QED
  BY <1>1, <1>2, <1>4, <1>5, <1>6, <1>10, <1>11, <1>12

LEMMA EditAdvanceCommit ==
  ASSUME TypeInv, PlansInv, NEW w \in Workers, NEW a \in Advances, NEW n \in Amounts,
         NEW rate \in Rates \cup {NoRate}, EditAdvance(w, a, n, rate), Does(w, "editAdvance")
  PROVE  LET o == tx[w].order IN
         /\ TypeInv' /\ Frame /\ Done(w) /\ UNCHANGED <<invoice, settlement, rows, moved>>
         /\ tx[w].doc = a /\ tx[w].n = n /\ n \in Nat /\ o \in Orders
         /\ order[o].life # "absent" /\ order'[o].life = order[o].life
         /\ order'[o].amount = tx[w].saw.amount /\ order'[o].applied = order[o].applied
         /\ order'[o].rate = NoRate => order[o].rate = NoRate
         /\ \A x \in Orders \ {o} : order'[x] = order[x]
         /\ \A b \in Advances \ {a} : advance'[b] = advance[b]
         /\ advance'[a].life = advance[a].life /\ advance'[a].order = advance[a].order
         /\ advance'[a].amount = n
<1> DEFINE o == tx[w].order
           row == [order[o] EXCEPT !.amount = tx[w].saw.amount, !.rate = IF rate = NoRate THEN @ ELSE rate]
<1>1. /\ Done(w) /\ tx[w].doc = a /\ tx[w].n = n /\ advance' = [advance EXCEPT ![a].amount = n]
      /\ order' = [order EXCEPT ![o] = row]
      /\ UNCHANGED <<invoice, settlement, rows, moved>>
  BY DEF EditAdvance, Does, Begin
<1>2. rate \in Int /\ n \in Nat /\ n \in Int
  BY Numbers
<1>3. o \in Orders /\ order[o].life # "absent"
  BY DEF PlansInv, Steady, Fits, Does
<1>4. Books /\ order[o] \in OrderRow /\ tx[w].saw \in OrderRow /\ advance[a] \in AdvanceRow
  BY <1>3, BooksHold, PlanTyped DEF Books, TypeInv, Plan
<1> DEFINE m == tx[w].saw.amount
           q == IF rate = NoRate THEN order[o].rate ELSE rate
           new == [advance[a] EXCEPT !.amount = n]
<1>5. m \in Int /\ q \in Int /\ (q = NoRate => order[o].rate = NoRate)
  BY <1>2, <1>4 DEF OrderRow
<1>6. row = [order[o] EXCEPT !.amount = m, !.rate = q]
  OBVIOUS
<1> HIDE DEF m, q, row
<1>7. /\ row \in OrderRow /\ row.life # "absent" /\ row.life = order[o].life
      /\ row.amount = m /\ row.rate = q /\ row.applied = order[o].applied
  BY <1>4, <1>3, <1>5, <1>6 DEF OrderRow
<1>8. /\ new \in AdvanceRow /\ new.life = advance[a].life /\ new.order = advance[a].order
       /\ new.amount = n
  BY <1>2, <1>4 DEF AdvanceRow
<1>9. advance' = [advance EXCEPT ![a] = new] /\ order' = [order EXCEPT ![o] = row]
  BY <1>1, <1>6 DEF q, m
<1> HIDE DEF o, new
<1>10. order' \in [Orders -> OrderRow] /\ advance' \in [Advances -> AdvanceRow]
  BY <1>4, <1>3, <1>7, <1>8, <1>9 DEF Books
<1>11. \A x \in Advances : advance'[x].life = advance[x].life /\ advance'[x].order = advance[x].order
  BY <1>4, <1>8, <1>9 DEF Books
<1>12. \A x \in Orders : \/ order'[x] = order[x] \/ order'[x].life # "absent"
  BY <1>4, <1>3, <1>7, <1>9 DEF Books
<1>13. TypeInv' /\ Frame
  BY <1>1, <1>4, <1>10, <1>11, <1>12, OrdersKeep DEF Books, Named
<1>14. order'[o] = row /\ \A x \in Orders \ {o} : order'[x] = order[x]
  BY <1>4, <1>3, <1>9 DEF Books
<1>15. advance'[a] = new /\ \A b \in Advances \ {a} : advance'[b] = advance[b]
  BY <1>4, <1>9 DEF Books
<1> QED
  BY <1>1, <1>2, <1>3, <1>7, <1>5, <1>8, <1>13, <1>14, <1>15 DEF o, m

LEMMA DeleteAdvanceCommit ==
  ASSUME TypeInv, PlansInv, NEW w \in Workers, NEW a \in Advances, DeleteAdvance(w, a),
         Does(w, "deleteAdvance")
  PROVE  LET o == tx[w].order IN
         /\ TypeInv' /\ Frame /\ Done(w) /\ UNCHANGED <<invoice, settlement, rows, moved>>
         /\ tx[w].doc = a /\ o \in Orders
         /\ order[o].life # "absent" /\ order'[o].life = order[o].life
         /\ order'[o].amount = tx[w].saw.amount /\ order'[o].applied = order[o].applied
         /\ order'[o].rate = order[o].rate
         /\ \A x \in Orders \ {o} : order'[x] = order[x]
         /\ \A b \in Advances \ {a} : advance'[b] = advance[b]
         /\ advance'[a].life = "deleted"
<1> DEFINE o == tx[w].order
           row == [order[o] EXCEPT !.amount = tx[w].saw.amount]
<1>1. /\ Done(w) /\ advance' = [advance EXCEPT ![a].life = "deleted"] /\ a = tx[w].doc
      /\ order' = [order EXCEPT ![o] = row]
      /\ UNCHANGED <<invoice, settlement, rows, moved>>
  BY DEF DeleteAdvance, Does, Begin
<1>2. o \in Orders /\ order[o].life # "absent"
  BY DEF PlansInv, Steady, Fits, Does
<1>3. Books /\ order[o] \in OrderRow /\ tx[w].saw \in OrderRow /\ advance[a] \in AdvanceRow
  BY <1>2, BooksHold, PlanTyped DEF Books, TypeInv, Plan
<1>4. /\ row \in OrderRow /\ row.life # "absent" /\ row.life = order[o].life
      /\ row.amount = tx[w].saw.amount /\ row.rate = order[o].rate /\ row.applied = order[o].applied
      /\ [advance[a] EXCEPT !.life = "deleted"] \in AdvanceRow
  BY <1>3, <1>2 DEF OrderRow, AdvanceRow, Lives
<1> HIDE DEF row, o
<1>5. order' \in [Orders -> OrderRow] /\ advance' \in [Advances -> AdvanceRow]
  BY <1>1, <1>3, <1>2, <1>4 DEF Books
<1>6. \A x \in Advances : advance'[x].life = "live" => advance'[x].order \in Orders
  <2>1. advance'[a].life = "deleted" /\ \A x \in Advances \ {a} : advance'[x] = advance[x]
    BY <1>1, <1>3 DEF Books, AdvanceRow
  <2> QED
    BY <1>3, <2>1 DEF Books, Named
<1>7. \A x \in Orders : \/ order'[x] = order[x] \/ order'[x].life # "absent"
  BY <1>1, <1>3, <1>2, <1>4 DEF Books
<1>8. TypeInv' /\ Frame
  BY <1>1, <1>3, <1>5, <1>6, <1>7, OrdersKeep DEF Books, Named
<1>9. order'[o] = row /\ \A x \in Orders \ {o} : order'[x] = order[x]
  BY <1>1, <1>3, <1>2 DEF Books
<1>10. advance'[a].life = "deleted" /\ \A b \in Advances \ {a} : advance'[b] = advance[b]
  BY <1>1, <1>3 DEF Books, AdvanceRow
<1> QED
  BY <1>1, <1>2, <1>4, <1>8, <1>9, <1>10 DEF o

LEMMA InvoicesKeep ==
  ASSUME TypeInv, NEW w \in Workers, Done(w), UNCHANGED <<advance, settlement, rows>>,
         moved' \in BOOLEAN, order' \in [Orders -> OrderRow], invoice' \in [Invoices -> InvoiceRow],
         \A o \in Orders : order'[o].life = order[o].life /\ order'[o].rate = order[o].rate,
         \A i \in Invoices : invoice'[i].settlement \in {None, invoice[i].settlement}
  PROVE  TypeInv' /\ Frame
<1>1. Books
  BY BooksHold
<1>2. Books'
  BY <1>1 DEF Books, Named
<1>3. Frame
  BY <1>1, DoneTypes DEF Frame, Books
<1> QED
  BY <1>2, <1>3, CommitKeeps

\* What a bill, or giving a draw back, makes of the order's row.
Billed(r, n) == [r EXCEPT !.status = "COMPLETED", !.applied = @ + n]
Lessened(r, n) == [r EXCEPT !.applied = @ - n]
\* The row of a new invoice.
NewBill(o, total, n) == [NoInvoice EXCEPT !.life = "live", !.order = o, !.total = total, !.dp = n]

LEMMA BilledRow ==
  ASSUME NEW r \in OrderRow, NEW n \in Int
  PROVE  /\ Billed(r, n) \in OrderRow /\ Billed(r, n).life = r.life /\ Billed(r, n).rate = r.rate
         /\ Billed(r, n).amount = r.amount /\ Billed(r, n).applied = r.applied + n
         /\ Lessened(r, n) \in OrderRow /\ Lessened(r, n).life = r.life
         /\ Lessened(r, n).rate = r.rate
         /\ Lessened(r, n).amount = r.amount /\ Lessened(r, n).applied = r.applied - n
<1>1. r.applied + n \in Int /\ r.applied - n \in Int
  BY DEF OrderRow
<1> QED
  BY <1>1 DEF OrderRow, Billed, Lessened

LEMMA RestoredOrder ==
  ASSUME TypeInv, NEW o \in Orders, NEW n \in Int
  PROVE  LET new == Restored(o, n) IN
         /\ new \in [Orders -> OrderRow]
         /\ \A x \in Orders : /\ new[x].life = order[x].life /\ new[x].rate = order[x].rate
                              /\ new[x].amount = order[x].amount
                              /\ x # o => new[x] = order[x]
         /\ new[o].applied = order[o].applied - n
<1>1. Restored(o, n) = [order EXCEPT ![o] = Lessened(order[o], n)]
  BY DEF Restored, Lessened
<1>2. order \in [Orders -> OrderRow]
  BY BooksHold DEF Books
<1>3. order[o] \in OrderRow
  BY <1>2
<1> QED
  BY <1>1, <1>2, <1>3, BilledRow

\* What the commit of a bill makes of the books.
BillMade(I, o, total, draw) ==
    /\ invoice' = [i \in Invoices |-> IF i \notin I THEN invoice[i]
                                      ELSE NewBill(o, total, draw[i])]
    /\ o = None => order' = order
    /\ o # None => order' = [order EXCEPT ![o] = Billed(order[o], SumOver(draw, I))]

LEMMA BillDoes ==
  ASSUME TypeInv, NEW w \in Workers, NEW I \in SUBSET Invoices, NEW o \in Orders \cup {None},
         NEW total \in Totals, Bill(w, I, o, total), Does(w, "bill")
  PROVE  /\ Done(w) /\ tx[w].of = I /\ tx[w].order = o /\ UNCHANGED <<advance, settlement, rows, moved>>
         /\ \A i \in I : invoice[i].life = "absent"
         /\ o # None => order[o].life = "live"
         /\ \E draw \in [I -> 0..total] :
              Drawn(tx[w].saw, I, total, draw) /\ BillMade(I, o, total, draw)
<1>1. /\ Done(w) /\ tx[w].of = I /\ tx[w].order = o /\ UNCHANGED <<advance, settlement, rows, moved>>
      /\ \A i \in I : invoice[i].life = "absent"
      /\ o # None => order[o].life = "live"
      /\ \E draw \in [I -> 0..total] :
              /\ Drawn(tx[w].saw, I, total, draw)
              /\ invoice' = [i \in Invoices |-> IF i \notin I THEN invoice[i] ELSE
                              [NoInvoice EXCEPT !.life = "live", !.order = o, !.total = total,
                                                !.dp = draw[i]]]
              /\ order' = IF o = None THEN order
                          ELSE [order EXCEPT ![o].status = "COMPLETED",
                                             ![o].applied = @ + SumOver(draw, I)]
  BY DEF Bill, Does, Begin, Open
<1>2. PICK draw \in [I -> 0..total] :
              /\ Drawn(tx[w].saw, I, total, draw)
              /\ invoice' = [i \in Invoices |-> IF i \notin I THEN invoice[i] ELSE
                              [NoInvoice EXCEPT !.life = "live", !.order = o, !.total = total,
                                                !.dp = draw[i]]]
              /\ order' = IF o = None THEN order
                          ELSE [order EXCEPT ![o].status = "COMPLETED",
                                             ![o].applied = @ + SumOver(draw, I)]
  BY <1>1
<1>3. invoice' = [i \in Invoices |-> IF i \notin I THEN invoice[i] ELSE NewBill(o, total, draw[i])]
  BY <1>2 DEF NewBill
<1>4. /\ o = None => order' = order
      /\ o # None => order' = [order EXCEPT ![o] = Billed(order[o], SumOver(draw, I))]
  BY <1>2 DEF Billed
<1>5. BillMade(I, o, total, draw)
  BY <1>3, <1>4 DEF BillMade
<1> QED
  BY <1>1, <1>2, <1>5, Zenon

LEMMA NewInvoice ==
  ASSUME NEW o \in Orders \cup {None}, NEW total \in Nat, NEW n \in Nat
  PROVE  /\ NewBill(o, total, n) \in InvoiceRow /\ NewBill(o, total, n).life = "live"
         /\ NewBill(o, total, n).order = o /\ NewBill(o, total, n).dp = n
         /\ NewBill(o, total, n).settlement = None /\ NewBill(o, total, n).status = "Completed"
BY DEF NewBill, NoInvoice, InvoiceRow, Lives

LEMMA BillRows ==
  ASSUME TypeInv, NEW I \in SUBSET Invoices, NEW o \in Orders \cup {None}, NEW total \in Totals,
         NEW draw \in [I -> 0..total], BillMade(I, o, total, draw)
  PROVE  /\ invoice' \in [Invoices -> InvoiceRow] /\ \A i \in Invoices \ I : invoice'[i] = invoice[i]
         /\ \A i \in I : /\ invoice'[i].life = "live" /\ invoice'[i].order = o
                         /\ invoice'[i].dp = draw[i] /\ invoice'[i].settlement = None
         /\ SumOver(draw, I) \in Nat /\ IsFiniteSet(I) /\ \A i \in I : draw[i] \in Nat
         /\ order' \in [Orders -> OrderRow]
         /\ \A x \in Orders : /\ order'[x].life = order[x].life /\ order'[x].rate = order[x].rate
                              /\ order'[x].amount = order[x].amount
                              /\ order'[x].applied = IF x = o THEN order[x].applied + SumOver(draw, I)
                                                              ELSE order[x].applied
<1>1. total \in Nat
  BY Numbers
<1>2. \A i \in I : draw[i] \in Nat
  BY <1>1
<1>3. invoice \in [Invoices -> InvoiceRow]
  BY BooksHold DEF Books
<1>4. IsFiniteSet(I)
  BY FS_Subset, PayablesAssumption
<1>5. SumOver(draw, I) \in Nat
  BY <1>2, <1>4, SumOverNat
<1>6. \A i \in I : LET new == NewBill(o, total, draw[i]) IN
                     /\ new \in InvoiceRow /\ new.life = "live" /\ new.order = o
                     /\ new.dp = draw[i] /\ new.settlement = None
  <2>1. o \in Orders \cup {None}
    OBVIOUS
  <2>2. ASSUME NEW d \in Nat
        PROVE  LET new == NewBill(o, total, d) IN
               /\ new \in InvoiceRow /\ new.life = "live" /\ new.order = o
               /\ new.dp = d /\ new.settlement = None
    BY <1>1, <2>1, NewInvoice
  <2> QED
    BY <1>2, <2>2
<1>7. invoice' = [i \in Invoices |-> IF i \notin I THEN invoice[i] ELSE NewBill(o, total, draw[i])]
  BY DEF BillMade
<1>8. /\ invoice' \in [Invoices -> InvoiceRow] /\ \A i \in Invoices \ I : invoice'[i] = invoice[i]
      /\ \A i \in I : invoice'[i] = NewBill(o, total, draw[i])
  BY <1>3, <1>6, <1>7
<1> DEFINE n == SumOver(draw, I)
<1>9. n \in Int /\ order \in [Orders -> OrderRow] /\ None \notin Orders
  BY <1>5, BooksHold, PayablesAssumption DEF Books
<1>10. /\ o = None => order' = order
       /\ o # None => order' = [order EXCEPT ![o] = Billed(order[o], n)]
  BY DEF BillMade
<1> HIDE DEF n
<1>11. /\ order' \in [Orders -> OrderRow]
       /\ \A x \in Orders : /\ order'[x].life = order[x].life /\ order'[x].rate = order[x].rate
                            /\ order'[x].amount = order[x].amount
                            /\ order'[x].applied = IF x = o THEN order[x].applied + n
                                                            ELSE order[x].applied
  <2>1. CASE o # None
    <3>1. o \in Orders /\ order[o] \in OrderRow
      BY <1>9, <2>1
    <3>2. LET new == Billed(order[o], n) IN
          /\ new \in OrderRow /\ new.life = order[o].life /\ new.rate = order[o].rate
          /\ new.amount = order[o].amount /\ new.applied = order[o].applied + n
      BY <1>9, <3>1, BilledRow
    <3>3. order' = [order EXCEPT ![o] = Billed(order[o], n)]
      BY <1>10, <2>1
    <3> QED
      BY <1>9, <3>1, <3>2, <3>3
  <2>2. CASE o = None
    BY <1>9, <1>10, <2>2
  <2> QED
    BY <2>1, <2>2
<1> QED
  BY <1>2, <1>4, <1>5, <1>6, <1>8, <1>11 DEF n

LEMMA BillCommit ==
  ASSUME TypeInv, NEW w \in Workers, NEW I \in SUBSET Invoices, NEW o \in Orders \cup {None},
         NEW total \in Totals, Bill(w, I, o, total), Does(w, "bill")
  PROVE  TypeInv' /\ Frame /\ Done(w)
<1>1. PICK draw \in [I -> 0..total] : BillMade(I, o, total, draw)
  BY BillDoes
<1>2. /\ invoice' \in [Invoices -> InvoiceRow]
      /\ \A i \in Invoices \ I : invoice'[i] = invoice[i]
      /\ \A i \in I : invoice'[i].settlement = None
      /\ order' \in [Orders -> OrderRow]
      /\ \A x \in Orders : order'[x].life = order[x].life /\ order'[x].rate = order[x].rate
  BY <1>1, BillRows
<1>3. Done(w) /\ UNCHANGED <<advance, settlement, rows, moved>>
  BY BillDoes
<1>4. moved \in BOOLEAN
  BY DEF TypeInv, TypeOK
<1> QED
  BY <1>2, <1>3, <1>4, InvoicesKeep

\* Giving back what an invoice was seen to have drawn, or nothing.
LEMMA GivenBack ==
  ASSUME TypeInv, NEW saw \in InvoiceRow,
         order' = order \/ (saw.order # None /\ order' = Restored(saw.order, saw.dp))
  PROVE  /\ order' \in [Orders -> OrderRow]
         /\ \A o \in Orders : /\ order'[o].life = order[o].life /\ order'[o].rate = order[o].rate
                              /\ order'[o].amount = order[o].amount
                              /\ o # saw.order => order'[o] = order[o]
                              /\ o = saw.order /\ order' = Restored(saw.order, saw.dp)
                                   => order'[o].applied = order[o].applied - saw.dp
<1>1. order \in [Orders -> OrderRow]
  BY BooksHold DEF Books
<1>2. CASE saw.order # None /\ order' = Restored(saw.order, saw.dp)
  <2> DEFINE x == saw.order
             n == saw.dp
  <2>1. x \in Orders /\ n \in Int
    <3>1. x \in Orders \cup {None} /\ n \in Nat
      BY DEF InvoiceRow
    <3>2. x # None
      BY <1>2
    <3> HIDE DEF x, n
    <3> QED
      BY <3>1, <3>2
  <2>2. order' = Restored(x, n)
    BY <1>2
  <2> HIDE DEF x, n
  <2>3. /\ order' \in [Orders -> OrderRow]
        /\ \A o \in Orders : /\ order'[o].life = order[o].life /\ order'[o].rate = order[o].rate
                             /\ order'[o].amount = order[o].amount
                             /\ o # x => order'[o] = order[o]
        /\ order'[x].applied = order[x].applied - n
    BY <2>1, <2>2, RestoredOrder
  <2> QED
    BY <2>3 DEF x, n
<1>3. CASE order' = order /\ order' # Restored(saw.order, saw.dp)
  BY <1>1, <1>3
<1>4. CASE order' = order /\ saw.order = None
  BY <1>1, <1>4, PayablesAssumption
<1> QED
  BY <1>2, <1>3, <1>4

\* The row of an invoice after a cancellation, and after an edit.
Cancelled(r, to, gb) == [r EXCEPT !.status = IF to = None THEN @ ELSE to, !.dp = IF gb THEN 0 ELSE @]
Edited(r, to, o, total) == [r EXCEPT !.status = IF to = None THEN @ ELSE to, !.order = o,
                                     !.total = total]

LEMMA CancelledRow ==
  ASSUME NEW r \in InvoiceRow, NEW to \in {"CANCELLED", None}, NEW gb \in BOOLEAN
  PROVE  LET new == Cancelled(r, to, gb) IN
         /\ new \in InvoiceRow /\ new.life = r.life /\ new.order = r.order
         /\ new.settlement = r.settlement /\ (to = None => new.status = r.status)
         /\ new.dp = IF gb THEN 0 ELSE r.dp
BY DEF InvoiceRow, Cancelled

LEMMA EditedRow ==
  ASSUME NEW r \in InvoiceRow, NEW to \in {"Completed", None}, NEW o \in Orders \cup {None},
         NEW total \in Nat
  PROVE  LET new == Edited(r, to, o, total) IN
         /\ new \in InvoiceRow /\ new.life = r.life /\ new.order = o /\ new.dp = r.dp
         /\ new.settlement = r.settlement /\ (to = None => new.status = r.status)
<1> DEFINE st == IF to = None THEN r.status ELSE to
<1>1. st \in {"Completed", "Partially Paid", "Paid", "CANCELLED"} /\ (to = None => st = r.status)
  BY DEF InvoiceRow
<1>2. Edited(r, to, o, total) = [r EXCEPT !.status = st, !.order = o, !.total = total]
  BY DEF Edited
<1> HIDE DEF st
<1> QED
  BY <1>1, <1>2 DEF InvoiceRow

LEMMA CancelBillCommit ==
  ASSUME TypeInv, PlansInv, NEW w \in Workers, NEW i \in Invoices, CancelBill(w, i),
         Does(w, "cancelBill")
  PROVE  /\ TypeInv' /\ Frame /\ Done(w) /\ tx[w].of = {i}
         /\ UNCHANGED <<advance, settlement, rows, moved>>
         /\ \A j \in Invoices \ {i} : invoice'[j] = invoice[j]
         /\ LET saw == tx[w].sawInv[i] IN
            /\ saw \in InvoiceRow
            /\ invoice'[i].life = invoice[i].life /\ invoice'[i].order = invoice[i].order
            /\ invoice'[i].settlement = invoice[i].settlement
            /\ tx[w].to = None => invoice'[i].status = invoice[i].status
            /\ invoice'[i].dp = IF GivesBack(i, tx[w]) THEN 0 ELSE invoice[i].dp
            /\ order' = IF GivesBack(i, tx[w]) THEN Restored(saw.order, saw.dp) ELSE order
<1> DEFINE saw == tx[w].sawInv[i]
           gb  == GivesBack(i, tx[w])
           row == Cancelled(invoice[i], tx[w].to, gb)
<1>1. /\ Done(w) /\ tx[w].of = {i} /\ UNCHANGED <<advance, settlement, rows, moved>>
      /\ invoice' = [invoice EXCEPT ![i] = row]
      /\ order' = IF gb THEN Restored(saw.order, saw.dp) ELSE order
  BY DEF CancelBill, Does, Begin, Open, Cancelled
<1>2. /\ invoice \in [Invoices -> InvoiceRow] /\ invoice[i] \in InvoiceRow /\ saw \in InvoiceRow
      /\ moved \in BOOLEAN
  <2>1. tx[w] \in Plan
    BY PlanTyped DEF TypeInv
  <2> QED
    BY <2>1, BooksHold DEF Books, Plan, TypeInv, TypeOK
<1>3. tx[w].to \in {"CANCELLED", None}
  BY DEF PlansInv, Fits, Does
<1>4. gb \in BOOLEAN /\ (gb => saw.order # None)
  BY DEF GivesBack
<1>5. /\ row \in InvoiceRow /\ row.life = invoice[i].life /\ row.order = invoice[i].order
      /\ row.settlement = invoice[i].settlement /\ (tx[w].to = None => row.status = invoice[i].status)
      /\ row.dp = IF gb THEN 0 ELSE invoice[i].dp
  BY <1>2, <1>3, <1>4, CancelledRow, Zenon
<1> HIDE DEF row, saw, gb
<1>6. /\ invoice' \in [Invoices -> InvoiceRow] /\ invoice'[i] = row
      /\ \A j \in Invoices \ {i} : invoice'[j] = invoice[j]
  BY <1>1, <1>2, <1>5
<1>7. /\ order' \in [Orders -> OrderRow]
      /\ \A o \in Orders : order'[o].life = order[o].life /\ order'[o].rate = order[o].rate
  BY <1>1, <1>2, <1>4, GivenBack
<1>8. \A j \in Invoices : invoice'[j].settlement \in {None, invoice[j].settlement}
  BY <1>5, <1>6
<1>9. TypeInv' /\ Frame
  BY <1>1, <1>2, <1>6, <1>7, <1>8, InvoicesKeep
<1> QED
  BY <1>1, <1>2, <1>5, <1>6, <1>9 DEF saw, gb

LEMMA EditBillCommit ==
  ASSUME TypeInv, PlansInv, NEW w \in Workers, NEW i \in Invoices, NEW o \in Orders \cup {None},
         NEW total \in Totals, EditBill(w, i, o, total), Does(w, "editBill")
  PROVE  /\ TypeInv' /\ Frame /\ Done(w) /\ tx[w].of = {i}
         /\ UNCHANGED <<order, advance, settlement, rows>>
         /\ moved' = (moved \/ (invoice[i].dp # 0 /\ invoice[i].order # o))
         /\ \A j \in Invoices \ {i} : invoice'[j] = invoice[j]
         /\ invoice'[i].life = invoice[i].life /\ invoice'[i].order = o
         /\ invoice'[i].dp = invoice[i].dp /\ invoice'[i].settlement = invoice[i].settlement
         /\ tx[w].to = None => invoice'[i].status = invoice[i].status
<1> DEFINE row == Edited(invoice[i], tx[w].to, o, total)
<1>1. /\ Done(w) /\ tx[w].of = {i} /\ UNCHANGED <<order, advance, settlement, rows>>
      /\ invoice' = [invoice EXCEPT ![i] = row]
      /\ moved' = (moved \/ (invoice[i].dp # 0 /\ invoice[i].order # o))
  BY DEF EditBill, Does, Begin, Open, Edited
<1>2. /\ invoice \in [Invoices -> InvoiceRow] /\ invoice[i] \in InvoiceRow
      /\ order \in [Orders -> OrderRow] /\ moved \in BOOLEAN
  BY BooksHold DEF Books, TypeInv, TypeOK
<1>3. tx[w].to \in {"Completed", None}
  BY DEF PlansInv, Fits, Does
<1>4. total \in Nat /\ o \in Orders \cup {None}
  BY Numbers
<1>5. /\ row \in InvoiceRow /\ row.life = invoice[i].life /\ row.order = o /\ row.dp = invoice[i].dp
      /\ row.settlement = invoice[i].settlement /\ (tx[w].to = None => row.status = invoice[i].status)
  <2>1. \E r \in InvoiceRow : r = invoice[i]
    BY <1>2
  <2>2. PICK r \in InvoiceRow : r = invoice[i]
    BY <2>1
  <2>3. PICK to \in {"Completed", None} : to = tx[w].to
    BY <1>3
  <2>4. LET new == Edited(r, to, o, total) IN
        /\ new \in InvoiceRow /\ new.life = r.life /\ new.order = o /\ new.dp = r.dp
        /\ new.settlement = r.settlement /\ (to = None => new.status = r.status)
    BY <1>4, EditedRow, Zenon
  <2> QED
    BY <2>2, <2>3, <2>4
<1> HIDE DEF row
<1>6. /\ invoice' \in [Invoices -> InvoiceRow] /\ invoice'[i] = row
      /\ \A j \in Invoices \ {i} : invoice'[j] = invoice[j]
  BY <1>1, <1>2, <1>5
<1>7. \A j \in Invoices : invoice'[j].settlement \in {None, invoice[j].settlement}
  BY <1>5, <1>6
<1>8. moved' \in BOOLEAN
  BY <1>1, <1>2
<1>9. TypeInv' /\ Frame
  BY <1>1, <1>2, <1>6, <1>7, <1>8, InvoicesKeep
<1> QED
  BY <1>1, <1>5, <1>6, <1>9

LEMMA DeleteBillCommit ==
  ASSUME TypeInv, NEW w \in Workers, NEW i \in Invoices, DeleteBill(w, i), Does(w, "deleteBill")
  PROVE  /\ TypeInv' /\ Frame /\ Done(w) /\ tx[w].of = {i}
         /\ UNCHANGED <<advance, settlement, rows, moved>>
         /\ \A j \in Invoices \ {i} : invoice'[j] = invoice[j]
         /\ invoice'[i].life = "deleted" /\ invoice'[i].order = invoice[i].order
         /\ LET saw == tx[w].sawInv[i] IN
            /\ saw \in InvoiceRow
            /\ order' = IF saw.order # None /\ saw.dp > 0 THEN Restored(saw.order, saw.dp) ELSE order
<1> DEFINE saw == tx[w].sawInv[i]
           row == [invoice[i] EXCEPT !.life = "deleted", !.dp = 0]
<1>1. /\ Done(w) /\ tx[w].of = {i} /\ UNCHANGED <<advance, settlement, rows, moved>>
      /\ invoice' = [invoice EXCEPT ![i] = row]
      /\ order' = IF saw.order # None /\ saw.dp > 0 THEN Restored(saw.order, saw.dp) ELSE order
  BY DEF DeleteBill, Does, Begin, Open
<1>2. /\ invoice \in [Invoices -> InvoiceRow] /\ invoice[i] \in InvoiceRow /\ saw \in InvoiceRow
      /\ moved \in BOOLEAN
  <2>1. tx[w] \in Plan
    BY PlanTyped DEF TypeInv
  <2> QED
    BY <2>1, BooksHold DEF Books, Plan, TypeInv, TypeOK
<1>3. row \in InvoiceRow /\ row.life = "deleted" /\ row.order = invoice[i].order /\ row.settlement = invoice[i].settlement
  BY <1>2 DEF InvoiceRow, Lives
<1> HIDE DEF row, saw
<1>4. /\ invoice' \in [Invoices -> InvoiceRow] /\ invoice'[i] = row
      /\ \A j \in Invoices \ {i} : invoice'[j] = invoice[j]
  BY <1>1, <1>2, <1>3
<1>5. /\ order' \in [Orders -> OrderRow]
      /\ \A o \in Orders : order'[o].life = order[o].life /\ order'[o].rate = order[o].rate
  BY <1>1, <1>2, GivenBack
<1>6. \A j \in Invoices : invoice'[j].settlement \in {None, invoice[j].settlement}
  BY <1>3, <1>4
<1>7. TypeInv' /\ Frame
  BY <1>1, <1>2, <1>4, <1>5, <1>6, InvoicesKeep
<1> QED
  BY <1>1, <1>2, <1>3, <1>4, <1>7 DEF saw

LEMMA PaymentsKeep ==
  ASSUME TypeInv, NEW w \in Workers, Done(w), UNCHANGED <<order, advance, moved>>,
         settlement' \in [Settlements -> SettlementRow], rows' \in [Settlements -> Nat],
         invoice' \in [Invoices -> InvoiceRow],
         \A s \in Settlements : settlement[s].life = "live" =>
           /\ settlement'[s].life = "live" /\ rows'[s] >= rows[s]
           /\ "amend" \notin mix => settlement'[s].due = settlement[s].due,
         \A i \in Invoices : invoice'[i].settlement # None =>
           settlement'[invoice'[i].settlement].life = "live"
  PROVE  TypeInv' /\ Frame
<1>1. Books
  BY BooksHold
<1>2. Books'
  BY <1>1 DEF Books, Named
<1>3. Frame
  BY <1>1, DoneTypes DEF Frame, Books
<1>4. moved' \in BOOLEAN
  BY DEF TypeInv, TypeOK
<1> QED
  BY <1>2, <1>3, <1>4, CommitKeeps

\* The row of a new settlement, and that of an invoice it settles.
NewPayment(due, n) == [NoSettlement EXCEPT !.life = "live", !.due = due, !.paid = n,
                                           !.payment = Paying(n >= due)]
Linked(r, s, full, total) == [r EXCEPT !.settlement = s, !.status = Marked(full), !.total = total]

LEMMA NewPaymentRow ==
  ASSUME NEW due \in Nat, NEW n \in Nat
  PROVE  LET new == NewPayment(due, n) IN
         /\ new \in SettlementRow /\ new.life = "live" /\ new.due = due /\ new.paid = n
         /\ new.writeOff = 0 /\ new.payment = Paying(n >= due)
<1> DEFINE full == Paying(n >= due)
<1>1. full \in {"PAID", "PARTIAL"}
  BY DEF Paying
<1>2. NewPayment(due, n) = [NoSettlement EXCEPT !.life = "live", !.due = due, !.paid = n, !.payment = full]
  BY DEF NewPayment
<1> HIDE DEF full
<1>3. /\ [NoSettlement EXCEPT !.life = "live", !.due = due, !.paid = n, !.payment = full] \in SettlementRow
  BY <1>1 DEF NoSettlement, SettlementRow, Lives
<1> QED
  BY <1>1, <1>2, <1>3 DEF full, NoSettlement

LEMMA LinkedRow ==
  ASSUME NEW r \in InvoiceRow, NEW s \in Settlements, NEW full \in BOOLEAN, NEW total \in Nat
  PROVE  LET new == Linked(r, s, full, total) IN
         /\ new \in InvoiceRow /\ new.life = r.life /\ new.order = r.order /\ new.dp = r.dp
         /\ new.settlement = s /\ new.status = Marked(full)
<1> DEFINE st == Marked(full)
<1>1. st \in {"Paid", "Partially Paid"}
  BY DEF Marked
<1>2. Linked(r, s, full, total) = [r EXCEPT !.settlement = s, !.status = st, !.total = total]
  BY DEF Linked
<1> HIDE DEF st
<1> QED
  BY <1>1, <1>2 DEF InvoiceRow, st

\* What a settlement's invoices still owed as its request read them.
LEMMA DueNat ==
  ASSUME TypeInv, PlansInv, NEW w \in Workers, Does(w, "settle")
  PROVE  /\ Owed(tx[w]) - tx[w].m \in Nat /\ tx[w].n \in Nat /\ tx[w].m \in Nat
         /\ tx[w].of \in SUBSET Invoices /\ IsFiniteSet(tx[w].of) /\ tx[w].of # {}
         /\ \A i \in tx[w].of : tx[w].sawInv[i] \in InvoiceRow /\ tx[w].m <= tx[w].sawInv[i].total
<1> DEFINE p == tx[w]
           f == [i \in p.of |-> p.sawInv[i].total - p.sawInv[i].dp]
<1>1. p \in Plan /\ Fits(p) /\ p.op = "settle"
  BY PlanTyped DEF TypeInv, PlansInv, Does
<1>2. /\ p.of \in SUBSET Invoices /\ p.n \in Int /\ p.m \in Int /\ p.sawInv \in [Invoices -> InvoiceRow]
  BY <1>1 DEF Plan
<1>3. /\ p.of # {} /\ p.m \in Nat /\ (\A i \in p.of : p.m <= p.sawInv[i].total)
      /\ Initial(p.n, Owed(p) - p.m)
  BY <1>1 DEF Fits
<1> HIDE DEF p
<1>4. IsFiniteSet(p.of)
  BY <1>2, FS_Subset, PayablesAssumption
<1>5. \A i \in p.of : p.sawInv[i] \in InvoiceRow
  BY <1>2
<1>6. \A i \in p.of : f[i] \in Int
  <2> TAKE i \in p.of
  <2>1. p.sawInv[i].total \in Nat /\ p.sawInv[i].dp \in Nat
    BY <1>5 DEF InvoiceRow
  <2>2. f[i] = p.sawInv[i].total - p.sawInv[i].dp
    OBVIOUS
  <2> HIDE DEF f
  <2> QED
    BY <2>1, <2>2
<1> HIDE DEF f
<1>7. SumOver(f, p.of) \in Int
  BY <1>4, <1>6, SumOverInt
<1>8. Owed(p) \in Int
  BY <1>7 DEF Owed, f
<1>9. Owed(p) - p.m \in Nat /\ p.n \in Nat
  BY <1>2, <1>3, <1>8 DEF Initial
<1> QED
  BY <1>2, <1>3, <1>4, <1>5, <1>9 DEF p

LEMMA SettleCommit ==
  ASSUME TypeInv, PlansInv, NEW w \in Workers, NEW s \in Settlements, NEW I \in SUBSET Invoices,
         NEW n \in Amounts \cup {0}, NEW rebate \in Rebates, Settle(w, s, I, n, rebate),
         Does(w, "settle")
  PROVE  /\ TypeInv' /\ Frame /\ Done(w) /\ tx[w].of = I /\ UNCHANGED <<order, advance, moved>>
         /\ \A t \in Settlements \ {s} : settlement'[t] = settlement[t] /\ rows'[t] = rows[t]
         /\ settlement[s].life = "absent" /\ rows'[s] = n /\ settlement'[s].paid = n
         /\ settlement'[s].writeOff = 0 /\ n <= settlement'[s].due
         /\ settlement'[s].payment = Paying(n >= settlement'[s].due)
         /\ settlement'[s].due \in Nat /\ n \in Nat
         /\ \A i \in Invoices : \/ invoice'[i] = invoice[i] /\ (i \notin I \/ invoice[i].life # "live")
                                \/ /\ invoice'[i].life = invoice[i].life /\ invoice'[i].settlement = s
                                   /\ invoice'[i].order = invoice[i].order
                                   /\ invoice'[i].dp = invoice[i].dp
                                   /\ invoice'[i].status = Marked(n >= settlement'[s].due)
<1> DEFINE due == Owed(tx[w]) - rebate
           full == n >= due
           new == NewPayment(due, n)
           Tot(i) == IF rebate = 0 THEN invoice[i].total ELSE tx[w].sawInv[i].total - Share(I, i, rebate)
           Row(i) == Linked(invoice[i], s, full, Tot(i))
           gone(i) == i \notin I \/ (rebate = 0 /\ invoice[i].life # "live")
<1>1. /\ Done(w) /\ tx[w].of = I /\ tx[w].n = n /\ tx[w].m = rebate /\ settlement[s].life = "absent"
      /\ settlement' = [settlement EXCEPT ![s] = new] /\ rows' = [rows EXCEPT ![s] = n]
      /\ invoice' = [i \in Invoices |-> IF gone(i) THEN invoice[i] ELSE Row(i)]
      /\ UNCHANGED <<order, advance, moved>>
  <2> USE DEF Settle, Does, Begin
  <2>1. /\ Done(w) /\ tx[w].of = I /\ tx[w].n = n /\ tx[w].m = rebate /\ settlement[s].life = "absent"
        /\ rows' = [rows EXCEPT ![s] = n] /\ UNCHANGED <<order, advance, moved>>
    OBVIOUS
  <2>2. settlement' = [settlement EXCEPT ![s] = new]
    BY DEF NewPayment
  <2>3. invoice' = [i \in Invoices |-> IF gone(i) THEN invoice[i] ELSE Row(i)]
    BY DEF Linked
  <2> QED
    BY <2>1, <2>2, <2>3
<1>2. /\ due \in Nat /\ n \in Nat /\ rebate \in Nat /\ IsFiniteSet(I) /\ I # {}
      /\ \A i \in I : tx[w].sawInv[i] \in InvoiceRow /\ rebate <= tx[w].sawInv[i].total
      /\ n <= due
  <2>1. Initial(n, due)
    BY <1>1 DEF PlansInv, Fits, Does
  <2> QED
    BY <1>1, <2>1, DueNat DEF Initial
<1>3. /\ new \in SettlementRow /\ new.life = "live" /\ new.due = due /\ new.paid = n
      /\ new.writeOff = 0 /\ new.payment = Paying(full)
  BY <1>2, NewPaymentRow
<1> HIDE DEF due, new
<1>4. Books
  BY BooksHold
<1>5. ASSUME NEW i \in I PROVE Tot(i) \in Nat
  <2>1. Share(I, i, rebate) \in 0..rebate
    BY <1>2, ShareBounds
  <2>2. tx[w].sawInv[i].total \in Nat /\ invoice[i].total \in Nat
    BY <1>2, <1>4 DEF Books, InvoiceRow
  <2> HIDE DEF Share
  <2>3. rebate <= tx[w].sawInv[i].total
    BY <1>2
  <2> QED
    BY <1>2, <2>1, <2>2, <2>3
<1>6. \A i \in I : /\ Row(i) \in InvoiceRow /\ Row(i).life = invoice[i].life
                   /\ Row(i).settlement = s /\ Row(i).order = invoice[i].order
                   /\ Row(i).dp = invoice[i].dp /\ Row(i).status = Marked(full)
  <2> TAKE i \in I
  <2>1. invoice[i] \in InvoiceRow /\ Tot(i) \in Nat /\ full \in BOOLEAN
    BY <1>2, <1>4, <1>5 DEF Books
  <2> HIDE DEF Tot, full
  <2> QED
    BY <2>1, LinkedRow
<1> HIDE DEF Row, full
<1>7. \A i \in Invoices : invoice'[i] = IF gone(i) THEN invoice[i] ELSE Row(i)
  BY <1>1
<1>8. invoice' \in [Invoices -> InvoiceRow]
  BY <1>1, <1>4, <1>6 DEF Books
<1>9. /\ settlement' \in [Settlements -> SettlementRow] /\ settlement'[s] = new
      /\ rows' \in [Settlements -> Nat] /\ rows'[s] = n
      /\ \A t \in Settlements \ {s} : settlement'[t] = settlement[t] /\ rows'[t] = rows[t]
  BY <1>1, <1>2, <1>3, <1>4 DEF Books
<1>10. \A t \in Settlements : settlement[t].life = "live" =>
           /\ settlement'[t].life = "live" /\ rows'[t] >= rows[t]
           /\ "amend" \notin mix => settlement'[t].due = settlement[t].due
  <2> SUFFICES ASSUME NEW t \in Settlements, settlement[t].life = "live"
               PROVE  settlement'[t] = settlement[t] /\ rows'[t] = rows[t] /\ rows[t] \in Nat
    OBVIOUS
  <2>1. t # s
    BY <1>1
  <2> QED
    BY <1>4, <1>9, <2>1 DEF Books
<1>11. \A i \in Invoices : \/ invoice'[i] = invoice[i] /\ (i \notin I \/ invoice[i].life # "live")
                           \/ i \in I /\ invoice'[i] = Row(i)
  BY <1>7
<1>12. \A i \in Invoices : invoice'[i].settlement # None =>
           settlement'[invoice'[i].settlement].life = "live"
  <2> TAKE i \in Invoices
  <2>1. CASE i \in I /\ invoice'[i] = Row(i)
    BY <1>3, <1>6, <1>9, <2>1
  <2>2. CASE invoice'[i] = invoice[i]
    <3> SUFFICES ASSUME invoice[i].settlement # None
                 PROVE  settlement'[invoice[i].settlement].life = "live"
      BY <2>2
    <3>1. invoice[i].settlement \in Settlements
      BY <1>4 DEF Books, InvoiceRow
    <3>2. settlement[invoice[i].settlement].life = "live"
      BY <1>4 DEF Books, Named
    <3> QED
      BY <1>10, <3>1, <3>2
  <2> QED
    BY <1>11, <2>1, <2>2
<1>13. TypeInv' /\ Frame
  BY <1>1, <1>8, <1>9, <1>10, <1>12, PaymentsKeep
<1>14. \A i \in Invoices : \/ invoice'[i] = invoice[i] /\ (i \notin I \/ invoice[i].life # "live")
                           \/ /\ invoice'[i].life = invoice[i].life /\ invoice'[i].settlement = s
                              /\ invoice'[i].order = invoice[i].order
                              /\ invoice'[i].dp = invoice[i].dp
                              /\ invoice'[i].status = Marked(n >= due)
  BY <1>6, <1>11 DEF full
<1> QED
  BY <1>1, <1>2, <1>3, <1>9, <1>13, <1>14 DEF full

LEMMA AllPaidRows ==
  ASSUME TypeInv, NEW s \in Settlements
  PROVE  /\ AllPaid(s) \in [Invoices -> InvoiceRow]
         /\ \A i \in Invoices : LET new == AllPaid(s)[i] IN
               /\ new.life = invoice[i].life /\ new.settlement = invoice[i].settlement
               /\ new.order = invoice[i].order /\ new.dp = invoice[i].dp
               /\ IF invoice[i].settlement = s /\ invoice[i].life = "live"
                  THEN new.status = "Paid" ELSE new = invoice[i]
<1>1. \A i \in Invoices : invoice[i] \in InvoiceRow
  BY BooksHold DEF Books
<1>2. \A i \in Invoices : LET row == [invoice[i] EXCEPT !.status = "Paid"] IN
         /\ row \in InvoiceRow /\ row.life = invoice[i].life /\ row.settlement = invoice[i].settlement
         /\ row.order = invoice[i].order /\ row.dp = invoice[i].dp /\ row.status = "Paid"
  BY <1>1 DEF InvoiceRow
<1> QED
  BY <1>1, <1>2 DEF AllPaid

LEMMA AmendCommit ==
  ASSUME TypeInv, PlansInv, NEW w \in Workers, NEW s \in Settlements, NEW due \in Amounts,
         NEW to \in {"COMPLETED", "CANCELLED"}, Amend(w, s, due, to), Does(w, "amend")
  PROVE  /\ TypeInv' /\ Frame /\ Done(w) /\ UNCHANGED <<order, advance, invoice, rows, moved>>
         /\ \A t \in Settlements : /\ settlement'[t].paid = settlement[t].paid
                                   /\ settlement'[t].writeOff = settlement[t].writeOff
                                   /\ settlement'[t].payment = settlement[t].payment
<1> DEFINE row == [settlement[s] EXCEPT !.due = due, !.status = to]
<1>1. /\ Done(w) /\ UNCHANGED <<order, advance, invoice, rows, moved>>
      /\ settlement' = [settlement EXCEPT ![s] = row]
  BY DEF Amend, Does, Begin
<1>2. "amend" \in mix
  BY DEF PlansInv, Does
<1>3. Books /\ settlement[s] \in SettlementRow /\ due \in Nat
  BY BooksHold, Numbers DEF Books
<1>4. /\ row \in SettlementRow /\ row.life = settlement[s].life
      /\ row.paid = settlement[s].paid /\ row.writeOff = settlement[s].writeOff
      /\ row.payment = settlement[s].payment
  BY <1>3 DEF SettlementRow
<1> HIDE DEF row
<1>5. /\ settlement' \in [Settlements -> SettlementRow]
      /\ \A t \in Settlements : /\ settlement'[t].paid = settlement[t].paid
                                /\ settlement'[t].life = settlement[t].life
                                /\ settlement'[t].writeOff = settlement[t].writeOff
                                /\ settlement'[t].payment = settlement[t].payment
  BY <1>1, <1>3, <1>4 DEF Books
<1>6. \A t \in Settlements : settlement[t].life = "live" =>
           /\ settlement'[t].life = "live" /\ rows'[t] >= rows[t]
           /\ "amend" \notin mix => settlement'[t].due = settlement[t].due
  BY <1>1, <1>2, <1>3, <1>5 DEF Books
<1>7. \A i \in Invoices : invoice'[i].settlement # None =>
           settlement'[invoice'[i].settlement].life = "live"
  BY <1>1, <1>3, <1>5 DEF Books, Named, InvoiceRow
<1>8. TypeInv' /\ Frame
  BY <1>1, <1>3, <1>5, <1>6, <1>7, PaymentsKeep DEF Books
<1> QED
  BY <1>1, <1>5, <1>8

\* A change of one settlement's row that keeps its life and what is due.
LEMMA OnePaymentKeeps ==
  ASSUME TypeInv, NEW w \in Workers, Done(w), UNCHANGED <<order, advance, moved>>,
         NEW s \in Settlements, NEW row \in SettlementRow, NEW n \in Nat,
         row.life = settlement[s].life, row.due = settlement[s].due,
         settlement' = [settlement EXCEPT ![s] = row],
         rows' = [rows EXCEPT ![s] = rows[s] + n],
         invoice' = invoice \/ invoice' = AllPaid(s)
  PROVE  TypeInv' /\ Frame
<1>1. Books
  BY BooksHold
<1>2. settlement' \in [Settlements -> SettlementRow] /\ rows' \in [Settlements -> Nat]
  BY <1>1 DEF Books
<1>3. /\ invoice' \in [Invoices -> InvoiceRow]
      /\ \A i \in Invoices : invoice'[i].settlement = invoice[i].settlement
  BY <1>1, AllPaidRows DEF Books
<1>4. \A t \in Settlements : /\ settlement'[t].life = settlement[t].life /\ rows'[t] >= rows[t]
                             /\ settlement'[t].due = settlement[t].due
  BY <1>1 DEF Books
<1>5. \A i \in Invoices : invoice'[i].settlement # None =>
           settlement'[invoice'[i].settlement].life = "live"
  <2> SUFFICES ASSUME NEW i \in Invoices, invoice[i].settlement # None
               PROVE  settlement'[invoice[i].settlement].life = "live"
    BY <1>3
  <2>1. invoice[i].settlement \in Settlements
    BY <1>1 DEF Books, InvoiceRow
  <2>2. settlement[invoice[i].settlement].life = "live"
    BY <1>1 DEF Books, Named
  <2> QED
    BY <1>4, <2>1, <2>2
<1> QED
  BY <1>2, <1>3, <1>4, <1>5, PaymentsKeep

LEMMA PayCommit ==
  ASSUME TypeInv, PlansInv, NEW w \in Workers, NEW s \in Settlements, NEW n \in Amounts,
         Pay(w, s, n), Does(w, "pay")
  PROVE  LET full == Full(tx[w].seen, n) IN
         /\ TypeInv' /\ Frame /\ Done(w) /\ UNCHANGED <<order, advance, moved>>
         /\ tx[w].doc = s /\ tx[w].n = n /\ n \in Nat /\ tx[w].seen \in SettlementRow
         /\ invoice' = IF full THEN AllPaid(s) ELSE invoice
         /\ \A t \in Settlements \ {s} : settlement'[t] = settlement[t] /\ rows'[t] = rows[t]
         /\ rows'[s] = rows[s] + n /\ settlement'[s].paid = tx[w].seen.paid + n
         /\ settlement'[s].due = settlement[s].due
         /\ settlement'[s].writeOff = settlement[s].writeOff
         /\ settlement'[s].payment = Paying(full)
<1> DEFINE full == Full(tx[w].seen, n)
           pay == Paying(full)
           paid == tx[w].seen.paid + n
           row == [settlement[s] EXCEPT !.paid = paid, !.payment = pay]
<1>1. /\ Done(w) /\ UNCHANGED <<order, advance, moved>> /\ tx[w].doc = s /\ tx[w].n = n
      /\ settlement' = [settlement EXCEPT ![s] = row]
      /\ rows' = [rows EXCEPT ![s] = rows[s] + n]
      /\ invoice' = IF full THEN AllPaid(s) ELSE invoice
  BY DEF Pay, Does, Begin, Recorded
<1>2. tx[w].seen \in SettlementRow
  BY PlanTyped DEF TypeInv, Plan
<1>3. Books /\ settlement[s] \in SettlementRow /\ n \in Nat
  BY BooksHold, Numbers DEF Books
<1>4. paid \in Nat /\ pay \in {"PAID", "PARTIAL"}
  BY <1>2, <1>3 DEF SettlementRow, Paying
<1> HIDE DEF paid, pay, full
<1>5. /\ row \in SettlementRow /\ row.life = settlement[s].life
      /\ row.paid = paid /\ row.writeOff = settlement[s].writeOff
      /\ row.payment = pay /\ row.due = settlement[s].due
  BY <1>3, <1>4 DEF SettlementRow
<1> HIDE DEF row
<1>6. TypeInv' /\ Frame
  BY <1>1, <1>3, <1>5, OnePaymentKeeps
<1>7. /\ \A t \in Settlements \ {s} : settlement'[t] = settlement[t] /\ rows'[t] = rows[t]
      /\ settlement'[s] = row /\ rows'[s] = rows[s] + n
  BY <1>1, <1>3 DEF Books
<1> QED
  BY <1>1, <1>2, <1>3, <1>5, <1>6, <1>7 DEF full, pay, paid

LEMMA MarkPaidCommit ==
  ASSUME TypeInv, PlansInv, NEW w \in Workers, NEW s \in Settlements, MarkPaid(w, s),
         Does(w, "markPaid")
  PROVE  /\ TypeInv' /\ Frame /\ Done(w) /\ UNCHANGED <<order, advance, rows, moved>>
         /\ tx[w].doc = s /\ tx[w].seen \in SettlementRow
         /\ invoice' = AllPaid(s)
         /\ \A t \in Settlements \ {s} : settlement'[t] = settlement[t]
         /\ settlement'[s].paid = settlement[s].paid /\ settlement'[s].due = settlement[s].due
         /\ settlement'[s].writeOff = tx[w].seen.writeOff + Outstanding(tx[w].seen)
         /\ settlement'[s].payment = "PAID" /\ CanMarkPaid(tx[w].seen)
         /\ Outstanding(tx[w].seen) \in Nat
<1> DEFINE out == Outstanding(tx[w].seen)
           off == tx[w].seen.writeOff + out
           row == [settlement[s] EXCEPT !.payment = "PAID", !.writeOff = off]
<1>1. /\ Done(w) /\ UNCHANGED <<order, advance, rows, moved>> /\ tx[w].doc = s
      /\ settlement' = [settlement EXCEPT ![s] = row]
      /\ invoice' = AllPaid(s)
  BY DEF MarkPaid, Does, Begin
<1>2. tx[w].seen \in SettlementRow
  BY PlanTyped DEF TypeInv, Plan
<1>3. Books /\ settlement[s] \in SettlementRow /\ rows \in [Settlements -> Nat]
  BY BooksHold DEF Books
<1>4. CanMarkPaid(tx[w].seen)
  BY DEF PlansInv, Fits, Does
<1> HIDE DEF off
<1>5. out \in Nat
  BY <1>4 DEF CanMarkPaid
<1> HIDE DEF out
<1>6. off \in Nat
  BY <1>2, <1>5 DEF off, SettlementRow
<1>7. /\ row \in SettlementRow /\ row.life = settlement[s].life
      /\ row.paid = settlement[s].paid /\ row.writeOff = off
      /\ row.payment = "PAID" /\ row.due = settlement[s].due
  BY <1>3, <1>6 DEF SettlementRow
<1> HIDE DEF row
<1>8. rows' = [rows EXCEPT ![s] = rows[s] + 0]
  BY <1>1, <1>3
<1>9. TypeInv' /\ Frame
  BY <1>1, <1>3, <1>7, <1>8, OnePaymentKeeps
<1>10. /\ \A t \in Settlements \ {s} : settlement'[t] = settlement[t]
       /\ settlement'[s] = row
  BY <1>1, <1>3 DEF Books
<1> QED
  BY <1>1, <1>2, <1>4, <1>5, <1>7, <1>9, <1>10 DEF out, off

----------------------------------------------------------------------------
(* The accounts while no two requests overlap *)

Ledger == \A o \in Orders : order[o].amount = Advanced(o)
Draws  == ~moved => \A o \in Orders : /\ order[o].applied = Stamped(o)
                                      /\ order[o].applied <= order[o].amount
Fresh  == \A o \in Orders : order[o].life = "absent" =>
              /\ order[o].amount = 0 /\ order[o].applied = 0
              /\ \A i \in Invoices : invoice[i].order # o
Matched == \A s \in Settlements : settlement[s].paid = rows[s]
Followed == \A i \in Invoices :
        invoice[i].life = "live" /\ invoice[i].settlement # None
        => IF settlement[invoice[i].settlement].payment = "PAID"
           THEN invoice[i].status = "Paid"
           ELSE invoice[i].status \in {"Partially Paid", "Paid"}
Accounts == Ledger /\ Draws /\ Fresh /\ Matched /\ Followed

LEMMA PaidNat ==
  ASSUME TypeInv, NEW o
  PROVE  \A a \in Advances : Paid(a, o) \in Nat
BY BooksHold DEF Books, Paid, AdvanceRow

LEMMA StampNat ==
  ASSUME TypeInv, NEW o
  PROVE  \A i \in Invoices : Stamp(i, o) \in Nat
BY BooksHold DEF Books, Stamp, InvoiceRow

\* One row of the ledger changes what is advanced by as much as it changes.
LEMMA AdvancedChange ==
  ASSUME TypeInv, TypeInv', NEW o, NEW a \in Advances,
         \A b \in Advances \ {a} : advance'[b] = advance[b]
  PROVE  Advanced(o)' = Advanced(o) + (Paid(a, o)' - Paid(a, o)) /\ Advanced(o) \in Nat
<1> DEFINE f == [b \in Advances |-> Paid(b, o)]
           g == [b \in Advances |-> Paid(b, o)']
<1>1. /\ \A b \in Advances : f[b] = Paid(b, o) /\ f[b] \in Nat
      /\ \A b \in Advances : g[b] = Paid(b, o)' /\ g[b] \in Nat
  <2>1. advance' \in [Advances -> AdvanceRow]
    BY DEF TypeInv, TypeOK
  <2>2. \A b \in Advances : Paid(b, o)' \in Nat
    BY <2>1 DEF Paid, AdvanceRow
  <2> QED
    BY <2>2, PaidNat
<1>2. \A b \in Advances \ {a} : g[b] = f[b]
  BY DEF Paid
<1>3. Advanced(o) = SumOver(f, Advances) /\ Advanced(o)' = SumOver(g, Advances)
  BY DEF Advanced
<1> HIDE DEF f, g
<1>4. IsFiniteSet(Advances)
  BY PayablesAssumption
<1>5. /\ \A b \in Advances : f[b] \in Int
      /\ g[a] \in Int
  BY <1>1
<1>6. SumOver(g, Advances) = SumOver(f, Advances) + (g[a] - f[a])
  BY <1>2, <1>4, <1>5, SumOverChange
<1>7. SumOver(f, Advances) \in Nat
  BY <1>1, <1>4, SumOverNat
<1> QED
  BY <1>1, <1>3, <1>6, <1>7

LEMMA StampedChange ==
  ASSUME TypeInv, TypeInv', NEW o, NEW i \in Invoices,
         \A j \in Invoices \ {i} : invoice'[j] = invoice[j]
  PROVE  Stamped(o)' = Stamped(o) + (Stamp(i, o)' - Stamp(i, o)) /\ Stamped(o) \in Nat
<1> DEFINE f == [j \in Invoices |-> Stamp(j, o)]
           g == [j \in Invoices |-> Stamp(j, o)']
<1>1. /\ \A j \in Invoices : f[j] = Stamp(j, o) /\ f[j] \in Nat
      /\ \A j \in Invoices : g[j] = Stamp(j, o)' /\ g[j] \in Nat
  <2>1. invoice' \in [Invoices -> InvoiceRow]
    BY DEF TypeInv, TypeOK
  <2>2. \A j \in Invoices : Stamp(j, o)' \in Nat
    BY <2>1 DEF Stamp, InvoiceRow
  <2> QED
    BY <2>2, StampNat
<1>2. \A j \in Invoices \ {i} : g[j] = f[j]
  BY DEF Stamp
<1>3. Stamped(o) = SumOver(f, Invoices) /\ Stamped(o)' = SumOver(g, Invoices)
  BY DEF Stamped
<1> HIDE DEF f, g
<1>4. IsFiniteSet(Invoices)
  BY PayablesAssumption
<1>5. /\ \A j \in Invoices : f[j] \in Int
      /\ g[i] \in Int
  BY <1>1
<1>6. SumOver(g, Invoices) = SumOver(f, Invoices) + (g[i] - f[i])
  BY <1>2, <1>4, <1>5, SumOverChange
<1>7. SumOver(f, Invoices) \in Nat
  BY <1>1, <1>4, SumOverNat
<1> QED
  BY <1>1, <1>3, <1>6, <1>7

LEMMA StampedSame ==
  ASSUME NEW o, \A i \in Invoices : Stamp(i, o)' = Stamp(i, o)
  PROVE  Stamped(o)' = Stamped(o)
<1>1. [i \in Invoices |-> Stamp(i, o)'] = [i \in Invoices |-> Stamp(i, o)]
  OBVIOUS
<1> QED
  BY <1>1 DEF Stamped

LEMMA AdvancedSame ==
  ASSUME NEW o, UNCHANGED advance
  PROVE  Advanced(o)' = Advanced(o)
<1>1. \A a \in Advances : Paid(a, o)' = Paid(a, o)
  BY DEF Paid
<1>2. [a \in Advances |-> Paid(a, o)'] = [a \in Advances |-> Paid(a, o)]
  BY <1>1
<1> QED
  BY <1>2 DEF Advanced

\* The invoices of a bill stamp what they draw.
LEMMA StampedAdds ==
  ASSUME TypeInv, TypeInv', NEW o \in Orders, NEW I \in SUBSET Invoices, NEW draw,
         NEW p \in Orders \cup {None},
         \A i \in I : /\ draw[i] \in Nat /\ invoice[i].life = "absent" /\ invoice'[i].life = "live"
                      /\ invoice'[i].order = p /\ invoice'[i].dp = draw[i],
         \A i \in Invoices \ I : invoice'[i] = invoice[i]
  PROVE  Stamped(o)' = Stamped(o) + (IF o = p THEN SumOver(draw, I) ELSE 0)
<1> DEFINE f == [j \in Invoices |-> Stamp(j, o)]
           g == [j \in Invoices |-> Stamp(j, o)']
           d == [j \in Invoices |-> IF o = p /\ j \in I THEN draw[j] ELSE 0]
<1>1. /\ \A j \in Invoices : f[j] \in Int
      /\ \A j \in Invoices : d[j] \in Int
  BY StampNat
<1>2. \A j \in Invoices : g[j] = f[j] + d[j]
  <2> TAKE j \in Invoices
  <2>1. f[j] = Stamp(j, o) /\ g[j] = Stamp(j, o)' /\ Stamp(j, o) \in Nat
    BY StampNat
  <2>2. CASE j \in I
    <3>1. Stamp(j, o) = 0 /\ Stamp(j, o)' = IF o = p THEN draw[j] ELSE 0
      BY <2>2 DEF Stamp
    <3>2. draw[j] \in Nat /\ d[j] = IF o = p THEN draw[j] ELSE 0
      BY <2>2
    <3> HIDE DEF f, g, d
    <3> QED
      BY <2>1, <3>1, <3>2
  <2>3. CASE j \notin I
    <3>1. Stamp(j, o)' = Stamp(j, o) /\ d[j] = 0
      BY <2>3 DEF Stamp
    <3> HIDE DEF f, g, d
    <3> QED
      BY <2>1, <3>1
  <2> QED
    BY <2>2, <2>3
<1>3. Stamped(o) = SumOver(f, Invoices) /\ Stamped(o)' = SumOver(g, Invoices)
  BY DEF Stamped
<1>4. IsFiniteSet(Invoices) /\ IsFiniteSet(I)
  BY FS_Subset, PayablesAssumption
<1>5. SumOver(d, Invoices) = IF o = p THEN SumOver(draw, I) ELSE 0
  <2>1. CASE o = p
    <3>1. /\ \A j \in I : d[j] \in Int /\ d[j] = draw[j]
          /\ \A j \in Invoices \ I : d[j] = 0
      BY <2>1
    <3> HIDE DEF d
    <3>2. SumOver(d, Invoices) = SumOver(d, I)
      BY <1>1, <1>4, <3>1, SumOverPart
    <3>3. SumOver(d, I) = SumOver(draw, I)
      BY <1>4, <3>1, SumOverSame
    <3> QED
      BY <2>1, <3>2, <3>3
  <2>2. CASE o # p
    <3>1. \A j \in Invoices : d[j] = 0
      BY <2>2
    <3> HIDE DEF d
    <3> QED
      BY <1>4, <2>2, <3>1, SumOverZero
  <2> QED
    BY <2>1, <2>2
<1> HIDE DEF f, g, d
<1>6. SumOver(g, Invoices) = SumOver(f, Invoices) + SumOver(d, Invoices)
  BY <1>1, <1>2, <1>4, SumOverPlus
<1> QED
  BY <1>3, <1>5, <1>6

LEMMA OrdersAccounts ==
  ASSUME TypeInv, Accounts, UNCHANGED <<invoice, settlement, rows, moved>>, Ledger',
         \A o \in Orders : order'[o].life = "absent" => order' [o] = order[o] \/
             (order[o].life = "absent" /\ order'[o].amount = order[o].amount),
         \A o \in Orders : order'[o].applied = order[o].applied,
         ~moved => \A o \in Orders : order'[o].applied <= order'[o].amount
  PROVE  Accounts'
<1>1. \A o \in Orders : Stamped(o)' = Stamped(o)
  <2> TAKE o \in Orders
  <2>1. \A i \in Invoices : Stamp(i, o)' = Stamp(i, o)
    BY DEF Stamp
  <2> QED
    BY <2>1, StampedSame
<1>2. Draws'
  BY <1>1 DEF Accounts, Draws
<1>3. Fresh'
  BY DEF Accounts, Fresh
<1>4. Matched' /\ Followed'
  BY DEF Accounts, Matched, Followed
<1> QED
  BY <1>2, <1>3, <1>4 DEF Accounts

LEMMA AbsentUnpaid ==
  ASSUME NEW a \in Advances, advance[a].life # "live", NEW o
  PROVE  Paid(a, o) = 0
BY DEF Paid

LEMMA MakeOrderAccounts ==
  ASSUME TypeInv, Accounts, NEW w \in Workers, NEW o \in Orders, NEW a \in Advances,
         NEW total \in Totals, NEW rate \in Rates \cup {NoRate}, NEW n \in Amounts \cup {0},
         MakeOrder(w, o, a, total, rate, n), Does(w, "order")
  PROVE  Accounts'
<1>1. /\ TypeInv' /\ UNCHANGED <<invoice, settlement, rows, moved>>
      /\ order[o].life = "absent" /\ order'[o].life = "live" /\ n \in Nat
      /\ order'[o].amount = n /\ order'[o].applied = 0
      /\ \A x \in Orders \ {o} : order'[x] = order[x]
      /\ advance[a].life = "absent"
      /\ \/ n = 0 /\ advance' = advance
         \/ /\ \A b \in Advances \ {a} : advance'[b] = advance[b]
            /\ advance'[a].life = "live" /\ advance'[a].order = o /\ advance'[a].amount = n
  BY MakeOrderCommit
<1>2. order[o].amount = 0 /\ order[o].applied = 0
  BY <1>1 DEF Accounts, Fresh
<1>3. Ledger'
  <2> SUFFICES ASSUME NEW x \in Orders PROVE order'[x].amount = Advanced(x)'
    BY DEF Ledger
  <2>1. order[x].amount = Advanced(x)
    BY DEF Accounts, Ledger
  <2>2. CASE n = 0 /\ advance' = advance
    BY <1>1, <1>2, <2>1, <2>2, AdvancedSame
  <2>3. CASE /\ \A b \in Advances \ {a} : advance'[b] = advance[b]
             /\ advance'[a].life = "live" /\ advance'[a].order = o /\ advance'[a].amount = n
    <3>1. Advanced(x)' = Advanced(x) + (Paid(a, x)' - Paid(a, x)) /\ Advanced(x) \in Nat
      BY <1>1, <2>3, AdvancedChange
    <3>2. Paid(a, x) = 0
      BY <1>1, AbsentUnpaid
    <3>3. Paid(a, x)' = IF x = o THEN n ELSE 0
      BY <2>3 DEF Paid
    <3> QED
      BY <1>1, <1>2, <2>1, <3>1, <3>2, <3>3
  <2> QED
    BY <1>1, <2>2, <2>3
<1>4. ~moved => \A x \in Orders : order'[x].applied <= order'[x].amount
  BY <1>1 DEF Accounts, Draws
<1> QED
  BY <1>1, <1>2, <1>3, <1>4, OrdersAccounts

LEMMA EditOrderAccounts ==
  ASSUME TypeInv, Accounts, UNCHANGED <<advance, invoice, settlement, rows, moved>>,
         \A x \in Orders : /\ order'[x].life = order[x].life \/ order'[x].life # "absent"
                           /\ order'[x].amount = order[x].amount
                           /\ order'[x].applied = order[x].applied
  PROVE  Accounts'
<1>1. Ledger'
  BY AdvancedSame DEF Accounts, Ledger
<1> QED
  BY <1>1, OrdersAccounts DEF Accounts, Draws

LEMMA AddAdvanceAccounts ==
  ASSUME TypeInv, PlansInv, Accounts, NEW w \in Workers, NEW a \in Advances, NEW o \in Orders,
         NEW n \in Amounts, NEW rate \in Rates \cup {NoRate}, AddAdvance(w, a, o, n, rate),
         Does(w, "advance")
  PROVE  Accounts'
<1>1. /\ TypeInv' /\ UNCHANGED <<invoice, settlement, rows, moved>>
      /\ n \in Nat /\ order[o].life # "absent" /\ order'[o].life = order[o].life
      /\ order'[o].amount = order[o].amount + n /\ order'[o].applied = order[o].applied
      /\ \A x \in Orders \ {o} : order'[x] = order[x]
      /\ \A b \in Advances \ {a} : advance'[b] = advance[b]
      /\ advance[a].life = "absent" /\ advance'[a].life = "live" /\ advance'[a].order = o
      /\ advance'[a].amount = n
  BY AddAdvanceCommit
<1>2. \A x \in Orders : order[x].amount \in Int /\ order[x].applied \in Int
  BY BooksHold DEF Books, OrderRow
<1>3. Ledger'
  <2> SUFFICES ASSUME NEW x \in Orders PROVE order'[x].amount = Advanced(x)'
    BY DEF Ledger
  <2>1. order[x].amount = Advanced(x)
    BY DEF Accounts, Ledger
  <2>2. Advanced(x)' = Advanced(x) + (Paid(a, x)' - Paid(a, x)) /\ Advanced(x) \in Nat
    BY <1>1, AdvancedChange
  <2>3. Paid(a, x) = 0
    BY <1>1, AbsentUnpaid
  <2>4. Paid(a, x)' = IF x = o THEN n ELSE 0
    BY <1>1 DEF Paid
  <2> QED
    BY <1>1, <1>2, <2>1, <2>2, <2>3, <2>4
<1>4. ~moved => \A x \in Orders : order'[x].applied <= order'[x].amount
  BY <1>1, <1>2 DEF Accounts, Draws
<1> QED
  BY <1>1, <1>3, <1>4, OrdersAccounts

\* An edit or a deletion of the row of the ledger it was computed from.
LEMMA ChangeAdvanceAccounts ==
  ASSUME TypeInv, TypeInv', Accounts, UNCHANGED <<invoice, settlement, rows, moved>>,
         NEW o \in Orders, NEW a \in Advances, NEW n \in Nat,
         advance[a].life = "live", advance[a].order = o,
         order[o].life # "absent", order'[o].life = order[o].life,
         order'[o].amount = Recomputed(a, n), order'[o].amount >= order[o].applied,
         order'[o].applied = order[o].applied,
         \A x \in Orders \ {o} : order'[x] = order[x],
         \A b \in Advances \ {a} : advance'[b] = advance[b],
         \A x \in Orders : Paid(a, x)' = IF x = o THEN n ELSE 0
  PROVE  Accounts'
<1>1. advance[a].amount \in Nat
  BY BooksHold DEF Books, AdvanceRow
<1>2. \A x \in Orders : order[x].amount \in Int /\ order[x].applied \in Int
  BY BooksHold DEF Books, OrderRow
<1>3. Ledger'
  <2> SUFFICES ASSUME NEW x \in Orders PROVE order'[x].amount = Advanced(x)'
    BY DEF Ledger
  <2>1. order[x].amount = Advanced(x)
    BY DEF Accounts, Ledger
  <2>2. Advanced(x)' = Advanced(x) + (Paid(a, x)' - Paid(a, x)) /\ Advanced(x) \in Nat
    BY AdvancedChange
  <2>3. Paid(a, x) = IF x = o THEN advance[a].amount ELSE 0
    BY DEF Paid
  <2>4. order'[o].amount = order[o].amount - advance[a].amount + n
    BY DEF Recomputed
  <2> QED
    BY <1>1, <1>2, <2>1, <2>2, <2>3, <2>4
<1>4. ~moved => \A x \in Orders : order'[x].applied <= order'[x].amount
  BY <1>2 DEF Accounts, Draws
<1> QED
  BY <1>3, <1>4, OrdersAccounts

LEMMA EditAdvanceAccounts ==
  ASSUME TypeInv, PlansInv, Accounts, NEW w \in Workers, Current(tx[w]), NEW a \in Advances,
         NEW n \in Amounts, NEW rate \in Rates \cup {NoRate}, EditAdvance(w, a, n, rate),
         Does(w, "editAdvance")
  PROVE  Accounts'
<1> DEFINE o == tx[w].order
<1>1. /\ TypeInv' /\ UNCHANGED <<invoice, settlement, rows, moved>>
      /\ tx[w].doc = a /\ tx[w].n = n /\ n \in Nat /\ o \in Orders
      /\ order[o].life # "absent" /\ order'[o].life = order[o].life
      /\ order'[o].amount = tx[w].saw.amount /\ order'[o].applied = order[o].applied
      /\ \A x \in Orders \ {o} : order'[x] = order[x]
      /\ \A b \in Advances \ {a} : advance'[b] = advance[b]
      /\ advance'[a].life = advance[a].life /\ advance'[a].order = advance[a].order
      /\ advance'[a].amount = n
  BY EditAdvanceCommit
<1>2. /\ advance[a].life = "live" /\ advance[a].order = o /\ tx[w].saw.amount = Recomputed(a, n)
      /\ tx[w].saw.amount >= order[o].applied
  BY <1>1 DEF Current, AdvanceCurrent, Does
<1> HIDE DEF o
<1>3. \A x \in Orders : Paid(a, x)' = IF x = o THEN n ELSE 0
  BY <1>1, <1>2 DEF Paid
<1> QED
  BY <1>1, <1>2, <1>3, ChangeAdvanceAccounts

LEMMA DeleteAdvanceAccounts ==
  ASSUME TypeInv, PlansInv, Accounts, NEW w \in Workers, Current(tx[w]), NEW a \in Advances,
         DeleteAdvance(w, a), Does(w, "deleteAdvance")
  PROVE  Accounts'
<1> DEFINE o == tx[w].order
<1>1. /\ TypeInv' /\ UNCHANGED <<invoice, settlement, rows, moved>>
      /\ tx[w].doc = a /\ o \in Orders
      /\ order[o].life # "absent" /\ order'[o].life = order[o].life
      /\ order'[o].amount = tx[w].saw.amount /\ order'[o].applied = order[o].applied
      /\ \A x \in Orders \ {o} : order'[x] = order[x]
      /\ \A b \in Advances \ {a} : advance'[b] = advance[b]
      /\ advance'[a].life = "deleted"
  BY DeleteAdvanceCommit
<1>2. /\ advance[a].life = "live" /\ advance[a].order = o /\ tx[w].saw.amount = Recomputed(a, 0)
      /\ tx[w].saw.amount >= order[o].applied
  BY <1>1 DEF Current, AdvanceCurrent, Does
<1> HIDE DEF o
<1>3. \A x \in Orders : Paid(a, x)' = IF x = o THEN 0 ELSE 0
  BY <1>1 DEF Paid
<1> QED
  BY <1>1, <1>2, <1>3, ChangeAdvanceAccounts

LEMMA InvoicesAccounts ==
  ASSUME Accounts, UNCHANGED <<advance, settlement, rows>>,
         \A o \in Orders : order'[o].life = order[o].life /\ order'[o].amount = order[o].amount,
         \A i \in Invoices : \/ invoice'[i].life # "live" \/ invoice'[i].settlement = None
                             \/ /\ invoice'[i].life = invoice[i].life
                                /\ invoice'[i].settlement = invoice[i].settlement
                                /\ invoice'[i].status = invoice[i].status,
         Draws', Fresh'
  PROVE  Accounts'
<1>1. Ledger'
  BY AdvancedSame DEF Accounts, Ledger
<1>2. Matched'
  BY DEF Accounts, Matched
<1>3. Followed'
  BY DEF Accounts, Followed
<1> QED
  BY <1>1, <1>2, <1>3 DEF Accounts

LEMMA BillAccounts ==
  ASSUME TypeInv, Accounts, NEW w \in Workers, Current(tx[w]), NEW I \in SUBSET Invoices,
         NEW o \in Orders \cup {None}, NEW total \in Totals, Bill(w, I, o, total), Does(w, "bill")
  PROVE  Accounts'
<1>1. PICK draw \in [I -> 0..total] : Drawn(tx[w].saw, I, total, draw) /\ BillMade(I, o, total, draw)
  BY BillDoes
<1> DEFINE n == SumOver(draw, I)
<1>2. /\ \A i \in Invoices \ I : invoice'[i] = invoice[i]
      /\ \A i \in I : /\ invoice'[i].life = "live" /\ invoice'[i].order = o
                      /\ invoice'[i].dp = draw[i] /\ invoice'[i].settlement = None
                      /\ draw[i] \in Nat
      /\ n \in Nat /\ IsFiniteSet(I)
      /\ \A x \in Orders : /\ order'[x].life = order[x].life
                           /\ order'[x].amount = order[x].amount
                           /\ order'[x].applied = IF x = o THEN order[x].applied + n
                                                           ELSE order[x].applied
  BY <1>1, BillRows
<1>3. /\ UNCHANGED <<advance, settlement, rows, moved>> /\ tx[w].order = o
      /\ \A i \in I : invoice[i].life = "absent"
      /\ o # None => order[o].life = "live"
  BY BillDoes
<1>4. TypeInv'
  BY BillCommit
<1>5. \A x \in Orders : Stamped(x)' = Stamped(x) + (IF x = o THEN n ELSE 0)
  <2> TAKE x \in Orders
  <2>1. o \in Orders \cup {None}
    OBVIOUS
  <2>2. \A i \in I : /\ draw[i] \in Nat /\ invoice[i].life = "absent" /\ invoice'[i].life = "live"
                     /\ invoice'[i].order = o /\ invoice'[i].dp = draw[i]
    BY <1>2, <1>3
  <2> QED
    BY <1>2, <1>4, <2>1, <2>2, StampedAdds
<1>6. \A x \in Orders : order[x] \in OrderRow /\ order[x].applied \in Int /\ order[x].amount \in Int
  BY BooksHold DEF Books, OrderRow
<1>7. ASSUME o \in Orders, order[o].applied <= order[o].amount
      PROVE  order[o].applied + n <= order[o].amount
  <2>1. tx[w].saw = order[o]
    BY <1>3, <1>7, PayablesAssumption DEF Current, InvoiceCurrent, Does
  <2>2. total \in Nat
    BY Numbers
  <2> QED
    BY <1>1, <1>2, <1>6, <1>7, <2>1, <2>2, DrawnWithin
<1> HIDE DEF n
<1>8. Draws'
  <2> SUFFICES ASSUME ~moved, NEW x \in Orders
               PROVE  order'[x].applied = Stamped(x)' /\ order'[x].applied <= order'[x].amount
    BY <1>3 DEF Draws
  <2>1. order[x].applied = Stamped(x) /\ order[x].applied <= order[x].amount
    BY DEF Accounts, Draws
  <2> QED
    BY <1>2, <1>5, <1>6, <1>7, <2>1
<1>9. Fresh'
  <2> SUFFICES ASSUME NEW x \in Orders, order'[x].life = "absent"
               PROVE  /\ order'[x].amount = 0 /\ order'[x].applied = 0
                      /\ \A i \in Invoices : invoice'[i].order # x
    BY DEF Fresh
  <2>1. /\ order[x].amount = 0 /\ order[x].applied = 0 /\ x # o
        /\ \A i \in Invoices : invoice[i].order # x
    BY <1>2, <1>3, PayablesAssumption DEF Accounts, Fresh
  <2> QED
    BY <1>2, <2>1
<1> QED
  BY <1>2, <1>3, <1>8, <1>9, InvoicesAccounts

\* One invoice changes, and what counts as drawn of each order as much as its stamp.
LEMMA OneInvoiceAccounts ==
  ASSUME TypeInv, TypeInv', Accounts, UNCHANGED <<advance, settlement, rows, moved>>,
         NEW i \in Invoices, \A j \in Invoices \ {i} : invoice'[j] = invoice[j],
         \A x \in Orders : /\ order'[x].life = order[x].life /\ order'[x].amount = order[x].amount
                           /\ order'[x].applied = order[x].applied + Stamp(i, x)' - Stamp(i, x)
                           /\ Stamp(i, x)' <= Stamp(i, x),
         invoice'[i].order = invoice[i].order,
         \/ invoice'[i].life # "live" \/ invoice'[i].settlement = None
         \/ /\ invoice'[i].life = invoice[i].life
            /\ invoice'[i].settlement = invoice[i].settlement
            /\ invoice'[i].status = invoice[i].status
  PROVE  Accounts'
<1>1. \A x \in Orders : order[x].applied \in Int /\ order[x].amount \in Int
  BY BooksHold DEF Books, OrderRow
<1>2. \A x \in Orders : Stamp(i, x) \in Nat /\ Stamp(i, x)' \in Nat
  <2>1. invoice' \in [Invoices -> InvoiceRow]
    BY DEF TypeInv, TypeOK
  <2>2. \A x \in Orders : Stamp(i, x)' \in Nat
    BY <2>1 DEF Stamp, InvoiceRow
  <2> QED
    BY <2>2, StampNat
<1>3. \A x \in Orders : Stamped(x)' = Stamped(x) + (Stamp(i, x)' - Stamp(i, x)) /\ Stamped(x) \in Nat
  BY StampedChange
<1>4. Draws'
  <2> SUFFICES ASSUME ~moved, NEW x \in Orders
               PROVE  order'[x].applied = Stamped(x)' /\ order'[x].applied <= order'[x].amount
    BY DEF Draws
  <2>1. order[x].applied = Stamped(x) /\ order[x].applied <= order[x].amount
    BY DEF Accounts, Draws
  <2> QED
    BY <1>1, <1>2, <1>3, <2>1
<1>5. Fresh'
  <2> SUFFICES ASSUME NEW x \in Orders, order'[x].life = "absent"
               PROVE  /\ order'[x].amount = 0 /\ order'[x].applied = 0
                      /\ \A j \in Invoices : invoice'[j].order # x
    BY DEF Fresh
  <2>1. /\ order[x].amount = 0 /\ order[x].applied = 0
        /\ \A j \in Invoices : invoice[j].order # x
    BY DEF Accounts, Fresh
  <2>2. Stamp(i, x) = 0 /\ Stamp(i, x)' = 0
    BY <2>1 DEF Stamp
  <2> QED
    BY <2>1, <2>2
<1> QED
  BY <1>4, <1>5, InvoicesAccounts

LEMMA CancelBillAccounts ==
  ASSUME TypeInv, PlansInv, Accounts, NEW w \in Workers, Current(tx[w]), NEW i \in Invoices,
         CancelBill(w, i), Does(w, "cancelBill")
  PROVE  Accounts'
<1> DEFINE saw == tx[w].sawInv[i]
           gb  == GivesBack(i, tx[w])
<1>1. /\ TypeInv' /\ tx[w].of = {i} /\ UNCHANGED <<advance, settlement, rows, moved>>
      /\ \A j \in Invoices \ {i} : invoice'[j] = invoice[j]
      /\ invoice'[i].life = invoice[i].life /\ invoice'[i].order = invoice[i].order
      /\ invoice'[i].settlement = invoice[i].settlement
      /\ tx[w].to = None => invoice'[i].status = invoice[i].status
      /\ invoice'[i].dp = IF gb THEN 0 ELSE invoice[i].dp
      /\ order' = IF gb THEN Restored(saw.order, saw.dp) ELSE order
  BY CancelBillCommit
<1>2. /\ saw = invoice[i] /\ invoice[i].life = "live"
      /\ tx[w].to # None => invoice[i].settlement = None
  BY <1>1 DEF Current, InvoiceCurrent, Does
<1>3. invoice[i] \in InvoiceRow /\ invoice[i].dp \in Nat
  BY BooksHold DEF Books, InvoiceRow
<1>4. \A x \in Orders : order[x].applied \in Int
  BY BooksHold DEF Books, OrderRow
<1>5. gb => invoice[i].order # None
  BY <1>2 DEF GivesBack
<1> HIDE DEF saw, gb
<1>6. \A x \in Orders : /\ order'[x].life = order[x].life /\ order'[x].amount = order[x].amount
                        /\ order'[x].applied = order[x].applied + Stamp(i, x)' - Stamp(i, x)
                        /\ Stamp(i, x)' <= Stamp(i, x)
  <2> TAKE x \in Orders
  <2>1. Stamp(i, x) = IF invoice[i].order = x THEN invoice[i].dp ELSE 0
    BY <1>2 DEF Stamp
  <2>2. Stamp(i, x)' = IF invoice[i].order = x /\ ~gb THEN invoice[i].dp ELSE 0
    BY <1>1, <1>2 DEF Stamp
  <2>3. CASE gb
    <3>1. order' = Restored(invoice[i].order, invoice[i].dp)
      BY <1>1, <1>2, <2>3
    <3>2. /\ order'[x].life = order[x].life /\ order'[x].amount = order[x].amount
          /\ x # invoice[i].order => order'[x] = order[x]
          /\ x = invoice[i].order => order'[x].applied = order[x].applied - invoice[i].dp
      BY <1>3, <1>5, <2>3, <3>1, GivenBack
    <3> QED
      BY <1>3, <1>4, <2>1, <2>2, <2>3, <3>2
  <2>4. CASE ~gb
    BY <1>1, <1>3, <1>4, <2>1, <2>2, <2>4
  <2> QED
    BY <2>3, <2>4
<1> QED
  BY <1>1, <1>2, <1>6, OneInvoiceAccounts

LEMMA DeleteBillAccounts ==
  ASSUME TypeInv, PlansInv, Accounts, NEW w \in Workers, Current(tx[w]), NEW i \in Invoices,
         DeleteBill(w, i), Does(w, "deleteBill")
  PROVE  Accounts'
<1> DEFINE saw == tx[w].sawInv[i]
           gb  == saw.order # None /\ saw.dp > 0
<1>1. /\ TypeInv' /\ tx[w].of = {i} /\ UNCHANGED <<advance, settlement, rows, moved>>
      /\ \A j \in Invoices \ {i} : invoice'[j] = invoice[j]
      /\ invoice'[i].life = "deleted" /\ invoice'[i].order = invoice[i].order
      /\ order' = IF gb THEN Restored(saw.order, saw.dp) ELSE order
  BY DeleteBillCommit
<1>2. saw = invoice[i] /\ invoice[i].life = "live"
  BY <1>1 DEF Current, InvoiceCurrent, Does
<1>3. invoice[i] \in InvoiceRow /\ invoice[i].dp \in Nat
  BY BooksHold DEF Books, InvoiceRow
<1>4. \A x \in Orders : order[x].applied \in Int
  BY BooksHold DEF Books, OrderRow
<1>5. /\ gb => invoice[i].order # None
      /\ ~gb => invoice[i].order = None \/ invoice[i].dp = 0
  BY <1>2, <1>3
<1> HIDE DEF saw, gb
<1>6. \A x \in Orders : /\ order'[x].life = order[x].life /\ order'[x].amount = order[x].amount
                        /\ order'[x].applied = order[x].applied + Stamp(i, x)' - Stamp(i, x)
                        /\ Stamp(i, x)' <= Stamp(i, x)
  <2> TAKE x \in Orders
  <2>1. Stamp(i, x) = IF invoice[i].order = x THEN invoice[i].dp ELSE 0
    BY <1>2 DEF Stamp
  <2>2. Stamp(i, x)' = 0
    BY <1>1 DEF Stamp
  <2>3. CASE gb
    <3>1. order' = Restored(invoice[i].order, invoice[i].dp)
      BY <1>1, <1>2, <2>3
    <3>2. /\ order'[x].life = order[x].life /\ order'[x].amount = order[x].amount
          /\ x # invoice[i].order => order'[x] = order[x]
          /\ x = invoice[i].order => order'[x].applied = order[x].applied - invoice[i].dp
      BY <1>3, <1>5, <2>3, <3>1, GivenBack
    <3> QED
      BY <1>3, <1>4, <2>1, <2>2, <2>3, <3>2
  <2>4. CASE ~gb
    <3>1. Stamp(i, x) = 0
      BY <1>5, <2>1, <2>4, PayablesAssumption
    <3> QED
      BY <1>1, <1>4, <2>2, <2>4, <3>1
  <2> QED
    BY <2>3, <2>4
<1> QED
  BY <1>1, <1>2, <1>6, OneInvoiceAccounts

LEMMA EditBillAccounts ==
  ASSUME TypeInv, PlansInv, Accounts, NEW w \in Workers, Current(tx[w]), NEW i \in Invoices,
         NEW o \in Orders \cup {None}, NEW total \in Totals, EditBill(w, i, o, total),
         Does(w, "editBill")
  PROVE  Accounts'
<1>1. /\ tx[w].of = {i} /\ UNCHANGED <<order, advance, settlement, rows>>
      /\ moved' = (moved \/ (invoice[i].dp # 0 /\ invoice[i].order # o))
      /\ \A j \in Invoices \ {i} : invoice'[j] = invoice[j]
      /\ invoice'[i].life = invoice[i].life /\ invoice'[i].order = o
      /\ invoice'[i].dp = invoice[i].dp /\ invoice'[i].settlement = invoice[i].settlement
      /\ tx[w].to = None => invoice'[i].status = invoice[i].status
      /\ tx[w].order = o
  <2>1. tx[w].order = o
    BY DEF EditBill, Does, Begin
  <2> QED
    BY <2>1, EditBillCommit
<1>2. /\ tx[w].to # None => invoice[i].settlement = None
      /\ o # None => order[o].life # "absent"
  BY <1>1 DEF Current, InvoiceCurrent, Does
<1>3. Draws'
  <2> SUFFICES ASSUME ~moved, ~(invoice[i].dp # 0 /\ invoice[i].order # o), NEW x \in Orders
               PROVE  order[x].applied = Stamped(x)' /\ order[x].applied <= order[x].amount
    BY <1>1 DEF Draws
  <2>1. order[x].applied = Stamped(x) /\ order[x].applied <= order[x].amount
    BY DEF Accounts, Draws
  <2>2. \A j \in Invoices : Stamp(j, x)' = Stamp(j, x)
    BY <1>1 DEF Stamp
  <2> QED
    BY <2>1, <2>2, StampedSame
<1>4. Fresh'
  BY <1>1, <1>2, PayablesAssumption DEF Accounts, Fresh
<1> QED
  BY <1>1, <1>2, <1>3, <1>4, InvoicesAccounts

LEMMA PaymentsAccounts ==
  ASSUME Accounts, UNCHANGED <<order, advance, moved>>,
         \A i \in Invoices : /\ invoice'[i].life = invoice[i].life
                             /\ invoice'[i].order = invoice[i].order /\ invoice'[i].dp = invoice[i].dp,
         Matched', Followed'
  PROVE  Accounts'
<1>1. Ledger'
  BY AdvancedSame DEF Accounts, Ledger
<1>2. \A o \in Orders : Stamped(o)' = Stamped(o)
  <2> TAKE o \in Orders
  <2>1. \A i \in Invoices : Stamp(i, o)' = Stamp(i, o)
    BY DEF Stamp
  <2> QED
    BY <2>1, StampedSame
<1>3. Draws'
  BY <1>2 DEF Accounts, Draws
<1>4. Fresh'
  BY DEF Accounts, Fresh
<1> QED
  BY <1>1, <1>3, <1>4 DEF Accounts

LEMMA SettleAccounts ==
  ASSUME TypeInv, PlansInv, Accounts, NEW w \in Workers, Current(tx[w]), NEW s \in Settlements,
         NEW I \in SUBSET Invoices, NEW n \in Amounts \cup {0}, NEW rebate \in Rebates,
         Settle(w, s, I, n, rebate), Does(w, "settle")
  PROVE  Accounts'
<1> DEFINE full == n >= settlement'[s].due
<1>1. /\ UNCHANGED <<order, advance, moved>>
      /\ \A t \in Settlements \ {s} : settlement'[t] = settlement[t] /\ rows'[t] = rows[t]
      /\ settlement[s].life = "absent" /\ rows'[s] = n /\ settlement'[s].paid = n
      /\ settlement'[s].payment = Paying(full)
      /\ \A i \in Invoices : \/ invoice'[i] = invoice[i]
                             \/ /\ invoice'[i].life = invoice[i].life /\ invoice'[i].settlement = s
                                /\ invoice'[i].order = invoice[i].order
                                /\ invoice'[i].dp = invoice[i].dp
                                /\ invoice'[i].status = Marked(full)
  BY SettleCommit
<1>2. Matched'
  BY <1>1 DEF Accounts, Matched
<1> HIDE DEF full
<1>3. Followed'
  <2> SUFFICES ASSUME NEW i \in Invoices, invoice'[i].life = "live", invoice'[i].settlement # None
               PROVE  IF settlement'[invoice'[i].settlement].payment = "PAID"
                      THEN invoice'[i].status = "Paid"
                      ELSE invoice'[i].status \in {"Partially Paid", "Paid"}
    BY DEF Followed
  <2>1. CASE invoice'[i].settlement = s /\ invoice'[i].status = Marked(full)
    BY <1>1, <2>1 DEF Marked, Paying
  <2>2. CASE invoice'[i] = invoice[i]
    <3>1. /\ invoice[i].life = "live" /\ invoice[i].settlement # None
          /\ invoice[i].settlement \in Settlements
      BY <2>2, BooksHold DEF Books, InvoiceRow
    <3>2. settlement[invoice[i].settlement].life = "live"
      BY <3>1 DEF TypeInv, Named
    <3>3. settlement'[invoice[i].settlement] = settlement[invoice[i].settlement]
      BY <1>1, <3>1, <3>2
    <3> QED
      BY <2>2, <3>1, <3>3 DEF Accounts, Followed
  <2> QED
    BY <1>1, <2>1, <2>2
<1> QED
  BY <1>1, <1>2, <1>3, PaymentsAccounts

LEMMA AmendAccounts ==
  ASSUME TypeInv, PlansInv, Accounts, NEW w \in Workers, NEW s \in Settlements,
         NEW due \in Amounts, NEW to \in {"COMPLETED", "CANCELLED"}, Amend(w, s, due, to),
         Does(w, "amend")
  PROVE  Accounts'
<1>1. /\ UNCHANGED <<order, advance, invoice, rows, moved>>
      /\ \A t \in Settlements : /\ settlement'[t].paid = settlement[t].paid
                                /\ settlement'[t].payment = settlement[t].payment
  BY AmendCommit
<1>2. Matched'
  BY <1>1 DEF Accounts, Matched
<1>3. Followed'
  BY <1>1, BooksHold DEF Accounts, Followed, Books, InvoiceRow
<1> QED
  BY <1>1, <1>2, <1>3, PaymentsAccounts

LEMMA PayAccounts ==
  ASSUME TypeInv, PlansInv, Accounts, NEW w \in Workers, Current(tx[w]), NEW s \in Settlements,
         NEW n \in Amounts, Pay(w, s, n), Does(w, "pay")
  PROVE  Accounts'
<1> DEFINE full == Full(tx[w].seen, n)
<1>1. /\ UNCHANGED <<order, advance, moved>> /\ tx[w].doc = s /\ n \in Nat
      /\ invoice' = IF full THEN AllPaid(s) ELSE invoice
      /\ \A t \in Settlements \ {s} : settlement'[t] = settlement[t] /\ rows'[t] = rows[t]
      /\ rows'[s] = rows[s] + n /\ settlement'[s].paid = tx[w].seen.paid + n
      /\ settlement'[s].payment = Paying(full)
  BY PayCommit
<1>2. tx[w].seen = settlement[s]
  BY <1>1 DEF Current, PaymentCurrent, Does
<1>3. Matched'
  BY <1>1, <1>2 DEF Accounts, Matched
<1> HIDE DEF full
<1>4. \A i \in Invoices :
         /\ invoice'[i].life = invoice[i].life /\ invoice'[i].settlement = invoice[i].settlement
         /\ invoice'[i].order = invoice[i].order /\ invoice'[i].dp = invoice[i].dp
         /\ IF full /\ invoice[i].settlement = s /\ invoice[i].life = "live"
            THEN invoice'[i].status = "Paid" ELSE invoice'[i] = invoice[i]
  BY <1>1, AllPaidRows
<1>5. Followed'
  <2> SUFFICES ASSUME NEW i \in Invoices, invoice[i].life = "live", invoice[i].settlement # None
               PROVE  IF settlement'[invoice[i].settlement].payment = "PAID"
                      THEN invoice'[i].status = "Paid"
                      ELSE invoice'[i].status \in {"Partially Paid", "Paid"}
    BY <1>4 DEF Followed
  <2>1. invoice[i].settlement \in Settlements
    BY BooksHold DEF Books, InvoiceRow
  <2>2. IF settlement[invoice[i].settlement].payment = "PAID"
        THEN invoice[i].status = "Paid"
        ELSE invoice[i].status \in {"Partially Paid", "Paid"}
    BY DEF Accounts, Followed
  <2> QED
    BY <1>1, <1>4, <2>1, <2>2 DEF Paying
<1> QED
  BY <1>1, <1>3, <1>4, <1>5, PaymentsAccounts

LEMMA MarkPaidAccounts ==
  ASSUME TypeInv, PlansInv, Accounts, NEW w \in Workers, NEW s \in Settlements, MarkPaid(w, s),
         Does(w, "markPaid")
  PROVE  Accounts'
<1>1. /\ UNCHANGED <<order, advance, rows, moved>> /\ invoice' = AllPaid(s)
      /\ \A t \in Settlements \ {s} : settlement'[t] = settlement[t]
      /\ settlement'[s].paid = settlement[s].paid /\ settlement'[s].payment = "PAID"
  BY MarkPaidCommit
<1>2. Matched'
  BY <1>1 DEF Accounts, Matched
<1>3. \A i \in Invoices :
         /\ invoice'[i].life = invoice[i].life /\ invoice'[i].settlement = invoice[i].settlement
         /\ invoice'[i].order = invoice[i].order /\ invoice'[i].dp = invoice[i].dp
         /\ IF invoice[i].settlement = s /\ invoice[i].life = "live"
            THEN invoice'[i].status = "Paid" ELSE invoice'[i] = invoice[i]
  BY <1>1, AllPaidRows
<1>4. Followed'
  <2> SUFFICES ASSUME NEW i \in Invoices, invoice[i].life = "live", invoice[i].settlement # None
               PROVE  IF settlement'[invoice[i].settlement].payment = "PAID"
                      THEN invoice'[i].status = "Paid"
                      ELSE invoice'[i].status \in {"Partially Paid", "Paid"}
    BY <1>3 DEF Followed
  <2>1. invoice[i].settlement \in Settlements
    BY BooksHold DEF Books, InvoiceRow
  <2>2. IF settlement[invoice[i].settlement].payment = "PAID"
        THEN invoice[i].status = "Paid"
        ELSE invoice[i].status \in {"Partially Paid", "Paid"}
    BY DEF Accounts, Followed
  <2> QED
    BY <1>1, <1>3, <2>1, <2>2
<1> QED
  BY <1>1, <1>2, <1>3, <1>4, PaymentsAccounts

----------------------------------------------------------------------------
(* What is paid and written off *)

LEMMA RoundNat ==
  ASSUME NEW v \in Nat
  PROVE  Round(v) \in Nat
<1> DEFINE h == Minor \div 2
           x == v + h
           q == x \div Minor
<1>1. Minor \in Nat \ {0} /\ h \in Nat
  BY PayablesAssumption
<1> HIDE DEF h
<1>2. x \in Int /\ x >= 0
  BY <1>1
<1>3. Round(v) = q * Minor
  BY DEF Round, h
<1> HIDE DEF x
<1>4. /\ q \in Int /\ Minor * q \in Int /\ Minor * q <= x /\ x < Minor * q + Minor
  BY <1>1, <1>2, Divides
<1> HIDE DEF q
<1>5. q >= 0
  <2>1. SUFFICES ASSUME q <= -1 PROVE FALSE
    BY <1>4
  <2>2. Minor * q <= -Minor
    BY <1>1, <1>4, <2>1
  <2> QED
    BY <1>1, <1>2, <1>4, <2>2
<1>6. q * Minor \in Nat
  BY <1>1, <1>4, <1>5
<1> QED
  BY <1>3, <1>6

LEMMA CapNat ==
  ASSUME NEW bill \in Int
  PROVE  WriteOffCap(bill) \in Nat
<1>1. Floor \in Nat /\ bill \div 1000 \in Int
  BY PayablesAssumption
<1>2. Greatest(Floor, bill \div 1000) \in Nat
  BY <1>1 DEF Greatest
<1> QED
  BY <1>2, RoundNat DEF WriteOffCap

\* A step that pays or writes off nothing.
LEMMA NothingPaid ==
  ASSUME TypeInv, TypeInv', Backed,
         \A s \in Settlements : /\ settlement'[s].paid = settlement[s].paid /\ rows'[s] = rows[s]
                                /\ settlement'[s].writeOff = settlement[s].writeOff
                                /\ settlement'[s].payment = settlement[s].payment
  PROVE  Backed' /\ PaidCovers
<1>1. Backed'
  BY DEF Backed
<1>2. \A s \in Settlements : settlement[s].writeOff \in Nat /\ settlement'[s].due \in Nat
  BY BooksHold DEF Books, TypeInv, TypeOK, SettlementRow
<1>3. \A s \in Settlements : WriteOffCap(Round(settlement'[s].due)) \in Nat
  BY <1>2, RoundNat, CapNat
<1>4. \A s \in Settlements : settlement'[s].writeOff - settlement[s].writeOff
                         <= WriteOffCap(Round(settlement'[s].due))
  BY <1>2, <1>3
<1> QED
  BY <1>1, <1>4 DEF PaidCovers

LEMMA SettleCovers ==
  ASSUME TypeInv, PlansInv, Backed, NEW w \in Workers, NEW s \in Settlements,
         NEW I \in SUBSET Invoices, NEW n \in Amounts \cup {0}, NEW rebate \in Rebates,
         Settle(w, s, I, n, rebate), Does(w, "settle")
  PROVE  Backed' /\ PaidCovers
<1> DEFINE due == settlement'[s].due
<1>1. /\ TypeInv'
      /\ \A t \in Settlements \ {s} : settlement'[t] = settlement[t] /\ rows'[t] = rows[t]
      /\ rows'[s] = n /\ settlement'[s].paid = n /\ settlement'[s].writeOff = 0
      /\ settlement'[s].payment = Paying(n >= due) /\ due \in Nat /\ n \in Nat
  BY SettleCommit
<1>2. Backed'
  BY <1>1 DEF Backed
<1>3. \A t \in Settlements : settlement[t].writeOff \in Nat /\ settlement'[t].due \in Nat
  BY <1>1, BooksHold DEF Books, TypeInv, TypeOK, SettlementRow
<1>4. \A t \in Settlements : WriteOffCap(Round(settlement'[t].due)) \in Nat
  BY <1>3, RoundNat, CapNat
<1>5. \A t \in Settlements : settlement'[t].writeOff - settlement[t].writeOff
                         <= WriteOffCap(Round(settlement'[t].due))
  BY <1>1, <1>3, <1>4
<1>6. Minor \in Nat \ {0}
  BY PayablesAssumption
<1>7. \A t \in Settlements : settlement'[t].payment = "PAID" /\ settlement[t].payment # "PAID"
              => rows'[t] + settlement'[t].writeOff > settlement'[t].due - Minor
  BY <1>1, <1>6 DEF Paying
<1> QED
  BY <1>2, <1>5, <1>7 DEF PaidCovers

LEMMA PayCovers ==
  ASSUME TypeInv, PlansInv, Backed, NEW w \in Workers, NEW s \in Settlements, NEW n \in Amounts,
         Pay(w, s, n), Does(w, "pay"), ~raced => Current(tx[w])
  PROVE  Backed' /\ PaidCovers
<1>1. /\ TypeInv' /\ Done(w) /\ tx[w].doc = s /\ n \in Nat /\ tx[w].seen \in SettlementRow
      /\ \A t \in Settlements \ {s} : settlement'[t] = settlement[t] /\ rows'[t] = rows[t]
      /\ rows'[s] = rows[s] + n /\ settlement'[s].paid = tx[w].seen.paid + n
      /\ settlement'[s].due = settlement[s].due
      /\ settlement'[s].writeOff = settlement[s].writeOff
      /\ settlement'[s].payment = Paying(Full(tx[w].seen, n))
  BY PayCommit
<1> DEFINE row == tx[w].seen
<1>2. /\ row.paid <= rows[s] /\ ("amend" \notin mix => row.due = settlement[s].due)
      /\ (~raced => row.due = settlement[s].due)
  BY <1>1 DEF PlansInv, Steady, Current, PaymentCurrent, Does
<1>3. /\ row.paid \in Nat /\ row.due \in Nat /\ rows[s] \in Nat
      /\ settlement[s].writeOff \in Nat /\ settlement[s].due \in Nat
  BY <1>1, BooksHold DEF Books, SettlementRow
<1>4. raced' = raced
  BY <1>1 DEF Done
<1>5. Full(row, n) <=> row.paid + n >= row.due
  BY DEF Full
<1> HIDE DEF row
<1>6. Backed'
  BY <1>1, <1>2, <1>3 DEF Backed, row
<1>7. \A t \in Settlements : settlement[t].writeOff \in Nat /\ settlement'[t].due \in Nat
  BY <1>1, BooksHold DEF Books, TypeInv, TypeOK, SettlementRow
<1>8. \A t \in Settlements : WriteOffCap(Round(settlement'[t].due)) \in Nat
  BY <1>7, RoundNat, CapNat
<1>9. \A t \in Settlements : settlement'[t].writeOff - settlement[t].writeOff
                         <= WriteOffCap(Round(settlement'[t].due))
  BY <1>1, <1>7, <1>8
<1>10. Minor \in Nat \ {0}
  BY PayablesAssumption
<1>11. ASSUME ~raced' \/ "amend" \notin mix, NEW t \in Settlements,
              settlement'[t].payment = "PAID", settlement[t].payment # "PAID"
       PROVE  rows'[t] + settlement'[t].writeOff > settlement'[t].due - Minor
  <2>1. t = s
    BY <1>1, <1>11
  <2>2. row.paid + n >= row.due /\ row.due = settlement[s].due
    BY <1>1, <1>2, <1>4, <1>5, <1>11, <2>1 DEF Paying, row
  <2>3. rows[s] + n + settlement[s].writeOff > settlement[s].due - Minor
    BY <1>1, <1>2, <1>3, <1>10, <2>2
  <2> QED
    BY <1>1, <2>1, <2>3
<1> QED
  BY <1>6, <1>9, <1>11 DEF PaidCovers

LEMMA MarkPaidCovers ==
  ASSUME TypeInv, PlansInv, Backed, NEW w \in Workers, NEW s \in Settlements, MarkPaid(w, s),
         Does(w, "markPaid"), ~raced => Current(tx[w])
  PROVE  Backed' /\ PaidCovers
<1> DEFINE row == tx[w].seen
           out == Outstanding(row)
<1>1. /\ TypeInv' /\ Done(w) /\ rows' = rows /\ tx[w].doc = s /\ row \in SettlementRow
      /\ \A t \in Settlements \ {s} : settlement'[t] = settlement[t]
      /\ settlement'[s].paid = settlement[s].paid /\ settlement'[s].due = settlement[s].due
      /\ settlement'[s].writeOff = row.writeOff + out
      /\ CanMarkPaid(row) /\ out \in Nat
  BY MarkPaidCommit
<1>2. /\ row.paid <= rows[s] /\ ("amend" \notin mix => row.due = settlement[s].due)
      /\ (~raced => row = settlement[s])
  BY <1>1 DEF PlansInv, Steady, Current, PaymentCurrent, Does
<1>3. /\ row.paid \in Nat /\ row.due \in Nat /\ row.writeOff \in Nat /\ rows[s] \in Nat
      /\ settlement[s].writeOff \in Nat /\ settlement[s].due \in Nat
  BY <1>1, BooksHold DEF Books, SettlementRow
<1>4. raced' = raced
  BY <1>1 DEF Done
<1>5. out = Round(row.due) - Round(row.paid + row.writeOff) /\ out <= WriteOffCap(Round(row.due))
  BY <1>1 DEF CanMarkPaid, Outstanding
<1> HIDE DEF row, out
<1>6. Backed'
  BY <1>1 DEF Backed
<1>7. \A t \in Settlements : settlement[t].writeOff \in Nat /\ settlement'[t].due \in Nat
  BY <1>1, BooksHold DEF Books, TypeInv, TypeOK, SettlementRow
<1>8. \A t \in Settlements : WriteOffCap(Round(settlement'[t].due)) \in Nat
  BY <1>7, RoundNat, CapNat
<1>9. ASSUME ~raced', NEW t \in Settlements
      PROVE  settlement'[t].writeOff - settlement[t].writeOff
                         <= WriteOffCap(Round(settlement'[t].due))
  <2>1. CASE t # s
    BY <1>1, <1>7, <1>8, <2>1
  <2>2. CASE t = s
    <3>1. row = settlement[s]
      BY <1>2, <1>4, <1>9
    <3>2. settlement'[s].writeOff - settlement[s].writeOff = out
      BY <1>1, <1>3, <3>1
    <3> QED
      BY <1>1, <1>5, <2>2, <3>1, <3>2
  <2> QED
    BY <2>1, <2>2
<1>10. Minor \in Nat \ {0}
  BY PayablesAssumption
<1>11. ASSUME ~raced' \/ "amend" \notin mix, NEW t \in Settlements,
              settlement'[t].payment = "PAID", settlement[t].payment # "PAID"
       PROVE  rows'[t] + settlement'[t].writeOff > settlement'[t].due - Minor
  <2>1. t = s
    BY <1>1, <1>11
  <2>2. row.due = settlement[s].due
    BY <1>2, <1>4, <1>11
  <2> DEFINE h == Minor \div 2
             a == Round(row.due)
             b == Round(row.paid + row.writeOff)
  <2>3. /\ a \in Int /\ row.due + h - Minor < a
        /\ b \in Int /\ b <= row.paid + row.writeOff + h /\ h \in Int
    BY <1>3, <1>10, RoundBounds
  <2>4. out = a - b
    BY <1>5
  <2> HIDE DEF h, a, b
  <2>5. rows[s] + (row.writeOff + out) > row.due - Minor
    BY <1>2, <1>3, <1>10, <2>3, <2>4
  <2> QED
    BY <1>1, <2>1, <2>2, <2>5
<1> QED
  BY <1>6, <1>9, <1>11 DEF PaidCovers

----------------------------------------------------------------------------
(* The inductive invariant *)

Alone == \A v, w \in Workers : tx[v].stage # "idle" /\ tx[w].stage # "idle" => v = w
Calm  == ~raced => Alone /\ Accounts /\ \A w \in Workers : tx[w].stage # "idle" => Current(tx[w])
IInv  == TypeInv /\ PlansInv /\ Backed /\ Calm

\* What every commit does.
Committed(w) == /\ tx[w].stage # "idle" /\ Done(w)
                /\ TypeInv' /\ Frame /\ (~raced => Accounts') /\ Backed'
                /\ PaidCovers /\ RateKept

LEMMA CalmBooks ==
  ASSUME IInv, NEW w \in Workers, NEW op, Does(w, op), ~raced
  PROVE  Accounts /\ Current(tx[w])
BY DEF IInv, Calm, Does

LEMMA RatesStay ==
  ASSUME \A o \in Orders : order'[o].rate = NoRate /\ order[o].rate # NoRate =>
           order[o].amount <= 0 /\ order'[o].amount <= 0
  PROVE  RateKept
BY DEF RateKept

LEMMA BooksPaid ==
  ASSUME IInv, TypeInv', settlement' = settlement, rows' = rows
  PROVE  Backed' /\ PaidCovers
BY NothingPaid DEF IInv

LEMMA MakeOrderHolds ==
  ASSUME IInv, NEW w \in Workers, NEW o \in Orders, NEW a \in Advances,
         NEW total \in Totals, NEW rate \in Rates \cup {NoRate}, NEW n \in Amounts \cup {0},
         MakeOrder(w, o, a, total, rate, n)
  PROVE  Asked(w) \/ Committed(w)
<1>1. CASE Does(w, "order")
  <2>1. /\ TypeInv' /\ Frame /\ Done(w)
        /\ settlement' = settlement /\ rows' = rows /\ order[o].life = "absent"
        /\ \A x \in Orders \ {o} : order'[x] = order[x]
    BY <1>1, MakeOrderCommit DEF IInv
  <2>2. ~raced => Accounts'
    BY <1>1, <2>1, CalmBooks, MakeOrderAccounts DEF IInv
  <2>3. Backed' /\ PaidCovers
    BY <1>1, <2>1, BooksPaid DEF IInv
  <2>4. RateKept
    BY <1>1, <2>1, RatesStay DEF IInv, TypeInv, Named
  <2> QED
    BY <1>1, <2>1, <2>2, <2>3, <2>4 DEF Committed, Does
<1> QED
  BY <1>1, MakeOrderSteps DEF IInv

LEMMA EditOrderHolds ==
  ASSUME IInv, NEW w \in Workers, NEW o \in Orders, NEW total \in Totals,
         NEW rate \in Rates \cup {NoRate}, NEW to \in {"keep", "set", "clear"},
         EditOrder(w, o, total, rate, to)
  PROVE  Asked(w) \/ Committed(w)
<1>1. CASE Does(w, "editOrder")
  <2>1. /\ TypeInv' /\ Frame /\ Done(w)
        /\ UNCHANGED <<advance, invoice, settlement, rows, moved>>
        /\ \A x \in Orders : /\ order'[x].life = order[x].life /\ order'[x].amount = order[x].amount
                             /\ order'[x].applied = order[x].applied
                             /\ order'[x].rate = NoRate /\ order[x].rate # NoRate
                                  => order[x].amount <= 0
    BY <1>1, EditOrderCommit DEF IInv
  <2>2. ~raced => Accounts'
    BY <1>1, <2>1, CalmBooks, EditOrderAccounts DEF IInv
  <2>3. Backed' /\ PaidCovers
    BY <1>1, <2>1, BooksPaid DEF IInv
  <2>4. RateKept
    BY <1>1, <2>1, RatesStay
  <2> QED
    BY <1>1, <2>1, <2>2, <2>3, <2>4 DEF Committed, Does
<1> QED
  BY <1>1, EditOrderSteps DEF IInv

LEMMA EndOrderHolds ==
  ASSUME IInv, NEW w \in Workers, NEW o \in Orders, CancelOrder(w, o) \/ DeleteOrder(w, o)
  PROVE  Asked(w) \/ Committed(w)
<1>1. CASE tx[w].stage = "open"
  <2>1. /\ TypeInv' /\ Frame /\ Done(w) /\ UNCHANGED <<advance, invoice, settlement, rows, moved>>
        /\ \A x \in Orders : /\ order'[x].life = order[x].life \/ order'[x].life # "absent"
                             /\ order'[x].amount = order[x].amount
                             /\ order'[x].applied = order[x].applied
                             /\ order'[x].rate = order[x].rate
    BY <1>1, EndOrderCommit DEF IInv
  <2>2. ~raced => Accounts'
    BY <2>1, EditOrderAccounts DEF IInv, Calm
  <2>3. Backed' /\ PaidCovers
    BY <2>1, BooksPaid
  <2>4. RateKept
    BY <2>1, RatesStay
  <2> QED
    BY <1>1, <2>1, <2>2, <2>3, <2>4 DEF Committed, Does
<1> QED
  BY <1>1, EndOrderSteps DEF IInv, Does

LEMMA AddAdvanceHolds ==
  ASSUME IInv, NEW w \in Workers, NEW a \in Advances, NEW o \in Orders,
         NEW n \in Amounts, NEW rate \in Rates \cup {NoRate}, AddAdvance(w, a, o, n, rate)
  PROVE  Asked(w) \/ Committed(w)
<1>1. CASE Does(w, "advance")
  <2>1. /\ TypeInv' /\ Frame /\ Done(w)
        /\ settlement' = settlement /\ rows' = rows /\ (order'[o].rate = NoRate => order[o].rate = NoRate)
        /\ \A x \in Orders \ {o} : order'[x] = order[x]
    BY <1>1, AddAdvanceCommit DEF IInv
  <2>2. ~raced => Accounts'
    BY <1>1, <2>1, CalmBooks, AddAdvanceAccounts DEF IInv
  <2>3. Backed' /\ PaidCovers
    BY <1>1, <2>1, BooksPaid DEF IInv
  <2>4. RateKept
    BY <1>1, <2>1, RatesStay
  <2> QED
    BY <1>1, <2>1, <2>2, <2>3, <2>4 DEF Committed, Does
<1> QED
  BY <1>1, AddAdvanceSteps DEF IInv

LEMMA EditAdvanceHolds ==
  ASSUME IInv, NEW w \in Workers, NEW a \in Advances, NEW n \in Amounts,
         NEW rate \in Rates \cup {NoRate}, EditAdvance(w, a, n, rate)
  PROVE  Asked(w) \/ Committed(w)
<1>1. CASE Does(w, "editAdvance")
  <2>1. /\ TypeInv' /\ Frame /\ Done(w)
        /\ settlement' = settlement /\ rows' = rows
        /\ order'[tx[w].order].rate = NoRate => order[tx[w].order].rate = NoRate
        /\ \A x \in Orders \ {tx[w].order} : order'[x] = order[x]
    BY <1>1, EditAdvanceCommit DEF IInv
  <2>2. ~raced => Accounts'
    BY <1>1, <2>1, CalmBooks, EditAdvanceAccounts DEF IInv
  <2>3. Backed' /\ PaidCovers
    BY <1>1, <2>1, BooksPaid DEF IInv
  <2>4. RateKept
    BY <1>1, <2>1, RatesStay
  <2> QED
    BY <1>1, <2>1, <2>2, <2>3, <2>4 DEF Committed, Does
<1> QED
  BY <1>1, EditAdvanceSteps DEF IInv

LEMMA DeleteAdvanceHolds ==
  ASSUME IInv, NEW w \in Workers, NEW a \in Advances, DeleteAdvance(w, a)
  PROVE  Asked(w) \/ Committed(w)
<1>1. CASE Does(w, "deleteAdvance")
  <2>1. /\ TypeInv' /\ Frame /\ Done(w)
        /\ settlement' = settlement /\ rows' = rows
        /\ order'[tx[w].order].rate = order[tx[w].order].rate
        /\ \A x \in Orders \ {tx[w].order} : order'[x] = order[x]
    BY <1>1, DeleteAdvanceCommit DEF IInv
  <2>2. ~raced => Accounts'
    BY <1>1, <2>1, CalmBooks, DeleteAdvanceAccounts DEF IInv
  <2>3. Backed' /\ PaidCovers
    BY <1>1, <2>1, BooksPaid DEF IInv
  <2>4. RateKept
    BY <1>1, <2>1, RatesStay
  <2> QED
    BY <1>1, <2>1, <2>2, <2>3, <2>4 DEF Committed, Does
<1> QED
  BY <1>1, DeleteAdvanceSteps DEF IInv

LEMMA BillHolds ==
  ASSUME IInv, NEW w \in Workers, NEW I \in SUBSET Invoices, NEW o \in Orders \cup {None},
         NEW total \in Totals, Bill(w, I, o, total)
  PROVE  Asked(w) \/ Opened(w) \/ Committed(w)
<1>1. CASE Does(w, "bill")
  <2>1. TypeInv' /\ Frame /\ Done(w) /\ settlement' = settlement /\ rows' = rows
    BY <1>1, BillCommit, BillDoes DEF IInv
  <2>2. ~raced => Accounts'
    BY <1>1, CalmBooks, BillAccounts DEF IInv
  <2>3. Backed' /\ PaidCovers
    BY <2>1, BooksPaid
  <2>4. PICK draw \in [I -> 0..total] : BillMade(I, o, total, draw)
    BY <1>1, BillDoes DEF IInv
  <2>5. \A x \in Orders : order'[x].rate = order[x].rate
    BY <2>4, BillRows DEF IInv
  <2>6. RateKept
    BY <2>5, RatesStay
  <2> QED
    BY <1>1, <2>1, <2>2, <2>3, <2>6 DEF Committed, Does
<1> QED
  BY <1>1, BillSteps DEF IInv

LEMMA GiveBackRates ==
  ASSUME TypeInv, NEW saw \in InvoiceRow,
         order' = order \/ (saw.order # None /\ order' = Restored(saw.order, saw.dp))
  PROVE  RateKept
BY GivenBack, RatesStay

LEMMA CancelBillHolds ==
  ASSUME IInv, NEW w \in Workers, NEW i \in Invoices, CancelBill(w, i)
  PROVE  Asked(w) \/ Opened(w) \/ Committed(w)
<1>1. CASE Does(w, "cancelBill")
  <2> DEFINE saw == tx[w].sawInv[i]
  <2>1. /\ TypeInv' /\ Frame /\ Done(w) /\ settlement' = settlement /\ rows' = rows /\ saw \in InvoiceRow
        /\ order' = IF GivesBack(i, tx[w]) THEN Restored(saw.order, saw.dp) ELSE order
    BY <1>1, CancelBillCommit DEF IInv
  <2>2. ~raced => Accounts'
    BY <1>1, CalmBooks, CancelBillAccounts DEF IInv
  <2>3. Backed' /\ PaidCovers
    BY <2>1, BooksPaid
  <2>4. RateKept
    BY <2>1, GiveBackRates DEF IInv, GivesBack
  <2> QED
    BY <1>1, <2>1, <2>2, <2>3, <2>4 DEF Committed, Does
<1> QED
  BY <1>1, CancelBillSteps DEF IInv

LEMMA EditBillHolds ==
  ASSUME IInv, NEW w \in Workers, NEW i \in Invoices, NEW o \in Orders \cup {None},
         NEW total \in Totals, EditBill(w, i, o, total)
  PROVE  Asked(w) \/ Committed(w)
<1>1. CASE Does(w, "editBill")
  <2>1. TypeInv' /\ Frame /\ Done(w) /\ settlement' = settlement /\ rows' = rows /\ order' = order
    BY <1>1, EditBillCommit DEF IInv
  <2>2. ~raced => Accounts'
    BY <1>1, CalmBooks, EditBillAccounts DEF IInv
  <2>3. Backed' /\ PaidCovers
    BY <2>1, BooksPaid
  <2>4. RateKept
    BY <2>1, RatesStay
  <2> QED
    BY <1>1, <2>1, <2>2, <2>3, <2>4 DEF Committed, Does
<1> QED
  BY <1>1, EditBillSteps DEF IInv

LEMMA DeleteBillHolds ==
  ASSUME IInv, NEW w \in Workers, NEW i \in Invoices, DeleteBill(w, i)
  PROVE  Asked(w) \/ Committed(w)
<1>1. CASE Does(w, "deleteBill")
  <2> DEFINE saw == tx[w].sawInv[i]
  <2>1. /\ TypeInv' /\ Frame /\ Done(w) /\ settlement' = settlement /\ rows' = rows /\ saw \in InvoiceRow
        /\ order' = IF saw.order # None /\ saw.dp > 0 THEN Restored(saw.order, saw.dp) ELSE order
    BY <1>1, DeleteBillCommit DEF IInv
  <2>2. ~raced => Accounts'
    BY <1>1, CalmBooks, DeleteBillAccounts DEF IInv
  <2>3. Backed' /\ PaidCovers
    BY <2>1, BooksPaid
  <2>4. RateKept
    BY <2>1, GiveBackRates DEF IInv
  <2> QED
    BY <1>1, <2>1, <2>2, <2>3, <2>4 DEF Committed, Does
<1> QED
  BY <1>1, DeleteBillSteps DEF IInv

LEMMA SettleHolds ==
  ASSUME IInv, NEW w \in Workers, NEW s \in Settlements, NEW I \in SUBSET Invoices,
         NEW n \in Amounts \cup {0}, NEW rebate \in Rebates, Settle(w, s, I, n, rebate)
  PROVE  Asked(w) \/ Committed(w)
<1>1. CASE Does(w, "settle")
  <2>1. TypeInv' /\ Frame /\ Done(w) /\ order' = order
    BY <1>1, SettleCommit DEF IInv
  <2>2. ~raced => Accounts'
    BY <1>1, CalmBooks, SettleAccounts DEF IInv
  <2>3. Backed' /\ PaidCovers
    BY <1>1, <2>1, CalmBooks, SettleCovers DEF IInv
  <2>4. RateKept
    BY <2>1, RatesStay
  <2> QED
    BY <1>1, <2>1, <2>2, <2>3, <2>4 DEF Committed, Does
<1> QED
  BY <1>1, SettleSteps DEF IInv

LEMMA AmendHolds ==
  ASSUME IInv, NEW w \in Workers, NEW s \in Settlements, NEW due \in Amounts,
         NEW to \in {"COMPLETED", "CANCELLED"}, Amend(w, s, due, to)
  PROVE  Asked(w) \/ Committed(w)
<1>1. CASE Does(w, "amend")
  <2>1. TypeInv' /\ Frame /\ Done(w) /\ order' = order
    BY <1>1, AmendCommit DEF IInv
  <2>2. ~raced => Accounts'
    BY <1>1, CalmBooks, AmendAccounts DEF IInv
  <2>3. Backed' /\ PaidCovers
    BY <1>1, <2>1, CalmBooks, AmendCommit, NothingPaid DEF IInv
  <2>4. RateKept
    BY <2>1, RatesStay
  <2> QED
    BY <1>1, <2>1, <2>2, <2>3, <2>4 DEF Committed, Does
<1> QED
  BY <1>1, AmendSteps DEF IInv

LEMMA PayHolds ==
  ASSUME IInv, NEW w \in Workers, NEW s \in Settlements, NEW n \in Amounts, Pay(w, s, n)
  PROVE  Asked(w) \/ Committed(w)
<1>1. CASE Does(w, "pay")
  <2>1. TypeInv' /\ Frame /\ Done(w) /\ order' = order
    BY <1>1, PayCommit DEF IInv
  <2>2. ~raced => Accounts'
    BY <1>1, CalmBooks, PayAccounts DEF IInv
  <2>3. Backed' /\ PaidCovers
    BY <1>1, <2>1, CalmBooks, PayCovers DEF IInv
  <2>4. RateKept
    BY <2>1, RatesStay
  <2> QED
    BY <1>1, <2>1, <2>2, <2>3, <2>4 DEF Committed, Does
<1> QED
  BY <1>1, PaySteps DEF IInv

LEMMA MarkPaidHolds ==
  ASSUME IInv, NEW w \in Workers, NEW s \in Settlements, MarkPaid(w, s)
  PROVE  Asked(w) \/ Committed(w)
<1>1. CASE Does(w, "markPaid")
  <2>1. TypeInv' /\ Frame /\ Done(w) /\ order' = order
    BY <1>1, MarkPaidCommit DEF IInv
  <2>2. ~raced => Accounts'
    BY <1>1, CalmBooks, MarkPaidAccounts DEF IInv
  <2>3. Backed' /\ PaidCovers
    BY <1>1, <2>1, CalmBooks, MarkPaidCovers DEF IInv
  <2>4. RateKept
    BY <2>1, RatesStay
  <2> QED
    BY <1>1, <2>1, <2>2, <2>3, <2>4 DEF Committed, Does
<1> QED
  BY <1>1, MarkPaidSteps DEF IInv

LEMMA RequestSteps ==
  ASSUME IInv, NEW w \in Workers, Request(w)
  PROVE  Asked(w) \/ Opened(w) \/ Abort(w) \/ Committed(w)
<1>1. CASE \E o \in Orders, total \in Totals, rate \in Rates \cup {NoRate} :
        \/ \E a \in Advances, n \in Amounts \cup {0} : MakeOrder(w, o, a, total, rate, n)
        \/ \E to \in {"keep", "set", "clear"} : EditOrder(w, o, total, rate, to)
  BY <1>1, MakeOrderHolds, EditOrderHolds
<1>2. CASE \E o \in Orders : CancelOrder(w, o) \/ DeleteOrder(w, o)
  BY <1>2, EndOrderHolds
<1>3. CASE \E a \in Advances, n \in Amounts, rate \in Rates \cup {NoRate} :
        \/ \E o \in Orders : AddAdvance(w, a, o, n, rate)
        \/ EditAdvance(w, a, n, rate)
  BY <1>3, AddAdvanceHolds, EditAdvanceHolds
<1>4. CASE \E a \in Advances : DeleteAdvance(w, a)
  BY <1>4, DeleteAdvanceHolds
<1>5. CASE \E o \in Orders \cup {None}, total \in Totals :
        \/ \E I \in SUBSET Invoices : Bill(w, I, o, total)
        \/ \E i \in Invoices : EditBill(w, i, o, total)
  BY <1>5, BillHolds, EditBillHolds
<1>6. CASE \E i \in Invoices : CancelBill(w, i) \/ DeleteBill(w, i)
  BY <1>6, CancelBillHolds, DeleteBillHolds
<1>7. CASE \E s \in Settlements :
        \/ \E I \in SUBSET Invoices, n \in Amounts \cup {0}, rebate \in Rebates :
                Settle(w, s, I, n, rebate)
        \/ \E due \in Amounts, to \in {"COMPLETED", "CANCELLED"} : Amend(w, s, due, to)
        \/ \E n \in Amounts : Pay(w, s, n)
        \/ MarkPaid(w, s)
  BY <1>7, SettleHolds, AmendHolds, PayHolds, MarkPaidHolds
<1> QED
  BY <1>1, <1>2, <1>3, <1>4, <1>5, <1>6, <1>7 DEF Request

\* What the invariants say of the books does not depend on the requests.
LEMMA BooksStay ==
  ASSUME UNCHANGED <<mix, books, moved>>
  PROVE  /\ Accounts => Accounts'
         /\ Backed => Backed'
         /\ Named => Named'
<1> USE DEF books
<1>1. \A o : Stamped(o)' = Stamped(o) /\ Advanced(o)' = Advanced(o)
  <2> TAKE o
  <2>1. \A i \in Invoices : Stamp(i, o)' = Stamp(i, o)
    BY DEF Stamp
  <2> QED
    BY <2>1, StampedSame, AdvancedSame
<1>2. Accounts => Accounts'
  <2> SUFFICES ASSUME Accounts PROVE Accounts'
    OBVIOUS
  <2>1. Ledger'
    BY <1>1 DEF Accounts, Ledger
  <2>2. Draws'
    BY <1>1 DEF Accounts, Draws
  <2>3. Fresh' /\ Matched' /\ Followed'
    BY DEF Accounts, Fresh, Matched, Followed
  <2> QED
    BY <2>1, <2>2, <2>3 DEF Accounts
<1>3. Backed => Backed'
  BY DEF Backed
<1>4. Named => Named'
  BY DEF Named
<1> QED
  BY <1>2, <1>3, <1>4

LEMMA SteadyStays ==
  ASSUME UNCHANGED <<mix, books, moved>>, NEW v, tx'[v] = tx[v], Steady(tx[v])
  PROVE  Steady(tx[v])'
BY DEF books, Steady

LEMMA CurrentStays ==
  ASSUME UNCHANGED <<mix, books, moved>>, NEW v, tx'[v] = tx[v], Current(tx[v])
  PROVE  Current(tx[v])'
BY DEF books, Current, AdvanceCurrent, InvoiceCurrent, PaymentCurrent, Recomputed

LEMMA Restaged ==
  ASSUME NEW p \in Plan, NEW st \in {"idle", "asked", "open"}
  PROVE  LET q == [p EXCEPT !.stage = st] IN
         /\ q \in Plan /\ q.stage = st /\ q.op = p.op /\ q.doc = p.doc /\ q.order = p.order
         /\ q.of = p.of /\ q.n = p.n /\ q.m = p.m /\ q.to = p.to /\ q.saw = p.saw
         /\ q.sawInv = p.sawInv /\ q.seen = p.seen
BY DEF Plan

LEMMA AskedKeeps ==
  ASSUME IInv, NEW w \in Workers, Asked(w)
  PROVE  IInv'
<1>1. PICK p \in Plan : Begin(w, p) /\ Ready(p)
  BY DEF Asked
<1> DEFINE st == IF p.op \in Reading THEN "asked" ELSE "open"
           q == [p EXCEPT !.stage = st]
<1>2. /\ tx[w].stage = "idle" /\ tx' = [tx EXCEPT ![w] = q] /\ begun < MaxRequests
      /\ begun' = begun + 1 /\ raced' = (raced \/ \E v \in Workers : tx[v].stage # "idle")
      /\ UNCHANGED <<mix, books, moved>>
  BY <1>1 DEF Begin
<1>3. st \in {"idle", "asked", "open"} /\ (st = "open" => p.op \notin {"bill", "cancelBill"})
  BY DEF Reading
<1> HIDE DEF st
<1>4. /\ q \in Plan /\ q.stage = st /\ q.op = p.op /\ q.doc = p.doc /\ q.order = p.order
      /\ q.of = p.of /\ q.n = p.n /\ q.m = p.m /\ q.to = p.to /\ q.saw = p.saw
      /\ q.sawInv = p.sawInv /\ q.seen = p.seen
  BY <1>3, Restaged
<1> HIDE DEF q
<1>5. /\ tx \in [Workers -> Plan] /\ mix \in Mixes /\ begun \in 0..MaxRequests /\ MaxRequests \in Nat
      /\ raced \in BOOLEAN
  BY PayablesAssumption DEF IInv, TypeInv, TypeOK
<1>6. tx'[w] = q /\ (\A v \in Workers \ {w} : tx'[v] = tx[v]) /\ tx' \in [Workers -> Plan]
  BY <1>2, <1>4, <1>5
<1>7. TypeInv'
  <2>1. TypeOK'
    BY <1>2, <1>5, <1>6 DEF IInv, TypeInv, TypeOK, books
  <2> QED
    BY <1>2, <2>1, BooksStay DEF IInv, TypeInv
<1>8. p.op \in mix /\ Fits(p) /\ Steady(p) /\ Current(p)
  BY <1>1 DEF Ready
<1>9. Fits(q)
  BY <1>4, <1>8 DEF Fits, Owed
<1>10. Steady(tx[w])'
  BY <1>2, <1>4, <1>6, <1>8 DEF Steady, books
<1>11. Current(tx[w])'
  <2>1. AdvanceCurrent(tx[w])'
    BY <1>2, <1>4, <1>6, <1>8 DEF Current, AdvanceCurrent, Recomputed, books
  <2>2. InvoiceCurrent(tx[w])'
    BY <1>2, <1>3, <1>4, <1>6, <1>8 DEF Current, InvoiceCurrent, books
  <2>3. PaymentCurrent(tx[w])'
    BY <1>2, <1>4, <1>6, <1>8 DEF Current, PaymentCurrent, books
  <2> QED
    BY <2>1, <2>2, <2>3 DEF Current
<1>12. PlansInv'
  <2> SUFFICES ASSUME NEW v \in Workers, tx'[v].stage # "idle"
               PROVE  tx'[v].op \in mix' /\ Fits(tx'[v]) /\ Steady(tx[v])'
    BY DEF PlansInv
  <2>1. CASE v = w
    BY <1>2, <1>4, <1>6, <1>8, <1>9, <1>10, <2>1
  <2>2. CASE v # w
    <3>1. tx'[v] = tx[v]
      BY <1>6, <2>2
    <3>2. tx[v].op \in mix /\ Fits(tx[v]) /\ Steady(tx[v])
      BY <3>1 DEF IInv, PlansInv
    <3> QED
      BY <1>2, <3>1, <3>2, SteadyStays
  <2> QED
    BY <2>1, <2>2
<1>13. Calm'
  <2> SUFFICES ASSUME ~raced'
               PROVE  /\ Alone' /\ Accounts'
                      /\ \A v \in Workers : tx'[v].stage # "idle" => Current(tx[v])'
    BY DEF Calm
  <2>1. ~raced /\ \A v \in Workers : tx[v].stage = "idle"
    BY <1>2, <1>5
  <2>2. Accounts'
    BY <1>2, <2>1, BooksStay DEF IInv, Calm
  <2>3. \A v \in Workers : tx'[v].stage # "idle" => v = w
    BY <1>6, <2>1
  <2> QED
    BY <1>11, <2>2, <2>3 DEF Alone
<1> QED
  BY <1>2, <1>7, <1>12, <1>13, BooksStay DEF IInv

LEMMA OpenedKeeps ==
  ASSUME IInv, NEW w \in Workers, Opened(w)
  PROVE  IInv'
<1>1. PICK p \in Plan :
    /\ Open(w, p)
    /\ p.op = tx[w].op /\ p.doc = tx[w].doc /\ p.order = tx[w].order /\ p.of = tx[w].of
    /\ p.n = tx[w].n /\ p.m = tx[w].m /\ p.to = tx[w].to /\ p.op \in Reading
    /\ p.op = "bill" /\ p.order # None => p.saw = order[p.order]
    /\ p.op = "cancelBill" => \A i \in p.of : p.sawInv[i] = invoice[i]
  BY DEF Opened
<1> DEFINE q == [p EXCEPT !.stage = "open"]
<1>2. /\ tx[w].stage = "asked" /\ tx' = [tx EXCEPT ![w] = q]
      /\ UNCHANGED <<mix, books, begun, raced, moved>>
  BY <1>1 DEF Open
<1>3. /\ q \in Plan /\ q.stage = "open" /\ q.op = p.op /\ q.doc = p.doc /\ q.order = p.order
      /\ q.of = p.of /\ q.n = p.n /\ q.m = p.m /\ q.to = p.to /\ q.saw = p.saw
      /\ q.sawInv = p.sawInv /\ q.seen = p.seen
  BY Restaged
<1> HIDE DEF q
<1>4. tx \in [Workers -> Plan]
  BY DEF IInv, TypeInv, TypeOK
<1>5. tx'[w] = q /\ (\A v \in Workers \ {w} : tx'[v] = tx[v]) /\ tx' \in [Workers -> Plan]
  BY <1>2, <1>3, <1>4
<1>6. TypeInv'
  <2>1. TypeOK'
    BY <1>2, <1>5 DEF IInv, TypeInv, TypeOK, books
  <2> QED
    BY <1>2, <2>1, BooksStay DEF IInv, TypeInv
<1>7. q.op \in {"bill", "cancelBill"} /\ q.op = tx[w].op /\ q.to = tx[w].to
  BY <1>1, <1>3 DEF Reading
<1>8. q.op \in mix /\ Fits(q)
  BY <1>2, <1>7 DEF IInv, PlansInv, Fits
<1>9. Steady(tx[w])'
  BY <1>5, <1>7 DEF Steady
<1>10. PlansInv'
  <2> SUFFICES ASSUME NEW v \in Workers, tx'[v].stage # "idle"
               PROVE  tx'[v].op \in mix' /\ Fits(tx'[v]) /\ Steady(tx[v])'
    BY DEF PlansInv
  <2>1. CASE v = w
    BY <1>2, <1>5, <1>8, <1>9, <2>1
  <2>2. CASE v # w
    <3>1. tx'[v] = tx[v]
      BY <1>5, <2>2
    <3>2. tx[v].op \in mix /\ Fits(tx[v]) /\ Steady(tx[v])
      BY <3>1 DEF IInv, PlansInv
    <3> QED
      BY <1>2, <3>1, <3>2, SteadyStays
  <2> QED
    BY <2>1, <2>2
<1>11. Calm'
  <2> SUFFICES ASSUME ~raced
               PROVE  /\ Alone' /\ Accounts'
                      /\ \A v \in Workers : tx'[v].stage # "idle" => Current(tx[v])'
    BY <1>2 DEF Calm
  <2>1. Alone /\ Accounts /\ Current(tx[w])
    BY <1>2 DEF IInv, Calm
  <2>2. \A v \in Workers : tx'[v].stage # "idle" => v = w
    BY <1>2, <1>5, <2>1 DEF Alone
  <2>3. InvoiceCurrent(tx[w])'
    <3>1. order' = order /\ invoice' = invoice
      BY <1>2 DEF books
    <3>2. InvoiceCurrent(tx[w])
      BY <2>1 DEF Current
    <3>3. q.op = "bill" /\ q.order # None => q.saw = order[q.order]
      BY <1>1, <1>3
    <3>4. q.op = "cancelBill" => \A i \in q.of : invoice[i].life = "live"
      BY <1>1, <1>3, <3>2 DEF InvoiceCurrent
    <3>5. q.op = "cancelBill" => \A i \in q.of : q.sawInv[i] = invoice[i]
      BY <1>1, <1>3
    <3>6. q.op = "cancelBill" /\ q.to # None => \A i \in q.of : invoice[i].settlement = None
      BY <1>1, <1>3, <3>2 DEF InvoiceCurrent
    <3> QED
      BY <1>5, <1>7, <3>1, <3>3, <3>4, <3>5, <3>6 DEF InvoiceCurrent
  <2>4. Current(tx[w])'
    BY <1>5, <1>7, <2>3 DEF Current, AdvanceCurrent, PaymentCurrent
  <2> QED
    BY <1>2, <2>1, <2>2, <2>4, BooksStay DEF Alone
<1> QED
  BY <1>2, <1>6, <1>10, <1>11, BooksStay DEF IInv

\* Once a request has ended, alone or not, the others carry what they carried.
LEMMA DoneKeeps ==
  ASSUME IInv, NEW w \in Workers, tx[w].stage # "idle", Done(w), TypeInv', Frame,
         ~raced => Accounts', Backed'
  PROVE  IInv'
<1>1. tx' = [tx EXCEPT ![w] = NoPlan] /\ mix' = mix /\ raced' = raced
  BY DEF Done
<1>2. tx \in [Workers -> Plan]
  BY DEF IInv, TypeInv, TypeOK
<1>3. tx'[w].stage = "idle" /\ \A v \in Workers \ {w} : tx'[v] = tx[v]
  BY <1>1, <1>2 DEF NoPlan
<1>4. PlansInv'
  <2> SUFFICES ASSUME NEW v \in Workers, tx'[v].stage # "idle"
               PROVE  tx'[v].op \in mix' /\ Fits(tx'[v]) /\ Steady(tx[v])'
    BY DEF PlansInv
  <2>1. tx'[v] = tx[v]
    BY <1>3
  <2>2. tx[v].op \in mix /\ Fits(tx[v]) /\ Steady(tx[v])
    BY <2>1 DEF IInv, PlansInv
  <2> DEFINE p == tx[v]
  <2>3. p \in Plan
    BY <1>2
  <2>4. p.op \in {"pay", "markPaid"} =>
         /\ settlement'[p.doc].life = "live" /\ p.seen.paid <= rows'[p.doc]
         /\ "amend" \notin mix => p.seen.due = settlement'[p.doc].due
    <3> SUFFICES ASSUME p.op \in {"pay", "markPaid"}
                 PROVE  /\ settlement'[p.doc].life = "live" /\ p.seen.paid <= rows'[p.doc]
                        /\ "amend" \notin mix => p.seen.due = settlement'[p.doc].due
      OBVIOUS
    <3>1. /\ p.doc \in Settlements /\ settlement[p.doc].life = "live" /\ p.seen.paid <= rows[p.doc]
          /\ "amend" \notin mix => p.seen.due = settlement[p.doc].due
      BY <2>2 DEF Fits, Steady
    <3>2. /\ settlement'[p.doc].life = "live" /\ rows'[p.doc] >= rows[p.doc]
          /\ "amend" \notin mix => settlement'[p.doc].due = settlement[p.doc].due
      BY <3>1 DEF Frame
    <3>3. p.seen \in SettlementRow /\ rows[p.doc] \in Nat /\ rows'[p.doc] \in Nat
      BY <2>3, <3>1 DEF Plan, IInv, TypeInv, TypeOK
    <3>4. p.seen.paid \in Nat
      BY <3>3 DEF SettlementRow
    <3> QED
      BY <3>1, <3>2, <3>3, <3>4
  <2>5. p.op \in {"editOrder", "advance", "editAdvance", "deleteAdvance"} =>
          order'[p.order].life # "absent"
    BY <2>2 DEF Steady, Fits, Frame
  <2>6. Steady(tx[v])'
    BY <1>1, <2>1, <2>4, <2>5 DEF Steady
  <2> QED
    BY <1>1, <2>1, <2>2, <2>6
<1>5. Calm'
  <2> SUFFICES ASSUME ~raced
               PROVE  /\ Alone' /\ Accounts'
                      /\ \A v \in Workers : tx'[v].stage # "idle" => Current(tx[v])'
    BY <1>1 DEF Calm
  <2>1. \A v \in Workers : tx[v].stage # "idle" => v = w
    BY DEF IInv, Calm, Alone
  <2>2. \A v \in Workers : tx'[v].stage = "idle"
    BY <1>3, <2>1
  <2> QED
    BY <2>2 DEF Alone
<1> QED
  BY <1>4, <1>5 DEF IInv

LEMMA AbortKeeps ==
  ASSUME IInv, NEW w \in Workers, Abort(w)
  PROVE  IInv' /\ RateKept /\ PaidCovers
<1>1. tx[w].stage # "idle" /\ Done(w) /\ UNCHANGED <<mix, books, moved>>
  BY DEF Abort, Done
<1>2. Books' /\ moved' \in BOOLEAN
  BY <1>1, BooksHold DEF IInv, TypeInv, TypeOK, Books, Named, books
<1>3. TypeInv'
  BY <1>1, <1>2, CommitKeeps DEF IInv
<1>4. Frame
  <2>1. settlement' = settlement /\ rows' = rows /\ order' = order
    BY <1>1 DEF books
  <2>2. \A s \in Settlements : rows[s] \in Nat
    BY DEF IInv, TypeInv, TypeOK
  <2> QED
    BY <1>1, <2>1, <2>2 DEF Frame
<1>5. ~raced => Accounts'
  BY <1>1, BooksStay DEF IInv, Calm
<1>6. Backed' /\ PaidCovers
  BY <1>1, <1>3, BooksPaid DEF books
<1>7. RateKept
  BY <1>1 DEF RateKept, books
<1> QED
  BY <1>1, <1>3, <1>4, <1>5, <1>6, <1>7, DoneKeeps

\* The first state: no request, no advance, no invoice, no settlement.
LEMMA InitIInv == Init => IInv
<1> SUFFICES ASSUME Init PROVE IInv
  OBVIOUS
<1>1. PICK total \in Totals, rate \in Rates :
         order = [o \in Orders |-> IF o \notin Standing THEN NoOrder
                    ELSE [NoOrder EXCEPT !.life = "live", !.total = total, !.rate = rate]]
  BY DEF Init
<1>2. total \in Nat /\ rate \in Int
  BY Numbers
<1>3. /\ advance = [a \in Advances |-> NoAdvance] /\ invoice = [i \in Invoices |-> NoInvoice]
      /\ settlement = [s \in Settlements |-> NoSettlement]
      /\ rows = [s \in Settlements |-> 0] /\ tx = [w \in Workers |-> NoPlan]
      /\ mix \in Mixes /\ begun = 0 /\ raced = FALSE /\ moved = FALSE
  BY DEF Init
<1> DEFINE New == [NoOrder EXCEPT !.life = "live", !.total = total, !.rate = rate]
<1>4. /\ NoOrder \in OrderRow /\ NoOrder.life = "absent" /\ NoOrder.rate = NoRate
      /\ NoOrder.amount = 0 /\ NoOrder.applied = 0
      /\ NoAdvance \in AdvanceRow /\ NoAdvance.life = "absent"
      /\ NoInvoice \in InvoiceRow /\ NoInvoice.life = "absent"
      /\ NoInvoice.settlement = None /\ NoInvoice.order = None
      /\ NoSettlement \in SettlementRow /\ NoSettlement.paid = 0
  BY DEF NoOrder, OrderRow, Lives, NoRate, NoAdvance, AdvanceRow, NoInvoice, InvoiceRow,
         NoSettlement, SettlementRow
<1>5. New \in OrderRow /\ New.life = "live" /\ New.amount = 0 /\ New.applied = 0
  BY <1>2, <1>4 DEF OrderRow, Lives
<1>6. NoPlan \in Plan /\ NoPlan.stage = "idle"
  <2>1. [i \in Invoices |-> NoInvoice] \in [Invoices -> InvoiceRow]
    BY <1>4
  <2> QED
    BY <1>4, <2>1 DEF NoPlan, Plan, Ops, OrderOps
<1> HIDE DEF New
<1>7. \A o \in Orders : /\ order[o] \in OrderRow /\ order[o].amount = 0 /\ order[o].applied = 0
                        /\ order[o].life = "absent" => order[o].rate = NoRate
  BY <1>1, <1>4, <1>5 DEF New
<1>8. order \in [Orders -> OrderRow]
  BY <1>1, <1>4, <1>5 DEF New
<1>9. MaxRequests \in Nat
  BY PayablesAssumption
<1>10. TypeOK
  <2>1. begun \in 0..MaxRequests
    BY <1>3, <1>9
  <2>2. advance \in [Advances -> AdvanceRow] /\ invoice \in [Invoices -> InvoiceRow]
    BY <1>3, <1>4
  <2>3. rows \in [Settlements -> Nat] /\ settlement \in [Settlements -> SettlementRow]
    BY <1>3, <1>4
  <2>4. tx \in [Workers -> Plan]
    BY <1>3, <1>6
  <2> QED
    BY <1>3, <1>8, <2>1, <2>2, <2>3, <2>4 DEF TypeOK
<1>11. Named
  BY <1>3, <1>4, <1>7 DEF Named
<1>12. PlansInv /\ Alone /\ \A w \in Workers : tx[w].stage = "idle"
  BY <1>3, <1>6 DEF PlansInv, Alone
<1>13. Backed /\ Matched
  BY <1>3, <1>4 DEF Backed, Matched
<1>14. ASSUME NEW o \in Orders
       PROVE  Advanced(o) = 0 /\ Stamped(o) = 0
  <2>1. \A a \in Advances : Paid(a, o) = 0
    BY <1>3, <1>4 DEF Paid
  <2>2. \A i \in Invoices : Stamp(i, o) = 0
    BY <1>3, <1>4 DEF Stamp
  <2>3. Advanced(o) = 0
    BY <2>1, SumOverZero, PayablesAssumption DEF Advanced
  <2>4. Stamped(o) = 0
    BY <2>2, SumOverZero, PayablesAssumption DEF Stamped
  <2> QED
    BY <2>3, <2>4
<1>15. Ledger /\ Draws
  BY <1>7, <1>14 DEF Ledger, Draws
<1>16. Fresh
  <2>1. None \notin Orders
    BY PayablesAssumption
  <2> QED
    BY <1>3, <1>4, <1>7, <2>1 DEF Fresh
<1>17. Followed
  BY <1>3, <1>4 DEF Followed
<1> QED
  BY <1>10, <1>11, <1>12, <1>13, <1>15, <1>16, <1>17 DEF IInv, TypeInv, Calm, Accounts

\* Every step keeps the invariant, and is one the action properties allow.
LEMMA NextIInv ==
  ASSUME IInv, [Next]_vars
  PROVE  IInv' /\ [RateKept /\ PaidCovers]_vars
<1>1. CASE UNCHANGED vars
  <2>1. TypeInv'
    BY <1>1 DEF IInv, TypeInv, TypeOK, Named, vars, books
  <2>2. UNCHANGED <<mix, books, moved>> /\ tx' = tx /\ raced' = raced
    BY <1>1 DEF vars
  <2>3. PlansInv'
    <3> SUFFICES ASSUME NEW v \in Workers, tx'[v].stage # "idle"
                 PROVE  tx'[v].op \in mix' /\ Fits(tx'[v]) /\ Steady(tx[v])'
      BY DEF PlansInv
    <3>1. tx[v].op \in mix /\ Fits(tx[v]) /\ Steady(tx[v])
      BY <2>2 DEF IInv, PlansInv
    <3> QED
      BY <2>2, <3>1, SteadyStays
  <2>4. Calm'
    <3> SUFFICES ASSUME ~raced
                 PROVE  /\ Alone' /\ Accounts'
                        /\ \A v \in Workers : tx'[v].stage # "idle" => Current(tx[v])'
      BY <2>2 DEF Calm
    <3>1. Alone /\ Accounts
      BY DEF IInv, Calm
    <3>2. \A v \in Workers : tx'[v].stage # "idle" => Current(tx[v])'
      BY <2>2, CurrentStays DEF IInv, Calm
    <3> QED
      BY <2>2, <3>1, <3>2, BooksStay DEF Alone
  <2> QED
    BY <1>1, <2>1, <2>2, <2>3, <2>4, BooksStay DEF IInv
<1>2. CASE Next
  <2>1. PICK w \in Workers : Request(w)
    BY <1>2 DEF Next
  <2>2. CASE Asked(w) \/ Opened(w)
    <3>1. IInv'
      BY <2>2, AskedKeeps, OpenedKeeps
    <3>2. UNCHANGED books
      BY <2>2 DEF Asked, Opened, Begin, Open
    <3>3. RateKept
      BY <3>2 DEF RateKept, books
    <3>4. PaidCovers
      BY <3>1, <3>2, BooksPaid DEF IInv, books
    <3> QED
      BY <3>1, <3>3, <3>4
  <2>3. CASE Abort(w)
    BY <2>3, AbortKeeps
  <2>4. CASE Committed(w)
    BY <2>4, DoneKeeps DEF Committed
  <2> QED
    BY <2>1, <2>2, <2>3, <2>4, RequestSteps
<1> QED
  BY <1>1, <1>2

LEMMA IInvImplies ==
  ASSUME IInv
  PROVE  InvoicesFollow /\ AdvanceAccounted /\ PaidBacked
<1>1. InvoicesFollow
  BY DEF IInv, TypeInv, Calm, Accounts, Followed, InvoicesFollow
<1>2. AdvanceAccounted
  BY DEF IInv, Calm, Accounts, Ledger, Draws, AdvanceAccounted
<1>3. PaidBacked
  BY DEF IInv, Calm, Accounts, Matched, Backed, PaidBacked
<1> QED
  BY <1>1, <1>2, <1>3

\* Every variable keeps its type and, unless requests overlapped, invoices say
\* they are paid, or partly, as the settlement they are linked to does.
THEOREM InvoicesFollowSettlements == Spec => []InvoicesFollow
<1>1. Init => IInv
  BY InitIInv
<1>2. IInv /\ [Next]_vars => IInv'
  BY NextIInv
<1>3. IInv => InvoicesFollow
  BY IInvImplies
<1> QED
  BY <1>1, <1>2, <1>3, PTL DEF Spec

\* Unless requests overlapped, an order's advance is the sum of its ledger and
\* the invoices draw no more than it; however they overlap, no step clears the
\* draw rate of an order that has an advance.
THEOREM AdvancesAreSound == Spec => AdvanceSound
<1>1. Init => IInv
  BY InitIInv
<1>2. IInv /\ [Next]_vars => IInv'
  BY NextIInv
<1>3. IInv /\ IInv' /\ [Next]_vars => [AdvanceAccounted' /\ RateKept]_vars
  <2> SUFFICES ASSUME IInv, IInv', [Next]_vars
               PROVE  [AdvanceAccounted' /\ RateKept]_vars
    OBVIOUS
  <2>1. [RateKept /\ PaidCovers]_vars
    BY NextIInv
  <2>2. AdvanceAccounted'
    BY DEF IInv, Calm, Accounts, Ledger, Draws, AdvanceAccounted
  <2> QED
    BY <2>1, <2>2
<1> QED
  BY <1>1, <1>2, <1>3, PTL DEF Spec, AdvanceSound

\* However payments overlap, a settlement claims no more than its ledger holds,
\* and is called PAID only when ledger and write-off make up the bill.
THEOREM PaymentsAreSound == Spec => PaidSound
<1>1. Init => IInv
  BY InitIInv
<1>2. IInv /\ [Next]_vars => IInv'
  BY NextIInv
<1>3. IInv /\ IInv' /\ [Next]_vars => [PaidBacked' /\ PaidCovers]_vars
  <2> SUFFICES ASSUME IInv, IInv', [Next]_vars
               PROVE  [PaidBacked' /\ PaidCovers]_vars
    OBVIOUS
  <2>1. [RateKept /\ PaidCovers]_vars
    BY NextIInv
  <2>2. PaidBacked'
    BY DEF IInv, Calm, Accounts, Matched, Backed, PaidBacked
  <2> QED
    BY <2>1, <2>2
<1> QED
  BY <1>1, <1>2, <1>3, PTL DEF Spec, PaidSound
=============================================================================
