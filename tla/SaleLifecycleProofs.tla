------------------------ MODULE SaleLifecycleProofs ------------------------
(***************************************************************************)
(* The safety invariants of SaleLifecycle and SaleReports for every set of *)
(* sales and workers, every price, every set of tenders, every split of    *)
(* the sales into paid-later, laundry, delivery and member sales, and      *)
(* every set of sessions, days, expenses, requests and periods.            *)
(***************************************************************************)
EXTENDS SaleReports, SumLemmas, SequenceTheorems, TLAPS

LEMMA BlankTyped == Blank \in SaleRow /\ Idle \in TxType
  BY DEF Blank, SaleRow, Idle, TxType, Status, Unused, Reversals, Open, Ops

LEMMA SnapshotTyped ==
  ASSUME TypeOK, NEW batch
  PROVE  Snapshot(batch) \in [Sales -> SaleRow]
  BY BlankTyped DEF Snapshot, TypeOK

LEMMA TotalPositive == Total \in Nat /\ Total > 0
  BY MoneyAssumption

LEMMA StatusOnPaidTyped ==
  ASSUME NEW p \in Nat
  PROVE  /\ StatusOnPaid(p) \in Open
         /\ StatusOnPaid(p) \in Status
         /\ StatusOnPaid(p) = "Partially Paid" <=> p < Total
  BY TotalPositive DEF StatusOnPaid, Open, Status

LEMMA ReceivedTyped ==
  ASSUME NEW sums \in RowSums, NEW tender \in Nat, NEW applied \in Nat
  PROVE  Received(sums, tender, applied) \in RowSums
  <1>1. /\ sums.tendered + tender \in Nat
        /\ sums.live + tender \in Nat
        /\ sums.applied + applied \in Nat
    BY DEF RowSums
  <1> QED
    BY <1>1 DEF Received, RowSums

LEMMA ReversalRequest ==
  ASSUME NEW w, NEW s, VoidSales(w, s) \/ ReturnSales(w, s) \/ RefundSales(w, s)
  PROVE  \E to \in Reversals : BeginReverse(w, s, to)
  BY DEF VoidSales, ReturnSales, RefundSales, Reversals

\* A worker's Start keeps every table and opens a typed transaction.
LEMMA StartTyped ==
  ASSUME TypeOK, NEW w \in Workers, NEW op \in Ops, NEW batch \in SUBSET Sales,
         NEW tender \in Nat, NEW to \in Reversals, Start(w, op, batch, tender, to)
  PROVE  TypeOK'
  <1>1. Snapshot(batch) \in [Sales -> SaleRow]
    BY SnapshotTyped
  <1>2. tx' \in [Workers -> TxType]
    BY <1>1 DEF Start, TypeOK, TxType
  <1> QED
    BY <1>2 DEF Start, TypeOK

LEMMA FinishTyped ==
  ASSUME TypeOK, NEW w \in Workers, Finish(w)
  PROVE  tx' \in [Workers -> TxType]
  BY BlankTyped DEF Finish, TypeOK

LEMMA CountCompletionTyped ==
  ASSUME TypeOK, NEW s \in Sales, NEW row, CountCompletion(s, row)
  PROVE  completions' \in [Sales -> Nat]
  BY DEF CountCompletion, TypeOK

(***************************************************************************)
(* Type correctness                                                        *)
(***************************************************************************)
LEMMA TypeInit == Init => TypeOK
  BY BlankTyped DEF Init, TypeOK, RowSums

LEMMA TypeCheckout ==
  ASSUME TypeOK, NEW s \in Sales, NEW t \in Tenders, Checkout(s, t)
  PROVE  TypeOK'
  <1>0. t \in Nat
    BY MoneyAssumption
  <1> DEFINE row == [Blank EXCEPT !.status = StatusOnPaid(t), !.paid = t,
                                  !.points = IF s \in Members /\ t >= Total
                                             THEN 1 ELSE 0]
  <1>1. row \in SaleRow
    BY <1>0, BlankTyped, StatusOnPaidTyped DEF SaleRow, Blank
  <1>2. /\ sale' = [sale EXCEPT ![s] = row]
        /\ CountCompletion(s, row)
        /\ rows' \in [Sales -> RowSums]
    BY <1>0 DEF Checkout, TypeOK, RowSums
  <1>3. earns' \in [Sales -> [credited: Nat, reversed: Nat]]
    BY DEF Checkout, TypeOK, Credited
  <1>4. completions' \in [Sales -> Nat]
    BY <1>2, CountCompletionTyped
  <1> QED
    BY <1>1, <1>2, <1>3, <1>4 DEF Checkout, TypeOK

LEMMA TypeCommitPay ==
  ASSUME TypeOK, NEW w \in Workers, NEW s \in Sales, CommitPay(w, s)
  PROVE  TypeOK'
  <1> DEFINE paid == tx[w].seen[s].paid + tx[w].tender
             earn == s \in Members /\ paid >= Total
             row  == [sale[s] EXCEPT !.paid = paid, !.status = StatusOnPaid(paid),
                                     !.points = IF earn THEN 1 ELSE @]
             settled == AppliedToBalance(tx[w].tender, Total - tx[w].seen[s].paid)
  <1>1. paid \in Nat /\ tx[w].tender \in Nat /\ tx[w].seen[s].paid \in Nat
    BY DEF TypeOK, TxType, SaleRow
  <1>2. row \in SaleRow
    BY <1>1, StatusOnPaidTyped DEF TypeOK, SaleRow
  <1>3. settled \in Nat
    BY <1>1, TotalPositive DEF AppliedToBalance, Lesser
  <1>4. /\ sale' = [sale EXCEPT ![s] = row]
        /\ CountCompletion(s, row)
        /\ Finish(w)
        /\ UNCHANGED <<restored, aged, raced>>
    BY DEF CommitPay
  <1>5. rows' \in [Sales -> RowSums]
    <2>1. Received(rows[s], tx[w].tender, settled) \in RowSums
      BY <1>1, <1>3, ReceivedTyped DEF TypeOK
    <2> QED
      BY <2>1 DEF CommitPay, TypeOK
  <1>6. earns' \in [Sales -> [credited: Nat, reversed: Nat]]
    BY DEF CommitPay, TypeOK, Credited
  <1>7. completions' \in [Sales -> Nat]
    BY <1>4, CountCompletionTyped
  <1>8. tx' \in [Workers -> TxType]
    BY <1>4, FinishTyped
  <1> QED
    BY <1>2, <1>4, <1>5, <1>6, <1>7, <1>8 DEF TypeOK

LEMMA TypeCommitReverse ==
  ASSUME TypeOK, NEW w \in Workers, NEW s \in Sales, CommitReverse(w, s)
  PROVE  TypeOK'
  <1>1. tx' \in [Workers -> TxType]
    BY FinishTyped DEF CommitReverse
  <1>2. sale' \in [Sales -> SaleRow]
    <2>1. tx[w].to \in Status
      BY DEF TypeOK, TxType, Status
    <2>2. [sale[s] EXCEPT !.status = tx[w].to] \in SaleRow
      BY <2>1 DEF TypeOK, SaleRow
    <2> QED
      BY <2>2 DEF CommitReverse, TypeOK
  <1>3. rows' \in [Sales -> RowSums]
    BY DEF CommitReverse, TypeOK, RowSums, RowsReversed
  <1>4. earns' \in [Sales -> [credited: Nat, reversed: Nat]]
    BY DEF CommitReverse, TypeOK
  <1> QED
    BY <1>1, <1>2, <1>3, <1>4 DEF CommitReverse, TypeOK

LEMMA TypeCommitDeliver ==
  ASSUME TypeOK, NEW w \in Workers, CommitDeliver(w)
  PROVE  TypeOK'
  <1>1. tx' \in [Workers -> TxType]
    BY FinishTyped DEF CommitDeliver
  <1>2. ASSUME NEW s \in Sales
        PROVE  DeliveredRow(sale[s], tx[w].seen[s].status) \in SaleRow
    BY DEF DeliveredRow, TypeOK, SaleRow, Status
  <1>3. sale' \in [Sales -> SaleRow]
    BY <1>2 DEF CommitDeliver, TypeOK
  <1> QED
    BY <1>1, <1>3 DEF CommitDeliver, TypeOK

LEMMA TypeCommitCollect ==
  ASSUME TypeOK, NEW w \in Workers, NEW s \in Sales, CommitCollect(w, s)
  PROVE  TypeOK'
  <1> DEFINE row == [sale[s] EXCEPT !.collected = TRUE,
                                    !.status = IF tx[w].seen[s].paid >= Total
                                               THEN "Completed" ELSE @]
  <1>1. row \in SaleRow
    BY DEF TypeOK, SaleRow, Status, Open
  <1>2. /\ sale' = [sale EXCEPT ![s] = row]
        /\ CountCompletion(s, row)
        /\ Finish(w)
        /\ UNCHANGED <<rows, restored, earns, aged, raced>>
    BY DEF CommitCollect
  <1>3. completions' \in [Sales -> Nat]
    BY <1>2, CountCompletionTyped
  <1>4. tx' \in [Workers -> TxType]
    BY <1>2, FinishTyped
  <1> QED
    BY <1>1, <1>2, <1>3, <1>4 DEF TypeOK

LEMMA TypeNext == TypeOK /\ [Next]_vars => TypeOK'
  <1> SUFFICES ASSUME TypeOK, [Next]_vars
               PROVE  TypeOK'
    OBVIOUS
  <1>1. CASE UNCHANGED vars
    BY <1>1 DEF vars, TypeOK
  <1>2. ASSUME NEW s \in Sales, NEW t \in Tenders, Checkout(s, t)
        PROVE  TypeOK'
    BY <1>2, TypeCheckout
  <1>3. ASSUME NEW s \in Sales, Remove(s)
        PROVE  TypeOK'
    BY <1>3 DEF Remove, TypeOK, SaleRow
  <1>4. ASSUME NEW s \in Sales, WindowCloses(s)
        PROVE  TypeOK'
    BY <1>4 DEF WindowCloses, TypeOK
  <1>5. ASSUME NEW w \in Workers, NEW s \in Sales, NEW t \in Tenders,
               BeginPay(w, s, t)
        PROVE  TypeOK'
    BY <1>5, StartTyped, MoneyAssumption DEF BeginPay, Ops, Reversals, Unused
  <1>6. ASSUME NEW w \in Workers, NEW s \in Sales, CommitPay(w, s)
        PROVE  TypeOK'
    BY <1>6, TypeCommitPay
  <1>7. ASSUME NEW w \in Workers, NEW s \in Sales, NEW to \in Reversals,
               BeginReverse(w, s, to)
        PROVE  TypeOK'
    BY <1>7, StartTyped DEF BeginReverse, Ops, Reversals, Unused
  <1>8. ASSUME NEW w \in Workers, NEW s \in Sales, CommitReverse(w, s)
        PROVE  TypeOK'
    BY <1>8, TypeCommitReverse
  <1>9. ASSUME NEW w \in Workers, NEW s \in Sales, BeginCollect(w, s)
        PROVE  TypeOK'
    BY <1>9, StartTyped DEF BeginCollect, Ops, Reversals, Unused
  <1>10. ASSUME NEW w \in Workers, NEW s \in Sales, CommitCollect(w, s)
         PROVE  TypeOK'
    BY <1>10, TypeCommitCollect
  <1>11. ASSUME NEW w \in Workers, NEW batch \in SUBSET Sales,
                BeginDeliver(w, batch)
         PROVE  TypeOK'
    BY <1>11, StartTyped DEF BeginDeliver, Ops, Reversals, Unused
  <1>12. ASSUME NEW w \in Workers, CommitDeliver(w)
         PROVE  TypeOK'
    BY <1>12, TypeCommitDeliver
  <1>13. ASSUME NEW w \in Workers, Abort(w)
         PROVE  TypeOK'
    BY <1>13, FinishTyped DEF Abort, TypeOK
  <1> QED
    BY <1>1, <1>2, <1>3, <1>4, <1>5, <1>6, <1>7, <1>8, <1>9, <1>10, <1>11,
       <1>12, <1>13, ReversalRequest DEF Next

\* Every reachable state has well-typed rows, payments and transactions.
THEOREM TypeCorrect == Spec => []TypeOK
  BY TypeInit, TypeNext, PTL DEF Spec
(***************************************************************************)
(* What the steps do to the rows a property reads                          *)
(***************************************************************************)
\* Finish and Start leave the other workers' snapshots alone, and what they put
\* in their own is blank or the present rows.
LEMMA FinishEffect ==
  ASSUME TypeOK, NEW w \in Workers, Finish(w), NEW v \in Workers
  PROVE  \/ tx'[v] = tx[v]
         \/ /\ tx'[v].op = "idle" /\ tx'[v].batch = {}
            /\ \A s \in Sales : tx'[v].seen[s] = Blank
  BY DEF Finish, TypeOK, Idle

LEMMA StartEffect ==
  ASSUME TypeOK, NEW w \in Workers, NEW op \in Ops, NEW batch \in SUBSET Sales,
         NEW tender \in Nat, NEW to \in Reversals, Start(w, op, batch, tender, to),
         NEW v \in Workers
  PROVE  \/ tx'[v] = tx[v]
         \/ /\ tx'[v].op = op /\ tx'[v].batch = batch
            /\ \A s \in Sales : tx'[v].seen[s] \in {sale[s], Blank}
  BY DEF Start, TypeOK, Snapshot

\* Every Begin step is a Start that touches no table.
LEMMA BeginIsStart ==
  ASSUME TypeOK, NEW w \in Workers, NEW s \in Sales,
         \/ \E t \in Tenders : BeginPay(w, s, t)
         \/ \E to \in Reversals : BeginReverse(w, s, to)
         \/ BeginCollect(w, s)
         \/ \E batch \in SUBSET Sales : BeginDeliver(w, batch)
  PROVE  /\ UNCHANGED <<sale, rows, restored, completions, earns, aged>>
         /\ \A v \in Workers, x \in Sales :
               \/ tx'[v] = tx[v]
               \/ tx'[v].seen[x] \in {sale[x], Blank}
  <1>1. CASE \E t \in Tenders : BeginPay(w, s, t)
    <2>1. PICK t \in Tenders : BeginPay(w, s, t)
      BY <1>1
    <2>2. Start(w, "pay", {s}, t, Unused)
      BY <2>1 DEF BeginPay
    <2>3. "pay" \in Ops /\ {s} \in SUBSET Sales /\ t \in Nat /\ Unused \in Reversals
      BY MoneyAssumption DEF Ops, Reversals, Unused
    <2> QED
      BY <2>2, <2>3, StartEffect DEF Start
  <1>2. CASE \E to \in Reversals : BeginReverse(w, s, to)
    <2>1. PICK to \in Reversals : BeginReverse(w, s, to)
      BY <1>2
    <2>2. Start(w, "reverse", {s}, 0, to)
      BY <2>1 DEF BeginReverse
    <2>3. "reverse" \in Ops /\ {s} \in SUBSET Sales /\ 0 \in Nat /\ to \in Reversals
      BY DEF Ops, Reversals, Unused
    <2> QED
      BY <2>2, <2>3, StartEffect DEF Start
  <1>3. CASE BeginCollect(w, s)
    <2>1. Start(w, "collect", {s}, 0, Unused)
      BY <1>3 DEF BeginCollect
    <2>2. "collect" \in Ops /\ {s} \in SUBSET Sales /\ 0 \in Nat /\ Unused \in Reversals
      BY DEF Ops, Reversals, Unused
    <2> QED
      BY <2>1, <2>2, StartEffect DEF Start
  <1>4. CASE \E batch \in SUBSET Sales : BeginDeliver(w, batch)
    <2>1. PICK batch \in SUBSET Sales : BeginDeliver(w, batch)
      BY <1>4
    <2>2. Start(w, "deliver", batch, 0, Unused)
      BY <2>1 DEF BeginDeliver
    <2>3. "deliver" \in Ops /\ 0 \in Nat /\ Unused \in Reversals
      BY DEF Ops, Reversals, Unused
    <2> QED
      BY <2>2, <2>3, StartEffect DEF Start
  <1> QED
    BY <1>1, <1>2, <1>3, <1>4

LEMMA CheckoutEffect ==
  ASSUME TypeOK, NEW s \in Sales, NEW t \in Tenders, Checkout(s, t)
  PROVE  /\ sale[s].status = "Unrung"
         /\ t \in Nat
         /\ s \in PayLater \/ t >= Total
         /\ sale'[s].status = StatusOnPaid(t)
         /\ sale'[s].paid = t
         /\ rows'[s].tendered = t
         /\ sale'[s].points > 0 => earns'[s].credited = earns[s].credited + 1
         /\ earns'[s].credited \in {earns[s].credited, earns[s].credited + 1}
         /\ earns'[s].reversed = earns[s].reversed
         /\ \A x \in Sales \ {s} : /\ sale'[x] = sale[x]
                                   /\ rows'[x] = rows[x]
                                   /\ earns'[x] = earns[x]
         /\ CountCompletion(s, sale'[s])
         /\ UNCHANGED <<restored, aged, tx>>
  <1>1. t \in Nat
    BY MoneyAssumption
  <1> DEFINE row == [Blank EXCEPT !.status = StatusOnPaid(t), !.paid = t,
                                  !.points = IF s \in Members /\ t >= Total
                                             THEN 1 ELSE 0]
  <1>2. sale' = [sale EXCEPT ![s] = row] /\ CountCompletion(s, row)
    BY DEF Checkout
  <1>3. sale'[s] = row
    BY <1>2 DEF TypeOK
  <1>4. row.status = StatusOnPaid(t) /\ row.paid = t
    BY DEF Blank
  <1>5. rows'[s].tendered = t /\ \A x \in Sales \ {s} : rows'[x] = rows[x]
    BY DEF Checkout, TypeOK
  <1>6. earns' = IF row.points > 0 THEN [earns EXCEPT ![s] = Credited(@)] ELSE earns
    BY DEF Checkout
  <1>7. Credited(earns[s]).credited = earns[s].credited + 1
        /\ Credited(earns[s]).reversed = earns[s].reversed
    BY DEF Credited, TypeOK
  <1>8. /\ row.points > 0 => earns'[s] = Credited(earns[s])
        /\ ~(row.points > 0) => earns'[s] = earns[s]
        /\ \A x \in Sales \ {s} : earns'[x] = earns[x]
    BY <1>6 DEF TypeOK
  <1>9. sale[s].status = "Unrung" /\ (s \in PayLater \/ t >= Total)
    BY DEF Checkout, Exists
  <1>10. \A x \in Sales \ {s} : sale'[x] = sale[x]
    BY <1>2 DEF TypeOK
  <1>11. UNCHANGED <<restored, aged, tx>>
    BY DEF Checkout
  <1> HIDE DEF row
  <1> QED
    BY <1>1, <1>2, <1>3, <1>4, <1>5, <1>7, <1>8, <1>9, <1>10, <1>11

LEMMA CommitPayEffect ==
  ASSUME TypeOK, NEW w \in Workers, NEW s \in Sales, CommitPay(w, s)
  PROVE  /\ tx[w].op = "pay" /\ s \in tx[w].batch
         /\ tx[w].tender \in Nat /\ tx[w].seen[s].paid \in Nat
         /\ sale'[s].paid = tx[w].seen[s].paid + tx[w].tender
         /\ sale'[s].status = StatusOnPaid(sale'[s].paid)
         /\ rows'[s].tendered = rows[s].tendered + tx[w].tender
         /\ sale'[s].points > 0 => \/ sale'[s].points = sale[s].points
                                   \/ earns'[s].credited = earns[s].credited + 1
         /\ \/ earns'[s].credited = earns[s].credited
            \/ earns[s].credited = 0 /\ earns'[s].credited = 1
         /\ earns'[s].reversed = earns[s].reversed
         /\ \A x \in Sales \ {s} : /\ sale'[x] = sale[x]
                                   /\ rows'[x] = rows[x]
                                   /\ earns'[x] = earns[x]
         /\ CountCompletion(s, sale'[s])
         /\ Finish(w)
         /\ UNCHANGED <<restored, aged>>
  <1> DEFINE paid == tx[w].seen[s].paid + tx[w].tender
             earn == s \in Members /\ paid >= Total
             row  == [sale[s] EXCEPT !.paid = paid, !.status = StatusOnPaid(paid),
                                     !.points = IF earn THEN 1 ELSE @]
             settled == AppliedToBalance(tx[w].tender, Total - tx[w].seen[s].paid)
  <1>1. tx[w].tender \in Nat /\ tx[w].seen[s].paid \in Nat
    BY DEF TypeOK, TxType, SaleRow
  <1>2. /\ tx[w].op = "pay" /\ s \in tx[w].batch
        /\ earn => MayEarn(s)
        /\ sale' = [sale EXCEPT ![s] = row]
        /\ rows' = [rows EXCEPT ![s] = Received(@, tx[w].tender, settled)]
        /\ CountCompletion(s, row)
        /\ earns' = IF earn THEN [earns EXCEPT ![s] = Credited(@)] ELSE earns
        /\ Finish(w)
        /\ UNCHANGED <<restored, aged>>
    BY DEF CommitPay
  <1>3. sale'[s] = row /\ \A x \in Sales \ {s} : sale'[x] = sale[x]
    BY <1>2 DEF TypeOK
  <1>4. /\ row.paid = paid
        /\ row.status = StatusOnPaid(paid)
        /\ row.points = IF earn THEN 1 ELSE sale[s].points
    BY DEF TypeOK, SaleRow
  <1>5. /\ rows'[s] = Received(rows[s], tx[w].tender, settled)
        /\ \A x \in Sales \ {s} : rows'[x] = rows[x]
    BY <1>2 DEF TypeOK
  <1>6. Received(rows[s], tx[w].tender, settled).tendered
          = rows[s].tendered + tx[w].tender
    BY DEF Received, TypeOK, RowSums
  <1>7. /\ earn => earns'[s] = Credited(earns[s])
        /\ ~earn => earns'[s] = earns[s]
        /\ \A x \in Sales \ {s} : earns'[x] = earns[x]
    BY <1>2 DEF TypeOK
  <1>8. /\ Credited(earns[s]).credited = earns[s].credited + 1
        /\ Credited(earns[s]).reversed = earns[s].reversed
    BY DEF Credited, TypeOK
  <1>9. earn => earns[s].credited = 0
    BY <1>2 DEF MayEarn
  <1> HIDE DEF row, earn, settled
  <1> QED
    BY <1>1, <1>2, <1>3, <1>4, <1>5, <1>6, <1>7, <1>8, <1>9

LEMMA CommitReverseEffect ==
  ASSUME TypeOK, NEW w \in Workers, NEW s \in Sales, CommitReverse(w, s)
  PROVE  /\ sale[s].status = "Completed"
         /\ sale'[s].status \in Reversals
         /\ sale'[s].paid = sale[s].paid /\ sale'[s].points = sale[s].points
         /\ rows'[s].tendered = rows[s].tendered
         /\ restored'[s] = restored[s] + 1
         /\ earns'[s].credited = earns[s].credited
         /\ \/ earns'[s].reversed = earns[s].reversed
            \/ /\ earns'[s].reversed = earns[s].reversed + 1
               /\ tx[w].seen[s].points > 0
         /\ \A x \in Sales \ {s} : /\ sale'[x] = sale[x]
                                   /\ rows'[x] = rows[x]
                                   /\ restored'[x] = restored[x]
                                   /\ earns'[x] = earns[x]
         /\ tx[w].op = "reverse" /\ sale'[s].status = tx[w].to
         /\ Finish(w)
         /\ UNCHANGED <<completions, aged>>
  <1>1. /\ sale[s].status = "Completed"
        /\ sale' = [sale EXCEPT ![s].status = tx[w].to]
        /\ rows' = [rows EXCEPT ![s] = RowsReversed(@)]
        /\ restored' = [restored EXCEPT ![s] = @ + 1]
        /\ earns' = IF tx[w].seen[s].points > 0
                    THEN [earns EXCEPT ![s].reversed = @ + 1] ELSE earns
        /\ tx[w].op = "reverse" /\ Finish(w)
        /\ UNCHANGED <<completions, aged>>
    BY DEF CommitReverse, ClaimHolds
  <1>2. tx[w].to \in Reversals
    BY DEF TypeOK, TxType
  <1>3. /\ sale'[s].status = tx[w].to
        /\ sale'[s].paid = sale[s].paid /\ sale'[s].points = sale[s].points
        /\ \A x \in Sales \ {s} : sale'[x] = sale[x]
    BY <1>1 DEF TypeOK, SaleRow
  <1>4. /\ rows'[s].tendered = rows[s].tendered
        /\ \A x \in Sales \ {s} : rows'[x] = rows[x]
    BY <1>1 DEF TypeOK, RowSums, RowsReversed
  <1>5. /\ restored'[s] = restored[s] + 1
        /\ \A x \in Sales \ {s} : restored'[x] = restored[x]
    BY <1>1 DEF TypeOK
  <1>6. /\ earns'[s].credited = earns[s].credited
        /\ \/ earns'[s].reversed = earns[s].reversed
           \/ /\ earns'[s].reversed = earns[s].reversed + 1
              /\ tx[w].seen[s].points > 0
        /\ \A x \in Sales \ {s} : earns'[x] = earns[x]
    BY <1>1 DEF TypeOK
  <1> QED
    BY <1>1, <1>2, <1>3, <1>4, <1>5, <1>6

LEMMA CommitDeliverEffect ==
  ASSUME TypeOK, NEW w \in Workers, CommitDeliver(w)
  PROVE  /\ \A x \in Sales : /\ sale'[x].status \in {sale[x].status, "Delivered"}
                             /\ sale'[x].paid = sale[x].paid
                             /\ sale'[x].points = sale[x].points
                             /\ sale[x].status = "Unrung" =>
                                  \/ sale'[x].status = "Unrung"
                                  \/ /\ tx[w].op = "deliver" /\ x \in tx[w].batch
                                     /\ tx[w].seen[x].status = "Completed"
         /\ Finish(w)
         /\ UNCHANGED <<rows, restored, completions, earns, aged>>
  <1>1. /\ tx[w].op = "deliver" /\ Finish(w)
        /\ UNCHANGED <<rows, restored, completions, earns, aged>>
    BY DEF CommitDeliver
  <1>2. ASSUME NEW x \in Sales
        PROVE  /\ sale'[x].status \in {sale[x].status, "Delivered"}
               /\ sale'[x].paid = sale[x].paid
               /\ sale'[x].points = sale[x].points
               /\ sale'[x].status # sale[x].status
                    => x \in tx[w].batch /\ tx[w].seen[x].status = "Completed"
    <2>1. CASE x \in tx[w].batch
      <3>1. sale'[x] = DeliveredRow(sale[x], tx[w].seen[x].status)
        BY <2>1 DEF CommitDeliver
      <3> QED
        BY <2>1, <3>1 DEF DeliveredRow, TypeOK, SaleRow
    <2>2. CASE x \notin tx[w].batch
      BY <2>2 DEF CommitDeliver
    <2> QED
      BY <2>1, <2>2
  <1> QED
    BY <1>1, <1>2

LEMMA CommitCollectEffect ==
  ASSUME TypeOK, NEW w \in Workers, NEW s \in Sales, CommitCollect(w, s)
  PROVE  /\ tx[w].op = "collect" /\ s \in tx[w].batch
         /\ sale'[s].status \in {sale[s].status, "Completed"}
         /\ sale'[s].paid = sale[s].paid /\ sale'[s].points = sale[s].points
         /\ \A x \in Sales \ {s} : sale'[x] = sale[x]
         /\ CountCompletion(s, sale'[s])
         /\ Finish(w)
         /\ UNCHANGED <<rows, restored, earns, aged>>
  <1> DEFINE row == [sale[s] EXCEPT !.collected = TRUE,
                                    !.status = IF tx[w].seen[s].paid >= Total
                                               THEN "Completed" ELSE @]
  <1>1. /\ tx[w].op = "collect" /\ s \in tx[w].batch
        /\ sale' = [sale EXCEPT ![s] = row]
        /\ CountCompletion(s, row)
        /\ Finish(w)
        /\ UNCHANGED <<rows, restored, earns, aged>>
    BY DEF CommitCollect
  <1>2. sale'[s] = row /\ \A x \in Sales \ {s} : sale'[x] = sale[x]
    BY <1>1 DEF TypeOK
  <1>3. /\ row.status \in {sale[s].status, "Completed"}
        /\ row.paid = sale[s].paid /\ row.points = sale[s].points
    BY DEF TypeOK, SaleRow
  <1> HIDE DEF row
  <1> QED
    BY <1>1, <1>2, <1>3

\* The steps of the server as a proof sees them: the five that write a sale, a
\* Begin, and those that change no status, money or stock.
LEMMA Steps ==
  ASSUME TypeOK, [Next]_vars
  PROVE  \/ \E s \in Sales, t \in Tenders : Checkout(s, t)
         \/ \E w \in Workers, s \in Sales : CommitPay(w, s)
         \/ \E w \in Workers, s \in Sales : CommitReverse(w, s)
         \/ \E w \in Workers : CommitDeliver(w)
         \/ \E w \in Workers, s \in Sales : CommitCollect(w, s)
         \/ /\ UNCHANGED <<rows, restored, completions, earns>>
            /\ \A x \in Sales : /\ sale'[x].status = sale[x].status
                                /\ sale'[x].paid = sale[x].paid
                                /\ sale'[x].points = sale[x].points
            /\ \A v \in Workers, x \in Sales :
                  \/ tx'[v] = tx[v]
                  \/ tx'[v].seen[x] \in {sale[x], Blank}
  <1> DEFINE Settled ==
        /\ UNCHANGED <<rows, restored, completions, earns>>
        /\ \A x \in Sales : /\ sale'[x].status = sale[x].status
                            /\ sale'[x].paid = sale[x].paid
                            /\ sale'[x].points = sale[x].points
        /\ \A v \in Workers, x \in Sales :
              \/ tx'[v] = tx[v]
              \/ tx'[v].seen[x] \in {sale[x], Blank}
  <1>1. CASE UNCHANGED vars
    <2> Settled
      BY <1>1 DEF vars
    <2> QED
      OBVIOUS
  <1>2. ASSUME NEW s \in Sales, Remove(s)
        PROVE  Settled
    BY <1>2 DEF Remove, TypeOK, SaleRow
  <1>3. ASSUME NEW s \in Sales, WindowCloses(s)
        PROVE  Settled
    BY <1>3 DEF WindowCloses
  <1>4. ASSUME NEW w \in Workers, Abort(w)
        PROVE  Settled
    <2>1. UNCHANGED <<sale, rows, restored, completions, earns>> /\ Finish(w)
      BY <1>4 DEF Abort
    <2> QED
      BY <2>1, FinishEffect
  <1>5. ASSUME NEW w \in Workers, NEW s \in Sales,
               \/ \E t \in Tenders : BeginPay(w, s, t)
               \/ \E to \in Reversals : BeginReverse(w, s, to)
               \/ BeginCollect(w, s)
               \/ \E batch \in SUBSET Sales : BeginDeliver(w, batch)
        PROVE  Settled
    BY <1>5, BeginIsStart
  <1>6. ASSUME NEW w \in Workers, NEW batch \in SUBSET Sales,
               BeginDeliver(w, batch)
        PROVE  Settled
    <2>1. PICK s \in batch : TRUE
      BY <1>6 DEF BeginDeliver
    <2> QED
      BY <1>5, <1>6, <2>1
  <1> HIDE DEF Settled
  <1>7. \/ \E s \in Sales, t \in Tenders : Checkout(s, t)
        \/ \E w \in Workers, s \in Sales : CommitPay(w, s)
        \/ \E w \in Workers, s \in Sales : CommitReverse(w, s)
        \/ \E w \in Workers : CommitDeliver(w)
        \/ \E w \in Workers, s \in Sales : CommitCollect(w, s)
        \/ Settled
    BY <1>1, <1>2, <1>3, <1>4, <1>5, <1>6, ReversalRequest DEF Next, Settled
  <1> QED
    BY <1>7 DEF Settled

(***************************************************************************)
(* Every restoration is backed by an entry into Completed                  *)
(***************************************************************************)
\* A step that writes one row and counts its completion keeps the balance.
LEMMA CountKeepsBacked ==
  ASSUME TypeOK, TypeOK', RestorationsBacked, NEW s \in Sales,
         CountCompletion(s, sale'[s]), restored' = restored,
         \A x \in Sales \ {s} : sale'[x] = sale[x]
  PROVE  RestorationsBacked'
  <1> SUFFICES ASSUME NEW x \in Sales
               PROVE  restored[x] + CompletedNow(x)' <= completions'[x]
    BY DEF RestorationsBacked
  <1>1. /\ restored[x] + CompletedNow(x) <= completions[x]
        /\ restored[x] \in Nat /\ completions[x] \in Nat
    BY DEF RestorationsBacked, TypeOK
  <1>2. CASE x = s
    BY <1>1, <1>2 DEF CountCompletion, CompletedNow, TypeOK
  <1>3. CASE x # s
    BY <1>1, <1>3 DEF CountCompletion, CompletedNow, TypeOK
  <1> QED
    BY <1>2, <1>3

LEMMA BackedNext ==
  ASSUME TypeOK, TypeOK', RestorationsBacked, [Next]_vars
  PROVE  RestorationsBacked'
  <1>1. ASSUME NEW s \in Sales, NEW t \in Tenders, Checkout(s, t)
        PROVE  RestorationsBacked'
    BY <1>1, CheckoutEffect, CountKeepsBacked
  <1>2. ASSUME NEW w \in Workers, NEW s \in Sales, CommitPay(w, s)
        PROVE  RestorationsBacked'
    BY <1>2, CommitPayEffect, CountKeepsBacked
  <1>3. ASSUME NEW w \in Workers, NEW s \in Sales, CommitReverse(w, s)
        PROVE  RestorationsBacked'
    <2>1. /\ sale[s].status = "Completed"
          /\ sale'[s].status # "Completed"
          /\ restored'[s] = restored[s] + 1
          /\ \A x \in Sales \ {s} : sale'[x] = sale[x] /\ restored'[x] = restored[x]
          /\ completions' = completions
      BY <1>3, CommitReverseEffect DEF Unused, Reversals
    <2> QED
      BY <2>1 DEF RestorationsBacked, CompletedNow, TypeOK
  <1>4. ASSUME NEW w \in Workers, CommitDeliver(w)
        PROVE  RestorationsBacked'
    <2>1. /\ \A x \in Sales : sale'[x].status \in {sale[x].status, "Delivered"}
          /\ UNCHANGED <<restored, completions>>
      BY <1>4, CommitDeliverEffect
    <2> QED
      BY <2>1 DEF RestorationsBacked, CompletedNow, TypeOK
  <1>5. ASSUME NEW w \in Workers, NEW s \in Sales, CommitCollect(w, s)
        PROVE  RestorationsBacked'
    BY <1>5, CommitCollectEffect, CountKeepsBacked
  <1>6. CASE /\ UNCHANGED <<restored, completions>>
             /\ \A x \in Sales : sale'[x].status = sale[x].status
    BY <1>6 DEF RestorationsBacked, CompletedNow
  <1> QED
    BY <1>1, <1>2, <1>3, <1>4, <1>5, <1>6, Steps

\* Every restoration of a sale's stock used up one of the sale's entries into
\* Completed, whatever the interleaving.
THEOREM RestorationsAreBacked == Spec => []RestorationsBacked
  <1>1. Init => RestorationsBacked
    <2> SUFFICES ASSUME Init, NEW s \in Sales
                 PROVE  restored[s] + CompletedNow(s) <= completions[s]
      BY DEF RestorationsBacked
    <2>1. restored[s] = 0 /\ completions[s] = 0 /\ sale[s].status = "Unrung"
      BY DEF Init, Blank
    <2> QED
      BY <2>1 DEF CompletedNow
  <1>2. TypeOK /\ TypeOK' /\ RestorationsBacked /\ [Next]_vars => RestorationsBacked'
    BY BackedNext
  <1> QED
    BY <1>1, <1>2, TypeCorrect, PTL DEF Spec

(***************************************************************************)
(* Money and points: what rows and snapshots show is in the tables         *)
(***************************************************************************)
LedgerInv == CreditBackedByRows /\ UnrungUnpaid /\ SnapshotBacked /\ EarnsBacked

\* A snapshot a step takes or leaves is backed when the tables only grow.
LEMMA SnapshotKept ==
  ASSUME TypeOK, TypeOK', LedgerInv,
         \A s \in Sales : /\ rows'[s].tendered >= rows[s].tendered
                          /\ earns'[s].credited >= earns[s].credited,
         \A v \in Workers, s \in Sales :
            tx'[v] = tx[v] \/ tx'[v].seen[s] \in {sale[s], Blank}
  PROVE  SnapshotBacked'
  <1> SUFFICES ASSUME NEW v \in Workers, NEW s \in Sales
               PROVE  /\ tx'[v].seen[s].paid <= rows'[s].tendered
                      /\ tx'[v].seen[s].points > 0 => earns'[s].credited >= 1
    BY DEF SnapshotBacked
  <1>0. /\ rows[s].tendered \in Nat /\ rows'[s].tendered \in Nat
        /\ earns[s].credited \in Nat /\ earns'[s].credited \in Nat
        /\ sale[s].paid \in Nat /\ sale[s].points \in Nat
        /\ tx[v].seen[s].paid \in Nat /\ tx[v].seen[s].points \in Nat
    BY DEF TypeOK, RowSums, SaleRow, TxType
  <1>1. CASE tx'[v] = tx[v]
    BY <1>0, <1>1 DEF LedgerInv, SnapshotBacked
  <1>2. CASE tx'[v].seen[s] = sale[s]
    BY <1>0, <1>2 DEF LedgerInv, CreditBackedByRows, EarnsBacked
  <1>3. CASE tx'[v].seen[s] = Blank
    BY <1>0, <1>3 DEF Blank
  <1> QED
    BY <1>1, <1>2, <1>3

LEMMA FinishSnapshots ==
  ASSUME TypeOK, NEW w \in Workers, Finish(w)
  PROVE  \A v \in Workers, s \in Sales :
           tx'[v] = tx[v] \/ tx'[v].seen[s] \in {sale[s], Blank}
  BY FinishEffect

LEMMA LedgerNext ==
  ASSUME TypeOK, TypeOK', LedgerInv, [Next]_vars
  PROVE  LedgerInv'
  <1> USE DEF LedgerInv
  <1>0. ASSUME NEW s \in Sales
        PROVE  /\ sale[s].paid \in Nat /\ sale[s].points \in Nat
               /\ rows[s].tendered \in Nat /\ rows'[s].tendered \in Nat
               /\ restored[s] \in Nat /\ restored'[s] \in Nat
               /\ earns[s].credited \in Nat /\ earns[s].reversed \in Nat
               /\ earns'[s].credited \in Nat /\ earns'[s].reversed \in Nat
               /\ sale[s].paid <= rows[s].tendered
               /\ sale[s].points > 0 => earns[s].credited >= 1
               /\ earns[s].reversed > 0 => earns[s].credited >= 1
               /\ earns[s].reversed <= restored[s]
    BY DEF TypeOK, SaleRow, RowSums, CreditBackedByRows, EarnsBacked
  <1>1. ASSUME NEW s \in Sales, NEW t \in Tenders, Checkout(s, t)
        PROVE  LedgerInv'
    <2>1. /\ t \in Nat /\ sale'[s].paid = t /\ rows'[s].tendered = t
          /\ sale'[s].points > 0 => earns'[s].credited = earns[s].credited + 1
          /\ earns'[s].credited \in {earns[s].credited, earns[s].credited + 1}
          /\ earns'[s].reversed = earns[s].reversed
          /\ \A x \in Sales \ {s} : /\ sale'[x] = sale[x]
                                    /\ rows'[x] = rows[x]
                                    /\ earns'[x] = earns[x]
          /\ UNCHANGED <<restored, tx>>
      BY <1>1, CheckoutEffect
    <2>2. CreditBackedByRows'
      BY <1>0, <2>1 DEF CreditBackedByRows
    <2>3. EarnsBacked'
      BY <1>0, <2>1 DEF EarnsBacked
    <2>4. rows[s].tendered = 0
      BY <1>1, CheckoutEffect DEF UnrungUnpaid
    <2>5. SnapshotBacked'
      BY <1>0, <2>1, <2>4, SnapshotKept
    <2>6. UnrungUnpaid'
      <3>1. sale'[s].status # "Unrung"
        BY <1>1, CheckoutEffect, StatusOnPaidTyped DEF Open
      <3> QED
        BY <2>1, <3>1 DEF UnrungUnpaid
    <2> QED
      BY <2>2, <2>3, <2>5, <2>6
  <1>2. ASSUME NEW w \in Workers, NEW s \in Sales, CommitPay(w, s)
        PROVE  LedgerInv'
    <2>1. /\ tx[w].tender \in Nat /\ tx[w].seen[s].paid \in Nat
          /\ sale'[s].paid = tx[w].seen[s].paid + tx[w].tender
          /\ rows'[s].tendered = rows[s].tendered + tx[w].tender
          /\ sale'[s].points > 0 => \/ sale'[s].points = sale[s].points
                                    \/ earns'[s].credited = earns[s].credited + 1
          /\ \/ earns'[s].credited = earns[s].credited
             \/ earns[s].credited = 0 /\ earns'[s].credited = 1
          /\ earns'[s].reversed = earns[s].reversed
          /\ \A x \in Sales \ {s} : /\ sale'[x] = sale[x]
                                    /\ rows'[x] = rows[x]
                                    /\ earns'[x] = earns[x]
          /\ restored' = restored
      BY <1>2, CommitPayEffect
    <2>2. tx[w].seen[s].paid <= rows[s].tendered
      BY DEF SnapshotBacked
    <2>3. CreditBackedByRows'
      BY <1>0, <2>1, <2>2 DEF CreditBackedByRows
    <2>4. EarnsBacked'
      BY <1>0, <2>1 DEF EarnsBacked
    <2>5. SnapshotBacked'
      BY <1>0, <1>2, <2>1, CommitPayEffect, FinishSnapshots, SnapshotKept
    <2>6. sale'[s].status \in Open
      <3>1. sale'[s].status = StatusOnPaid(sale'[s].paid)
        BY <1>2, CommitPayEffect
      <3>2. StatusOnPaid(sale'[s].paid) \in Open
        BY DEF StatusOnPaid, Open
      <3> QED
        BY <3>1, <3>2
    <2>7. UnrungUnpaid'
      BY <2>1, <2>6 DEF UnrungUnpaid, Open
    <2> QED
      BY <2>3, <2>4, <2>5, <2>7
  <1>3. ASSUME NEW w \in Workers, NEW s \in Sales, CommitReverse(w, s)
        PROVE  LedgerInv'
    <2>1. /\ sale'[s].paid = sale[s].paid /\ sale'[s].points = sale[s].points
          /\ rows'[s].tendered = rows[s].tendered
          /\ restored'[s] = restored[s] + 1
          /\ earns'[s].credited = earns[s].credited
          /\ \/ earns'[s].reversed = earns[s].reversed
             \/ /\ earns'[s].reversed = earns[s].reversed + 1
                /\ tx[w].seen[s].points > 0
          /\ \A x \in Sales \ {s} : /\ sale'[x] = sale[x]
                                    /\ rows'[x] = rows[x]
                                    /\ restored'[x] = restored[x]
                                    /\ earns'[x] = earns[x]
      BY <1>3, CommitReverseEffect
    <2>2. tx[w].seen[s].points > 0 => earns[s].credited >= 1
      BY DEF SnapshotBacked
    <2>3. CreditBackedByRows'
      BY <1>0, <2>1 DEF CreditBackedByRows
    <2>4. EarnsBacked'
      BY <1>0, <2>1, <2>2 DEF EarnsBacked
    <2>5. SnapshotBacked'
      BY <1>0, <1>3, <2>1, CommitReverseEffect, FinishSnapshots, SnapshotKept
    <2>6. UnrungUnpaid'
      BY <1>3, <2>1, CommitReverseEffect DEF UnrungUnpaid, Reversals
    <2> QED
      BY <2>3, <2>4, <2>5, <2>6
  <1>4. ASSUME NEW w \in Workers, CommitDeliver(w)
        PROVE  LedgerInv'
    <2>1. /\ \A x \in Sales : /\ sale'[x].paid = sale[x].paid
                              /\ sale'[x].points = sale[x].points
                              /\ sale'[x].status \in {sale[x].status, "Delivered"}
          /\ UNCHANGED <<rows, restored, earns>> /\ Finish(w)
      BY <1>4, CommitDeliverEffect
    <2>2. SnapshotBacked'
      BY <1>0, <2>1, FinishSnapshots, SnapshotKept
    <2> QED
      BY <2>1, <2>2 DEF CreditBackedByRows, UnrungUnpaid, EarnsBacked
  <1>5. ASSUME NEW w \in Workers, NEW s \in Sales, CommitCollect(w, s)
        PROVE  LedgerInv'
    <2>1. /\ \A x \in Sales : /\ sale'[x].paid = sale[x].paid
                              /\ sale'[x].points = sale[x].points
                              /\ sale'[x].status \in {sale[x].status, "Completed"}
          /\ UNCHANGED <<rows, restored, earns>> /\ Finish(w)
      BY <1>5, CommitCollectEffect
    <2>2. SnapshotBacked'
      BY <1>0, <2>1, FinishSnapshots, SnapshotKept
    <2> QED
      BY <2>1, <2>2 DEF CreditBackedByRows, UnrungUnpaid, EarnsBacked
  <1>6. CASE /\ UNCHANGED <<rows, restored, completions, earns>>
             /\ \A x \in Sales : /\ sale'[x].status = sale[x].status
                                 /\ sale'[x].paid = sale[x].paid
                                 /\ sale'[x].points = sale[x].points
             /\ \A v \in Workers, x \in Sales :
                   tx'[v] = tx[v] \/ tx'[v].seen[x] \in {sale[x], Blank}
    <2>1. SnapshotBacked'
      BY <1>0, <1>6, SnapshotKept
    <2> QED
      BY <1>6, <2>1 DEF CreditBackedByRows, UnrungUnpaid, EarnsBacked
  <1> QED
    BY <1>1, <1>2, <1>3, <1>4, <1>5, <1>6, Steps

LEMMA LedgerInit == Init => LedgerInv
  <1> SUFFICES ASSUME Init
               PROVE  LedgerInv
    OBVIOUS
  <1>1. ASSUME NEW s \in Sales
        PROVE  /\ sale[s].paid = 0 /\ sale[s].points = 0
               /\ rows[s].tendered = 0 /\ restored[s] = 0
               /\ earns[s].credited = 0 /\ earns[s].reversed = 0
    BY DEF Init, Blank
  <1>2. ASSUME NEW w \in Workers, NEW s \in Sales
        PROVE  tx[w].seen[s].paid = 0 /\ tx[w].seen[s].points = 0
    BY DEF Init, Idle, Blank
  <1> QED
    BY <1>1, <1>2 DEF LedgerInv, CreditBackedByRows, UnrungUnpaid,
                      SnapshotBacked, EarnsBacked

\* The strengthening of CreditBackedByRows: no snapshot of a transaction shows more
\* paid or earned than the tables do.
THEOREM LedgerIsBacked == Spec => []LedgerInv
  <1>1. TypeOK /\ TypeOK' /\ LedgerInv /\ [Next]_vars => LedgerInv'
    BY LedgerNext
  <1> QED
    BY <1>1, LedgerInit, TypeCorrect, PTL DEF Spec

\* paidAmount never exceeds the money its payment rows show, whatever stale
\* snapshots the payments were computed from.
THEOREM CreditIsBacked == Spec => []CreditBackedByRows
  <1>1. LedgerInv => CreditBackedByRows
    BY DEF LedgerInv
  <1> QED
    BY <1>1, LedgerIsBacked, PTL

(***************************************************************************)
(* Sales paid in full at the counter                                       *)
(***************************************************************************)
LEMMA CounterNext ==
  ASSUME TypeOK, TypeOK', CounterClosed, [Next]_vars
  PROVE  CounterClosed'
  <1> DEFINE Closed(s) ==
        /\ sale[s].status # "Partially Paid"
        /\ completions[s] <= 1
        /\ sale[s].status = "Unrung" => completions[s] = 0
             Untouched(s) ==
        \A w \in Workers : tx[w].op \in {"pay", "collect"} => s \notin tx[w].batch
  <1> SUFFICES ASSUME NEW s \in PaidAtCounter
               PROVE  Closed(s)' /\ Untouched(s)'
    BY DEF CounterClosed
  <1>0. /\ s \in Sales /\ s \notin PayLater /\ s \notin Laundry
        /\ Closed(s) /\ Untouched(s)
        /\ completions[s] \in Nat
    BY DEF CounterClosed, PaidAtCounter, TypeOK
  <1>1. Closed(s)'
    <2>1. ASSUME NEW x \in Sales, NEW t \in Tenders, Checkout(x, t)
          PROVE  Closed(s)'
      <3>1. CASE x = s
        <4>1. t \in Nat /\ t >= Total /\ sale[s].status = "Unrung"
          BY <1>0, <2>1, <3>1, CheckoutEffect
        <4>2. sale'[s].status = "Completed"
          BY <4>1, <2>1, <3>1, CheckoutEffect DEF StatusOnPaid
        <4>3. completions'[s] = completions[s] + 1
          BY <4>1, <4>2, <2>1, <3>1, CheckoutEffect DEF CountCompletion, TypeOK
        <4> QED
          BY <1>0, <4>1, <4>2, <4>3
      <3>2. CASE x # s
        <4>1. sale'[s] = sale[s] /\ CountCompletion(x, sale'[x])
          BY <1>0, <2>1, <3>2, CheckoutEffect
        <4>2. completions'[s] = completions[s]
          BY <1>0, <3>2, <4>1 DEF CountCompletion, TypeOK
        <4> QED
          BY <1>0, <4>1, <4>2
      <3> QED
        BY <3>1, <3>2
    <2>2. ASSUME NEW w \in Workers, NEW x \in Sales,
                 CommitPay(w, x) \/ CommitCollect(w, x)
          PROVE  Closed(s)'
      <3>1. x # s
        BY <1>0, <2>2 DEF CommitPay, CommitCollect
      <3>2. sale'[s] = sale[s] /\ CountCompletion(x, sale'[x])
        <4>1. CASE CommitPay(w, x)
          BY <1>0, <3>1, <4>1, CommitPayEffect
        <4>2. CASE CommitCollect(w, x)
          <5>1. /\ CountCompletion(x, sale'[x])
                /\ \A y \in Sales \ {x} : sale'[y] = sale[y]
            BY <4>2, CommitCollectEffect
          <5> QED
            BY <1>0, <3>1, <5>1
        <4> QED
          BY <2>2, <4>1, <4>2
      <3>3. completions'[s] = completions[s]
        BY <1>0, <3>1, <3>2 DEF CountCompletion, TypeOK
      <3> QED
        BY <1>0, <3>2, <3>3
    <2>3. ASSUME NEW w \in Workers, NEW x \in Sales, CommitReverse(w, x)
          PROVE  Closed(s)'
      <3>1. /\ completions' = completions
            /\ \/ sale'[s] = sale[s]
               \/ sale[s].status = "Completed" /\ sale'[s].status \in Reversals
        BY <1>0, <2>3, CommitReverseEffect
      <3> QED
        BY <1>0, <3>1 DEF Reversals
    <2>4. ASSUME NEW w \in Workers, CommitDeliver(w)
          PROVE  Closed(s)'
      <3>1. /\ completions' = completions
            /\ sale'[s].status \in {sale[s].status, "Delivered"}
        BY <1>0, <2>4, CommitDeliverEffect
      <3> QED
        BY <1>0, <3>1
    <2>5. CASE completions' = completions /\ sale'[s].status = sale[s].status
      BY <1>0, <2>5
    <2> HIDE DEF Closed
    <2> QED
      BY <1>0, <2>1, <2>2, <2>3, <2>4, <2>5, Steps
  <1>2. Untouched(s)'
    <2> SUFFICES ASSUME NEW v \in Workers, tx'[v].op \in {"pay", "collect"},
                        s \in tx'[v].batch
                 PROVE  FALSE
      OBVIOUS
    <2>0. tx'[v] # tx[v]
      BY <1>0
    <2>1. ASSUME NEW w \in Workers, Finish(w)
          PROVE  FALSE
      BY <2>0, <2>1, FinishEffect
    <2>2. ASSUME NEW w \in Workers, NEW op \in Ops, NEW batch \in SUBSET Sales,
                 NEW t \in Nat, NEW to \in Reversals, Start(w, op, batch, t, to)
          PROVE  tx'[v].op = op /\ tx'[v].batch = batch
      BY <2>0, <2>2, StartEffect
    <2>3. ASSUME NEW w \in Workers, NEW x \in Sales, NEW t \in Tenders,
                 BeginPay(w, x, t)
          PROVE  FALSE
      <3>1. sale[x].status = "Partially Paid" /\ Start(w, "pay", {x}, t, Unused)
        BY <2>3 DEF BeginPay
      <3>2. tx'[v].batch = {x}
        BY <2>2, <3>1, MoneyAssumption DEF Ops, Unused, Reversals
      <3> QED
        BY <1>0, <3>1, <3>2
    <2>4. ASSUME NEW w \in Workers, NEW x \in Sales, NEW to \in Reversals,
                 BeginReverse(w, x, to)
          PROVE  FALSE
      <3>1. Start(w, "reverse", {x}, 0, to)
        BY <2>4 DEF BeginReverse
      <3> QED
        BY <2>2, <3>1 DEF Ops
    <2>5. ASSUME NEW w \in Workers, NEW x \in Sales, BeginCollect(w, x)
          PROVE  FALSE
      <3>1. x \in Laundry /\ Start(w, "collect", {x}, 0, Unused)
        BY <2>5 DEF BeginCollect
      <3>2. tx'[v].batch = {x}
        BY <2>2, <3>1 DEF Ops, Unused, Reversals
      <3> QED
        BY <1>0, <3>1, <3>2
    <2>6. ASSUME NEW w \in Workers, NEW batch \in SUBSET Sales,
                 BeginDeliver(w, batch)
          PROVE  FALSE
      <3>1. Start(w, "deliver", batch, 0, Unused)
        BY <2>6 DEF BeginDeliver
      <3> QED
        BY <2>2, <3>1 DEF Ops, Unused, Reversals
    <2>7. CASE UNCHANGED tx
      BY <2>0, <2>7
    <2>8. CASE UNCHANGED vars
      BY <2>7, <2>8 DEF vars
    <2>9. ASSUME NEW x \in Sales,
                 \/ \E t \in Tenders : Checkout(x, t)
                 \/ Remove(x)
                 \/ WindowCloses(x)
          PROVE  FALSE
      BY <2>7, <2>9 DEF Checkout, Remove, WindowCloses
    <2>10. ASSUME NEW w \in Workers, NEW x \in Sales,
                  CommitPay(w, x) \/ CommitReverse(w, x) \/ CommitCollect(w, x)
           PROVE  FALSE
      BY <2>1, <2>10 DEF CommitPay, CommitReverse, CommitCollect
    <2>11. ASSUME NEW w \in Workers, CommitDeliver(w) \/ Abort(w)
           PROVE  FALSE
      BY <2>1, <2>11 DEF CommitDeliver, Abort
    <2> QED
      BY <2>3, <2>4, <2>5, <2>6, <2>8, <2>9, <2>10, <2>11, ReversalRequest DEF Next
  <1> QED
    BY <1>1, <1>2

\* A sale settled at checkout, outside laundry, never owes: no payment and no
\* collection is open on it, and it entered Completed once.
THEOREM CounterSalesClosed == Spec => []CounterClosed
  <1>1. Init => CounterClosed
    <2>1. ASSUME Init, NEW s \in PaidAtCounter
          PROVE  /\ sale[s].status = "Unrung" /\ completions[s] = 0
                 /\ \A w \in Workers : tx[w].op = "idle"
      BY <2>1 DEF PaidAtCounter, Init, Blank, Idle
    <2>2. 0 <= 1
      OBVIOUS
    <2> QED
      BY <2>1, <2>2 DEF CounterClosed
  <1>2. TypeOK /\ TypeOK' /\ CounterClosed /\ [Next]_vars => CounterClosed'
    BY CounterNext
  <1> QED
    BY <1>1, <1>2, TypeCorrect, PTL DEF Spec

\* A sale settled at checkout, outside laundry, restores its stock at most once.
THEOREM CounterRestoredOnce == Spec => []PaidInFullRestoredOnce
  <1>1. TypeOK /\ RestorationsBacked /\ CounterClosed => PaidInFullRestoredOnce
    <2> SUFFICES ASSUME TypeOK, RestorationsBacked, CounterClosed,
                        NEW s \in PaidAtCounter
                 PROVE  restored[s] <= 1
      BY DEF PaidInFullRestoredOnce
    <2>1. /\ s \in Sales /\ restored[s] \in Nat /\ completions[s] \in Nat
          /\ restored[s] + CompletedNow(s) <= completions[s]
          /\ CompletedNow(s) \in {0, 1}
      BY DEF PaidAtCounter, TypeOK, RestorationsBacked, CompletedNow
    <2>2. completions[s] <= 1
      BY <2>1 DEF CounterClosed
    <2> QED
      BY <2>1, <2>2
  <1> QED
    BY <1>1, RestorationsAreBacked, CounterSalesClosed, TypeCorrect, PTL

\* Such a sale never takes back more earned points than it credited.
THEOREM CounterClawbacksEarned == Spec => []ClawbacksEarned
  <1>1. TypeOK /\ LedgerInv /\ PaidInFullRestoredOnce => ClawbacksEarned
    <2> SUFFICES ASSUME TypeOK, LedgerInv, PaidInFullRestoredOnce,
                        NEW s \in PaidAtCounter
                 PROVE  earns[s].reversed <= earns[s].credited
      BY DEF ClawbacksEarned
    <2>1. /\ s \in Sales /\ restored[s] \in Nat /\ restored[s] <= 1
          /\ earns[s].reversed \in Nat /\ earns[s].credited \in Nat
      BY DEF PaidAtCounter, TypeOK, PaidInFullRestoredOnce
    <2>2. /\ earns[s].reversed > 0 => earns[s].credited >= 1
          /\ earns[s].reversed <= restored[s]
      BY <2>1 DEF LedgerInv, EarnsBacked
    <2> QED
      BY <2>1, <2>2
  <1> QED
    BY <1>1, LedgerIsBacked, CounterRestoredOnce, TypeCorrect, PTL

\* However reversals, payments and collections interleave, stock comes back
\* only for a completed sale, and for a counter sale once.
THEOREM RestoredAsSold == Spec => []RestoredOnce
  BY RestorationsAreBacked, CounterRestoredOnce, PTL DEF RestoredOnce
(***************************************************************************)
(* The money and the points of a sale follow what is left of it            *)
(***************************************************************************)
\* What the three steps that write payment rows do to the sums of a sale.
LEMMA CheckoutRows ==
  ASSUME TypeOK, NEW s \in Sales, NEW t \in Tenders, Checkout(s, t)
  PROVE  /\ rows'[s].tendered = t /\ rows'[s].live = t
         /\ rows'[s].intake = t /\ rows'[s].applied = 0
         /\ raced' = raced
  BY DEF Checkout, TypeOK

LEMMA CommitPayRows ==
  ASSUME TypeOK, NEW w \in Workers, NEW s \in Sales, CommitPay(w, s)
  PROVE  /\ rows'[s].intake = rows[s].intake
         /\ rows'[s].applied \in Nat
         /\ rows'[s].applied <= rows[s].applied + tx[w].tender
         /\ tx[w].seen[s].paid < Total =>
              rows'[s].applied <= rows[s].applied + (Total - tx[w].seen[s].paid)
         /\ raced' = raced
  <1> DEFINE settled == AppliedToBalance(tx[w].tender, Total - tx[w].seen[s].paid)
  <1>1. /\ tx[w].tender \in Nat /\ tx[w].seen[s].paid \in Nat
        /\ rows[s].applied \in Nat
    BY DEF TypeOK, TxType, SaleRow, RowSums
  <1>2. /\ settled \in Nat /\ settled <= tx[w].tender
        /\ tx[w].seen[s].paid < Total => settled <= Total - tx[w].seen[s].paid
    BY <1>1, TotalPositive DEF AppliedToBalance, Lesser
  <1>3. rows'[s] = Received(rows[s], tx[w].tender, settled) /\ raced' = raced
    BY DEF CommitPay, TypeOK
  <1> HIDE DEF settled
  <1>4. /\ rows'[s].intake = rows[s].intake
        /\ rows'[s].applied = rows[s].applied + settled
    BY <1>3 DEF Received, TypeOK, RowSums
  <1> QED
    BY <1>1, <1>2, <1>3, <1>4, TotalPositive

LEMMA CommitReverseRows ==
  ASSUME TypeOK, NEW w \in Workers, NEW s \in Sales, CommitReverse(w, s)
  PROVE  /\ rows'[s].live = 0
         /\ rows'[s].intake = rows[s].intake
         /\ rows'[s].applied = rows[s].applied
         /\ raced' = raced
  BY DEF CommitReverse, RowsReversed, TypeOK, RowSums

LEMMA RowsAreNat ==
  ASSUME TypeOK, NEW s \in Sales
  PROVE  /\ rows[s].tendered \in Nat /\ rows[s].live \in Nat
         /\ rows[s].intake \in Nat /\ rows[s].applied \in Nat
         /\ sale[s].paid \in Nat /\ earns[s].credited \in Nat
  BY DEF TypeOK, RowSums, SaleRow

\* No step but BeginPay opens a payment or joins one to another.
LEMMA PaymentsOpened ==
  ASSUME TypeOK, [Next]_vars
  PROVE  \/ \E w \in Workers, s \in Sales, t \in Tenders : BeginPay(w, s, t)
         \/ /\ raced' = raced
            /\ \A v \in Workers : tx'[v] = tx[v] \/ tx'[v].op # "pay"
  <1> DEFINE NoneOpened ==
        /\ raced' = raced
        /\ \A v \in Workers : tx'[v] = tx[v] \/ tx'[v].op # "pay"
  <1>1. ASSUME UNCHANGED <<raced, tx>>
        PROVE  NoneOpened
    BY <1>1
  <1>2. ASSUME NEW w \in Workers, Finish(w), raced' = raced
        PROVE  NoneOpened
    BY <1>2, FinishEffect
  <1>3. ASSUME NEW w \in Workers, NEW op \in Ops \ {"pay"},
               NEW batch \in SUBSET Sales, NEW to \in Reversals,
               Start(w, op, batch, 0, to)
        PROVE  NoneOpened
    <2>1. \A v \in Workers : tx'[v] = tx[v] \/ tx'[v].op = op
      BY <1>3, StartEffect
    <2>2. raced' = raced
      BY <1>3 DEF Start
    <2> QED
      BY <2>1, <2>2
  <1> HIDE DEF NoneOpened
  <1>4. ASSUME UNCHANGED vars
        PROVE  NoneOpened
    BY <1>1, <1>4 DEF vars
  <1>5. ASSUME NEW x \in Sales,
               \/ \E t \in Tenders : Checkout(x, t)
               \/ Remove(x)
               \/ WindowCloses(x)
        PROVE  NoneOpened
    BY <1>1, <1>5 DEF Checkout, Remove, WindowCloses
  <1>6. ASSUME NEW w \in Workers, NEW x \in Sales,
               CommitPay(w, x) \/ CommitReverse(w, x) \/ CommitCollect(w, x)
        PROVE  NoneOpened
    BY <1>2, <1>6 DEF CommitPay, CommitReverse, CommitCollect
  <1>7. ASSUME NEW w \in Workers, CommitDeliver(w) \/ Abort(w)
        PROVE  NoneOpened
    BY <1>2, <1>7 DEF CommitDeliver, Abort
  <1>8. ASSUME NEW w \in Workers, NEW x \in Sales, NEW to \in Reversals,
               BeginReverse(w, x, to)
        PROVE  NoneOpened
    BY <1>3, <1>8 DEF BeginReverse, Ops
  <1>9. ASSUME NEW w \in Workers, NEW x \in Sales, BeginCollect(w, x)
        PROVE  NoneOpened
    BY <1>3, <1>9 DEF BeginCollect, Ops, Unused, Reversals
  <1>10. ASSUME NEW w \in Workers, NEW batch \in SUBSET Sales,
                BeginDeliver(w, batch)
         PROVE  NoneOpened
    BY <1>3, <1>10 DEF BeginDeliver, Ops, Unused, Reversals
  <1>11. \/ \E w \in Workers, s \in Sales, t \in Tenders : BeginPay(w, s, t)
         \/ NoneOpened
    BY <1>4, <1>5, <1>6, <1>7, <1>8, <1>9, <1>10, ReversalRequest DEF Next
  <1> QED
    BY <1>11 DEF NoneOpened

LEMMA MoneyNext ==
  ASSUME TypeOK, TypeOK', MoneyInv, [Next]_vars
  PROVE  /\ ReversedRowsDead' /\ EarnedAtMostOnce'
         /\ UnrungUnearned' /\ SettledFromTendered'
  <1> DEFINE Kept(s) ==
        /\ sale[s].status \in Reversals => rows[s].live = 0
        /\ earns[s].credited <= 1
        /\ sale[s].status = "Unrung" => earns[s].credited = 0
        /\ rows[s].intake + rows[s].applied <= rows[s].tendered
  <1> SUFFICES ASSUME NEW s \in Sales
               PROVE  Kept(s)'
    BY DEF ReversedRowsDead, EarnedAtMostOnce, UnrungUnearned, SettledFromTendered
  <1>0. Kept(s)
    BY DEF MoneyInv, MoneyFollows, ReversedRowsDead, EarnedAtMostOnce,
           UnrungUnearned, SettledFromTendered
  <1>n. /\ rows[s].tendered \in Nat /\ rows[s].intake \in Nat
        /\ rows[s].applied \in Nat /\ earns[s].credited \in Nat
    BY RowsAreNat
  <1>o. /\ "Unrung" \notin Reversals /\ "Delivered" \notin Reversals
        /\ "Completed" \notin Reversals /\ Open \cap Reversals = {}
        /\ "Unrung" \notin Open
    BY DEF Reversals, Open
  <1>1. ASSUME NEW x \in Sales, NEW t \in Tenders, Checkout(x, t)
        PROVE  Kept(s)'
    <2>1. CASE x = s
      <3>1. /\ sale[s].status = "Unrung" /\ t \in Nat
            /\ sale'[s].status = StatusOnPaid(t)
            /\ earns'[s].credited \in {earns[s].credited, earns[s].credited + 1}
        BY <1>1, <2>1, CheckoutEffect
      <3>2. /\ rows'[s].tendered = t /\ rows'[s].intake = t
            /\ rows'[s].applied = 0
        BY <1>1, <2>1, CheckoutRows
      <3>3. sale'[s].status \in Open
        BY <3>1, StatusOnPaidTyped
      <3>4. earns'[s].credited <= 1
        BY <1>0, <3>1
      <3> QED
        BY <1>o, <3>1, <3>2, <3>3, <3>4
    <2>2. CASE x # s
      <3>1. sale'[s] = sale[s] /\ rows'[s] = rows[s] /\ earns'[s] = earns[s]
        BY <1>1, <2>2, CheckoutEffect
      <3> QED
        BY <1>0, <3>1
    <2> QED
      BY <2>1, <2>2
  <1>2. ASSUME NEW w \in Workers, NEW x \in Sales, CommitPay(w, x)
        PROVE  Kept(s)'
    <2>1. CASE x = s
      <3>1. /\ tx[w].tender \in Nat /\ sale'[s].paid \in Nat
            /\ sale'[s].status = StatusOnPaid(sale'[s].paid)
            /\ rows'[s].tendered = rows[s].tendered + tx[w].tender
            /\ \/ earns'[s].credited = earns[s].credited
               \/ earns[s].credited = 0 /\ earns'[s].credited = 1
        BY <1>2, <2>1, CommitPayEffect
      <3>2. /\ rows'[s].intake = rows[s].intake
            /\ rows'[s].applied \in Nat
            /\ rows'[s].applied <= rows[s].applied + tx[w].tender
        BY <1>2, <2>1, CommitPayRows
      <3>3. sale'[s].status \in Open
        BY <3>1, StatusOnPaidTyped
      <3>4. rows'[s].intake + rows'[s].applied <= rows'[s].tendered
        BY <1>0, <1>n, <3>1, <3>2
      <3> QED
        BY <1>0, <1>n, <1>o, <3>1, <3>3, <3>4
    <2>2. CASE x # s
      <3>1. sale'[s] = sale[s] /\ rows'[s] = rows[s] /\ earns'[s] = earns[s]
        BY <1>2, <2>2, CommitPayEffect
      <3> QED
        BY <1>0, <3>1
    <2> QED
      BY <2>1, <2>2
  <1>3. ASSUME NEW w \in Workers, NEW x \in Sales, CommitReverse(w, x)
        PROVE  Kept(s)'
    <2>1. CASE x = s
      <3>1. /\ sale'[s].status \in Reversals
            /\ rows'[s].tendered = rows[s].tendered
            /\ earns'[s].credited = earns[s].credited
        BY <1>3, <2>1, CommitReverseEffect
      <3>2. /\ rows'[s].live = 0 /\ rows'[s].intake = rows[s].intake
            /\ rows'[s].applied = rows[s].applied
        BY <1>3, <2>1, CommitReverseRows
      <3> QED
        BY <1>0, <1>o, <3>1, <3>2
    <2>2. CASE x # s
      <3>1. sale'[s] = sale[s] /\ rows'[s] = rows[s] /\ earns'[s] = earns[s]
        BY <1>3, <2>2, CommitReverseEffect
      <3> QED
        BY <1>0, <3>1
    <2> QED
      BY <2>1, <2>2
  <1>4. ASSUME NEW w \in Workers, CommitDeliver(w)
        PROVE  Kept(s)'
    <2>1. /\ sale'[s].status \in {sale[s].status, "Delivered"}
          /\ UNCHANGED <<rows, earns>>
      BY <1>4, CommitDeliverEffect
    <2> QED
      BY <1>0, <1>o, <2>1
  <1>5. ASSUME NEW w \in Workers, NEW x \in Sales, CommitCollect(w, x)
        PROVE  Kept(s)'
    <2>1. /\ sale'[x].status \in {sale[x].status, "Completed"}
          /\ \A y \in Sales \ {x} : sale'[y] = sale[y]
          /\ UNCHANGED <<rows, earns>>
      BY <1>5, CommitCollectEffect
    <2>2. sale'[s].status \in {sale[s].status, "Completed"}
      BY <2>1
    <2> QED
      BY <1>0, <1>o, <2>1, <2>2
  <1>6. CASE UNCHANGED <<rows, earns>> /\ sale'[s].status = sale[s].status
    BY <1>0, <1>6
  <1> HIDE DEF Kept
  <1> QED
    BY <1>1, <1>2, <1>3, <1>4, <1>5, <1>6, Steps

\* A sale no open payment writes keeps its money: a checkout finds it unrung,
\* and the other steps leave paidAmount alone and no sale unrung.
LEMMA PaidKept ==
  ASSUME TypeOK, [Next]_vars, NEW s \in Sales, Exists(s),
         \A w \in Workers : ~CommitPay(w, s)
  PROVE  /\ sale'[s].paid = sale[s].paid /\ Exists(s)'
         /\ rows'[s].tendered = rows[s].tendered
         /\ rows'[s].intake = rows[s].intake
         /\ rows'[s].applied = rows[s].applied
  <1> USE DEF Exists
  <1>1. ASSUME NEW x \in Sales, NEW t \in Tenders, Checkout(x, t)
        PROVE  sale'[s] = sale[s] /\ rows'[s] = rows[s]
    BY <1>1, CheckoutEffect
  <1>2. ASSUME NEW w \in Workers, NEW x \in Sales, CommitPay(w, x)
        PROVE  sale'[s] = sale[s] /\ rows'[s] = rows[s]
    BY <1>2, CommitPayEffect
  <1>3. ASSUME NEW w \in Workers, NEW x \in Sales, CommitReverse(w, x)
        PROVE  /\ sale'[s].paid = sale[s].paid
               /\ sale'[s].status # "Unrung"
               /\ rows'[s].tendered = rows[s].tendered
               /\ rows'[s].intake = rows[s].intake
               /\ rows'[s].applied = rows[s].applied
    <2>1. CASE x = s
      BY <1>3, <2>1, CommitReverseEffect, CommitReverseRows DEF Reversals
    <2>2. CASE x # s
      <3>1. sale'[s] = sale[s] /\ rows'[s] = rows[s]
        BY <1>3, <2>2, CommitReverseEffect
      <3> QED
        BY <3>1
    <2> QED
      BY <2>1, <2>2
  <1>4. ASSUME NEW w \in Workers, CommitDeliver(w)
        PROVE  /\ sale'[s].paid = sale[s].paid /\ rows' = rows
               /\ sale'[s].status \in {sale[s].status, "Delivered"}
    BY <1>4, CommitDeliverEffect
  <1>5. ASSUME NEW w \in Workers, NEW x \in Sales, CommitCollect(w, x)
        PROVE  /\ sale'[s].paid = sale[s].paid /\ rows' = rows
               /\ sale'[s].status \in {sale[s].status, "Completed"}
    <2>1. /\ sale'[x].status \in {sale[x].status, "Completed"}
          /\ sale'[x].paid = sale[x].paid
          /\ \A y \in Sales \ {x} : sale'[y] = sale[y]
          /\ rows' = rows
      BY <1>5, CommitCollectEffect
    <2> QED
      BY <2>1
  <1> QED
    BY <1>1, <1>2, <1>3, <1>4, <1>5, Steps

LEMMA HoldsNext ==
  ASSUME TypeOK, TypeOK', MoneyInv, [Next]_vars
  PROVE  PaymentHoldsBalance'
  <1> SUFFICES ASSUME NEW w \in Workers, NEW s \in Sales, s \notin raced',
                      tx'[w].op = "pay", s \in tx'[w].batch
               PROVE  /\ Exists(s)'
                      /\ tx'[w].seen[s].paid = sale'[s].paid
                      /\ sale'[s].paid < Total
                      /\ \A v \in Workers \ {w} :
                            tx'[v].op = "pay" => s \notin tx'[v].batch
    BY DEF PaymentHoldsBalance
  <1>1. CASE /\ raced' = raced
             /\ \A v \in Workers : tx'[v] = tx[v] \/ tx'[v].op # "pay"
    <2>1. tx'[w] = tx[w] /\ s \notin raced
      BY <1>1
    <2>2. /\ Exists(s)
          /\ tx[w].seen[s].paid = sale[s].paid
          /\ sale[s].paid < Total
          /\ \A v \in Workers \ {w} : tx[v].op = "pay" => s \notin tx[v].batch
      BY <2>1 DEF MoneyInv, PaymentHoldsBalance
    <2>3. ASSUME NEW v \in Workers, CommitPay(v, s)
          PROVE  FALSE
      <3>1. tx[v].op = "pay" /\ s \in tx[v].batch /\ Finish(v)
        BY <2>3, CommitPayEffect
      <3>2. v = w
        BY <2>2, <3>1
      <3>3. tx'[v].op = "idle"
        BY <3>1 DEF Finish, TypeOK, Idle
      <3> QED
        BY <3>2, <3>3
    <2>4. sale'[s].paid = sale[s].paid /\ Exists(s)'
      BY <2>2, <2>3, PaidKept
    <2> QED
      BY <1>1, <2>1, <2>2, <2>4
  <1>2. ASSUME NEW u \in Workers, NEW x \in Sales, NEW t \in Tenders,
               BeginPay(u, x, t)
        PROVE  /\ Exists(s)'
               /\ tx'[w].seen[s].paid = sale'[s].paid
               /\ sale'[s].paid < Total
               /\ \A v \in Workers \ {w} :
                     tx'[v].op = "pay" => s \notin tx'[v].batch
    <2>1. /\ Visible(x) /\ sale[x].paid < Total
          /\ tx[u].op = "idle"
          /\ tx' = [tx EXCEPT ![u] = [op |-> "pay", batch |-> {x}, tender |-> t,
                                      to |-> Unused, seen |-> Snapshot({x})]]
          /\ raced' = raced \cup {y \in {x} : \E v \in Workers :
                                    tx[v].op = "pay" /\ y \in tx[v].batch}
          /\ sale' = sale
      BY <1>2 DEF BeginPay, Start
    <2>2. /\ tx'[u].op = "pay" /\ tx'[u].batch = {x}
          /\ tx'[u].seen[x] = sale[x]
          /\ \A v \in Workers \ {u} : tx'[v] = tx[v]
      BY <2>1 DEF TypeOK, Snapshot
    <2>3. s \notin raced
      BY <2>1
    <2>4. CASE w = u
      <3>1. x = s
        BY <2>2, <2>4
      <3>2. \A v \in Workers : tx[v].op = "pay" => s \notin tx[v].batch
        BY <2>1, <3>1
      <3> QED
        BY <2>1, <2>2, <2>4, <3>1, <3>2 DEF Visible, Exists
    <2>5. CASE w # u
      <3>1. tx[w].op = "pay" /\ s \in tx[w].batch
        BY <2>2, <2>5
      <3>2. x # s
        BY <2>1, <3>1
      <3>3. /\ Exists(s)
            /\ tx[w].seen[s].paid = sale[s].paid
            /\ sale[s].paid < Total
            /\ \A v \in Workers \ {w} : tx[v].op = "pay" => s \notin tx[v].batch
        BY <2>3, <3>1 DEF MoneyInv, PaymentHoldsBalance
      <3> QED
        BY <2>1, <2>2, <2>5, <3>2, <3>3 DEF Exists
    <2> QED
      BY <2>4, <2>5
  <1> QED
    BY <1>1, <1>2, PaymentsOpened

LEMMA SettledNext ==
  ASSUME TypeOK, TypeOK', LedgerInv, MoneyInv, [Next]_vars
  PROVE  PaymentsSettled'
  <1> SUFFICES ASSUME NEW s \in Sales, s \notin raced'
               PROVE  /\ sale'[s].paid = rows'[s].tendered
                      /\ rows'[s].applied > 0 =>
                           rows'[s].intake + rows'[s].applied <= Total
    BY DEF PaymentsSettled
  <1>0. s \notin raced
    <2>1. CASE raced' = raced
      BY <2>1
    <2>2. ASSUME NEW w \in Workers, NEW x \in Sales, NEW t \in Tenders,
                 BeginPay(w, x, t)
          PROVE  raced \subseteq raced'
      BY <2>2 DEF BeginPay, Start
    <2> QED
      BY <2>1, <2>2, PaymentsOpened
  <1>1. /\ sale[s].paid = rows[s].tendered
        /\ rows[s].applied > 0 => rows[s].intake + rows[s].applied <= Total
        /\ rows[s].intake + rows[s].applied <= rows[s].tendered
    BY <1>0 DEF MoneyInv, MoneyFollows, PaymentsSettled, SettledFromTendered
  <1>2. /\ rows[s].tendered \in Nat /\ rows[s].intake \in Nat
        /\ rows[s].applied \in Nat /\ sale[s].paid \in Nat
    BY RowsAreNat
  <1>3. ASSUME NEW w \in Workers, CommitPay(w, s)
        PROVE  /\ sale'[s].paid = rows'[s].tendered
               /\ rows'[s].intake + rows'[s].applied <= Total
    <2>1. /\ tx[w].op = "pay" /\ s \in tx[w].batch
          /\ tx[w].tender \in Nat
          /\ sale'[s].paid = tx[w].seen[s].paid + tx[w].tender
          /\ rows'[s].tendered = rows[s].tendered + tx[w].tender
      BY <1>3, CommitPayEffect
    <2>2. tx[w].seen[s].paid = sale[s].paid /\ sale[s].paid < Total
      BY <1>0, <2>1 DEF MoneyInv, PaymentHoldsBalance
    <2>3. /\ rows'[s].intake = rows[s].intake
          /\ rows'[s].applied \in Nat
          /\ rows'[s].applied <= rows[s].applied + (Total - sale[s].paid)
      BY <1>3, <2>2, CommitPayRows
    <2> QED
      BY <1>1, <1>2, <2>1, <2>2, <2>3, TotalPositive
  <1>4. CASE Exists(s) /\ \A w \in Workers : ~CommitPay(w, s)
    BY <1>1, <1>4, PaidKept
  <1>5. CASE ~Exists(s) /\ \A w \in Workers : ~CommitPay(w, s)
    <2>1. sale[s].status = "Unrung"
      BY <1>5 DEF Exists
    <2>2. ASSUME NEW x \in Sales, NEW t \in Tenders, Checkout(x, t)
          PROVE  \/ sale'[s] = sale[s] /\ rows'[s] = rows[s]
                 \/ sale'[s].paid = rows'[s].tendered /\ rows'[s].applied = 0
      BY <2>2, CheckoutEffect, CheckoutRows
    <2>3. ASSUME NEW w \in Workers, NEW x \in Sales, CommitPay(w, x)
          PROVE  sale'[s] = sale[s] /\ rows'[s] = rows[s]
      BY <1>5, <2>3, CommitPayEffect
    <2>4. ASSUME NEW w \in Workers, NEW x \in Sales, CommitReverse(w, x)
          PROVE  sale'[s] = sale[s] /\ rows'[s] = rows[s]
      BY <2>1, <2>4, CommitReverseEffect
    <2>5. ASSUME NEW w \in Workers, CommitDeliver(w)
          PROVE  sale'[s].paid = sale[s].paid /\ rows' = rows
      BY <2>5, CommitDeliverEffect
    <2>6. ASSUME NEW w \in Workers, NEW x \in Sales, CommitCollect(w, x)
          PROVE  sale'[s].paid = sale[s].paid /\ rows' = rows
      <3>1. /\ sale'[x].paid = sale[x].paid
            /\ \A y \in Sales \ {x} : sale'[y] = sale[y]
            /\ rows' = rows
        BY <2>6, CommitCollectEffect
      <3> QED
        BY <3>1
    <2>7. \/ sale'[s].paid = sale[s].paid /\ rows'[s] = rows[s]
          \/ sale'[s].paid = rows'[s].tendered /\ rows'[s].applied = 0
      BY <2>2, <2>3, <2>4, <2>5, <2>6, Steps
    <2> QED
      BY <1>1, <2>7
  <1> QED
    BY <1>3, <1>4, <1>5

LEMMA MoneyInit == Init => MoneyInv
  <1> SUFFICES ASSUME Init
               PROVE  MoneyInv
    OBVIOUS
  <1>1. ASSUME NEW s \in Sales
        PROVE  /\ sale[s].status = "Unrung" /\ sale[s].paid = 0
               /\ rows[s].tendered = 0 /\ rows[s].intake = 0
               /\ rows[s].applied = 0 /\ earns[s].credited = 0
    BY DEF Init, Blank
  <1>2. ASSUME NEW w \in Workers
        PROVE  tx[w].op = "idle"
    BY DEF Init, Idle
  <1>3. "Unrung" \notin Reversals
    BY DEF Reversals
  <1> QED
    BY <1>1, <1>2, <1>3 DEF MoneyInv, MoneyFollows, ReversedRowsDead,
         EarnedAtMostOnce, PaymentsSettled, UnrungUnearned,
         SettledFromTendered, PaymentHoldsBalance

\* A reversed sale has no live payment row, a sale earns its points once, and
\* no payment is lost unless two payments of the same sale overlap.
THEOREM MoneyIsFollowed == Spec => []MoneyFollows
  <1>1. TypeOK /\ TypeOK' /\ LedgerInv /\ MoneyInv /\ [Next]_vars => MoneyInv'
    BY MoneyNext, HoldsNext, SettledNext DEF MoneyInv, MoneyFollows
  <1>2. MoneyInv => MoneyFollows
    BY DEF MoneyInv
  <1> QED
    BY <1>1, <1>2, MoneyInit, TypeCorrect, LedgerIsBacked, PTL DEF Spec

(***************************************************************************)
(* The sales under the reports                                             *)
(***************************************************************************)
\* Whatever is looked at, the sales live as SaleLifecycle says.
LEMMA SalesMove == [RNext]_rvars => [Next]_vars
  <1> SUFFICES ASSUME [RNext]_rvars
               PROVE  [Next]_vars
    OBVIOUS
  <1>1. CASE UNCHANGED rvars
    BY <1>1 DEF rvars
  <1>2. ASSUME NEW s \in Sales,
               \/ \E t \in Tenders : RingUp(s, t)
               \/ Delete(s) \/ Update(s) \/ Restate(s)
               \/ WindowCloses(s) /\ Beside
        PROVE  [Next]_vars
    BY <1>2 DEF RingUp, Delete, Update, Restate, Reprice, Next
  <1>3. ASSUME NEW w \in Workers, NEW s \in Sales,
               \/ \E t \in Tenders : BeginPay(w, s, t) /\ Begun /\ (mix = "cache" => t >= Total)
               \/ VoidSales(w, s) /\ Begun
               \/ ReturnSales(w, s) /\ BegunElse
               \/ RefundSales(w, s) /\ BegunElse
               \/ BeginCollect(w, s) /\ BegunElse
               \/ Settle(w, s) \/ Reverse(w, s) \/ Collect(w, s)
        PROVE  [Next]_vars
    BY <1>3 DEF Settle, Reverse, Collect, Next
  <1>4. ASSUME NEW w \in Workers,
               \/ \E batch \in SUBSET Sales : BeginDeliver(w, batch) /\ BegunElse
               \/ Confirm(w)
               \/ Abort(w) /\ mix # "cache" /\ Beside
        PROVE  [Next]_vars
    BY <1>4 DEF Confirm, Next
  <1>5. ASSUME NEW e \in Expenses,
               \/ \E d \in Days : CreateExpense(e, d) \/ UpdateExpense(e, d)
               \/ RemoveExpense(e)
        PROVE  [Next]_vars
    BY <1>5 DEF CreateExpense, UpdateExpense, RemoveExpense, Spend
  <1>6. CASE ShelfMoves
    BY <1>6 DEF ShelfMoves
  <1>7. ASSUME NEW r \in Readers,
               \/ \E P \in Periods : Ask(r, P)
               \/ \E table \in Tables : TakePrint(r, table)
               \/ Hit(r) \/ Miss(r)
               \/ \E part \in First \cup Then : Build(r, part)
               \/ Store(r)
        PROVE  [Next]_vars
    BY <1>7 DEF Ask, TakePrint, Hit, Miss, Build, Store, Quiet
  <1> QED
    BY <1>1, <1>2, <1>3, <1>4, <1>5, <1>6, <1>7 DEF RNext

\* Reports only watch: with them the sales live as SaleLifecycle says, so that all it
\* promises holds beside them.
THEOREM ReportsWatch == RSpec => Spec
  <1>1. RInit => Init
    BY DEF RInit
  <1> QED
    BY <1>1, SalesMove, PTL DEF RSpec, Spec

(***************************************************************************)
(* Fingerprints                                                            *)
(***************************************************************************)
\* MaxOf takes the greatest of a set of numbers.
LEMMA MaxOfIs ==
  ASSUME NEW n \in Nat, NEW S \in SUBSET (0 .. n)
  PROVE  /\ MaxOf(S) \in 0 .. n
         /\ \A m \in S : m <= MaxOf(S)
  <1>1. CASE S = {}
    BY <1>1 DEF MaxOf
  <1>2. CASE S # {}
    <2> DEFINE Short == {n - m : m \in S}
    <2>1. Short \subseteq Nat /\ Short # {}
      BY <1>2
    <2>2. PICK k \in Short : \A m \in Short : k <= m
      BY <2>1, LeastNat
    <2>3. PICK b \in S : k = n - b
      BY <2>2
    <2>4. \A m \in S : m <= b
      <3> SUFFICES ASSUME NEW m \in S
                   PROVE  m <= b
        OBVIOUS
      <3>1. n - m \in Short
        OBVIOUS
      <3>2. n - b <= n - m
        BY <2>2, <2>3, <3>1
      <3> QED
        BY <3>2
    <2>5. MaxOf(S) = CHOOSE x \in S : \A m \in S : m <= x
      BY <1>2 DEF MaxOf
    <2> QED
      BY <2>4, <2>5
  <1> QED
    BY <1>1, <1>2

\* The rows behind the fingerprint of a table.
RowsOf(table, P) ==
    CASE table = "sales"    -> OfDays(P)
      [] table = "payments" -> {p \in slips : p.day \in P}
      [] table = "expenses" -> {e \in Expenses : expense[e].st # "absent" /\ expense[e].day \in P}
StampsOf(table, P) ==
    CASE table = "sales"    -> {stamp[s] : s \in OfDays(P)}
      [] table = "payments" -> {p.at : p \in {q \in slips : q.day \in P}}
      [] table = "expenses" ->
           {expense[e].at : e \in {x \in Expenses : expense[x].st # "absent" /\ expense[x].day \in P}}

\* A fingerprint is the count and the latest stamp of the rows of the period.
LEMMA FingerprintIs ==
  ASSUME NEW table \in Tables, NEW P
  PROVE  /\ Fingerprint(table, P) = <<Cardinality(RowsOf(table, P)), MaxOf(StampsOf(table, P))>>
         /\ Mark(table, P) = MaxOf(StampsOf(table, P))
  BY DEF Tables, Fingerprint, Mark, RowsOf, StampsOf

\* No row is stamped later than the latest commit, so no mark is later.
LEMMA StampsBounded ==
  ASSUME RowsStamped, NEW table \in Tables, NEW P
  PROVE  StampsOf(table, P) \subseteq 0 .. latest
  BY DEF RowsStamped, Tables, StampsOf, OfDays, SlipRow, ExpenseRow

LEMMA MarkBounded ==
  ASSUME RowsStamped, NEW table \in Tables, NEW P
  PROVE  Mark(table, P) \in 0 .. latest
  BY StampsBounded, FingerprintIs, MaxOfIs DEF RowsStamped

\* A stamp among those of the table is no higher than its mark.
LEMMA MarkAbove ==
  ASSUME RowsStamped, NEW table \in Tables, NEW P, NEW t \in StampsOf(table, P)
  PROVE  Mark(table, P) >= t
  BY StampsBounded, FingerprintIs, MaxOfIs DEF RowsStamped

\* The same of the next state.
LEMMA NextFingerprint ==
  ASSUME NEW table \in Tables, NEW P
  PROVE  /\ Fingerprint(table, P)' = <<Cardinality(RowsOf(table, P)'), MaxOf(StampsOf(table, P)')>>
         /\ Mark(table, P)' = MaxOf(StampsOf(table, P)')
  BY DEF Tables, Fingerprint, Mark, RowsOf, StampsOf

\* The same of the state after a step.
LEMMA NextMark ==
  ASSUME RowsStamped', NEW table \in Tables, NEW P
  PROVE  /\ Mark(table, P)' \in 0 .. latest'
         /\ \A t \in StampsOf(table, P)' : Mark(table, P)' >= t
  <1>1. StampsOf(table, P)' \subseteq 0 .. latest' /\ latest' \in Nat
    BY DEF RowsStamped, Tables, StampsOf, OfDays, SlipRow, ExpenseRow
  <1> QED
    BY <1>1, NextFingerprint, MaxOfIs

(***************************************************************************)
(* What a write says to the reports of a period                            *)
(***************************************************************************)
SalesSame(P) == \A x \in Sales : DayOf[x] \in P => sale'[x] = sale[x] /\ margin'[x] = margin[x]
SlipsSame(P) ==
    /\ {p \in slips' : p.day \in P} = {p \in slips : p.day \in P}
    /\ \A p \in slips : p.day \in P => Counts(p.sale)' = Counts(p.sale)
CostsSame(P) ==
    \A e \in Expenses :
        \/ expense'[e] = expense[e]
        \/ /\ expense[e].st = "absent" \/ expense[e].day \notin P
           /\ expense'[e].day \notin P

\* With the rows of its period a report stays as it is.
LEMMA ReportSame ==
  ASSUME NEW P, SalesSame(P), SlipsSame(P), CostsSame(P)
  PROVE  OutletReport(P)' = OutletReport(P)
  <1> DEFINE O == OfDays(P)
             L == Live(OfDays(P))
  <1>1. OfDays(P)' = O
    BY DEF SalesSame, OfDays, Exists
  <1>2. Live(OfDays(P))' = L
    BY <1>1 DEF SalesSame, OfDays, Live
  <1>3. \A x \in Sales : DayOf[x] \in P => Line(x)' = Line(x) /\ sale'[x] = sale[x]
    BY DEF SalesSame, Line
  <1>4. \A T : \A S \in SUBSET O : {Line(x)' : x \in {y \in S : sale'[y].status \in T}} = Lines(S, T)
    BY <1>3 DEF Lines, OfDays
  <1>5. O \in SUBSET O /\ L \in SUBSET O
    BY DEF Live
  <1>6. \A T : Lines(OfDays(P), T)' = Lines(OfDays(P), T)
    BY <1>1, <1>4, <1>5 DEF Lines
  <1>7. \A T : Lines(Live(OfDays(P)), T)' = Lines(Live(OfDays(P)), T)
    BY <1>2, <1>4, <1>5 DEF Lines
  <1>8. OutletTotals(P)' = OutletTotals(P) /\ OutletRanked(P)' = OutletRanked(P)
    BY <1>6, <1>7 DEF OutletTotals, OutletRanked, Totals, Ranked
  <1>9. OutletTakings(P)' = OutletTakings(P)
    <2>1. {q \in slips' : q.day \in P} = {q \in slips : q.day \in P}
      BY DEF SlipsSame
    <2>2. {q \in {p \in slips' : p.day \in P} : Counts(q.sale)'}
            = {q \in {p \in slips : p.day \in P} : Counts(q.sale)}
      BY <2>1 DEF SlipsSame
    <2> QED
      BY <2>2 DEF OutletTakings, Counted
  <1>10. OutletList(P)' = OutletList(P) /\ OutletProfits(P)' = OutletProfits(P)
    BY <1>2, <1>7 DEF OutletList, OutletProfits, Profits
  <1>11. OutletDetails(P)' = OutletDetails(P)
    BY <1>7 DEF OutletDetails, Details
  <1>12. OutletLaundry(P)' = OutletLaundry(P)
    <2>1. L \cap Laundry \in SUBSET O /\ Live(Live(OfDays(P))) = L
      BY DEF Live
    <2>2. /\ Live(OfDays(P))' \cap Laundry = L \cap Laundry
          /\ \A T : Lines(Live(OfDays(P)) \cap Laundry, T)' = Lines(Live(OfDays(P)) \cap Laundry, T)
      BY <1>2, <1>4, <2>1 DEF Lines
    <2> QED
      BY <2>2 DEF OutletLaundry, Loads, Services
  <1>13. OutletCosts(P)' = OutletCosts(P)
    BY DEF OutletCosts, CostsSame
  <1>14. \A part \in First \cup Then : Read(part, P)' = Read(part, P)
    BY <1>8, <1>9, <1>10, <1>11, <1>12, <1>13 DEF Read, First, Then
  <1> QED
    BY <1>14 DEF OutletReport

\* The write changes no fingerprint of P or lifts a mark above all there were,
\* and a report of P changes only with a fingerprint.
Tells(P) ==
    /\ \A table \in Tables : \/ Fingerprint(table, P)' = Fingerprint(table, P)
                             \/ Mark(table, P)' > latest
    /\ (\A table \in Tables : Fingerprint(table, P)' = Fingerprint(table, P))
          => OutletReport(P)' = OutletReport(P)

\* A write of sale and payment rows shows in the mark of every clear period whose
\* report it changes.
LEMMA WroteTells ==
  ASSUME RowsStamped, RowsStamped', mix = "cache",
         NEW S \in SUBSET Sales, NEW paid \in SUBSET slips, NEW new, NEW t \in Nat,
         Wrote(S, paid, new, t),
         \A x \in Sales \ S : sale'[x] = sale[x] /\ margin'[x] = margin[x],
         \A x \in Sales : Exists(x) \/ x \in S => sale'[x].status # "Unrung",
         \A p \in new : p.at = t /\ p.sale \in S,
         NEW P, Clear(P)'
  PROVE  Tells(P)
  <1> DEFINE D == {DayOf[s] : s \in S} \cup {p.day : p \in paid \cup new}
  <1>1. /\ stamp' = [s \in Sales |-> IF s \in S THEN t ELSE stamp[s]]
        /\ slips' = {IF p \in paid THEN [p EXCEPT !.at = t] ELSE p : p \in slips} \cup new
        /\ latest' = IF t > latest THEN t ELSE latest
        /\ late' = IF t <= latest THEN late \cup D ELSE late
        /\ expense' = expense
    BY DEF Wrote, Dated
  <1>2. P \cap late' = {} /\ P \cap strayed' = {}
    BY DEF Clear
  <1>3. ASSUME NEW d \in D, d \in P
        PROVE  t > latest
    BY <1>1, <1>2, <1>3 DEF RowsStamped
  <1>4. \A table \in Tables : t \in StampsOf(table, P)' /\ t > latest => Mark(table, P)' > latest
    <2> SUFFICES ASSUME NEW table \in Tables, t \in StampsOf(table, P)', t > latest
                 PROVE  Mark(table, P)' > latest
      OBVIOUS
    <2>1. Mark(table, P)' >= t /\ Mark(table, P)' \in 0 .. latest'
      BY NextMark
    <2> QED
      BY <2>1 DEF RowsStamped
  <1>5. \/ Mark("sales", P)' > latest
        \/ /\ \A x \in S : DayOf[x] \notin P
           /\ Fingerprint("sales", P)' = Fingerprint("sales", P)
    <2>1. ASSUME NEW x \in S, DayOf[x] \in P
          PROVE  Mark("sales", P)' > latest
      <3>1. x \in OfDays(P)' /\ stamp'[x] = t
        BY <1>1, <2>1 DEF OfDays, Exists
      <3>2. t \in StampsOf("sales", P)'
        BY <3>1 DEF StampsOf
      <3> QED
        BY <1>3, <1>4, <2>1, <3>2 DEF Tables
    <2>2. ASSUME \A x \in S : DayOf[x] \notin P
          PROVE  Fingerprint("sales", P)' = Fingerprint("sales", P)
      <3>1. \A x \in Sales : DayOf[x] \in P => sale'[x] = sale[x] /\ stamp'[x] = stamp[x]
        BY <1>1, <2>2
      <3>2. OfDays(P)' = OfDays(P)
        BY <3>1 DEF OfDays, Exists
      <3>3. StampsOf("sales", P)' = StampsOf("sales", P)
        BY <3>1, <3>2 DEF StampsOf, OfDays
      <3> QED
        BY <3>2, <3>3, FingerprintIs, NextFingerprint DEF Tables, RowsOf
    <2> QED
      BY <2>1, <2>2
  <1>6. \/ Mark("payments", P)' > latest
        \/ /\ \A p \in paid : p.day \notin P
           /\ {p \in slips' : p.day \in P} = {p \in slips : p.day \in P}
           /\ Fingerprint("payments", P)' = Fingerprint("payments", P)
    <2>1. ASSUME NEW p \in paid \cup new, p.day \in P
          PROVE  Mark("payments", P)' > latest
      <3>1. PICK q \in slips' : q.day = p.day /\ q.at = t
        <4>1. CASE p \in new
          BY <1>1, <4>1
        <4>2. CASE p \in paid
          <5>1. [p EXCEPT !.at = t] \in slips'
            BY <1>1, <4>2
          <5>2. [p EXCEPT !.at = t].day = p.day /\ [p EXCEPT !.at = t].at = t
            BY <4>2 DEF RowsStamped, SlipRow
          <5> QED
            BY <5>1, <5>2
        <4> QED
          BY <4>1, <4>2
      <3>2. t \in StampsOf("payments", P)'
        BY <2>1, <3>1 DEF StampsOf
      <3> QED
        BY <1>3, <1>4, <2>1, <3>2 DEF Tables
    <2>2. ASSUME \A p \in paid \cup new : p.day \notin P
          PROVE  /\ {p \in slips' : p.day \in P} = {p \in slips : p.day \in P}
                 /\ Fingerprint("payments", P)' = Fingerprint("payments", P)
      <3>1. \A p \in paid : [p EXCEPT !.at = t].day = p.day
        BY DEF RowsStamped, SlipRow
      <3>2. \A q \in slips' : q.day \in P => q \in slips
        <4> SUFFICES ASSUME NEW q \in slips', q.day \in P
                     PROVE  q \in slips
          OBVIOUS
        <4>1. PICK p \in slips : q = IF p \in paid THEN [p EXCEPT !.at = t] ELSE p
          BY <1>1, <2>2
        <4> QED
          BY <2>2, <3>1, <4>1
      <3>3. \A q \in slips : q.day \in P => q \in slips'
        BY <1>1, <2>2
      <3>4. {p \in slips' : p.day \in P} = {p \in slips : p.day \in P}
        BY <3>2, <3>3
      <3>5. StampsOf("payments", P)' = StampsOf("payments", P)
        BY <3>4 DEF StampsOf
      <3>6. RowsOf("payments", P)' = RowsOf("payments", P)
        BY <3>4 DEF RowsOf
      <3> QED
        BY <3>4, <3>5, <3>6, FingerprintIs, NextFingerprint DEF Tables
    <2> QED
      BY <2>1, <2>2
  <1>7. Fingerprint("expenses", P)' = Fingerprint("expenses", P)
    BY <1>1 DEF Fingerprint
  <1>8. ASSUME \A table \in Tables : Fingerprint(table, P)' = Fingerprint(table, P)
        PROVE  OutletReport(P)' = OutletReport(P)
    <2>1. \A table \in Tables : ~(Mark(table, P)' > latest)
      <3> SUFFICES ASSUME NEW table \in Tables
                   PROVE  Mark(table, P)' <= latest /\ Mark(table, P)' \in Nat /\ latest \in Nat
        OBVIOUS
      <3>1. Mark(table, P)' = Mark(table, P)
        BY <1>8 DEF Mark
      <3> QED
        BY <3>1, MarkBounded DEF RowsStamped
    <2>2. /\ \A x \in S : DayOf[x] \notin P
          /\ \A p \in paid : p.day \notin P
          /\ {p \in slips' : p.day \in P} = {p \in slips : p.day \in P}
      BY <1>5, <1>6, <2>1 DEF Tables
    <2>3. SalesSame(P)
      BY <2>2 DEF SalesSame
    <2>4. ASSUME NEW p \in slips, p.day \in P
          PROVE  Counts(p.sale)' = Counts(p.sale)
      <3>1. CASE p.sale \notin S
        BY <3>1 DEF Counts, RowsStamped, SlipRow
      <3>2. CASE p.sale \in S
        <4>1. p \in slips \ paid /\ p.day # DayOf[p.sale]
          BY <2>2, <2>4, <3>2
        <4>2. strayed' = strayed \cup
                {q.day : q \in {x \in slips \ paid : /\ x.sale \in S /\ x.day # DayOf[x.sale]
                                                     /\ Counts(x.sale)' # Counts(x.sale)}}
          BY DEF Wrote
        <4> QED
          BY <1>2, <2>4, <3>2, <4>1, <4>2
      <3> QED
        BY <3>1, <3>2
    <2> QED
      BY <1>1, <2>2, <2>3, <2>4, ReportSame DEF SlipsSame, CostsSame
  <1> QED
    BY <1>5, <1>6, <1>7, <1>8 DEF Tells, Tables

\* So does a write of an expense.
LEMMA SpendTells ==
  ASSUME RowsStamped, RowsStamped', mix = "cache",
         NEW e \in Expenses, NEW row, Spend(e, row), row \in ExpenseRow, row.st # "absent",
         NEW P, Clear(P)'
  PROVE  Tells(P)
  <1>1. /\ expense' = [expense EXCEPT ![e] = row]
        /\ latest' = IF row.at > latest THEN row.at ELSE latest
        /\ late' = IF row.at <= latest THEN late \cup {row.day, expense[e].day} ELSE late
        /\ UNCHANGED <<sale, margin, stamp, slips>>
    BY DEF Spend, Dated, vars
  <1>2. P \cap late' = {} /\ P \cap strayed' = {}
    BY DEF Clear
  <1>3. expense[e].st # "absent" /\ row.day # expense[e].day => expense[e].day \notin P
    BY <1>2 DEF Spend
  <1>4. SalesSame(P) /\ SlipsSame(P)
    BY <1>1 DEF SalesSame, SlipsSame, Counts
  <1>5. /\ Fingerprint("sales", P)' = Fingerprint("sales", P)
        /\ Fingerprint("payments", P)' = Fingerprint("payments", P)
    BY <1>1 DEF Fingerprint, OfDays, Exists
  <1>6. CASE row.day \in P
    <2>1. row.at > latest
      BY <1>1, <1>2, <1>6 DEF RowsStamped, ExpenseRow
    <2>2. row.at \in StampsOf("expenses", P)'
      BY <1>1, <1>6 DEF StampsOf, RowsStamped
    <2>3. Mark("expenses", P)' >= row.at /\ Mark("expenses", P)' \in 0 .. latest'
      BY <2>2, NextMark DEF Tables
    <2>4. Mark("expenses", P)' > latest
      BY <2>1, <2>3 DEF RowsStamped, ExpenseRow
    <2>5. Fingerprint("expenses", P)' # Fingerprint("expenses", P)
      <3>1. Mark("expenses", P) \in 0 .. latest
        BY MarkBounded DEF Tables
      <3> QED
        BY <2>3, <2>4, <3>1 DEF Mark, RowsStamped
    <2> QED
      BY <1>5, <2>4, <2>5 DEF Tells, Tables
  <1>7. CASE row.day \notin P
    <2>1. expense[e].st = "absent" \/ expense[e].day \notin P
      BY <1>3, <1>7
    <2>2. {x \in Expenses : expense'[x].st # "absent" /\ expense'[x].day \in P}
            = {x \in Expenses : expense[x].st # "absent" /\ expense[x].day \in P}
      BY <1>1, <1>7, <2>1
    <2>3. \A x \in Expenses : x # e => expense'[x] = expense[x]
      BY <1>1
    <2>4. StampsOf("expenses", P)' = StampsOf("expenses", P)
      BY <2>1, <2>2, <2>3 DEF StampsOf
    <2>5. RowsOf("expenses", P)' = RowsOf("expenses", P)
      BY <2>2 DEF RowsOf
    <2>6. Fingerprint("expenses", P)' = Fingerprint("expenses", P)
      BY <2>4, <2>5, FingerprintIs, NextFingerprint DEF Tables
    <2>7. CostsSame(P)
      BY <1>1, <1>7, <2>1 DEF CostsSame
    <2> QED
      BY <1>4, <1>5, <2>6, <2>7, ReportSame DEF Tells, Tables
  <1> QED
    BY <1>6, <1>7

(***************************************************************************)
(* The steps, as the cache sees them                                       *)
(***************************************************************************)
\* Requests are of sales that were rung up.
BatchesRung == \A w \in Workers : \A s \in tx[w].batch : Exists(s)

\* A sale rung up stays so.
LEMMA StatusKept ==
  ASSUME TypeOK, [Next]_vars, NEW s \in Sales, Exists(s)
  PROVE  sale'[s].status # "Unrung"
  <1>1. ASSUME NEW x \in Sales, NEW t \in Tenders, Checkout(x, t)
        PROVE  sale'[s].status # "Unrung"
    BY <1>1, CheckoutEffect DEF StatusOnPaid, Exists
  <1>2. ASSUME NEW w \in Workers, NEW x \in Sales, CommitPay(w, x)
        PROVE  sale'[s].status # "Unrung"
    BY <1>2, CommitPayEffect DEF StatusOnPaid, Exists
  <1>3. ASSUME NEW w \in Workers, NEW x \in Sales, CommitReverse(w, x)
        PROVE  sale'[s].status # "Unrung"
    BY <1>3, CommitReverseEffect DEF Reversals, Exists
  <1>4. ASSUME NEW w \in Workers, CommitDeliver(w)
        PROVE  sale'[s].status # "Unrung"
    BY <1>4, CommitDeliverEffect DEF Exists
  <1>5. ASSUME NEW w \in Workers, NEW x \in Sales, CommitCollect(w, x)
        PROVE  sale'[s].status # "Unrung"
    BY <1>5, CommitCollectEffect DEF Exists
  <1> QED
    BY Steps, <1>1, <1>2, <1>3, <1>4, <1>5 DEF Exists

\* A request opens on sales that are there, as they are.
LEMMA BatchesOpened ==
  ASSUME TypeOK, [Next]_vars, NEW w \in Workers
  PROVE  \/ tx'[w] = tx[w]
         \/ tx'[w].batch = {}
         \/ \A s \in tx'[w].batch : Exists(s)
  <1> DEFINE Fine == \/ tx'[w] = tx[w]
                     \/ tx'[w].batch = {}
                     \/ \A s \in tx'[w].batch : Exists(s)
  <1>1. ASSUME NEW v \in Workers, Finish(v)
        PROVE  Fine
    BY <1>1, FinishEffect
  <1>2. ASSUME NEW v \in Workers, NEW op \in Ops, NEW batch \in SUBSET Sales,
               NEW tender \in Nat, NEW to \in Reversals, Start(v, op, batch, tender, to),
               \A s \in batch : Exists(s)
        PROVE  Fine
    <2>1. tx'[w] = tx[w] \/ tx'[w].batch = batch
      BY <1>2, StartEffect
    <2> QED
      BY <1>2, <2>1
  <1>3. ASSUME tx' = tx
        PROVE  Fine
    BY <1>3
  <1> HIDE DEF Fine
  <1>4. ASSUME NEW v \in Workers, NEW s \in Sales, NEW t \in Tenders, BeginPay(v, s, t)
        PROVE  Fine
    <2>1. Start(v, "pay", {s}, t, Unused) /\ \A x \in {s} : Exists(x)
      BY <1>4 DEF BeginPay, Visible
    <2>2. "pay" \in Ops /\ {s} \in SUBSET Sales /\ t \in Nat /\ Unused \in Reversals
      BY MoneyAssumption DEF Ops, Reversals, Unused
    <2> QED
      BY <1>2, <2>1, <2>2
  <1>5. ASSUME NEW v \in Workers, NEW s \in Sales, NEW to \in Reversals, BeginReverse(v, s, to)
        PROVE  Fine
    <2>1. Start(v, "reverse", {s}, 0, to) /\ \A x \in {s} : Exists(x)
      BY <1>5 DEF BeginReverse, Visible
    <2>2. "reverse" \in Ops /\ {s} \in SUBSET Sales /\ 0 \in Nat
      BY DEF Ops
    <2> QED
      BY <1>2, <2>1, <2>2
  <1>6. ASSUME NEW v \in Workers, NEW s \in Sales, BeginCollect(v, s)
        PROVE  Fine
    <2>1. Start(v, "collect", {s}, 0, Unused) /\ \A x \in {s} : Exists(x)
      BY <1>6 DEF BeginCollect
    <2>2. "collect" \in Ops /\ {s} \in SUBSET Sales /\ 0 \in Nat /\ Unused \in Reversals
      BY DEF Ops, Reversals, Unused
    <2> QED
      BY <1>2, <2>1, <2>2
  <1>7. ASSUME NEW v \in Workers, NEW batch \in SUBSET Sales, BeginDeliver(v, batch)
        PROVE  Fine
    <2>1. Start(v, "deliver", batch, 0, Unused) /\ \A s \in batch : Exists(s)
      BY <1>7 DEF BeginDeliver, Visible
    <2>2. "deliver" \in Ops /\ 0 \in Nat /\ Unused \in Reversals
      BY DEF Ops, Reversals, Unused
    <2> QED
      BY <1>2, <2>1, <2>2
  <1>8. ASSUME NEW v \in Workers, NEW s \in Sales,
               CommitPay(v, s) \/ CommitReverse(v, s) \/ CommitCollect(v, s)
        PROVE  Fine
    BY <1>1, <1>8 DEF CommitPay, CommitReverse, CommitCollect
  <1>9. ASSUME NEW v \in Workers, CommitDeliver(v) \/ Abort(v)
        PROVE  Fine
    BY <1>1, <1>9 DEF CommitDeliver, Abort
  <1>10. ASSUME NEW s \in Sales, \/ \E t \in Tenders : Checkout(s, t)
                                 \/ Remove(s) \/ WindowCloses(s)
         PROVE  Fine
    BY <1>3, <1>10 DEF Checkout, Remove, WindowCloses
  <1>11. ASSUME UNCHANGED vars
         PROVE  Fine
    BY <1>3, <1>11 DEF vars
  <1>12. ASSUME NEW v \in Workers, NEW s \in Sales,
                \/ \E t \in Tenders : BeginPay(v, s, t)
                \/ CommitPay(v, s)
                \/ VoidSales(v, s) \/ ReturnSales(v, s) \/ RefundSales(v, s)
                \/ CommitReverse(v, s) \/ BeginCollect(v, s) \/ CommitCollect(v, s)
         PROVE  Fine
    BY <1>4, <1>5, <1>6, <1>8, <1>12, ReversalRequest
  <1>13. Fine
    BY <1>7, <1>9, <1>10, <1>11, <1>12 DEF Next
  <1> QED
    BY <1>13 DEF Fine

\* A transaction only works on sales that were rung up.
THEOREM BatchesAreRung == Spec => []BatchesRung
  <1>1. Init => BatchesRung
    <2> SUFFICES ASSUME Init, NEW w \in Workers
                 PROVE  tx[w].batch = {}
      BY DEF BatchesRung
    <2>1. tx[w] = Idle
      BY DEF Init
    <2> QED
      BY <2>1 DEF Idle
  <1>2. TypeOK /\ BatchesRung /\ [Next]_vars => BatchesRung'
    <2> SUFFICES ASSUME TypeOK, BatchesRung, [Next]_vars, NEW w \in Workers,
                        NEW s \in tx'[w].batch
                 PROVE  sale'[s].status # "Unrung"
      BY DEF BatchesRung, Exists
    <2>1. TypeOK'
      BY TypeNext
    <2>2. s \in Sales
      BY <2>1 DEF TypeOK, TxType
    <2>3. Exists(s)
      BY BatchesOpened DEF BatchesRung
    <2> QED
      BY <2>2, <2>3, StatusKept
  <1> QED
    BY <1>1, <1>2, TypeCorrect, PTL DEF Spec

Writes(S, paid, new, t) ==
    /\ mix # "cache" => t = 0
    /\ margin' \in [Sales -> {0, 1}]
    /\ IsFiniteSet(new) /\ \A p \in new : p.at = t /\ p.sale \in S
    /\ \A x \in Sales \ S : sale'[x] = sale[x] /\ margin'[x] = margin[x]
    /\ \A x \in Sales : Exists(x) \/ x \in S => sale'[x].status # "Unrung"
    /\ Wrote(S, paid, new, t)
Spends(e, row) == Spend(e, row) /\ row.st # "absent"
Rests == /\ UNCHANGED <<sale, mix, rung, doneIn, margin, stamp, slips, expense, latest, late>>
         /\ UNCHANGED <<strayed, since, amid, cache, desk>>
DeskStep(r) ==
    \/ \E P \in Periods : Ask(r, P)
    \/ \E table \in Tables : TakePrint(r, table)
    \/ Hit(r) \/ Miss(r)
    \/ \E part \in First \cup Then : Build(r, part)
    \/ Store(r)

\* Stamps are numbers, and 0 where they are not told apart.
LEMMA StampIs ==
  ASSUME RowsStamped, NEW t \in Stamps
  PROVE  t \in Nat /\ (mix # "cache" => t = 0)
  <1>1. latest + 1 \in Nat
    BY DEF RowsStamped
  <1> QED
    BY <1>1 DEF Stamps

LEMMA SlipTyped ==
  ASSUME RowsStamped, NEW s \in Sales, NEW day \in Days, NEW k \in Tills, NEW t \in Nat
  PROVE  Slip(s, day, k, t) \in SlipRow
  <1>1. SlipsOf(s) \in SUBSET slips
    BY DEF SlipsOf
  <1>2. Cardinality(SlipsOf(s)) \in Nat
    BY <1>1, FS_Subset, FS_CardinalityType DEF RowsStamped
  <1>3. k \in Sessions
    BY ReportsAssumption DEF Tills
  <1> QED
    BY <1>2, <1>3 DEF Slip, SlipRow

\* What each step of the reports writes: ringing up, payments, the other writes of
\* sales, and expenses.
LEMMA RingUpWrites ==
  ASSUME TypeOK, RowsStamped, NEW s \in Sales, NEW tender \in Tenders, RingUp(s, tender)
  PROVE  \/ Unwatched
         \/ \E new \in SUBSET SlipRow, t \in Nat : Writes({s}, {}, new, t)
  <1>1. CASE ~Unwatched
    <2>1. PICK k \in Tills, t \in Stamps :
             /\ UNCHANGED margin
             /\ Wrote({s}, {}, IF tender > 0 THEN {Slip(s, DayOf[s], k, t)} ELSE {}, t)
      BY <1>1 DEF RingUp
    <2> DEFINE new == IF tender > 0 THEN {Slip(s, DayOf[s], k, t)} ELSE {}
    <2>2. t \in Nat /\ (mix # "cache" => t = 0)
      BY StampIs
    <2>3. DayOf[s] \in Days
      BY ReportsAssumption
    <2>4. Slip(s, DayOf[s], k, t) \in SlipRow
      BY <2>2, <2>3, SlipTyped
    <2>5. IsFiniteSet(new)
      BY FS_EmptySet, FS_Singleton
    <2>6. \A p \in new : p.at = t /\ p.sale \in {s}
      BY DEF Slip
    <2>7. Checkout(s, tender)
      BY DEF RingUp
    <2>8. /\ sale'[s].status # "Unrung"
          /\ \A x \in Sales \ {s} : sale'[x] = sale[x] /\ margin'[x] = margin[x]
      <3>1. sale'[s].status = StatusOnPaid(tender)
        BY <2>7 DEF Checkout, TypeOK, Blank
      <3>2. \A x \in Sales \ {s} : sale'[x] = sale[x]
        BY <2>7 DEF Checkout, TypeOK
      <3> QED
        BY <2>1, <3>1, <3>2 DEF StatusOnPaid
    <2>9. \A x \in Sales : Exists(x) \/ x \in {s} => sale'[x].status # "Unrung"
      BY <2>8 DEF Exists
    <2>10. new \in SUBSET SlipRow
      BY <2>4
    <2>11. Writes({s}, {}, new, t)
      BY <2>1, <2>2, <2>5, <2>6, <2>8, <2>9 DEF Writes, RowsStamped
    <2> QED
      BY <2>2, <2>10, <2>11
  <1> QED
    BY <1>1

LEMMA SettleWrites ==
  ASSUME TypeOK, RowsStamped, NEW w \in Workers, NEW s \in Sales, Settle(w, s)
  PROVE  \/ Unwatched
         \/ \E new \in SUBSET SlipRow, t \in Nat : Writes({s}, {}, new, t)
  <1>1. CASE ~Unwatched
    <2>1. PICK k \in Tills, t \in Stamps :
             /\ UNCHANGED margin
             /\ Wrote({s}, {}, {Slip(s, PayDay, k, t)}, t)
      BY <1>1 DEF Settle
    <2> DEFINE new == {Slip(s, PayDay, k, t)}
    <2>2. t \in Nat /\ (mix # "cache" => t = 0)
      BY StampIs
    <2>3. Slip(s, PayDay, k, t) \in SlipRow
      BY <2>2, SlipTyped, ReportsAssumption
    <2>4. IsFiniteSet(new)
      BY FS_Singleton
    <2>9. \A p \in new : p.at = t /\ p.sale \in {s}
      BY DEF Slip
    <2>5. CommitPay(w, s)
      BY DEF Settle
    <2>6. /\ sale'[s].status # "Unrung"
          /\ \A x \in Sales \ {s} : sale'[x] = sale[x] /\ margin'[x] = margin[x]
      <3>1. sale'[s].status = StatusOnPaid(tx[w].seen[s].paid + tx[w].tender)
        BY <2>5 DEF CommitPay, TypeOK, SaleRow
      <3>2. \A x \in Sales \ {s} : sale'[x] = sale[x]
        BY <2>5 DEF CommitPay, TypeOK
      <3> QED
        BY <2>1, <3>1, <3>2 DEF StatusOnPaid
    <2>7. \A x \in Sales : Exists(x) \/ x \in {s} => sale'[x].status # "Unrung"
      BY <2>6 DEF Exists
    <2>8. Writes({s}, {}, new, t)
      BY <2>1, <2>2, <2>4, <2>6, <2>7, <2>9 DEF Writes, RowsStamped
    <2> QED
      BY <2>2, <2>3, <2>8
  <1> QED
    BY <1>1

\* A step that touches sales rung up, and writes no other.
LEMMA TouchesWrites ==
  ASSUME TypeOK, RowsStamped, [Next]_vars, NEW S \in SUBSET Sales, NEW paid \in SUBSET slips,
         Touches(S, paid), \A s \in S : Exists(s),
         \A x \in Sales \ S : sale'[x] = sale[x]
  PROVE  \/ Unwatched
         \/ \E t \in Nat : Writes(S, paid, {}, t)
  <1>1. CASE ~Unwatched
    <2>1. PICK t \in Stamps : UNCHANGED margin /\ Wrote(S, paid, {}, t)
      BY <1>1 DEF Touches
    <2>2. t \in Nat /\ (mix # "cache" => t = 0)
      BY StampIs
    <2>3. \A x \in Sales : Exists(x) \/ x \in S => sale'[x].status # "Unrung"
      BY StatusKept
    <2> QED
      BY <2>1, <2>2, <2>3, FS_EmptySet DEF Writes, RowsStamped
  <1> QED
    BY <1>1

LEMMA RepriceWrites ==
  ASSUME TypeOK, RowsStamped, NEW s \in Sales, Update(s) \/ Restate(s)
  PROVE  \E t \in Nat : Writes({s}, {}, {}, t)
  <1>1. Exists(s)
    BY DEF Update, Restate, Visible
  <1>2. PICK t \in Nat : /\ mix = "cache" /\ UNCHANGED vars
                         /\ margin' = [margin EXCEPT ![s] = 1]
                         /\ Wrote({s}, {}, {}, t)
    BY StampIs DEF Update, Restate, Reprice, RowsStamped
  <1>3. \A x \in Sales : sale'[x] = sale[x]
    BY <1>2 DEF vars
  <1>4. \A x \in Sales \ {s} : margin'[x] = margin[x]
    BY <1>2 DEF RowsStamped
  <1> QED
    BY <1>1, <1>2, <1>3, <1>4, FS_EmptySet DEF Writes, Exists, RowsStamped

LEMMA ExpenseEdited ==
  ASSUME NEW x \in ExpenseRow, NEW d \in Days, NEW a \in {0, 1}, NEW t \in Nat, x.st # "absent"
  PROVE  /\ [x EXCEPT !.day = d, !.amount = a, !.at = t] \in ExpenseRow
         /\ [x EXCEPT !.day = d, !.amount = a, !.at = t].st # "absent"
  BY DEF ExpenseRow

\* A reversal and a collection write one sale, which is in the batch.
LEMMA ReverseOthers ==
  ASSUME TypeOK, NEW w \in Workers, NEW s \in Sales,
         CommitReverse(w, s) \/ CommitCollect(w, s)
  PROVE  s \in tx[w].batch /\ \A x \in Sales \ {s} : sale'[x] = sale[x]
  BY CommitReverseEffect, CommitCollectEffect DEF CommitReverse

\* A write of sales and payments, one of an expense, a step of a request for a
\* report, or nothing that a report reads.
LEMMA ReportSteps ==
  ASSUME TypeOK, BatchesRung, RowsStamped, [RNext]_rvars
  PROVE  \/ \E S \in SUBSET Sales, paid \in SUBSET slips, new \in SUBSET SlipRow, t \in Nat :
               Writes(S, paid, new, t)
         \/ \E e \in Expenses, row \in ExpenseRow : Spends(e, row)
         \/ \E r \in Readers : DeskStep(r)
         \/ Rests
         \/ Unwatched
  <1> DEFINE Written == \E S \in SUBSET Sales, paid \in SUBSET slips,
                           new \in SUBSET SlipRow, t \in Nat : Writes(S, paid, new, t)
             Spent == \E e \in Expenses, row \in ExpenseRow : Spends(e, row)
             Goal == \/ Written \/ Spent \/ Rests \/ Unwatched
                     \/ \E r \in Readers : DeskStep(r)
  <1>1. [Next]_vars
    BY SalesMove
  <1>2. ASSUME NEW s \in Sales, NEW paid \in SUBSET slips, NEW new \in SUBSET SlipRow, NEW t \in Nat,
               Writes({s}, paid, new, t)
        PROVE  Written
    BY <1>2
  <1>3. ASSUME NEW s \in Sales, NEW tender \in Tenders, RingUp(s, tender)
        PROVE  Written \/ Unwatched
    <2>1. {} \in SUBSET slips
      OBVIOUS
    <2> HIDE DEF Written
    <2> QED
      BY <1>2, <1>3, <2>1, RingUpWrites
  <1>4. ASSUME NEW w \in Workers, NEW s \in Sales, Settle(w, s)
        PROVE  Written \/ Unwatched
    <2>1. {} \in SUBSET slips
      OBVIOUS
    <2> HIDE DEF Written
    <2> QED
      BY <1>2, <1>4, <2>1, SettleWrites
  <1>5. ASSUME NEW S \in SUBSET Sales, NEW paid \in SUBSET slips, Touches(S, paid),
               \A s \in S : Exists(s), \A x \in Sales \ S : sale'[x] = sale[x]
        PROVE  Written \/ Unwatched
    <2>1. {} \in SUBSET SlipRow
      OBVIOUS
    <2> QED
      BY <1>1, <1>5, <2>1, TouchesWrites
  <1>6. ASSUME NEW w \in Workers, NEW s \in Sales, Reverse(w, s)
        PROVE  Written \/ Unwatched
    <2>1. {s} \in SUBSET Sales /\ SlipsOf(s) \in SUBSET slips
      BY DEF SlipsOf
    <2>2. CommitReverse(w, s) /\ Touches({s}, SlipsOf(s))
      BY <1>6 DEF Reverse
    <2>3. \A x \in {s} : Exists(x)
      BY <2>2, ReverseOthers DEF BatchesRung
    <2>4. \A x \in Sales \ {s} : sale'[x] = sale[x]
      BY <2>2, ReverseOthers
    <2> HIDE DEF Written
    <2> QED
      BY <1>5, <2>1, <2>2, <2>3, <2>4
  <1>7. ASSUME NEW w \in Workers, NEW s \in Sales, Collect(w, s)
        PROVE  Written \/ Unwatched
    <2>1. {s} \in SUBSET Sales /\ {} \in SUBSET slips
      OBVIOUS
    <2>2. CommitCollect(w, s) /\ Touches({s}, {})
      BY <1>7 DEF Collect
    <2>3. \A x \in {s} : Exists(x)
      BY <2>2, ReverseOthers DEF BatchesRung
    <2>4. \A x \in Sales \ {s} : sale'[x] = sale[x]
      BY <2>2, ReverseOthers
    <2> HIDE DEF Written
    <2> QED
      BY <1>5, <2>1, <2>2, <2>3, <2>4
  <1>8. ASSUME NEW w \in Workers, Confirm(w)
        PROVE  Written \/ Unwatched
    <2>1. tx[w].batch \in SUBSET Sales /\ {} \in SUBSET slips
      BY DEF TypeOK, TxType
    <2>2. CommitDeliver(w) /\ Touches(tx[w].batch, {})
      BY <1>8 DEF Confirm
    <2>3. \A x \in tx[w].batch : Exists(x)
      BY DEF BatchesRung
    <2>4. \A x \in Sales \ tx[w].batch : sale'[x] = sale[x]
      BY <2>2 DEF CommitDeliver
    <2> HIDE DEF Written
    <2> QED
      BY <1>5, <2>1, <2>2, <2>3, <2>4
  <1>9. ASSUME NEW s \in Sales, Delete(s)
        PROVE  Written \/ Unwatched
    <2>1. {s} \in SUBSET Sales /\ {} \in SUBSET slips
      OBVIOUS
    <2>2. Remove(s) /\ Touches({s}, {})
      BY <1>9 DEF Delete
    <2>3. \A x \in {s} : Exists(x)
      BY <2>2 DEF Remove, Visible
    <2>4. \A x \in Sales \ {s} : sale'[x] = sale[x]
      BY <2>2 DEF Remove, TypeOK
    <2> HIDE DEF Written
    <2> QED
      BY <1>5, <2>1, <2>2, <2>3, <2>4
  <1>10. ASSUME NEW s \in Sales, Update(s) \/ Restate(s)
         PROVE  Written
    <2>1. {} \in SUBSET slips /\ {} \in SUBSET SlipRow
      OBVIOUS
    <2> HIDE DEF Written
    <2> QED
      BY <1>2, <1>10, <2>1, RepriceWrites
  <1>11. ASSUME NEW e \in Expenses,
                \/ \E d \in Days : CreateExpense(e, d) \/ UpdateExpense(e, d)
                \/ RemoveExpense(e)
         PROVE  Spent
    <2>1. \A t \in Stamps : t \in Nat
      BY StampIs
    <2>2. expense[e] \in ExpenseRow
      BY DEF RowsStamped
    <2>3. ASSUME NEW d \in Days, CreateExpense(e, d)
          PROVE  Spent
      <3>1. PICK t \in Stamps : Spend(e, [st |-> "live", day |-> d, amount |-> 0, at |-> t])
        BY <2>3 DEF CreateExpense
      <3>2. [st |-> "live", day |-> d, amount |-> 0, at |-> t] \in ExpenseRow
        BY <2>1 DEF ExpenseRow
      <3> QED
        BY <3>1, <3>2 DEF Spends
    <2>4. ASSUME NEW d \in Days, UpdateExpense(e, d)
          PROVE  Spent
      <3>1. PICK a : a = 1 - expense[e].amount
        OBVIOUS
      <3>2. a \in {0, 1} /\ expense[e].st # "absent"
        BY <2>2, <2>4, <3>1 DEF ExpenseRow, UpdateExpense
      <3>3. PICK t \in Stamps : Spend(e, [expense[e] EXCEPT !.day = d, !.amount = a, !.at = t])
        BY <2>4, <3>1, Zenon DEF UpdateExpense
      <3>4. t \in Nat
        BY <2>1
      <3>5. /\ [expense[e] EXCEPT !.day = d, !.amount = a, !.at = t] \in ExpenseRow
            /\ [expense[e] EXCEPT !.day = d, !.amount = a, !.at = t].st # "absent"
        BY <2>2, <3>2, <3>4, ExpenseEdited, Zenon
      <3> QED
        BY <3>3, <3>5, Zenon DEF Spends
    <2>5. ASSUME RemoveExpense(e)
          PROVE  Spent
      <3>1. PICK t \in Stamps : Spend(e, [expense[e] EXCEPT !.st = "gone", !.at = t])
        BY <2>5 DEF RemoveExpense
      <3>2. /\ [expense[e] EXCEPT !.st = "gone", !.at = t] \in ExpenseRow
            /\ [expense[e] EXCEPT !.st = "gone", !.at = t].st # "absent"
        BY <2>1, <2>2 DEF ExpenseRow
      <3> QED
        BY <3>1, <3>2 DEF Spends
    <2> HIDE DEF Spent
    <2> QED
      BY <1>11, <2>3, <2>4, <2>5
  <1>12. ASSUME NEW w \in Workers, NEW s \in Sales,
                \/ \E t \in Tenders : BeginPay(w, s, t) /\ Begun
                \/ VoidSales(w, s) /\ Begun
                \/ ReturnSales(w, s) /\ BegunElse
                \/ RefundSales(w, s) /\ BegunElse
                \/ BeginCollect(w, s) /\ BegunElse
         PROVE  Rests
    <2>1. sale' = sale
      BY <1>12, BeginIsStart, ReversalRequest DEF BegunElse
    <2>2. UNCHANGED <<mix, books, desks>>
      BY <1>12 DEF Begun, BegunElse, Beside
    <2> QED
      BY <2>1, <2>2 DEF Rests, books, desks
  <1>13. ASSUME NEW w \in Workers,
                \/ \E batch \in SUBSET Sales : BeginDeliver(w, batch) /\ BegunElse
                \/ Abort(w) /\ mix # "cache" /\ Beside
         PROVE  Rests
    <2>1. sale' = sale
      BY <1>13 DEF BeginDeliver, Start, Abort
    <2>2. UNCHANGED <<mix, books, desks>>
      BY <1>13 DEF Begun, BegunElse, Beside
    <2> QED
      BY <2>1, <2>2 DEF Rests, books, desks
  <1>14. ASSUME NEW s \in Sales, WindowCloses(s) /\ Beside
         PROVE  Rests
    BY <1>14 DEF WindowCloses, Beside, Rests, books, desks
  <1>15. ASSUME ShelfMoves \/ UNCHANGED rvars
         PROVE  Rests
    BY <1>15 DEF ShelfMoves, rvars, vars, Rests, books, desks
  <1> HIDE DEF Written, Spent
  <1>16. ASSUME NEW s \in Sales,
                \/ \E t \in Tenders : RingUp(s, t)
                \/ Delete(s) \/ Update(s) \/ Restate(s)
                \/ WindowCloses(s) /\ Beside
         PROVE  Goal
    BY <1>3, <1>9, <1>10, <1>14, <1>16
  <1>17. ASSUME NEW w \in Workers, NEW s \in Sales,
                \/ \E t \in Tenders : BeginPay(w, s, t) /\ Begun /\ (mix = "cache" => t >= Total)
                \/ VoidSales(w, s) /\ Begun
                \/ ReturnSales(w, s) /\ BegunElse
                \/ RefundSales(w, s) /\ BegunElse
                \/ BeginCollect(w, s) /\ BegunElse
                \/ Settle(w, s) \/ Reverse(w, s) \/ Collect(w, s)
         PROVE  Goal
    BY <1>4, <1>6, <1>7, <1>12, <1>17
  <1>18. ASSUME NEW w \in Workers,
                \/ \E batch \in SUBSET Sales : BeginDeliver(w, batch) /\ BegunElse
                \/ Confirm(w)
                \/ Abort(w) /\ mix # "cache" /\ Beside
         PROVE  Goal
    BY <1>8, <1>13, <1>18
  <1>19. ASSUME NEW r \in Readers, DeskStep(r)
         PROVE  Goal
    BY <1>19
  <1> HIDE DEF Goal
  <1>20. Goal
    BY <1>11, <1>15, <1>16, <1>17, <1>18, <1>19 DEF RNext, DeskStep, Goal
  <1> QED
    BY <1>20 DEF Goal, Written, Spent

(***************************************************************************)
(* Rows and their stamps                                                   *)
(***************************************************************************)
\* The latest stamp only rises.
LEMMA DatedRises ==
  ASSUME RowsStamped, NEW t \in Nat, NEW D, Dated(t, D)
  PROVE  latest' \in Nat /\ t <= latest' /\ latest <= latest'
  BY DEF RowsStamped, Dated

\* RowsStamped is kept, whatever is written.
LEMMA WroteRows ==
  ASSUME RowsStamped, NEW S \in SUBSET Sales, NEW paid \in SUBSET slips,
         NEW new \in SUBSET SlipRow, NEW t \in Nat, Writes(S, paid, new, t)
  PROVE  RowsStamped'
  <1>1. /\ stamp' = [s \in Sales |-> IF s \in S THEN t ELSE stamp[s]]
        /\ slips' = {IF p \in paid THEN [p EXCEPT !.at = t] ELSE p : p \in slips} \cup new
        /\ expense' = expense /\ mix' = mix
        /\ Dated(t, {DayOf[s] : s \in S} \cup {p.day : p \in paid \cup new})
    BY DEF Writes, Wrote
  <1>2. latest' \in Nat /\ t <= latest' /\ latest <= latest'
    BY <1>1, DatedRises
  <1>3. mix # "cache" => latest' = 0
    BY <1>1 DEF Dated, Writes, RowsStamped
  <1>4. stamp' \in [Sales -> 0 .. latest']
    BY <1>1, <1>2 DEF RowsStamped
  <1>5. IsFiniteSet(slips')
    <2> DEFINE image == {IF p \in paid THEN [p EXCEPT !.at = t] ELSE p : p \in slips}
    <2>1. IsFiniteSet(image)
      <3> DEFINE f == [p \in slips |-> IF p \in paid THEN [p EXCEPT !.at = t] ELSE p]
      <3>1. IsFiniteSet(slips)
        BY DEF RowsStamped
      <3>2. f \in Surjection(slips, image)
        BY DEF Surjection
      <3> QED
        BY <3>1, <3>2, FS_Surjection
    <2>2. IsFiniteSet(new) /\ slips' = image \cup new
      BY <1>1 DEF Writes
    <2> HIDE DEF image
    <2> QED
      BY <2>1, <2>2, FS_Union
  <1>6. \A p \in slips' : p \in SlipRow /\ p.at <= latest'
    <2> SUFFICES ASSUME NEW q \in slips'
                 PROVE  q \in SlipRow /\ q.at <= latest'
      OBVIOUS
    <2>1. CASE q \in new
      BY <1>2, <2>1 DEF Writes
    <2>2. CASE q \notin new
      <3>1. PICK p \in slips : q = IF p \in paid THEN [p EXCEPT !.at = t] ELSE p
        BY <1>1, <2>2
      <3>2. p \in SlipRow /\ p.at \in Nat /\ p.at <= latest
        BY DEF RowsStamped, SlipRow
      <3>3. CASE p \in paid
        <4>1. q = [p EXCEPT !.at = t]
          BY <3>1, <3>3
        <4> QED
          BY <1>2, <3>2, <4>1 DEF SlipRow
      <3>4. CASE p \notin paid
        BY <1>2, <3>1, <3>2, <3>4 DEF RowsStamped
      <3> QED
        BY <3>3, <3>4
    <2> QED
      BY <2>1, <2>2
  <1>7. \A e \in Expenses : expense[e].at <= latest'
    BY <1>2 DEF RowsStamped, ExpenseRow
  <1> QED
    BY <1>1, <1>2, <1>3, <1>4, <1>5, <1>6, <1>7 DEF RowsStamped, Writes

LEMMA SpentRows ==
  ASSUME RowsStamped, NEW e \in Expenses, NEW row \in ExpenseRow, Spends(e, row)
  PROVE  RowsStamped'
  <1>1. /\ expense' = [expense EXCEPT ![e] = row]
        /\ Dated(row.at, {row.day, expense[e].day})
        /\ mix = "cache" /\ UNCHANGED <<mix, stamp, slips, margin>>
    BY DEF Spends, Spend
  <1>2. latest' \in Nat /\ row.at <= latest' /\ latest <= latest'
    BY <1>1, DatedRises DEF ExpenseRow
  <1>3. \A x \in Expenses : expense'[x] \in ExpenseRow /\ expense'[x].at <= latest'
    BY <1>1, <1>2 DEF RowsStamped, ExpenseRow
  <1>4. expense' \in [Expenses -> ExpenseRow]
    BY <1>1 DEF RowsStamped
  <1>5. stamp' \in [Sales -> 0 .. latest'] /\ \A p \in slips' : p.at <= latest'
    BY <1>1, <1>2 DEF RowsStamped, SlipRow
  <1> QED
    BY <1>1, <1>2, <1>3, <1>4, <1>5 DEF RowsStamped

LEMMA DeskQuiet ==
  ASSUME NEW r \in Readers, DeskStep(r)
  PROVE  Quiet
  BY DEF DeskStep, Ask, TakePrint, Hit, Miss, Build, Store

LEMMA RowsNext ==
  ASSUME TypeOK, BatchesRung, RowsStamped, [RNext]_rvars
  PROVE  RowsStamped'
  <1>1. CASE Rests
    BY <1>1 DEF Rests, RowsStamped
  <1>2. CASE Unwatched
    BY <1>2 DEF Unwatched, books, RowsStamped
  <1>3. ASSUME NEW r \in Readers, DeskStep(r)
        PROVE  RowsStamped'
    BY <1>3, DeskQuiet DEF Quiet, RowsStamped
  <1> QED
    BY <1>1, <1>2, <1>3, ReportSteps, WroteRows, SpentRows

(***************************************************************************)
(* What is held of a period stays true while rows are written              *)
(***************************************************************************)
\* On days that are clear afterwards a fingerprint that is as it was taken was
\* so before the write.
LEMMA FingerprintBack ==
  ASSUME RowsStamped, NEW P, Tells(P), NEW table \in Tables, NEW print,
         print[2] \in 0 .. Mark(table, P), print = Fingerprint(table, P)'
  PROVE  print = Fingerprint(table, P) /\ Fingerprint(table, P)' = Fingerprint(table, P)
  <1>1. Mark(table, P) \in Nat /\ Mark(table, P) <= latest /\ latest \in Nat
    BY MarkBounded DEF RowsStamped
  <1>2. Mark(table, P)' = print[2]
    BY DEF Mark
  <1>3. ~(Mark(table, P)' > latest)
    BY <1>1, <1>2
  <1> QED
    BY <1>3 DEF Tells

\* What writes do to a fingerprint, to what was read after it and to what a request
\* could be served: a clear period they concern gets a later mark, so the fingerprint
\* matches no more.
LEMMA MarksKept ==
  ASSUME RowsStamped, RowsStamped', NEW P, Clear(P)' => Clear(P) /\ Tells(P),
         NEW print, DOMAIN print \subseteq Tables, MarksRise(P, print)
  PROVE  MarksRise(P, print)'
  <1> SUFFICES ASSUME Clear(P)', NEW table \in DOMAIN print
               PROVE  print[table][2] \in 0 .. Mark(table, P)'
    BY DEF MarksRise
  <1>1. print[table][2] \in 0 .. Mark(table, P) /\ table \in Tables
    BY DEF MarksRise
  <1>2. Mark(table, P) \in 0 .. latest /\ Mark(table, P)' \in Nat /\ latest \in Nat
    BY <1>1, MarkBounded, NextMark DEF RowsStamped
  <1>3. Mark(table, P)' = Mark(table, P) \/ Mark(table, P)' > latest
    BY <1>1 DEF Tells, Mark
  <1> QED
    BY <1>1, <1>2, <1>3

LEMMA ReadKept ==
  ASSUME RowsStamped, NEW P, Clear(P)' => Clear(P) /\ Tells(P),
         NEW print, DOMAIN print = Tables, MarksRise(P, print),
         NEW said, ReadStands(P, print, said)
  PROVE  ReadStands(P, print, said)'
  <1> SUFFICES ASSUME Clear(P)', \A table \in Tables : print[table] = Fingerprint(table, P)',
                      NEW part \in (First \cup Then) \cap DOMAIN said
               PROVE  said[part] = Read(part, P)'
    BY DEF ReadStands
  <1>1. \A table \in Tables : /\ print[table] = Fingerprint(table, P)
                              /\ Fingerprint(table, P)' = Fingerprint(table, P)
    BY FingerprintBack DEF MarksRise
  <1>2. OutletReport(P)' = OutletReport(P)
    BY <1>1 DEF Tells
  <1>3. Read(part, P)' = Read(part, P)
    <2>1. OutletReport(P)[part] = Read(part, P) /\ OutletReport(P)'[part] = Read(part, P)'
      BY DEF OutletReport
    <2> QED
      BY <1>2, <2>1
  <1> QED
    BY <1>1, <1>3 DEF ReadStands

LEMMA MatchBack ==
  ASSUME RowsStamped, NEW P, Clear(P)' => Clear(P) /\ Tells(P), desk' = desk,
         NEW print, DOMAIN print = Tables, MarksRise(P, print),
         NEW r \in Readers, MayMatch(r, P, print)'
  PROVE  MayMatch(r, P, print)
  <1>1. /\ desk[r].at = "printing" /\ desk[r].period = P /\ Clear(P)'
        /\ \A table \in Tables :
             print[table] = IF table \in desk[r].todo THEN Fingerprint(table, P)'
                            ELSE desk[r].print[table]
    BY DEF MayMatch
  <1>2. ASSUME NEW table \in Tables, table \in desk[r].todo
        PROVE  print[table] = Fingerprint(table, P)
    BY <1>1, <1>2, FingerprintBack DEF MarksRise
  <1> QED
    BY <1>1, <1>2 DEF MayMatch

LEMMA PartsKept ==
  ASSUME NEW P, NEW print, NEW said, NEW r \in Readers, PartsTold(r, P, print, said),
         MayMatch(r, P, print)' => MayMatch(r, P, print) /\ since[r] \subseteq since'[r]
  PROVE  PartsTold(r, P, print, said)'
  BY DEF PartsTold

LEMMA WholeKept ==
  ASSUME NEW P, NEW print, NEW said, NEW r \in Readers, WholeTold(r, P, print, said),
         MayMatch(r, P, print)' => MayMatch(r, P, print) /\ since[r] \subseteq since'[r]
  PROVE  WholeTold(r, P, print, said)'
  BY DEF WholeTold

\* Rows are written, and the requests left as they are but for what they could
\* be told.
Observed ==
    /\ UNCHANGED <<cache, desk, amid>>
    /\ \A P : Clear(P)' => Clear(P) /\ Tells(P)
    /\ \A r \in Readers : desk[r].at = "printing" =>
          /\ since[r] \subseteq since'[r]
          /\ OutletReport(desk[r].period)' \in since'[r]

LEMMA EntryKept ==
  ASSUME RowsStamped, RowsStamped', amid \subseteq amid', desk' = desk,
         \A P : Clear(P)' => Clear(P) /\ Tells(P),
         \A r \in Readers : desk[r].at = "printing" => since[r] \subseteq since'[r],
         NEW x, EntryTrue(x)
  PROVE  EntryTrue(x)'
  <1>1. PICK P, print, said : P = x.period /\ print = x.print /\ said = x.said
    OBVIOUS
  <1>2. /\ DOMAIN print = Tables /\ DOMAIN said = First \cup Then \cup {"live"}
        /\ MarksRise(P, print) /\ ReadStands(P, print, said)
    BY <1>1 DEF EntryTrue
  <1>3. MarksRise(P, print)'
    BY <1>2, MarksKept
  <1>4. ReadStands(P, print, said)'
    BY <1>2, ReadKept
  <1>5. ASSUME NEW r \in Readers
        PROVE  /\ PartsTold(r, P, print, said)'
               /\ r \notin amid' => WholeTold(r, P, print, said)'
    <2>1. PartsTold(r, P, print, said) /\ (r \notin amid => WholeTold(r, P, print, said))
      BY <1>1 DEF EntryTrue
    <2>2. MayMatch(r, P, print)' => MayMatch(r, P, print) /\ since[r] \subseteq since'[r]
      BY <1>2, MatchBack DEF MayMatch
    <2> QED
      BY <2>1, <2>2, PartsKept, WholeKept
  <1> QED
    BY <1>1, <1>2, <1>3, <1>4, <1>5 DEF EntryTrue

\* The writes keep the strengthening of the cache, as long as what they change of a
\* clear period shows in its mark.
LEMMA ObservedKeeps ==
  ASSUME RowsStamped, RowsStamped', DesksKept, BuildsTrue, EntriesTrue, Observed
  PROVE  DesksKept' /\ BuildsTrue' /\ EntriesTrue'
  <1>1. UNCHANGED <<cache, desk, amid>> /\ \A P : Clear(P)' => Clear(P) /\ Tells(P)
    BY DEF Observed
  <1>2. \A r \in Readers : desk[r].at = "printing" => since[r] \subseteq since'[r]
    BY DEF Observed
  <1>3. DesksKept'
    BY <1>1 DEF DesksKept, Observed
  <1>4. ASSUME NEW r \in Readers, desk[r].at # "idle"
        PROVE  MarksRise(desk[r].period, desk[r].print)'
    <2>1. DOMAIN desk[r].print \subseteq Tables
      BY <1>4 DEF DesksKept
    <2>2. MarksRise(desk[r].period, desk[r].print)
      BY <1>4 DEF BuildsTrue
    <2> DEFINE P == desk[r].period
               print == desk[r].print
    <2>3. P' = P /\ print' = print
      BY <1>1
    <2> QED
      BY <1>1, <2>1, <2>2, <2>3, MarksKept
  <1>5. ASSUME NEW r \in Readers, desk[r].at = "building"
        PROVE  /\ ReadStands(desk[r].period, desk[r].print, desk[r].said)'
               /\ \A q \in Readers : PartsTold(q, desk[r].period, desk[r].print, desk[r].said)'
    <2>1. PICK P, print, said : P = desk[r].period /\ print = desk[r].print /\ said = desk[r].said
      OBVIOUS
    <2>2. P = desk'[r].period /\ print = desk'[r].print /\ said = desk'[r].said
      BY <1>1, <2>1
    <2>3. DOMAIN print = Tables
      BY <1>5, <2>1 DEF DesksKept
    <2>4. MarksRise(P, print) /\ ReadStands(P, print, said)
      BY <1>5, <2>1 DEF BuildsTrue
    <2>5. ReadStands(P, print, said)'
      BY <1>1, <2>3, <2>4, ReadKept
    <2>6. ASSUME NEW q \in Readers
          PROVE  PartsTold(q, P, print, said)'
      <3>1. PartsTold(q, P, print, said)
        BY <1>5, <2>1 DEF BuildsTrue
      <3>2. MayMatch(q, P, print)' => MayMatch(q, P, print)
        BY <1>1, <2>3, <2>4, MatchBack
      <3>3. MayMatch(q, P, print) => since[q] \subseteq since'[q]
        BY <1>2 DEF MayMatch
      <3> QED
        BY <3>1, <3>2, <3>3, PartsKept
    <2> QED
      BY <2>2, <2>5, <2>6
  <1>6. ASSUME NEW n \in DOMAIN cache
        PROVE  EntryTrue(cache[n])'
    <2>1. PICK x : x = cache[n]
      OBVIOUS
    <2>2. EntryTrue(x) /\ x = cache'[n]
      BY <1>1, <2>1 DEF EntriesTrue
    <2>3. EntryTrue(x)'
      BY <1>1, <1>2, <2>2, EntryKept
    <2> QED
      BY <2>2, <2>3
  <1> QED
    BY <1>1, <1>3, <1>4, <1>5, <1>6 DEF BuildsTrue, EntriesTrue

\* A request remembers what it could have been told.
LEMMA Remembered ==
  ASSUME Remember, NEW r \in Readers, desk[r].at = "printing"
  PROVE  /\ since[r] \subseteq since'[r]
         /\ OutletReport(desk[r].period)' \in since'[r]
  BY DEF Remember, Requested

\* Every step but those of the requests is one of these.
LEMMA WritesObserved ==
  ASSUME RowsStamped, RowsStamped', mix = "cache",
         NEW S \in SUBSET Sales, NEW paid \in SUBSET slips, NEW new \in SUBSET SlipRow,
         NEW t \in Nat, Writes(S, paid, new, t)
  PROVE  Observed
  <1>1. Wrote(S, paid, new, t)
    BY DEF Writes
  <1>2. UNCHANGED <<cache, desk, amid>> /\ Remember
    BY <1>1 DEF Wrote, desks
  <1>3. late \subseteq late' /\ strayed \subseteq strayed'
    BY <1>1 DEF Wrote, Dated
  <1>4. ASSUME NEW P, Clear(P)'
        PROVE  Clear(P) /\ Tells(P)
    <2>1. Clear(P)
      BY <1>3, <1>4 DEF Clear
    <2>2. /\ \A x \in Sales \ S : sale'[x] = sale[x] /\ margin'[x] = margin[x]
          /\ \A x \in Sales : Exists(x) \/ x \in S => sale'[x].status # "Unrung"
          /\ \A p \in new : p.at = t /\ p.sale \in S
      BY DEF Writes
    <2> QED
      BY <1>1, <1>4, <2>1, <2>2, WroteTells
  <1> QED
    BY <1>2, <1>4, Remembered DEF Observed

LEMMA SpendsObserved ==
  ASSUME RowsStamped, RowsStamped', NEW e \in Expenses, NEW row \in ExpenseRow, Spends(e, row)
  PROVE  Observed
  <1>1. Spend(e, row) /\ row.st # "absent"
    BY DEF Spends
  <1>2. UNCHANGED <<cache, desk, amid>> /\ Remember /\ mix = "cache"
    BY <1>1 DEF Spend, desks
  <1>3. late \subseteq late' /\ strayed \subseteq strayed'
    BY <1>1 DEF Spend, Dated
  <1>4. ASSUME NEW P, Clear(P)'
        PROVE  Clear(P) /\ Tells(P)
    BY <1>1, <1>2, <1>3, <1>4, SpendTells DEF Clear
  <1> QED
    BY <1>2, <1>4, Remembered DEF Observed

\* Where the rows stay, so do all reports and fingerprints.
LEMMA RowsSame ==
  ASSUME UNCHANGED <<sale, margin, stamp, slips, expense>>, NEW P
  PROVE  /\ OutletReport(P)' = OutletReport(P)
         /\ \A table \in Tables : Fingerprint(table, P)' = Fingerprint(table, P)
  <1>1. SalesSame(P) /\ SlipsSame(P) /\ CostsSame(P)
    BY DEF SalesSame, SlipsSame, CostsSame, Counts
  <1>2. \A table \in Tables : Fingerprint(table, P)' = Fingerprint(table, P)
    BY DEF Tables, Fingerprint, OfDays, Exists
  <1> QED
    BY <1>1, <1>2, ReportSame

LEMMA RestsObserved ==
  ASSUME DesksKept, Rests
  PROVE  Observed
  <1>1. UNCHANGED <<cache, desk, amid, since, late, strayed>>
    BY DEF Rests
  <1>2. ASSUME NEW P, Clear(P)'
        PROVE  Clear(P) /\ Tells(P)
    <2>1. Clear(P)
      BY <1>1, <1>2 DEF Clear
    <2>2. Tells(P)
      BY RowsSame DEF Rests, Tells
    <2> QED
      BY <2>1, <2>2
  <1>3. ASSUME NEW r \in Readers, desk[r].at = "printing"
        PROVE  OutletReport(desk[r].period)' \in since'[r]
    <2>1. PICK P : P = desk[r].period
      OBVIOUS
    <2>2. OutletReport(P)' = OutletReport(P)
      BY RowsSame DEF Rests
    <2>3. OutletReport(P) \in since[r]
      BY <1>3, <2>1 DEF DesksKept
    <2>4. OutletReport(P)' = OutletReport(desk[r].period)'
      BY <1>1, <2>1
    <2> QED
      BY <1>1, <2>2, <2>3, <2>4
  <1> QED
    BY <1>1, <1>2, <1>3 DEF Observed

\* Nobody asks but where the cache is looked at, and so nothing is kept elsewhere.
LEMMA AskedNext ==
  ASSUME NoneAsked, TypeOK, BatchesRung, RowsStamped, [RNext]_rvars
  PROVE  NoneAsked' /\ mix' = mix
  <1>1. CASE \E r \in Readers : DeskStep(r)
    BY <1>1 DEF DeskStep, Ask, TakePrint, Hit, Miss, Build, Store, Printed, Quiet, NoneAsked
  <1>2. CASE UNCHANGED <<mix, cache, desk>>
    BY <1>2 DEF NoneAsked
  <1>3. CASE \E S \in SUBSET Sales, paid \in SUBSET slips, new \in SUBSET SlipRow, t \in Nat :
               Writes(S, paid, new, t)
    BY <1>2, <1>3 DEF Writes, Wrote, desks
  <1>4. CASE \E e \in Expenses, row \in ExpenseRow : Spends(e, row)
    BY <1>2, <1>4 DEF Spends, Spend, desks
  <1>5. CASE Rests
    BY <1>2, <1>5 DEF Rests
  <1>6. CASE Unwatched
    BY <1>2, <1>6 DEF Unwatched, desks
  <1> QED
    BY <1>1, <1>3, <1>4, <1>5, <1>6, ReportSteps

LEMMA UnaskedNext ==
  ASSUME NoneAsked', mix' # "cache"
  PROVE  DesksKept' /\ BuildsTrue' /\ EntriesTrue'
  <1>1. cache' = <<>> /\ \A r \in Readers : desk'[r].at = "idle"
    BY DEF NoneAsked
  <1>2. DesksKept'
    BY <1>1 DEF DesksKept
  <1>3. BuildsTrue'
    BY <1>1 DEF BuildsTrue
  <1>4. EntriesTrue'
    <2>1. DOMAIN cache' = {}
      BY <1>1
    <2> QED
      BY <1>1, <2>1 DEF EntriesTrue
  <1> QED
    BY <1>2, <1>3, <1>4

LEMMA TypedNext ==
  ASSUME DesksTyped, TypeOK, BatchesRung, RowsStamped, [RNext]_rvars
  PROVE  DesksTyped'
  <1>1. ASSUME NEW r \in Readers, DeskStep(r)
        PROVE  DesksTyped'
    <2>1. \A next : At(r, next) /\ DOMAIN next = DOMAIN NoDesk =>
             DOMAIN desk' = Readers /\ \A q \in Readers : DOMAIN desk'[q] = DOMAIN NoDesk
      BY DEF At, DesksTyped
    <2> QED
      BY <1>1, <2>1 DEF DeskStep, Ask, TakePrint, Hit, Miss, Build, Store, Quiet, DesksTyped, NoDesk
  <1>2. CASE Remember /\ UNCHANGED desk
    BY <1>2 DEF DesksTyped, Remember
  <1>3. CASE UNCHANGED <<desk, since>>
    BY <1>3 DEF DesksTyped
  <1> QED
    BY <1>1, <1>2, <1>3, ReportSteps
       DEF Writes, Spends, Wrote, Spend, Rests, Unwatched, books, desks

\* While a request is served the rows stay, and what is said of them.
LEMMA QuietSays ==
  ASSUME Quiet, NEW P
  PROVE  /\ OutletReport(P)' = OutletReport(P)
         /\ \A table \in Tables : Fingerprint(table, P)' = Fingerprint(table, P)
         /\ \A part \in First \cup Then : /\ Read(part, P)' = Read(part, P)
                                          /\ OutletReport(P)[part] = Read(part, P)
         /\ Clear(P)' = Clear(P)
  <1>1. /\ OutletReport(P)' = OutletReport(P)
        /\ \A table \in Tables : Fingerprint(table, P)' = Fingerprint(table, P)
    BY RowsSame DEF Quiet, vars
  <1>2. Clear(P)' = Clear(P)
    BY DEF Quiet, Clear
  <1>3. \A part \in First \cup Then : /\ OutletReport(P)[part] = Read(part, P)
                                      /\ OutletReport(P)'[part] = Read(part, P)'
    BY DEF OutletReport
  <1> QED
    BY <1>1, <1>2, <1>3

\* Steps of the requests change no row, so fingerprints and reports stay.
LEMMA QuietKeeps ==
  ASSUME Quiet, NEW P, NEW print, DOMAIN print \subseteq Tables
  PROVE  /\ MarksRise(P, print) => MarksRise(P, print)'
         /\ \A said : ReadStands(P, print, said) => ReadStands(P, print, said)'
  <1>1. \A table \in Tables : Mark(table, P)' = Mark(table, P)
    BY QuietSays DEF Mark
  <1> QED
    BY <1>1, QuietSays DEF MarksRise, ReadStands

\* What each step of a request does to its desk.
LEMMA DeskOthers ==
  ASSUME DesksTyped, NEW r \in Readers, DeskStep(r), NEW q \in Readers, q # r
  PROVE  /\ desk'[q] = desk[q] /\ since'[q] = since[q]
         /\ q \notin amid' => q \notin amid
  BY DEF DesksTyped, DeskStep, Ask, TakePrint, Hit, Miss, Build, Store, At

LEMMA TakePrintEffect ==
  ASSUME DesksTyped, NEW r \in Readers, NEW table \in Tables, TakePrint(r, table)
  PROVE  /\ table \in desk[r].todo /\ desk[r].at = "printing" /\ desk'[r].at = "printing"
         /\ desk'[r].period = desk[r].period /\ desk'[r].said = desk[r].said
         /\ desk'[r].todo = desk[r].todo \ {table}
         /\ DOMAIN desk'[r].print = {table} \cup DOMAIN desk[r].print
         /\ desk'[r].print[table] = Fingerprint(table, desk[r].period)
         /\ \A x \in DOMAIN desk[r].print \ {table} : desk'[r].print[x] = desk[r].print[x]
  <1> DEFINE print == With(desk[r].print, table, Fingerprint(table, desk[r].period))
  <1>1. desk' = [desk EXCEPT ![r] = [desk[r] EXCEPT !.todo = desk[r].todo \ {table}, !.print = print]]
    BY DEF TakePrint, At
  <1>2. /\ DOMAIN print = {table} \cup DOMAIN desk[r].print
        /\ print[table] = Fingerprint(table, desk[r].period)
        /\ \A x \in DOMAIN desk[r].print \ {table} : print[x] = desk[r].print[x]
    BY DEF With
  <1> HIDE DEF print
  <1>3. desk'[r] = [desk[r] EXCEPT !.todo = desk[r].todo \ {table}, !.print = print]
    BY <1>1 DEF DesksTyped
  <1> QED
    BY <1>2, <1>3 DEF DesksTyped, NoDesk, TakePrint

LEMMA BuildEffect ==
  ASSUME DesksTyped, NEW r \in Readers, NEW part, Build(r, part)
  PROVE  /\ part \in desk[r].todo /\ desk[r].at = "building" /\ desk'[r].at = "building"
         /\ desk'[r].period = desk[r].period /\ desk'[r].print = desk[r].print
         /\ desk'[r].todo = IF desk[r].todo = {part} /\ part \in First THEN Then
                            ELSE desk[r].todo \ {part}
         /\ DOMAIN desk'[r].said = {part} \cup DOMAIN desk[r].said
         /\ desk'[r].said[part] = Read(part, desk[r].period)
         /\ \A x \in DOMAIN desk[r].said \ {part} : desk'[r].said[x] = desk[r].said[x]
  <1> DEFINE said == With(desk[r].said, part, Read(part, desk[r].period))
             todo == IF desk[r].todo \ {part} = {} /\ part \in First THEN Then
                     ELSE desk[r].todo \ {part}
  <1>1. desk' = [desk EXCEPT ![r] = [desk[r] EXCEPT !.said = said, !.todo = todo]]
    BY DEF Build, At
  <1>2. /\ DOMAIN said = {part} \cup DOMAIN desk[r].said
        /\ said[part] = Read(part, desk[r].period)
        /\ \A x \in DOMAIN desk[r].said \ {part} : said[x] = desk[r].said[x]
    BY DEF With
  <1> HIDE DEF said
  <1>3. desk'[r] = [desk[r] EXCEPT !.said = said, !.todo = todo]
    BY <1>1 DEF DesksTyped
  <1> QED
    BY <1>2, <1>3 DEF DesksTyped, NoDesk, Build

\* What a request does with its desk, but for what it takes down.
LEMMA AskEffect ==
  ASSUME DesksTyped, NEW r \in Readers, NEW P, Ask(r, P)
  PROVE  /\ desk'[r].at = "printing" /\ desk'[r].period = P /\ desk'[r].todo = Tables
         /\ desk'[r].print = <<>> /\ desk'[r].said = <<>> /\ since'[r] = {OutletReport(P)}
         /\ cache' = cache
  BY DEF DesksTyped, Ask, At, NoDesk

LEMMA MissEffect ==
  ASSUME DesksTyped, NEW r \in Readers, Miss(r)
  PROVE  /\ desk[r].at = "printing" /\ desk[r].todo = {} /\ desk'[r].at = "building"
         /\ desk'[r].period = desk[r].period /\ desk'[r].todo = First
         /\ desk'[r].print = desk[r].print /\ desk'[r].said = desk[r].said
         /\ cache' = cache
  BY DEF DesksTyped, Miss, Printed, At, NoDesk

LEMMA ClosesDesk ==
  ASSUME DesksTyped, NEW r \in Readers, Hit(r) \/ Store(r)
  PROVE  desk'[r].at = "idle"
  BY DEF DesksTyped, Hit, Store, At, NoDesk

\* While it takes its fingerprint a request can only come to match less.
LEMMA TakeBack ==
  ASSUME DesksTyped, DesksKept, NEW r \in Readers, NEW table \in Tables, TakePrint(r, table),
         NEW P, NEW print, MayMatch(r, P, print)'
  PROVE  MayMatch(r, P, print)
  <1>1. Quiet
    BY DEF TakePrint
  <1>2. desk[r].period = P /\ desk[r].at = "printing"
    BY TakePrintEffect DEF MayMatch
  <1>3. Clear(P)
    BY <1>1, QuietSays DEF MayMatch
  <1>4. ASSUME NEW x \in Tables
        PROVE  print[x] = IF x \in desk[r].todo THEN Fingerprint(x, P) ELSE desk[r].print[x]
    <2>1. print[x] = IF x \in desk'[r].todo THEN Fingerprint(x, P)' ELSE desk'[r].print[x]
      BY DEF MayMatch
    <2>2. Fingerprint(x, P)' = Fingerprint(x, P)
      BY <1>1, QuietSays
    <2>3. CASE x = table
      BY <1>2, <2>1, <2>3, TakePrintEffect
    <2>4. CASE x # table
      <3>1. x \in desk'[r].todo <=> x \in desk[r].todo
        BY <2>4, TakePrintEffect
      <3>2. x \notin desk[r].todo => x \in DOMAIN desk[r].print
        BY <1>2 DEF DesksKept
      <3> QED
        BY <2>1, <2>2, <2>4, <3>1, <3>2, TakePrintEffect
    <2> QED
      BY <2>3, <2>4
  <1> QED
    BY <1>2, <1>3, <1>4 DEF MayMatch

\* What is held of a kept report stays true of a request while requests are
\* served: it could match before, or asks only now and is told what stands.
LEMMA ToldNext ==
  ASSUME DesksTyped, DesksKept, NEW r \in Readers, DeskStep(r), NEW q \in Readers,
         NEW P, NEW print, NEW said, ReadStands(P, print, said)
  PROVE  /\ PartsTold(q, P, print, said) => PartsTold(q, P, print, said)'
         /\ First \cup Then \subseteq DOMAIN said /\ (q \notin amid => WholeTold(q, P, print, said))
               => (q \notin amid' => WholeTold(q, P, print, said)')
  <1> DEFINE Kept == /\ MayMatch(q, P, print) /\ since[q] \subseteq since'[q]
                     /\ q \notin amid' => q \notin amid
             Goal == /\ PartsTold(q, P, print, said) => PartsTold(q, P, print, said)'
                     /\ First \cup Then \subseteq DOMAIN said /\ (q \notin amid => WholeTold(q, P, print, said))
                           => (q \notin amid' => WholeTold(q, P, print, said)')
  <1>1. Quiet
    BY DeskQuiet
  <1>2. ASSUME MayMatch(q, P, print)' => Kept
        PROVE  Goal
    <2>1. PartsTold(q, P, print, said) => PartsTold(q, P, print, said)'
      BY <1>2, PartsKept
    <2>2. WholeTold(q, P, print, said) => WholeTold(q, P, print, said)'
      BY <1>2, WholeKept
    <2>3. MayMatch(q, P, print)' \/ WholeTold(q, P, print, said)'
      BY DEF WholeTold
    <2> QED
      BY <1>2, <2>1, <2>2, <2>3
  <1>3. ASSUME q # r
        PROVE  Goal
    <2>1. /\ desk'[q] = desk[q] /\ since'[q] = since[q]
          /\ q \notin amid' => q \notin amid
      BY <1>3, DeskOthers
    <2>2. MayMatch(q, P, print)' => MayMatch(q, P, print)
      BY <1>1, <2>1, QuietSays DEF MayMatch
    <2> QED
      BY <1>2, <2>1, <2>2
  <1>4. ASSUME NEW table \in Tables, TakePrint(r, table), q = r
        PROVE  Goal
    <2>1. MayMatch(q, P, print)' => MayMatch(q, P, print)
      BY <1>4, TakeBack
    <2>2. UNCHANGED <<since, amid>>
      BY <1>4 DEF TakePrint
    <2> QED
      BY <1>2, <2>1, <2>2
  <1>5. ASSUME NEW D \in Periods, Ask(r, D), q = r
        PROVE  Goal
    <2>1. /\ desk'[q].at = "printing" /\ desk'[q].period = D /\ desk'[q].todo = Tables
          /\ since'[q] = {OutletReport(D)}
      BY <1>5, AskEffect
    <2>2. ASSUME MayMatch(q, P, print)'
          PROVE  \A part \in (First \cup Then) \cap DOMAIN said : OutletReport(D)[part] = said[part]
      <3>1. D = P /\ Clear(P) /\ \A table \in Tables : print[table] = Fingerprint(table, P)
        BY <1>1, <2>1, <2>2, QuietSays DEF MayMatch
      <3> QED
        BY <1>1, <3>1, QuietSays DEF ReadStands
    <2>3. PartsTold(q, P, print, said)'
      BY <2>1, <2>2 DEF PartsTold
    <2>4. First \cup Then \subseteq DOMAIN said => WholeTold(q, P, print, said)'
      BY <2>1, <2>2 DEF WholeTold
    <2> QED
      BY <2>3, <2>4
  <1>6. ASSUME desk'[r].at # "printing", q = r
        PROVE  Goal
    BY <1>2, <1>6 DEF MayMatch
  <1>7. ASSUME NEW part, Build(r, part)
        PROVE  desk'[r].at # "printing"
    BY <1>7, BuildEffect
  <1> HIDE DEF Goal
  <1>8. ASSUME NEW part, Build(r, part)
        PROVE  Goal
    BY <1>3, <1>6, <1>7, <1>8
  <1>9. ASSUME Hit(r) \/ Store(r) \/ Miss(r)
        PROVE  Goal
    BY <1>3, <1>6, <1>9, MissEffect, ClosesDesk
  <1>10. Goal
    BY <1>3, <1>4, <1>5, <1>8, <1>9 DEF DeskStep
  <1> QED
    BY <1>10 DEF Goal

\* The steps of the requests keep DesksKept, BuildsTrue and, below, EntriesTrue.
LEMMA DeskKeptNext ==
  ASSUME DesksTyped, DesksKept, NEW r \in Readers, DeskStep(r)
  PROVE  DesksKept'
  <1> DEFINE Fine(q) ==
               \/ desk'[q].at = "idle"
               \/ /\ desk'[q].at = "printing" /\ desk'[q].said = <<>>
                  /\ desk'[q].todo \subseteq Tables
                  /\ DOMAIN desk'[q].print = Tables \ desk'[q].todo
                  /\ OutletReport(desk[q].period)' \in since'[q]
               \/ /\ desk'[q].at = "building" /\ DOMAIN desk'[q].print = Tables
                  /\ \/ /\ desk'[q].todo \in (SUBSET First) \ {{}}
                        /\ DOMAIN desk'[q].said = First \ desk'[q].todo
                     \/ /\ desk'[q].todo \subseteq Then
                        /\ DOMAIN desk'[q].said = (First \cup Then) \ desk'[q].todo
  <1>1. Quiet
    BY DeskQuiet
  <1>2. ASSUME NEW q \in Readers, NEW P, P = desk[q].period, P = desk'[q].period
        PROVE  OutletReport(desk[q].period)' = OutletReport(desk[q].period)
    <2>1. OutletReport(P)' = OutletReport(P)
      BY <1>1, QuietSays
    <2>2. OutletReport(desk[q].period)' = OutletReport(P)'
      BY <1>2
    <2> QED
      BY <1>2, <2>1, <2>2
  <1>3. ASSUME NEW q \in Readers, q # r
        PROVE  Fine(q)
    <2>1. desk'[q] = desk[q] /\ since'[q] = since[q]
      BY <1>3, DeskOthers
    <2>2. OutletReport(desk[q].period)' = OutletReport(desk[q].period)
      BY <1>2, <2>1
    <2> HIDE DEF First, Then, Tables
    <2> QED
      BY <2>1, <2>2 DEF DesksKept
  <1>4. ASSUME NEW P \in Periods, Ask(r, P)
        PROVE  Fine(r)
    <2>1. OutletReport(desk[r].period)' = OutletReport(P)'
      BY <1>4, AskEffect
    <2>2. OutletReport(P)' = OutletReport(P)
      BY <1>1, QuietSays
    <2>3. DOMAIN desk'[r].print = {}
      BY <1>4, AskEffect
    <2> QED
      BY <1>4, <2>1, <2>2, <2>3, AskEffect
  <1>5. ASSUME NEW table \in Tables, TakePrint(r, table)
        PROVE  Fine(r)
    <2>1. /\ desk[r].said = <<>> /\ desk[r].todo \subseteq Tables
          /\ DOMAIN desk[r].print = Tables \ desk[r].todo
          /\ OutletReport(desk[r].period) \in since[r]
      BY <1>5, TakePrintEffect DEF DesksKept
    <2>2. OutletReport(desk[r].period)' = OutletReport(desk[r].period)
      BY <1>2, <1>5, TakePrintEffect
    <2>3. since' = since
      BY <1>5 DEF TakePrint
    <2>4. DOMAIN desk'[r].print = Tables \ desk'[r].todo
      BY <1>5, <2>1, TakePrintEffect
    <2> QED
      BY <1>5, <2>1, <2>2, <2>3, <2>4, TakePrintEffect
  <1>6. ASSUME Miss(r)
        PROVE  Fine(r)
    <2>1. desk[r].said = <<>> /\ DOMAIN desk[r].print = Tables
      BY <1>6, MissEffect DEF DesksKept
    <2>2. DOMAIN desk'[r].said = {}
      BY <1>6, <2>1, MissEffect
    <2> QED
      BY <1>6, <2>1, <2>2, MissEffect DEF First
  <1>7. ASSUME NEW part \in First \cup Then, Build(r, part)
        PROVE  Fine(r)
    <2>1. /\ DOMAIN desk[r].print = Tables
          /\ \/ /\ desk[r].todo \in (SUBSET First) \ {{}}
                /\ DOMAIN desk[r].said = First \ desk[r].todo
             \/ /\ desk[r].todo \subseteq Then
                /\ DOMAIN desk[r].said = (First \cup Then) \ desk[r].todo
      BY <1>7, BuildEffect DEF DesksKept
    <2>2. CASE part \in First
      <3>1. part \notin Then
        BY <2>2 DEF First, Then
      <3>2. /\ desk[r].todo \in SUBSET First
            /\ DOMAIN desk'[r].said = {part} \cup (First \ desk[r].todo)
        BY <1>7, <2>1, <3>1, BuildEffect
      <3>3. DOMAIN desk'[r].said = First \ (desk[r].todo \ {part})
        BY <2>2, <3>2
      <3>4. First \cap Then = {}
        BY DEF First, Then
      <3>5. ASSUME desk[r].todo = {part}
            PROVE  Fine(r)
        <4>1. desk'[r].todo = Then /\ desk'[r].at = "building" /\ desk'[r].print = desk[r].print
          BY <1>7, <2>2, <3>5, BuildEffect
        <4>2. DOMAIN desk'[r].said = (First \cup Then) \ Then
          BY <3>3, <3>4, <3>5
        <4> HIDE DEF First, Then, Tables
        <4> QED
          BY <2>1, <4>1, <4>2
      <3>6. ASSUME desk[r].todo # {part}
            PROVE  Fine(r)
        <4>1. /\ part \in desk[r].todo /\ desk'[r].todo = desk[r].todo \ {part}
              /\ desk'[r].at = "building" /\ desk'[r].print = desk[r].print
          BY <1>7, <3>6, BuildEffect
        <4>2. desk'[r].todo \in (SUBSET First) \ {{}}
          BY <3>2, <3>6, <4>1
        <4> HIDE DEF First, Then, Tables
        <4> QED
          BY <2>1, <3>3, <4>1, <4>2
      <3> QED
        BY <3>5, <3>6
    <2>3. CASE part \in Then
      <3>1. part \notin First
        BY <2>3 DEF First, Then
      <3>2. desk[r].todo \subseteq Then /\ DOMAIN desk[r].said = (First \cup Then) \ desk[r].todo
        BY <1>7, <2>1, <3>1, BuildEffect
      <3>3. desk'[r].todo = desk[r].todo \ {part}
        BY <1>7, <3>1, BuildEffect
      <3>4. DOMAIN desk'[r].said = {part} \cup DOMAIN desk[r].said
        BY <1>7, BuildEffect
      <3>5. DOMAIN desk'[r].said = (First \cup Then) \ desk'[r].todo
        BY <2>3, <3>2, <3>3, <3>4
      <3> QED
        BY <1>7, <2>1, <3>2, <3>3, <3>5, BuildEffect
    <2> QED
      BY <2>2, <2>3
  <1>8. Hit(r) \/ Store(r) => Fine(r)
    BY ClosesDesk
  <1> HIDE DEF Fine
  <1>9. \A q \in Readers : Fine(q)
    BY <1>3, <1>4, <1>5, <1>6, <1>7, <1>8 DEF DeskStep
  <1> QED
    BY <1>9 DEF Fine, DesksKept

\* What a build tells is told of any request that would match it.
LEMMA BuildTold ==
  ASSUME DesksTyped, DesksKept, BuildsTrue, NEW r \in Readers, NEW part \in First \cup Then,
         Build(r, part)
  PROVE  /\ ReadStands(desk[r].period, desk[r].print, desk[r].said)'
         /\ \A q \in Readers : PartsTold(q, desk[r].period, desk[r].print, desk[r].said)'
  <1>1. PICK P, print, said, more :
          P = desk[r].period /\ print = desk[r].print /\ said = desk[r].said /\ more = desk'[r].said
    OBVIOUS
  <1>2. Quiet /\ DeskStep(r) /\ since' = since
    BY DEF Build, DeskStep
  <1>3. /\ desk[r].at = "building" /\ DOMAIN print = Tables
        /\ DOMAIN more = {part} \cup DOMAIN said /\ more[part] = Read(part, P)
        /\ \A x \in DOMAIN said \ {part} : more[x] = said[x]
    BY <1>1, BuildEffect DEF DesksKept
  <1>4. ReadStands(P, print, said) /\ \A q \in Readers : PartsTold(q, P, print, said)
    BY <1>1, <1>3 DEF BuildsTrue
  <1>5. ReadStands(P, print, more)'
    <2>1. ReadStands(P, print, more)
      BY <1>3, <1>4 DEF ReadStands
    <2> QED
      BY <1>2, <1>3, <2>1, QuietKeeps
  <1>6. ASSUME NEW q \in Readers
        PROVE  PartsTold(q, P, print, more)'
    <2>1. PartsTold(q, P, print, said)'
      BY <1>2, <1>4, ToldNext
    <2>2. ASSUME MayMatch(q, P, print)'
          PROVE  OutletReport(P) \in since'[q]
      <3>1. q # r
        BY <2>2, BuildEffect DEF MayMatch
      <3>2. desk'[q] = desk[q]
        BY <1>2, <3>1, DeskOthers
      <3>3. desk[q].at = "printing" /\ desk[q].period = P
        BY <2>2, <3>2 DEF MayMatch
      <3> QED
        BY <1>2, <3>3 DEF DesksKept
    <2>3. OutletReport(P)[part] = more[part]
      BY <1>2, <1>3, QuietSays
    <2> QED
      BY <1>3, <2>1, <2>2, <2>3 DEF PartsTold
  <1>7. P = desk'[r].period /\ print = desk'[r].print
    BY <1>1, BuildEffect
  <1> QED
    BY <1>1, <1>5, <1>6, <1>7

LEMMA BuildsNext ==
  ASSUME RowsStamped, DesksTyped, DesksKept, BuildsTrue, NEW r \in Readers, DeskStep(r)
  PROVE  BuildsTrue'
  <1>1. Quiet
    BY DeskQuiet
  <1>2. ASSUME NEW d \in Readers, desk[d].at # "idle", desk'[d].at # "idle",
               desk'[d].period = desk[d].period, desk'[d].print = desk[d].print
        PROVE  MarksRise(desk[d].period, desk[d].print)'
    <2>1. PICK P, print : P = desk[d].period /\ print = desk[d].print
      OBVIOUS
    <2>2. MarksRise(P, print) /\ DOMAIN print \subseteq Tables
      BY <1>2, <2>1 DEF BuildsTrue, DesksKept
    <2>3. MarksRise(P, print)'
      BY <1>1, <2>2, QuietKeeps
    <2> QED
      BY <1>2, <2>1, <2>3
  <1>3. ASSUME NEW d \in Readers, desk[d].at = "building", desk'[d] = desk[d]
        PROVE  /\ ReadStands(desk[d].period, desk[d].print, desk[d].said)'
               /\ \A q \in Readers : PartsTold(q, desk[d].period, desk[d].print, desk[d].said)'
    <2>1. PICK P, print, said : P = desk[d].period /\ print = desk[d].print /\ said = desk[d].said
      OBVIOUS
    <2>2. /\ ReadStands(P, print, said) /\ DOMAIN print \subseteq Tables
          /\ \A q \in Readers : PartsTold(q, P, print, said)
      BY <1>3, <2>1 DEF BuildsTrue, DesksKept
    <2>3. ReadStands(P, print, said)'
      BY <1>1, <2>2, QuietKeeps
    <2>4. \A q \in Readers : PartsTold(q, P, print, said)'
      BY <2>2, ToldNext
    <2> QED
      BY <1>3, <2>1, <2>3, <2>4
  <1> DEFINE Fine(d) ==
        /\ desk'[d].at # "idle" => MarksRise(desk[d].period, desk[d].print)'
        /\ desk'[d].at = "building" =>
              /\ ReadStands(desk[d].period, desk[d].print, desk[d].said)'
              /\ \A q \in Readers : PartsTold(q, desk[d].period, desk[d].print, desk[d].said)'
  <1>4. ASSUME NEW d \in Readers, d # r
        PROVE  Fine(d)
    <2>1. desk'[d] = desk[d]
      BY <1>4, DeskOthers
    <2> QED
      BY <1>2, <1>3, <2>1
  <1>5. ASSUME NEW P \in Periods, Ask(r, P)
        PROVE  Fine(r)
    <2>1. /\ desk'[r].at = "printing" /\ desk'[r].print = <<>>
      BY <1>5, AskEffect
    <2>2. MarksRise(desk[r].period, desk[r].print)'
      BY <2>1 DEF MarksRise
    <2> QED
      BY <2>1, <2>2
  <1>6. ASSUME NEW table \in Tables, TakePrint(r, table)
        PROVE  Fine(r)
    <2>1. desk'[r].at = "printing" /\ desk[r].at = "printing"
      BY <1>6, TakePrintEffect
    <2>2. PICK P, print, more : P = desk[r].period /\ print = desk[r].print /\ more = desk'[r].print
      OBVIOUS
    <2>3. MarksRise(P, print) /\ DOMAIN print \subseteq Tables
      BY <2>1, <2>2 DEF BuildsTrue, DesksKept
    <2>4. MarksRise(P, print)'
      BY <1>1, <2>3, QuietKeeps
    <2>5. /\ DOMAIN more = {table} \cup DOMAIN print /\ more[table] = Fingerprint(table, P)
          /\ \A x \in DOMAIN print \ {table} : more[x] = print[x]
      BY <1>6, <2>2, TakePrintEffect
    <2>6. more[table][2] = Mark(table, P)' /\ Mark(table, P)' \in Nat
      <3>1. more[table][2] = Mark(table, P)
        BY <2>5 DEF Mark
      <3>2. Mark(table, P)' = Mark(table, P)
        BY <1>1, QuietSays DEF Mark
      <3> QED
        BY <3>1, <3>2, MarkBounded
    <2>7. MarksRise(P, more)'
      BY <2>4, <2>5, <2>6 DEF MarksRise
    <2>8. desk'[r].period = P
      BY <1>6, <2>2, TakePrintEffect
    <2> QED
      BY <2>1, <2>2, <2>7, <2>8
  <1>7. ASSUME Miss(r)
        PROVE  Fine(r)
    <2>1. desk[r].said = <<>>
      BY <1>7, MissEffect DEF DesksKept
    <2>2. DOMAIN desk'[r].said = {}
      BY <1>7, <2>1, MissEffect
    <2>3. MarksRise(desk[r].period, desk[r].print)'
      BY <1>2, <1>7, MissEffect
    <2>4. ReadStands(desk[r].period, desk[r].print, desk[r].said)'
      BY <2>2 DEF ReadStands
    <2>5. \A q \in Readers : PartsTold(q, desk[r].period, desk[r].print, desk[r].said)'
      BY <2>2 DEF PartsTold
    <2> QED
      BY <2>3, <2>4, <2>5
  <1>8. ASSUME NEW part \in First \cup Then, Build(r, part)
        PROVE  Fine(r)
    <2>1. MarksRise(desk[r].period, desk[r].print)'
      BY <1>2, <1>8, BuildEffect
    <2>2. desk'[r].period = desk[r].period /\ desk'[r].print = desk[r].print
      BY <1>8, BuildEffect
    <2>3. /\ ReadStands(desk[r].period, desk[r].print, desk[r].said)'
          /\ \A q \in Readers : PartsTold(q, desk[r].period, desk[r].print, desk[r].said)'
      BY <1>8, <2>2, BuildTold
    <2> QED
      BY <2>1, <2>3
  <1>9. Hit(r) \/ Store(r) => Fine(r)
    BY ClosesDesk
  <1> HIDE DEF Fine
  <1>10. \A d \in Readers : Fine(d)
    BY <1>4, <1>5, <1>6, <1>7, <1>8, <1>9 DEF DeskStep
  <1> QED
    BY <1>10 DEF Fine, BuildsTrue

\* The entries of the cache are kept, one is moved, and one put in.
LEMMA SeqOf ==
  ASSUME NEW T, NEW s \in Seq(T)
  PROVE  s \in Seq({s[n] : n \in DOMAIN s}) /\ \A n \in DOMAIN s : s[n] \in T
  <1>1. DOMAIN s = 1 .. Len(s) /\ Len(s) \in Nat /\ s = [n \in 1 .. Len(s) |-> s[n]]
    OBVIOUS
  <1> QED
    BY <1>1

\* The cache stays a sequence of its entries.
LEMMA WithoutIs ==
  ASSUME NEW T, cache \in Seq(T), NEW n \in DOMAIN cache
  PROVE  Without(n) \in Seq(T)
  <1>1. n \in 1 .. Len(cache) /\ Len(cache) \in Nat
    OBVIOUS
  <1>2. SubSeq(cache, 1, n - 1) \in Seq(T)
    BY <1>1
  <1>3. SubSeq(cache, n + 1, Len(cache)) \in Seq(T)
    BY <1>1
  <1> QED
    BY <1>2, <1>3, ConcatProperties DEF Without

LEMMA StoredIs ==
  ASSUME NEW T, cache \in Seq(T), NEW x \in T
  PROVE  Stored(x) \in Seq(T)
  <1> DEFINE left == IF Entry(x.period) # {} THEN Without(CHOOSE n \in Entry(x.period) : TRUE)
                     ELSE IF Len(cache) >= CacheCap THEN Tail(cache) ELSE cache
  <1>1. CASE Entry(x.period) # {}
    <2>1. (CHOOSE n \in Entry(x.period) : TRUE) \in DOMAIN cache
      BY <1>1 DEF Entry
    <2>2. left \in Seq(T)
      BY <1>1, <2>1, WithoutIs
    <2> QED
      BY <2>2, AppendProperties DEF Stored
  <1>2. CASE Entry(x.period) = {} /\ Len(cache) >= CacheCap
    <2>1. cache # <<>>
      BY <1>2, ReportsAssumption
    <2>2. left \in Seq(T)
      BY <1>2, <2>1, HeadTailProperties
    <2> QED
      BY <2>2, AppendProperties DEF Stored
  <1>3. CASE Entry(x.period) = {} /\ ~(Len(cache) >= CacheCap)
    <2>1. left \in Seq(T)
      BY <1>3
    <2> QED
      BY <2>1, AppendProperties DEF Stored
  <1> QED
    BY <1>1, <1>2, <1>3

\* An entry stays true as requests move on, and a new one is when it is stored.
LEMMA EntryNext ==
  ASSUME DesksTyped, DesksKept, NEW r \in Readers, DeskStep(r), NEW x, EntryTrue(x)
  PROVE  EntryTrue(x)'
  <1>1. PICK P, print, said : P = x.period /\ print = x.print /\ said = x.said
    OBVIOUS
  <1>2. /\ DOMAIN print = Tables /\ DOMAIN said = First \cup Then \cup {"live"}
        /\ MarksRise(P, print) /\ ReadStands(P, print, said)
    BY <1>1 DEF EntryTrue
  <1>3. MarksRise(P, print)' /\ ReadStands(P, print, said)'
    BY <1>2, DeskQuiet, QuietKeeps
  <1>4. ASSUME NEW q \in Readers
        PROVE  /\ PartsTold(q, P, print, said)'
               /\ q \notin amid' => WholeTold(q, P, print, said)'
    <2>1. PartsTold(q, P, print, said) /\ (q \notin amid => WholeTold(q, P, print, said))
      BY <1>1 DEF EntryTrue
    <2>2. First \cup Then \subseteq DOMAIN said
      BY <1>2
    <2> QED
      BY <1>2, <2>1, <2>2, ToldNext
  <1> QED
    BY <1>1, <1>2, <1>3, <1>4 DEF EntryTrue

\* A report put in the cache holds of every request that might be served it.
LEMMA StoredTrue ==
  ASSUME DesksTyped, DesksKept, BuildsTrue, NEW r \in Readers, Store(r),
         NEW x, x = [period |-> desk[r].period, print |-> desk[r].print,
                     said |-> With(desk[r].said, "live", shelf)]
  PROVE  EntryTrue(x)'
  <1>1. PICK P, print, told, said :
          P = desk[r].period /\ print = desk[r].print /\ told = desk[r].said /\ said = x.said
    OBVIOUS
  <1>2. Quiet /\ DeskStep(r) /\ desk[r].at = "building" /\ desk[r].todo = {}
    BY DEF Store, DeskStep
  <1>3. DOMAIN print = Tables /\ DOMAIN told = First \cup Then
    BY <1>1, <1>2 DEF DesksKept
  <1>4. /\ DOMAIN said = First \cup Then \cup {"live"}
        /\ \A part \in First \cup Then : said[part] = told[part]
    BY <1>1, <1>3 DEF With, First, Then
  <1>5. /\ MarksRise(P, print) /\ ReadStands(P, print, told)
        /\ \A q \in Readers : PartsTold(q, P, print, told)
    BY <1>1, <1>2 DEF BuildsTrue
  <1>6. ReadStands(P, print, said)
    BY <1>3, <1>4, <1>5 DEF ReadStands
  <1>7. MarksRise(P, print)' /\ ReadStands(P, print, said)'
    BY <1>2, <1>3, <1>5, <1>6, QuietKeeps
  <1>8. ASSUME NEW q \in Readers
        PROVE  /\ PartsTold(q, P, print, said)'
               /\ q \notin amid' => WholeTold(q, P, print, said)'
    <2>1. PartsTold(q, P, print, said)
      BY <1>3, <1>4, <1>5 DEF PartsTold
    <2>2. PartsTold(q, P, print, said)'
      BY <1>2, <1>6, <2>1, ToldNext
    <2>3. ASSUME MayMatch(q, P, print)'
          PROVE  q \in amid'
      <3>1. desk'[q].at = "printing"
        BY <2>3 DEF MayMatch
      <3>2. q # r
        BY <3>1, ClosesDesk
      <3>3. desk'[q] = desk[q]
        BY <1>2, <3>2, DeskOthers
      <3> QED
        BY <3>1, <3>3 DEF Store, Requested
    <2> QED
      BY <2>2, <2>3 DEF WholeTold
  <1>9. x.period = P /\ x.print = print /\ x.said = said
    BY <1>1
  <1> QED
    BY <1>3, <1>4, <1>7, <1>8, <1>9 DEF EntryTrue

LEMMA EntriesNext ==
  ASSUME DesksTyped, DesksKept, BuildsTrue, EntriesTrue, NEW r \in Readers, DeskStep(r)
  PROVE  EntriesTrue'
  <1> DEFINE Kept == {cache[n] : n \in DOMAIN cache}
  <1>1. cache \in Seq(Kept) /\ \A x \in Kept : EntryTrue(x)'
    BY EntryNext DEF EntriesTrue
  <1> HIDE DEF Kept
  <1>2. ASSUME NEW T, cache' \in Seq(T), \A x \in T : EntryTrue(x)'
        PROVE  EntriesTrue'
    <2>1. PICK c : c = cache'
      OBVIOUS
    <2>2. c \in Seq({c[n] : n \in DOMAIN c}) /\ \A n \in DOMAIN c : c[n] \in T
      BY <1>2, <2>1, SeqOf
    <2>3. \A n \in DOMAIN cache' : EntryTrue(cache[n])'
      BY <1>2, <2>1, <2>2
    <2> QED
      BY <2>1, <2>2, <2>3 DEF EntriesTrue
  <1>3. CASE Hit(r)
    <2>1. PICK n \in DOMAIN cache : cache' = Append(Without(n), cache[n])
      BY <1>3 DEF Hit, Matching, Entry
    <2>2. Without(n) \in Seq(Kept) /\ cache[n] \in Kept
      BY <1>1, WithoutIs DEF Kept
    <2>3. cache' \in Seq(Kept)
      BY <2>1, <2>2, AppendProperties
    <2> QED
      BY <1>1, <1>2, <2>3
  <1>4. CASE Store(r)
    <2>1. PICK x : x = [period |-> desk[r].period, print |-> desk[r].print,
                        said |-> With(desk[r].said, "live", shelf)]
      OBVIOUS
    <2>2. EntryTrue(x)'
      BY <1>4, <2>1, StoredTrue
    <2>3. cache' = Stored(x)
      BY <1>4, <2>1 DEF Store
    <2>4. cache \in Seq(Kept \cup {x})
      BY <1>1
    <2>5. cache' \in Seq(Kept \cup {x})
      BY <2>3, <2>4, StoredIs
    <2> QED
      BY <1>1, <1>2, <2>2, <2>5
  <1>5. CASE cache' = cache
    BY <1>1, <1>2, <1>5
  <1>6. Hit(r) \/ Store(r) \/ cache' = cache
    BY DEF DeskStep, Ask, TakePrint, Miss, Build
  <1> QED
    BY <1>3, <1>4, <1>5, <1>6

\* The strengthening of the cache is inductive.
LEMMA CacheNext ==
  ASSUME TypeOK, BatchesRung, CacheInv, [RNext]_rvars
  PROVE  CacheInv'
  <1>1. NoneAsked /\ RowsStamped /\ DesksTyped /\ DesksKept /\ BuildsTrue /\ EntriesTrue
    BY DEF CacheInv
  <1>2. NoneAsked' /\ mix' = mix /\ RowsStamped' /\ DesksTyped'
    BY <1>1, AskedNext, RowsNext, TypedNext
  <1> DEFINE Goal == DesksKept' /\ BuildsTrue' /\ EntriesTrue'
  <1>3. ASSUME mix # "cache"
        PROVE  Goal
    BY <1>2, <1>3, UnaskedNext
  <1>4. ASSUME Observed
        PROVE  Goal
    BY <1>1, <1>2, <1>4, ObservedKeeps
  <1>5. ASSUME NEW r \in Readers, DeskStep(r)
        PROVE  Goal
    BY <1>1, <1>5, DeskKeptNext, BuildsNext, EntriesNext
  <1>6. ASSUME NEW S \in SUBSET Sales, NEW paid \in SUBSET slips, NEW new \in SUBSET SlipRow,
               NEW t \in Nat, Writes(S, paid, new, t)
        PROVE  Goal
    BY <1>1, <1>2, <1>3, <1>4, <1>6, WritesObserved
  <1>7. ASSUME NEW e \in Expenses, NEW row \in ExpenseRow, Spends(e, row)
        PROVE  Goal
    BY <1>1, <1>2, <1>4, <1>7, SpendsObserved
  <1>8. ASSUME Rests
        PROVE  Goal
    BY <1>1, <1>4, <1>8, RestsObserved
  <1>9. ASSUME Unwatched
        PROVE  Goal
    BY <1>3, <1>9 DEF Unwatched
  <1> HIDE DEF Goal
  <1>10. Goal
    BY <1>1, <1>5, <1>6, <1>7, <1>8, <1>9, ReportSteps
  <1> QED
    BY <1>2, <1>10 DEF CacheInv, Goal

LEMMA CacheBegins ==
  ASSUME RInit
  PROVE  CacheInv
  <1>1. /\ mix \in {"sales", "sessions", "cache"} /\ cache = <<>>
        /\ desk = [r \in Readers |-> NoDesk] /\ since = [r \in Readers |-> {}]
    BY ReportsAssumption DEF RInit
  <1>2. \A r \in Readers : desk[r] = NoDesk /\ desk[r].at = "idle"
    BY <1>1 DEF NoDesk
  <1>3. NoneAsked
    BY <1>1, <1>2 DEF NoneAsked
  <1>4. RowsStamped
    <2>1. 1 \in Days
      BY ReportsAssumption DEF Days
    <2>2. [st |-> "absent", day |-> 1, amount |-> 0, at |-> 0] \in ExpenseRow
      BY <2>1 DEF ExpenseRow
    <2>3. slips = {} /\ IsFiniteSet(slips)
      BY FS_EmptySet DEF RInit
    <2>4. /\ latest = 0 /\ stamp = [s \in Sales |-> 0] /\ margin = [s \in Sales |-> 0]
          /\ expense = [e \in Expenses |-> [st |-> "absent", day |-> 1, amount |-> 0, at |-> 0]]
      BY DEF RInit
    <2> QED
      BY <2>2, <2>3, <2>4 DEF RowsStamped
  <1>5. DesksTyped
    BY <1>1, <1>2 DEF DesksTyped
  <1>6. DesksKept /\ BuildsTrue
    BY <1>2 DEF DesksKept, BuildsTrue
  <1>7. EntriesTrue
    <2>1. DOMAIN cache = {}
      BY <1>1
    <2> QED
      BY <1>1, <2>1 DEF EntriesTrue
  <1> QED
    BY <1>3, <1>4, <1>5, <1>6, <1>7 DEF CacheInv

\* It says of a request about to be served what CacheCurrent asks.
LEMMA CacheTells ==
  ASSUME CacheInv
  PROVE  CacheCurrent
  <1> SUFFICES ASSUME NEW r \in Readers, Printed(r), Clear(desk[r].period), NEW n \in Matching(r)
               PROVE  LET said == Answer(cache[n].said) IN
                      /\ said["live"] = shelf
                      /\ \A part \in First \cup Then : \E told \in since[r] : said[part] = told[part]
                      /\ r \notin amid => \E told \in since[r] :
                             \A part \in First \cup Then : said[part] = told[part]
    BY DEF CacheCurrent, Clear
  <1>1. PICK P, print, kept :
          P = cache[n].period /\ print = cache[n].print /\ kept = cache[n].said
    OBVIOUS
  <1>2. P = desk[r].period /\ print = desk[r].print /\ n \in DOMAIN cache
    BY <1>1 DEF Matching, Entry
  <1>3. EntryTrue(cache[n])
    BY <1>2 DEF CacheInv, EntriesTrue
  <1>4. /\ DOMAIN kept = First \cup Then \cup {"live"}
        /\ PartsTold(r, P, print, kept) /\ (r \notin amid => WholeTold(r, P, print, kept))
    BY <1>1, <1>3 DEF EntryTrue
  <1>5. MayMatch(r, P, print)
    BY <1>2 DEF MayMatch, Printed
  <1>6. PICK said : said = Answer(kept)
    OBVIOUS
  <1>7. said["live"] = shelf /\ \A part \in First \cup Then : said[part] = kept[part]
    BY <1>4, <1>6 DEF Answer, First, Then
  <1>8. \A part \in First \cup Then : \E told \in since[r] : told[part] = kept[part]
    BY <1>4, <1>5 DEF PartsTold
  <1>9. r \notin amid => \E told \in since[r] : \A part \in First \cup Then : told[part] = kept[part]
    BY <1>4, <1>5 DEF WholeTold
  <1>10. said = Answer(cache[n].said)
    BY <1>1, <1>6
  <1>11. \A part \in First \cup Then : \E told \in since[r] : said[part] = told[part]
    BY <1>7, <1>8
  <1>12. r \notin amid => \E told \in since[r] : \A part \in First \cup Then : said[part] = told[part]
    BY <1>7, <1>9
  <1> QED
    BY <1>7, <1>10, <1>11, <1>12

\* A report served from the cache is one that could have been built since it was
\* asked for (report.service.ts), however commits, other requests and the statements
\* of fingerprints and builds interleave.
THEOREM CacheStaysCurrent == RSpec => []CacheCurrent
  <1>1. RInit => CacheInv
    BY CacheBegins
  <1>2. TypeOK /\ BatchesRung /\ CacheInv /\ [RNext]_rvars => CacheInv'
    BY CacheNext
  <1>3. CacheInv => CacheCurrent
    BY CacheTells
  <1> QED
    BY <1>1, <1>2, <1>3, ReportsWatch, TypeCorrect, BatchesAreRung, PTL DEF RSpec

(***************************************************************************)
(* The sessions of sales and payments                                      *)
(***************************************************************************)
\* What a step does to the sales and requests where it takes no money.
NoMoney ==
    \/ \E w \in Workers, s \in Sales : CommitReverse(w, s) \/ CommitCollect(w, s)
    \/ \E w \in Workers : CommitDeliver(w)
    \/ /\ \A x \in Sales : sale'[x].status = sale[x].status /\ sale'[x].paid = sale[x].paid
       /\ \A v \in Workers, x \in Sales : \/ tx'[v] = tx[v]
                                          \/ tx'[v].seen[x] \in {sale[x], Blank}

Rung(s, k, tender) ==
    /\ Checkout(s, tender)
    /\ rung' = [rung EXCEPT ![s] = k]
    /\ doneIn' = [doneIn EXCEPT ![s] = IF tender >= Total THEN k ELSE doneIn[s]]
    /\ slips' = slips \/ slips' = slips \cup {Slip(s, DayOf[s], k, 0)}
Paid(w, s, k) ==
    /\ CommitPay(w, s) /\ rung' = rung
    /\ doneIn' = [doneIn EXCEPT ![s] = IF tx[w].seen[s].paid + tx[w].tender >= Total
                                        THEN k ELSE doneIn[s]]
    /\ slips' = slips \cup {Slip(s, PayDay, k, 0)}
Unpaid == NoMoney /\ UNCHANGED <<rung, doneIn, slips>>

\* With no stamps told apart a write leaves the payments there were as they are.
LEMMA WroteSlips ==
  ASSUME RowsStamped, mix = "sessions", NEW S, NEW paid, NEW new, NEW t \in Stamps,
         Wrote(S, paid, new, t)
  PROVE  slips' = slips \cup new /\ t = 0
  <1>1. t = 0
    BY DEF Stamps
  <1>2. ASSUME NEW p \in slips
        PROVE  [p EXCEPT !.at = t] = p
    BY <1>1 DEF RowsStamped, SlipRow
  <1> QED
    BY <1>1, <1>2 DEF Wrote

LEMMA TouchesUnpaid ==
  ASSUME RowsStamped, mix = "sessions", NEW S, NEW paid, Touches(S, paid), NoMoney
  PROVE  Unpaid
  <1>1. PICK t \in Stamps : UNCHANGED <<rung, doneIn>> /\ Wrote(S, paid, {}, t)
    BY DEF Touches, Unwatched
  <1> QED
    BY <1>1, WroteSlips DEF Unpaid

\* What a step does to the sessions of sales and payments.
LEMMA SessionSteps ==
  ASSUME TypeOK, RowsStamped, NoneAsked, mix = "sessions", [RNext]_rvars
  PROVE  \/ \E s \in Sales, k \in Sessions, t \in Tenders : Rung(s, k, t)
         \/ \E w \in Workers, s \in Sales, k \in Sessions : Paid(w, s, k)
         \/ Unpaid
  <1> DEFINE Goal == \/ \E s \in Sales, k \in Sessions, t \in Tenders : Rung(s, k, t)
                     \/ \E w \in Workers, s \in Sales, k \in Sessions : Paid(w, s, k)
                     \/ Unpaid
  <1>1. ASSUME NEW s \in Sales, NEW t \in Tenders, RingUp(s, t)
        PROVE  Goal
    <2>1. PICK k \in Tills, z \in Stamps :
             /\ rung' = [rung EXCEPT ![s] = k]
             /\ doneIn' = [doneIn EXCEPT ![s] = IF t >= Total THEN k ELSE doneIn[s]]
             /\ Wrote({s}, {}, IF t > 0 THEN {Slip(s, DayOf[s], k, z)} ELSE {}, z)
      BY <1>1 DEF RingUp, Unwatched
    <2>2. k \in Sessions
      BY DEF Tills
    <2>3. slips' = slips \cup (IF t > 0 THEN {Slip(s, DayOf[s], k, z)} ELSE {}) /\ z = 0
      BY <2>1, WroteSlips
    <2>4. Rung(s, k, t)
      BY <1>1, <2>1, <2>3 DEF RingUp, Rung
    <2> QED
      BY <2>2, <2>4
  <1>2. ASSUME NEW w \in Workers, NEW s \in Sales, Settle(w, s)
        PROVE  Goal
    <2>1. PICK k \in Tills, z \in Stamps :
             /\ doneIn' = [doneIn EXCEPT ![s] =
                             CompletingSession(tx[w].seen[s].paid + tx[w].tender, k, doneIn[s])]
             /\ UNCHANGED rung
             /\ Wrote({s}, {}, {Slip(s, PayDay, k, z)}, z)
      BY <1>2 DEF Settle, Unwatched
    <2>2. k \in Sessions /\ k # NoSession
      BY ReportsAssumption DEF Tills
    <2>3. slips' = slips \cup {Slip(s, PayDay, k, z)} /\ z = 0
      BY <2>1, WroteSlips
    <2>4. Paid(w, s, k)
      BY <1>2, <2>1, <2>2, <2>3 DEF Settle, Paid, CompletingSession
    <2> QED
      BY <2>2, <2>4
  <1>3. ASSUME NEW w \in Workers, NEW s \in Sales, Reverse(w, s) \/ Collect(w, s)
        PROVE  Goal
    <2>1. NoMoney
      BY <1>3 DEF Reverse, Collect, NoMoney
    <2> QED
      BY <1>3, <2>1, TouchesUnpaid DEF Reverse, Collect
  <1>4. ASSUME NEW w \in Workers, Confirm(w)
        PROVE  Goal
    <2>1. NoMoney
      BY <1>4 DEF Confirm, NoMoney
    <2> QED
      BY <1>4, <2>1, TouchesUnpaid DEF Confirm
  <1>5. ASSUME NEW s \in Sales, Delete(s)
        PROVE  Goal
    <2>1. \A x \in Sales : sale'[x].status = sale[x].status /\ sale'[x].paid = sale[x].paid
      BY <1>5 DEF Delete, Remove, TypeOK, SaleRow
    <2>2. NoMoney
      BY <1>5, <2>1 DEF Delete, Remove, NoMoney
    <2> QED
      BY <1>5, <2>2, TouchesUnpaid DEF Delete
  <1>6. ASSUME NEW s \in Sales, WindowCloses(s) /\ Beside
        PROVE  Goal
    BY <1>6 DEF WindowCloses, Beside, books, NoMoney, Unpaid
  <1>7. ASSUME NEW w \in Workers, NEW s \in Sales,
               \/ \E t \in Tenders : BeginPay(w, s, t) /\ Begun
               \/ VoidSales(w, s) /\ Begun
               \/ ReturnSales(w, s) /\ BegunElse
               \/ RefundSales(w, s) /\ BegunElse
               \/ BeginCollect(w, s) /\ BegunElse
        PROVE  Goal
    <2>1. NoMoney
      BY <1>7, BeginIsStart, ReversalRequest DEF NoMoney
    <2>2. UNCHANGED <<rung, doneIn, slips>>
      BY <1>7 DEF Begun, BegunElse, Beside, books
    <2> QED
      BY <2>1, <2>2 DEF Unpaid
  <1>8. ASSUME NEW w \in Workers, NEW batch \in SUBSET Sales, BeginDeliver(w, batch) /\ BegunElse
        PROVE  Goal
    <2>1. PICK s \in batch : TRUE
      BY <1>8 DEF BeginDeliver
    <2>2. NoMoney
      BY <1>8, <2>1, BeginIsStart DEF NoMoney
    <2>3. UNCHANGED <<rung, doneIn, slips>>
      BY <1>8 DEF Begun, BegunElse, Beside, books
    <2> QED
      BY <2>2, <2>3 DEF Unpaid
  <1>9. ASSUME NEW w \in Workers, Abort(w) /\ Beside
        PROVE  Goal
    <2>1. NoMoney
      BY <1>9, FinishEffect DEF Abort, NoMoney
    <2> QED
      BY <1>9, <2>1 DEF Beside, books, Unpaid
  <1>10. ASSUME NEW r \in Readers, DeskStep(r)
         PROVE  Goal
    BY <1>10, DeskQuiet DEF Quiet, vars, NoMoney, Unpaid
  <1>11. ASSUME UNCHANGED rvars
         PROVE  Goal
    BY <1>11 DEF rvars, books, vars, NoMoney, Unpaid
  <1> HIDE DEF Goal
  <1>12. ASSUME NEW s \in Sales,
                \/ \E t \in Tenders : RingUp(s, t)
                \/ Delete(s) \/ Update(s) \/ Restate(s)
                \/ WindowCloses(s) /\ Beside
         PROVE  Goal
    BY <1>1, <1>5, <1>6, <1>12 DEF Update, Restate, Reprice
  <1>13. ASSUME NEW w \in Workers, NEW s \in Sales,
                \/ \E t \in Tenders : BeginPay(w, s, t) /\ Begun /\ (mix = "cache" => t >= Total)
                \/ VoidSales(w, s) /\ Begun
                \/ ReturnSales(w, s) /\ BegunElse
                \/ RefundSales(w, s) /\ BegunElse
                \/ BeginCollect(w, s) /\ BegunElse
                \/ Settle(w, s) \/ Reverse(w, s) \/ Collect(w, s)
         PROVE  Goal
    BY <1>2, <1>3, <1>7, <1>13
  <1>14. ASSUME NEW w \in Workers,
                \/ \E batch \in SUBSET Sales : BeginDeliver(w, batch) /\ BegunElse
                \/ Confirm(w)
                \/ Abort(w) /\ mix # "cache" /\ Beside
         PROVE  Goal
    BY <1>4, <1>8, <1>9, <1>14
  <1>15. ASSUME NEW e \in Expenses,
                \/ \E d \in Days : CreateExpense(e, d) \/ UpdateExpense(e, d)
                \/ RemoveExpense(e)
         PROVE  FALSE
    BY <1>15 DEF CreateExpense, UpdateExpense, RemoveExpense, Spend
  <1>16. ~ShelfMoves
    BY DEF ShelfMoves
  <1>17. Goal
    BY <1>10, <1>11, <1>12, <1>13, <1>14, <1>15, <1>16 DEF RNext, DeskStep
  <1> QED
    BY <1>17 DEF Goal

\* A sale that shows money paid was rung up.
LEMMA PaidIsRung ==
  ASSUME TypeOK, LedgerInv, NEW s \in Sales, sale[s].paid >= Total
  PROVE  Exists(s)
  <1>1. rows[s].tendered >= sale[s].paid /\ (sale[s].status = "Unrung" => rows[s].tendered = 0)
    BY DEF LedgerInv, CreditBackedByRows, UnrungUnpaid, TypeOK, SaleRow, RowSums
  <1> QED
    BY <1>1, TotalPositive DEF Exists, TypeOK, SaleRow

Named(s) ==
    Exists(s) => /\ rung[s] \in Sessions
                 /\ sale[s].status = "Completed" \/ sale[s].paid >= Total => doneIn[s] # NoSession

\* SessionsNamed is kept: whoever takes the last payment names a session.
LEMMA NamedStill ==
  ASSUME NEW x \in Sales, Named(x), rung' = rung, doneIn' = doneIn,
         sale'[x].status # "Unrung" => Exists(x), sale'[x].paid = sale[x].paid,
         sale'[x].status = "Completed" => sale[x].status = "Completed" \/ doneIn[x] # NoSession
  PROVE  Named(x)'
  BY DEF Named, Exists

LEMMA NamedNext ==
  ASSUME TypeOK, LedgerInv, BatchesRung, RowsStamped, NoneAsked, SessionsNamed,
         [RNext]_rvars, mix' = mix
  PROVE  SessionsNamed'
  <1> SUFFICES ASSUME mix = "sessions"
               PROVE  /\ rung' \in [Sales -> Sessions \cup {NoSession}]
                      /\ doneIn' \in [Sales -> Sessions \cup {NoSession}]
                      /\ \A s \in Sales : Named(s)'
                      /\ \A w \in Workers, s \in Sales :
                            tx'[w].seen[s].paid >= Total => doneIn'[s] # NoSession
    BY DEF SessionsNamed, Named, Exists
  <1>1. /\ rung \in [Sales -> Sessions \cup {NoSession}]
        /\ doneIn \in [Sales -> Sessions \cup {NoSession}]
        /\ \A s \in Sales : Named(s)
        /\ \A w \in Workers, s \in Sales : tx[w].seen[s].paid >= Total => doneIn[s] # NoSession
    BY DEF SessionsNamed, Named
  <1>2. ASSUME NEW s \in Sales, sale[s].paid >= Total
        PROVE  doneIn[s] # NoSession
    BY <1>1, <1>2, PaidIsRung DEF Named
  <1> DEFINE Goal == /\ rung' \in [Sales -> Sessions \cup {NoSession}]
                     /\ doneIn' \in [Sales -> Sessions \cup {NoSession}]
                     /\ \A s \in Sales : Named(s)'
                     /\ \A w \in Workers, s \in Sales :
                           tx'[w].seen[s].paid >= Total => doneIn'[s] # NoSession
             SeenKept == \A v \in Workers, x \in Sales :
                           tx'[v] = tx[v] \/ tx'[v].seen[x] \in {sale[x], Blank}
  <1>3. ASSUME SeenKept, \A x \in Sales : doneIn[x] # NoSession => doneIn'[x] # NoSession
        PROVE  \A w \in Workers, s \in Sales :
                 tx'[w].seen[s].paid >= Total => doneIn'[s] # NoSession
    <2> SUFFICES ASSUME NEW w \in Workers, NEW s \in Sales, tx'[w].seen[s].paid >= Total
                 PROVE  doneIn[s] # NoSession
      BY <1>3
    <2>1. CASE tx'[w] = tx[w]
      BY <1>1, <2>1
    <2>2. CASE tx'[w].seen[s] = sale[s]
      BY <1>2, <2>2
    <2>3. tx'[w].seen[s] # Blank
      BY TotalPositive DEF Blank
    <2> QED
      BY <1>3, <2>1, <2>2, <2>3
  <1>4. ASSUME NEW s \in Sales, NEW k \in Sessions, NEW t \in Tenders, Rung(s, k, t)
        PROVE  Goal
    <2>1. /\ rung' = [rung EXCEPT ![s] = k]
          /\ doneIn' = [doneIn EXCEPT ![s] = IF t >= Total THEN k ELSE doneIn[s]]
          /\ Checkout(s, t)
      BY <1>4 DEF Rung
    <2>2. /\ sale'[s].status = StatusOnPaid(t) /\ sale'[s].paid = t /\ tx' = tx
          /\ \A x \in Sales \ {s} : sale'[x] = sale[x]
      BY <2>1, CheckoutEffect
    <2>3. k # NoSession
      BY ReportsAssumption
    <2>4. \A x \in Sales : doneIn[x] # NoSession => doneIn'[x] # NoSession
      BY <1>1, <2>1, <2>3
    <2>5. Named(s)'
      BY <1>1, <2>1, <2>2, <2>3 DEF Named, StatusOnPaid
    <2>6. \A x \in Sales \ {s} : Named(x)'
      BY <1>1, <2>1, <2>2 DEF Named, Exists
    <2>7. SeenKept
      BY <2>2
    <2> QED
      BY <1>1, <1>3, <2>1, <2>4, <2>5, <2>6, <2>7
  <1>5. ASSUME NEW w \in Workers, NEW s \in Sales, NEW k \in Sessions, Paid(w, s, k)
        PROVE  Goal
    <2>1. /\ doneIn' = [doneIn EXCEPT ![s] = IF tx[w].seen[s].paid + tx[w].tender >= Total
                                               THEN k ELSE doneIn[s]]
          /\ rung' = rung /\ CommitPay(w, s)
      BY <1>5 DEF Paid
    <2>2. /\ sale'[s].paid = tx[w].seen[s].paid + tx[w].tender
          /\ sale'[s].status = StatusOnPaid(sale'[s].paid) /\ s \in tx[w].batch /\ Finish(w)
          /\ \A x \in Sales \ {s} : sale'[x] = sale[x]
      BY <2>1, CommitPayEffect
    <2>3. k # NoSession
      BY ReportsAssumption
    <2>4. \A x \in Sales : doneIn[x] # NoSession => doneIn'[x] # NoSession
      BY <1>1, <2>1, <2>3
    <2>5. rung[s] \in Sessions
      BY <1>1, <2>2 DEF BatchesRung, Named
    <2>6. Named(s)'
      BY <1>1, <2>1, <2>2, <2>3, <2>5 DEF Named, StatusOnPaid
    <2>7. \A x \in Sales \ {s} : Named(x)'
      BY <1>1, <2>1, <2>2 DEF Named, Exists
    <2>8. SeenKept
      BY <2>2, FinishSnapshots
    <2> QED
      BY <1>1, <1>3, <2>1, <2>4, <2>6, <2>7, <2>8
  <1>6. ASSUME UNCHANGED <<rung, doneIn>>, SeenKept,
               \A x \in Sales : /\ sale'[x].status # "Unrung" => Exists(x)
                                /\ sale'[x].paid = sale[x].paid
                                /\ sale'[x].status = "Completed" =>
                                      sale[x].status = "Completed" \/ doneIn[x] # NoSession
        PROVE  Goal
    <2>1. ASSUME NEW x \in Sales
          PROVE  Named(x)'
      <3>1. /\ sale'[x].status # "Unrung" => Exists(x)
            /\ sale'[x].paid = sale[x].paid
            /\ sale'[x].status = "Completed" =>
                  sale[x].status = "Completed" \/ doneIn[x] # NoSession
        BY <1>6
      <3>2. rung' = rung /\ doneIn' = doneIn /\ Named(x)
        BY <1>1, <1>6
      <3> QED
        BY <3>1, <3>2, NamedStill
    <2> QED
      BY <1>1, <1>3, <1>6, <2>1
  <1>7. ASSUME UNCHANGED <<rung, doneIn>>, NEW w \in Workers, NEW s \in Sales, CommitReverse(w, s)
        PROVE  Goal
    <2>1. /\ sale[s].status = "Completed" /\ sale'[s].status \in Reversals
          /\ sale'[s].paid = sale[s].paid /\ \A x \in Sales \ {s} : sale'[x] = sale[x]
      BY <1>7, CommitReverseEffect
    <2>2. SeenKept
      BY <1>7, CommitReverseEffect, FinishSnapshots
    <2> QED
      BY <1>6, <1>7, <2>1, <2>2 DEF Exists
  <1>8. ASSUME UNCHANGED <<rung, doneIn>>, NEW w \in Workers, NEW s \in Sales, CommitCollect(w, s)
        PROVE  Goal
    <2>1. /\ s \in tx[w].batch /\ sale'[s].status \in {sale[s].status, "Completed"}
          /\ sale'[s].paid = sale[s].paid /\ \A x \in Sales \ {s} : sale'[x] = sale[x]
      BY <1>8, CommitCollectEffect
    <2>2. SeenKept
      BY <1>8, CommitCollectEffect, FinishSnapshots
    <2>3. Exists(s)
      BY <2>1 DEF BatchesRung
    <2>4. sale'[s].status = sale[s].status \/ tx[w].seen[s].paid >= Total
      BY <1>8 DEF CommitCollect, TypeOK, SaleRow
    <2> QED
      BY <1>1, <1>6, <1>8, <2>1, <2>2, <2>3, <2>4 DEF Exists
  <1>9. ASSUME UNCHANGED <<rung, doneIn>>, NEW w \in Workers, CommitDeliver(w)
        PROVE  Goal
    <2>1. \A x \in Sales : /\ sale'[x].status \in {sale[x].status, "Delivered"}
                           /\ sale'[x].paid = sale[x].paid
                           /\ sale[x].status = "Unrung" =>
                                 sale'[x].status = "Unrung" \/ x \in tx[w].batch
      BY <1>9, CommitDeliverEffect
    <2>2. SeenKept
      BY <1>9, CommitDeliverEffect, FinishSnapshots
    <2>3. ASSUME NEW x \in Sales
          PROVE  /\ sale'[x].status # "Unrung" => Exists(x)
                 /\ sale'[x].status = "Completed" => sale[x].status = "Completed"
      <3>1. /\ sale'[x].status \in {sale[x].status, "Delivered"}
            /\ sale[x].status = "Unrung" => sale'[x].status = "Unrung" \/ x \in tx[w].batch
        BY <2>1
      <3>2. x \in tx[w].batch => sale[x].status # "Unrung"
        BY DEF BatchesRung, Exists
      <3> QED
        BY <3>1, <3>2 DEF Exists
    <2> QED
      BY <1>6, <1>9, <2>1, <2>2, <2>3
  <1>10. ASSUME UNCHANGED <<rung, doneIn>>, SeenKept,
                \A x \in Sales : sale'[x].status = sale[x].status /\ sale'[x].paid = sale[x].paid
         PROVE  Goal
    BY <1>6, <1>10 DEF Exists
  <1>11. ASSUME Unpaid
         PROVE  Goal
    <2> HIDE DEF Goal
    <2> QED
      BY <1>7, <1>8, <1>9, <1>10, <1>11 DEF Unpaid, NoMoney
  <1> HIDE DEF Goal
  <1>12. Goal
    BY <1>4, <1>5, <1>11, SessionSteps
  <1> QED
    BY <1>12 DEF Goal

\* Payments of a sale stay numbered as they are added.
LEMMA NumberedWith ==
  ASSUME RowsStamped, mix = "sessions", mix' = mix, SlipsNumbered, NEW s \in Sales,
         NEW day \in Days, NEW k \in Sessions, slips' = slips \cup {Slip(s, day, k, 0)}
  PROVE  SlipsNumbered'
  <1> DEFINE new == Slip(s, day, k, 0)
  <1>1. PICK c : c = Cardinality(SlipsOf(s))
    OBVIOUS
  <1>2. SlipsOf(s) \in SUBSET slips /\ IsFiniteSet(SlipsOf(s)) /\ c \in Nat
    <2>1. SlipsOf(s) \in SUBSET slips
      BY DEF SlipsOf
    <2> QED
      BY <1>1, <2>1, FS_Subset, FS_CardinalityType DEF RowsStamped
  <1>3. new.sale = s /\ new.no = c + 1 /\ new.till = k
    BY <1>1 DEF Slip
  <1>4. \A p \in slips : p.sale = s => p.no \in 1 .. c
    BY <1>1 DEF SlipsNumbered
  <1>5. new \notin SlipsOf(s)
    BY <1>2, <1>3, <1>4 DEF SlipsOf
  <1> HIDE DEF new
  <1>6. slips' = slips \cup {new}
    BY DEF new
  <1>7. SlipsOf(s)' = SlipsOf(s) \cup {new}
    BY <1>3, <1>6 DEF SlipsOf
  <1>8. Cardinality(SlipsOf(s)') = c + 1
    BY <1>1, <1>2, <1>5, <1>7, FS_AddElement
  <1>9. \A x \in Sales \ {s} : SlipsOf(x)' = SlipsOf(x)
    BY <1>3, <1>6 DEF SlipsOf
  <1>10. ASSUME NEW p \in slips'
         PROVE  p.till \in Sessions /\ p.no \in 1 .. Cardinality(SlipsOf(p.sale)')
    <2>1. CASE p = new
      BY <1>2, <1>3, <1>8, <2>1
    <2>2. CASE p \in slips /\ p.sale = s
      BY <1>2, <1>4, <1>8, <2>2 DEF SlipsNumbered
    <2>3. CASE p \in slips /\ p.sale # s
      <3>1. p.sale \in Sales
        BY <2>3 DEF RowsStamped, SlipRow
      <3>2. SlipsOf(p.sale)' = SlipsOf(p.sale)
        BY <1>9, <2>3, <3>1
      <3> QED
        BY <2>3, <3>2 DEF SlipsNumbered
    <2> QED
      BY <1>6, <2>1, <2>2, <2>3
  <1>11. \A p, q \in slips' : p.sale = q.sale /\ p.no = q.no => p = q
    <2>1. \A p, q \in slips : p.sale = q.sale /\ p.no = q.no => p = q
      BY DEF SlipsNumbered
    <2>2. \A p \in slips : p.sale = s => p.no # c + 1
      BY <1>2, <1>4
    <2> QED
      BY <1>3, <1>6, <2>1, <2>2
  <1>12. \A p \in slips' : Cardinality(SlipsOf(p.sale)') = Cardinality(SlipsOf(p.sale))'
    OBVIOUS
  <1> QED
    BY <1>10, <1>11 DEF SlipsNumbered

LEMMA NumberedNext ==
  ASSUME TypeOK, RowsStamped, NoneAsked, SlipsNumbered, [RNext]_rvars, mix' = mix
  PROVE  SlipsNumbered'
  <1>1. CASE slips' = slips
    BY <1>1 DEF SlipsNumbered, SlipsOf
  <1>2. CASE mix # "sessions"
    BY <1>2 DEF SlipsNumbered
  <1>3. ASSUME mix = "sessions", slips' # slips
        PROVE  \E s \in Sales, day \in Days, k \in Sessions : slips' = slips \cup {Slip(s, day, k, 0)}
    <2>1. PayDay \in Days /\ \A s \in Sales : DayOf[s] \in Days
      BY ReportsAssumption
    <2> QED
      BY <1>3, <2>1, SessionSteps DEF Rung, Paid, Unpaid
  <1> QED
    BY <1>1, <1>2, <1>3, NumberedWith

(***************************************************************************)
(* The reports of the sessions add up to the outlet's                      *)
(***************************************************************************)
\* The sessions' figures F are the parts of `whole`, and no row is in two.
Splits(whole, F) ==
    /\ whole = UNION {F[k] : k \in Sessions}
    /\ \A k, l \in Sessions : k # l => F[k] \cap F[l] = {}

Having(S, T) == {s \in S : sale[s].status \in T}

\* The figures of sales split as the sales do.
LEMMA LinesSplit ==
  ASSUME NEW S, NEW F, NEW T, NEW G, \A k \in Sessions : G[k] = Lines(F[k], T),
         Having(S, T) = UNION {Having(F[k], T) : k \in Sessions},
         \A k, l \in Sessions : k # l => Having(F[k], T) \cap Having(F[l], T) = {}
  PROVE  Splits(Lines(S, T), G)
  <1>1. \A A : Lines(A, T) = {Line(s) : s \in Having(A, T)}
    BY DEF Lines, Having
  <1>2. \A k \in Sessions : G[k] = {Line(s) : s \in Having(F[k], T)}
    BY <1>1
  <1>3. Lines(S, T) = {Line(s) : s \in Having(S, T)}
    BY <1>1
  <1>4. \A s, x : Line(s) = Line(x) => s = x
    BY DEF Line
  <1>5. Lines(S, T) = UNION {G[k] : k \in Sessions}
    <2>1. ASSUME NEW r \in Lines(S, T)
          PROVE  r \in UNION {G[k] : k \in Sessions}
      <3>1. PICK s \in Having(S, T) : r = Line(s)
        BY <1>3, <2>1
      <3>2. PICK k \in Sessions : s \in Having(F[k], T)
        BY <3>1
      <3> QED
        BY <1>2, <3>1, <3>2
    <2>2. ASSUME NEW k \in Sessions, NEW r \in G[k]
          PROVE  r \in Lines(S, T)
      <3>1. PICK s \in Having(F[k], T) : r = Line(s)
        BY <1>2, <2>2
      <3>2. s \in Having(S, T)
        BY <3>1
      <3> QED
        BY <1>3, <3>1, <3>2
    <2> QED
      BY <2>1, <2>2
  <1>6. \A k, l \in Sessions : k # l => G[k] \cap G[l] = {}
    <2> SUFFICES ASSUME NEW k \in Sessions, NEW l \in Sessions, k # l, NEW r \in G[k], r \in G[l]
                 PROVE  FALSE
      OBVIOUS
    <2>1. PICK s \in Having(F[k], T) : r = Line(s)
      BY <1>2
    <2>2. PICK x \in Having(F[l], T) : r = Line(x)
      BY <1>2
    <2> QED
      BY <1>4, <2>1, <2>2
  <1> QED
    BY <1>5, <1>6 DEF Splits

\* The sales of the outlet, by the session each was rung up in.
LEMMA LinesByRung ==
  ASSUME mix = "sessions", SessionsNamed, NEW X, NEW T
  PROVE  Splits(Lines(OfDays(Days) \cap X, T), [k \in Sessions |-> Lines(RungIn(k) \cap X, T)])
  <1> DEFINE F == [k \in Sessions |-> RungIn(k) \cap X]
             G == [k \in Sessions |-> Lines(RungIn(k) \cap X, T)]
  <1>1. OfDays(Days) = {s \in Sales : Exists(s)}
    BY ReportsAssumption DEF OfDays
  <1>2. Having(OfDays(Days) \cap X, T) = UNION {Having(F[k], T) : k \in Sessions}
    BY <1>1 DEF SessionsNamed, RungIn, Having
  <1>3. \A k, l \in Sessions : k # l => Having(F[k], T) \cap Having(F[l], T) = {}
    BY DEF RungIn, Having
  <1>4. \A k \in Sessions : G[k] = Lines(F[k], T)
    OBVIOUS
  <1> HIDE DEF F, G
  <1>5. Splits(Lines(OfDays(Days) \cap X, T), G)
    BY <1>2, <1>3, <1>4, LinesSplit
  <1> QED
    BY <1>5 DEF G

\* Those that are completed, by the session each was completed in.
LEMMA LinesByDone ==
  ASSUME mix = "sessions", SessionsNamed, NEW X
  PROVE  Splits(Lines(OfDays(Days) \cap X, {"Completed"}),
                [k \in Sessions |-> Lines(DoneIn(k) \cap X, {"Completed"})])
  <1> DEFINE F == [k \in Sessions |-> DoneIn(k) \cap X]
             T == {"Completed"}
             G == [k \in Sessions |-> Lines(DoneIn(k) \cap X, {"Completed"})]
  <1>1. OfDays(Days) = {s \in Sales : Exists(s)}
    BY ReportsAssumption DEF OfDays
  <1>2. \A s \in Sales : Exists(s) /\ sale[s].status = "Completed" => doneIn[s] \in Sessions
    BY DEF SessionsNamed
  <1>3. Having(OfDays(Days) \cap X, T) = UNION {Having(F[k], T) : k \in Sessions}
    BY <1>1, <1>2 DEF DoneIn, Having
  <1>4. \A k, l \in Sessions : k # l => Having(F[k], T) \cap Having(F[l], T) = {}
    BY DEF DoneIn, Having
  <1>5. \A k \in Sessions : G[k] = Lines(F[k], T)
    OBVIOUS
  <1> HIDE DEF F, G, T
  <1>6. Splits(Lines(OfDays(Days) \cap X, T), G)
    BY <1>3, <1>4, <1>5, LinesSplit
  <1> QED
    BY <1>6 DEF G, T

\* Payments split by the session that took them.
LEMMA TakingsSplit ==
  ASSUME mix = "sessions", RowsStamped, SlipsNumbered
  PROVE  Splits(OutletTakings(Days).paid, [k \in Sessions |-> SessionTakings(k).paid])
  <1>1. /\ OutletTakings(Days).paid = Counted(slips)
        /\ \A k : SessionTakings(k).paid = Counted({p \in slips : p.till = k})
    <2>1. {p \in slips : p.day \in Days} = slips
      BY DEF RowsStamped, SlipRow
    <2> QED
      BY <2>1 DEF OutletTakings, SessionTakings
  <1>2. \A p \in slips : p.till \in Sessions
    BY DEF SlipsNumbered
  <1>3. Counted(slips) = UNION {Counted({p \in slips : p.till = k}) : k \in Sessions}
    BY <1>2 DEF Counted
  <1>4. ASSUME NEW k \in Sessions, NEW l \in Sessions, k # l
        PROVE  Counted({p \in slips : p.till = k}) \cap Counted({p \in slips : p.till = l}) = {}
    BY <1>4 DEF Counted, SlipsNumbered
  <1> DEFINE G == [k \in Sessions |-> SessionTakings(k).paid]
  <1>5. \A k \in Sessions : G[k] = Counted({p \in slips : p.till = k})
    BY <1>1
  <1> HIDE DEF G
  <1>6. Splits(Counted(slips), G)
    <2>1. {G[k] : k \in Sessions} = {Counted({p \in slips : p.till = k}) : k \in Sessions}
      BY <1>5
    <2>2. Counted(slips) = UNION {G[k] : k \in Sessions}
      BY <1>3, <2>1
    <2>3. \A k, l \in Sessions : k # l => G[k] \cap G[l] = {}
      BY <1>4, <1>5
    <2> QED
      BY <2>2, <2>3 DEF Splits
  <1> QED
    BY <1>1, <1>6 DEF G

\* Figures that are the same split the same.
LEMMA SplitsAs ==
  ASSUME NEW whole, NEW F, NEW G, Splits(whole, F), \A k \in Sessions : G[k] = F[k]
  PROVE  Splits(whole, G)
  <1>1. {G[k] : k \in Sessions} = {F[k] : k \in Sessions}
    OBVIOUS
  <1> QED
    BY <1>1 DEF Splits

\* The sales of the outlet that were not removed, split likewise.
LEMMA LiveSplits ==
  ASSUME mix = "sessions", SessionsNamed
  PROVE  /\ \A T : Splits(Lines(Live(OfDays(Days)), T),
                          [k \in Sessions |-> Lines(Live(RungIn(k)), T)])
         /\ Splits(Lines(Live(OfDays(Days)), {"Completed"}),
                   [k \in Sessions |-> Lines(Live(DoneIn(k)), {"Completed"})])
         /\ \A T : Splits(Lines(Live(OfDays(Days)) \cap Laundry, T),
                          [k \in Sessions |-> Lines(Live(RungIn(k)) \cap Laundry, T)])
         /\ \A T : Splits(Lines(OfDays(Days), T), [k \in Sessions |-> Lines(RungIn(k), T)])
         /\ Splits(Lines(OfDays(Days), {"Completed"}),
                   [k \in Sessions |-> Lines(DoneIn(k), {"Completed"})])
  <1> DEFINE Kept == {s \in Sales : ~sale[s].deleted}
             Kind == Kept \cap Laundry
  <1>1. /\ Live(OfDays(Days)) = OfDays(Days) \cap Kept
        /\ \A k : Live(RungIn(k)) = RungIn(k) \cap Kept
        /\ \A k : Live(DoneIn(k)) = DoneIn(k) \cap Kept
    BY DEF Live, OfDays, RungIn, DoneIn
  <1>2. /\ Live(OfDays(Days)) \cap Laundry = OfDays(Days) \cap Kind
        /\ \A k : Live(RungIn(k)) \cap Laundry = RungIn(k) \cap Kind
    BY <1>1
  <1>3. /\ OfDays(Days) = OfDays(Days) \cap Sales
        /\ \A k : RungIn(k) = RungIn(k) \cap Sales
        /\ \A k : DoneIn(k) = DoneIn(k) \cap Sales
    BY DEF OfDays, RungIn, DoneIn
  <1> HIDE DEF Kept, Kind
  <1>4. ASSUME NEW T
        PROVE  Splits(Lines(Live(OfDays(Days)), T), [k \in Sessions |-> Lines(Live(RungIn(k)), T)])
    <2>1. Splits(Lines(OfDays(Days) \cap Kept, T), [k \in Sessions |-> Lines(RungIn(k) \cap Kept, T)])
      BY LinesByRung
    <2> QED
      BY <1>1, <2>1
  <1>5. Splits(Lines(Live(OfDays(Days)), {"Completed"}),
               [k \in Sessions |-> Lines(Live(DoneIn(k)), {"Completed"})])
    <2>1. Splits(Lines(OfDays(Days) \cap Kept, {"Completed"}),
                 [k \in Sessions |-> Lines(DoneIn(k) \cap Kept, {"Completed"})])
      BY LinesByDone
    <2> QED
      BY <1>1, <2>1
  <1>6. ASSUME NEW T
        PROVE  Splits(Lines(Live(OfDays(Days)) \cap Laundry, T),
                      [k \in Sessions |-> Lines(Live(RungIn(k)) \cap Laundry, T)])
    <2>1. Splits(Lines(OfDays(Days) \cap Kind, T), [k \in Sessions |-> Lines(RungIn(k) \cap Kind, T)])
      BY LinesByRung
    <2> QED
      BY <1>2, <2>1
  <1>7. ASSUME NEW T
        PROVE  Splits(Lines(OfDays(Days), T), [k \in Sessions |-> Lines(RungIn(k), T)])
    <2>1. Splits(Lines(OfDays(Days) \cap Sales, T),
                 [k \in Sessions |-> Lines(RungIn(k) \cap Sales, T)])
      BY LinesByRung
    <2> QED
      BY <1>3, <2>1
  <1>8. Splits(Lines(OfDays(Days), {"Completed"}),
               [k \in Sessions |-> Lines(DoneIn(k), {"Completed"})])
    <2>1. Splits(Lines(OfDays(Days) \cap Sales, {"Completed"}),
                 [k \in Sessions |-> Lines(DoneIn(k) \cap Sales, {"Completed"})])
      BY LinesByDone
    <2> QED
      BY <1>3, <2>1
  <1> QED
    BY <1>4, <1>5, <1>6, <1>7, <1>8

\* What is said of figures that split, field by field, adds up.
LEMMA AddsUpIs ==
  ASSUME NEW R, NEW G,
         \A x \in DOMAIN R : \A f \in DOMAIN R[x] : Splits(R[x][f], [k \in Sessions |-> G[k][x][f]])
  PROVE  AddsUp(R, {[till |-> k, says |-> G[k]] : k \in Sessions})
  <1> DEFINE Q == {[till |-> k, says |-> G[k]] : k \in Sessions}
  <1> SUFFICES ASSUME NEW x \in DOMAIN R, NEW f \in DOMAIN R[x]
               PROVE  /\ R[x][f] = UNION {q.says[x][f] : q \in Q}
                      /\ \A q, p \in Q : q.till # p.till => q.says[x][f] \cap p.says[x][f] = {}
    BY DEF AddsUp
  <1> DEFINE F == [k \in Sessions |-> G[k][x][f]]
  <1>1. Splits(R[x][f], F)
    OBVIOUS
  <1>2. \A k \in Sessions : F[k] = G[k][x][f]
    OBVIOUS
  <1>3. /\ \A k \in Sessions : \E q \in Q : q.till = k /\ q.says[x][f] = G[k][x][f]
        /\ \A q \in Q : q.till \in Sessions /\ q.says[x][f] = G[q.till][x][f]
    <2>1. ASSUME NEW k \in Sessions
          PROVE  \E q \in Q : q.till = k /\ q.says[x][f] = G[k][x][f]
      <3>1. [till |-> k, says |-> G[k]] \in Q
        OBVIOUS
      <3> QED
        BY <3>1
    <2>2. ASSUME NEW q \in Q
          PROVE  q.till \in Sessions /\ q.says[x][f] = G[q.till][x][f]
      <3>1. PICK k \in Sessions : q = [till |-> k, says |-> G[k]]
        OBVIOUS
      <3>2. q.till = k /\ q.says = G[k]
        BY <3>1
      <3> QED
        BY <3>2
    <2> QED
      BY <2>1, <2>2
  <1> HIDE DEF F, Q
  <1>4. \A q \in Q : q.till \in Sessions /\ q.says[x][f] = F[q.till]
    BY <1>2, <1>3
  <1>5. {q.says[x][f] : q \in Q} = {F[k] : k \in Sessions}
    BY <1>2, <1>3
  <1>6. R[x][f] = UNION {q.says[x][f] : q \in Q}
    BY <1>1, <1>5 DEF Splits
  <1>7. \A q, p \in Q : q.till # p.till => q.says[x][f] \cap p.says[x][f] = {}
    BY <1>1, <1>4 DEF Splits
  <1> QED
    BY <1>6, <1>7

\* What was completed in the session, or rung up in it, among its list.
LEMMA ListIs ==
  ASSUME NEW k
  PROVE  /\ SessionList(k) \cap RungIn(k) = Live(RungIn(k))
         /\ SessionList(k) \cap DoneIn(k) = Live(DoneIn(k))
  BY DEF SessionList, Live, RungIn, DoneIn

\* Field by field the outlet's figures are split over the sessions'.
LEMMA FiguresSplit ==
  ASSUME mix = "sessions", SessionsNamed
  PROVE  /\ \A f \in DOMAIN OutletTotals(Days) :
               Splits(OutletTotals(Days)[f], [k \in Sessions |-> SessionTotals(k)[f]])
         /\ \A f \in DOMAIN OutletRanked(Days) :
               Splits(OutletRanked(Days)[f], [k \in Sessions |-> SessionRanked(k)[f]])
         /\ \A f \in DOMAIN OutletDetails(Days) :
               Splits(OutletDetails(Days)[f], [k \in Sessions |-> SessionDetails(k)[f]])
         /\ \A f \in DOMAIN OutletProfits(Days) :
               Splits(OutletProfits(Days)[f], [k \in Sessions |-> SessionProfits(k)[f]])
         /\ \A f \in DOMAIN OutletLaundry(Days) :
               Splits(OutletLaundry(Days)[f], [k \in Sessions |-> ShiftLoads(k)[f]])
  <1> DEFINE L == Live(OfDays(Days))
  <1>1. ASSUME NEW T, NEW G, \A k \in Sessions : G[k] = Lines(Live(RungIn(k)), T)
        PROVE  Splits(Lines(L, T), G)
    <2>1. Splits(Lines(L, T), [k \in Sessions |-> Lines(Live(RungIn(k)), T)])
      BY LiveSplits
    <2> QED
      BY <1>1, <2>1, SplitsAs
  <1>2. ASSUME NEW G, \A k \in Sessions : G[k] = Lines(Live(DoneIn(k)), {"Completed"})
        PROVE  Splits(Lines(L, {"Completed"}), G)
    <2>1. Splits(Lines(L, {"Completed"}), [k \in Sessions |-> Lines(Live(DoneIn(k)), {"Completed"})])
      BY LiveSplits
    <2> QED
      BY <1>2, <2>1, SplitsAs
  <1>3. ASSUME NEW T, NEW G, \A k \in Sessions : G[k] = Lines(Live(RungIn(k)) \cap Laundry, T)
        PROVE  Splits(Lines(L \cap Laundry, T), G)
    <2>1. Splits(Lines(L \cap Laundry, T), [k \in Sessions |-> Lines(Live(RungIn(k)) \cap Laundry, T)])
      BY LiveSplits
    <2> QED
      BY <1>3, <2>1, SplitsAs
  <1>4. ASSUME NEW T, NEW G, \A k \in Sessions : G[k] = Lines(RungIn(k), T)
        PROVE  Splits(Lines(OfDays(Days), T), G)
    <2>1. Splits(Lines(OfDays(Days), T), [k \in Sessions |-> Lines(RungIn(k), T)])
      BY LiveSplits
    <2> QED
      BY <1>4, <2>1, SplitsAs
  <1>5. ASSUME NEW G, \A k \in Sessions : G[k] = Lines(DoneIn(k), {"Completed"})
        PROVE  Splits(Lines(OfDays(Days), {"Completed"}), G)
    <2>1. Splits(Lines(OfDays(Days), {"Completed"}), [k \in Sessions |-> Lines(DoneIn(k), {"Completed"})])
      BY LiveSplits
    <2> QED
      BY <1>5, <2>1, SplitsAs
  <1> HIDE DEF L
  <1>6. ASSUME NEW f \in DOMAIN OutletTotals(Days)
        PROVE  Splits(OutletTotals(Days)[f], [k \in Sessions |-> SessionTotals(k)[f]])
    <2> DEFINE G == [k \in Sessions |-> SessionTotals(k)[f]]
    <2>1. \A k \in Sessions : G[k] = SessionTotals(k)[f]
      OBVIOUS
    <2> HIDE DEF G
    <2>2. f \in {"completed", "partly", "delivered", "returned", "refunded", "voided"}
      BY <1>6 DEF OutletTotals, SessionTotals, Totals
    <2>3. /\ OutletTotals(Days).completed = Lines(L, {"Completed"})
          /\ OutletTotals(Days).partly = Lines(L, {"Partially Paid"})
          /\ OutletTotals(Days).delivered = Lines(L, {"Delivered"})
          /\ OutletTotals(Days).returned = Lines(L, {"Returned"})
          /\ OutletTotals(Days).refunded = Lines(L, {"Refunded"})
          /\ OutletTotals(Days).voided = Lines(OfDays(Days), {"Voided"})
      BY DEF OutletTotals, SessionTotals, Totals, L
    <2>4. \A k : /\ SessionTotals(k).completed = Lines(Live(DoneIn(k)), {"Completed"})
                 /\ SessionTotals(k).partly = Lines(Live(RungIn(k)), {"Partially Paid"})
                 /\ SessionTotals(k).delivered = Lines(Live(RungIn(k)), {"Delivered"})
                 /\ SessionTotals(k).returned = Lines(Live(RungIn(k)), {"Returned"})
                 /\ SessionTotals(k).refunded = Lines(Live(RungIn(k)), {"Refunded"})
                 /\ SessionTotals(k).voided = Lines(RungIn(k), {"Voided"})
      BY ListIs DEF OutletTotals, SessionTotals, Totals
    <2>5. CASE f = "completed"
      <3>1. OutletTotals(Days)[f] = Lines(L, {"Completed"})
        BY <2>3, <2>5
      <3>2. \A k \in Sessions : G[k] = Lines(Live(DoneIn(k)), {"Completed"})
        BY <2>1, <2>4, <2>5
      <3>3. Splits(OutletTotals(Days)[f], G)
        BY <1>2, <3>1, <3>2
      <3> QED
        BY <3>3 DEF G
    <2>6. CASE f = "partly"
      <3>1. OutletTotals(Days)[f] = Lines(L, {"Partially Paid"})
        BY <2>3, <2>6
      <3>2. \A k \in Sessions : G[k] = Lines(Live(RungIn(k)), {"Partially Paid"})
        BY <2>1, <2>4, <2>6
      <3>3. Splits(OutletTotals(Days)[f], G)
        BY <1>1, <3>1, <3>2
      <3> QED
        BY <3>3 DEF G
    <2>7. CASE f = "delivered"
      <3>1. OutletTotals(Days)[f] = Lines(L, {"Delivered"})
        BY <2>3, <2>7
      <3>2. \A k \in Sessions : G[k] = Lines(Live(RungIn(k)), {"Delivered"})
        BY <2>1, <2>4, <2>7
      <3>3. Splits(OutletTotals(Days)[f], G)
        BY <1>1, <3>1, <3>2
      <3> QED
        BY <3>3 DEF G
    <2>8. CASE f = "returned"
      <3>1. OutletTotals(Days)[f] = Lines(L, {"Returned"})
        BY <2>3, <2>8
      <3>2. \A k \in Sessions : G[k] = Lines(Live(RungIn(k)), {"Returned"})
        BY <2>1, <2>4, <2>8
      <3>3. Splits(OutletTotals(Days)[f], G)
        BY <1>1, <3>1, <3>2
      <3> QED
        BY <3>3 DEF G
    <2>9. CASE f = "refunded"
      <3>1. OutletTotals(Days)[f] = Lines(L, {"Refunded"})
        BY <2>3, <2>9
      <3>2. \A k \in Sessions : G[k] = Lines(Live(RungIn(k)), {"Refunded"})
        BY <2>1, <2>4, <2>9
      <3>3. Splits(OutletTotals(Days)[f], G)
        BY <1>1, <3>1, <3>2
      <3> QED
        BY <3>3 DEF G
    <2>10. CASE f = "voided"
      <3>1. OutletTotals(Days)[f] = Lines(OfDays(Days), {"Voided"})
        BY <2>3, <2>10
      <3>2. \A k \in Sessions : G[k] = Lines(RungIn(k), {"Voided"})
        BY <2>1, <2>4, <2>10
      <3>3. Splits(OutletTotals(Days)[f], G)
        BY <1>4, <3>1, <3>2
      <3> QED
        BY <3>3 DEF G
    <2> QED
      BY <2>2, <2>5, <2>6, <2>7, <2>8, <2>9, <2>10
  <1>7. ASSUME NEW f \in DOMAIN OutletRanked(Days)
        PROVE  Splits(OutletRanked(Days)[f], [k \in Sessions |-> SessionRanked(k)[f]])
    <2> DEFINE G == [k \in Sessions |-> SessionRanked(k)[f]]
    <2>1. \A k \in Sessions : G[k] = SessionRanked(k)[f]
      OBVIOUS
    <2> HIDE DEF G
    <2>2. f \in {"sold", "ranked"}
      BY <1>7 DEF OutletRanked, SessionRanked, Ranked
    <2>3. /\ OutletRanked(Days).sold = Lines(OfDays(Days), Taken)
          /\ OutletRanked(Days).ranked = Lines(OfDays(Days), {"Completed"})
      BY DEF OutletRanked, SessionRanked, Ranked
    <2>4. \A k : /\ SessionRanked(k).sold = Lines(RungIn(k), Taken)
                 /\ SessionRanked(k).ranked = Lines(DoneIn(k), {"Completed"})
      BY ListIs DEF OutletRanked, SessionRanked, Ranked
    <2>5. CASE f = "sold"
      <3>1. OutletRanked(Days)[f] = Lines(OfDays(Days), Taken)
        BY <2>3, <2>5
      <3>2. \A k \in Sessions : G[k] = Lines(RungIn(k), Taken)
        BY <2>1, <2>4, <2>5
      <3>3. Splits(OutletRanked(Days)[f], G)
        BY <1>4, <3>1, <3>2
      <3> QED
        BY <3>3 DEF G
    <2>6. CASE f = "ranked"
      <3>1. OutletRanked(Days)[f] = Lines(OfDays(Days), {"Completed"})
        BY <2>3, <2>6
      <3>2. \A k \in Sessions : G[k] = Lines(DoneIn(k), {"Completed"})
        BY <2>1, <2>4, <2>6
      <3>3. Splits(OutletRanked(Days)[f], G)
        BY <1>5, <3>1, <3>2
      <3> QED
        BY <3>3 DEF G
    <2> QED
      BY <2>2, <2>5, <2>6
  <1>8. ASSUME NEW f \in DOMAIN OutletDetails(Days)
        PROVE  Splits(OutletDetails(Days)[f], [k \in Sessions |-> SessionDetails(k)[f]])
    <2> DEFINE G == [k \in Sessions |-> SessionDetails(k)[f]]
    <2>1. \A k \in Sessions : G[k] = SessionDetails(k)[f]
      OBVIOUS
    <2> HIDE DEF G
    <2>2. /\ OutletDetails(Days)[f] = Lines(L, {f})
          /\ \A k \in Sessions : SessionDetails(k)[f] = Lines(Live(RungIn(k)), {f})
      BY <1>8 DEF OutletDetails, SessionDetails, Details, L
    <2>3. Splits(OutletDetails(Days)[f], G)
      BY <1>1, <2>1, <2>2
    <2> QED
      BY <2>3 DEF G
  <1>9. ASSUME NEW f \in DOMAIN OutletProfits(Days)
        PROVE  Splits(OutletProfits(Days)[f], [k \in Sessions |-> SessionProfits(k)[f]])
    <2> DEFINE G == [k \in Sessions |-> SessionProfits(k)[f]]
    <2>1. \A k \in Sessions : G[k] = SessionProfits(k)[f]
      OBVIOUS
    <2> HIDE DEF G
    <2>2. f \in {"completed", "partly", "delivered"}
      BY <1>9 DEF OutletProfits, OutletList, SessionProfits, Profits
    <2>3. /\ OutletProfits(Days).completed = Lines(L, {"Completed"})
          /\ OutletProfits(Days).partly = Lines(L, {"Partially Paid"})
          /\ OutletProfits(Days).delivered = Lines(L, {"Delivered"})
      BY DEF OutletProfits, OutletList, SessionProfits, Profits, L
    <2>4. \A k : /\ SessionProfits(k).completed = Lines(Live(DoneIn(k)), {"Completed"})
                 /\ SessionProfits(k).partly = Lines(Live(RungIn(k)), {"Partially Paid"})
                 /\ SessionProfits(k).delivered = Lines(Live(RungIn(k)), {"Delivered"})
      BY ListIs DEF OutletProfits, OutletList, SessionProfits, Profits
    <2>5. CASE f = "completed"
      <3>1. OutletProfits(Days)[f] = Lines(L, {"Completed"})
        BY <2>3, <2>5
      <3>2. \A k \in Sessions : G[k] = Lines(Live(DoneIn(k)), {"Completed"})
        BY <2>1, <2>4, <2>5
      <3>3. Splits(OutletProfits(Days)[f], G)
        BY <1>2, <3>1, <3>2
      <3> QED
        BY <3>3 DEF G
    <2>6. CASE f = "partly"
      <3>1. OutletProfits(Days)[f] = Lines(L, {"Partially Paid"})
        BY <2>3, <2>6
      <3>2. \A k \in Sessions : G[k] = Lines(Live(RungIn(k)), {"Partially Paid"})
        BY <2>1, <2>4, <2>6
      <3>3. Splits(OutletProfits(Days)[f], G)
        BY <1>1, <3>1, <3>2
      <3> QED
        BY <3>3 DEF G
    <2>7. CASE f = "delivered"
      <3>1. OutletProfits(Days)[f] = Lines(L, {"Delivered"})
        BY <2>3, <2>7
      <3>2. \A k \in Sessions : G[k] = Lines(Live(RungIn(k)), {"Delivered"})
        BY <2>1, <2>4, <2>7
      <3>3. Splits(OutletProfits(Days)[f], G)
        BY <1>1, <3>1, <3>2
      <3> QED
        BY <3>3 DEF G
    <2> QED
      BY <2>2, <2>5, <2>6, <2>7
  <1>10. ASSUME NEW f \in DOMAIN OutletLaundry(Days)
        PROVE  Splits(OutletLaundry(Days)[f], [k \in Sessions |-> ShiftLoads(k)[f]])
    <2> DEFINE G == [k \in Sessions |-> ShiftLoads(k)[f]]
    <2>1. \A k \in Sessions : G[k] = ShiftLoads(k)[f]
      OBVIOUS
    <2> HIDE DEF G
    <2>2. f \in {"loads", "services"}
      BY <1>10 DEF OutletLaundry, ShiftLoads, Loads, Services
    <2>3. /\ OutletLaundry(Days).loads = Lines(L \cap Laundry, Taken)
          /\ OutletLaundry(Days).services = Lines(L \cap Laundry, Active)
      BY DEF OutletLaundry, ShiftLoads, Loads, Services, L
    <2>4. \A k : /\ ShiftLoads(k).loads = Lines(Live(RungIn(k)) \cap Laundry, Taken)
                 /\ ShiftLoads(k).services = Lines(Live(RungIn(k)) \cap Laundry, Active)
      BY ListIs DEF OutletLaundry, ShiftLoads, Loads, Services
    <2>5. CASE f = "loads"
      <3>1. OutletLaundry(Days)[f] = Lines(L \cap Laundry, Taken)
        BY <2>3, <2>5
      <3>2. \A k \in Sessions : G[k] = Lines(Live(RungIn(k)) \cap Laundry, Taken)
        BY <2>1, <2>4, <2>5
      <3>3. Splits(OutletLaundry(Days)[f], G)
        BY <1>3, <3>1, <3>2
      <3> QED
        BY <3>3 DEF G
    <2>6. CASE f = "services"
      <3>1. OutletLaundry(Days)[f] = Lines(L \cap Laundry, Active)
        BY <2>3, <2>6
      <3>2. \A k \in Sessions : G[k] = Lines(Live(RungIn(k)) \cap Laundry, Active)
        BY <2>1, <2>4, <2>6
      <3>3. Splits(OutletLaundry(Days)[f], G)
        BY <1>3, <3>1, <3>2
      <3> QED
        BY <3>3 DEF G
    <2> QED
      BY <2>2, <2>5, <2>6
  <1> QED
    BY <1>6, <1>7, <1>8, <1>9, <1>10

\* Session reports add up to the outlet's.
LEMMA SessionReportsAddUp ==
  ASSUME mix = "sessions", SessionsNamed, RowsStamped, SlipsNumbered
  PROVE  AddsUp([totals |-> OutletTotals(Days), ranked |-> OutletRanked(Days),
                 takings |-> OutletTakings(Days), details |-> OutletDetails(Days),
                 profits |-> OutletProfits(Days)],
                {[till |-> k, says |-> SessionReport(k)] : k \in Sessions})
  <1> DEFINE R == [totals |-> OutletTotals(Days), ranked |-> OutletRanked(Days),
                   takings |-> OutletTakings(Days), details |-> OutletDetails(Days),
                   profits |-> OutletProfits(Days)]
             G == [k \in Sessions |-> SessionReport(k)]
  <1>1. /\ DOMAIN R = {"totals", "ranked", "takings", "details", "profits"}
        /\ R["totals"] = OutletTotals(Days) /\ R["ranked"] = OutletRanked(Days)
        /\ R["takings"] = OutletTakings(Days) /\ R["details"] = OutletDetails(Days)
        /\ R["profits"] = OutletProfits(Days)
    OBVIOUS
  <1>2. \A k \in Sessions :
          /\ G[k]["totals"] = SessionTotals(k) /\ G[k]["ranked"] = SessionRanked(k)
          /\ G[k]["takings"] = SessionTakings(k) /\ G[k]["details"] = SessionDetails(k)
          /\ G[k]["profits"] = SessionProfits(k)
    BY DEF SessionReport
  <1>3. {[till |-> k, says |-> SessionReport(k)] : k \in Sessions}
          = {[till |-> k, says |-> G[k]] : k \in Sessions}
    OBVIOUS
  <1> HIDE DEF R, G
  <1>4. ASSUME NEW x \in DOMAIN R, NEW f \in DOMAIN R[x]
        PROVE  Splits(R[x][f], [k \in Sessions |-> G[k][x][f]])
    <2>1. CASE x = "totals"
      BY <1>1, <1>2, <1>4, <2>1, FiguresSplit
    <2>2. CASE x = "ranked"
      BY <1>1, <1>2, <1>4, <2>2, FiguresSplit
    <2>3. CASE x = "details"
      BY <1>1, <1>2, <1>4, <2>3, FiguresSplit
    <2>4. CASE x = "profits"
      BY <1>1, <1>2, <1>4, <2>4, FiguresSplit
    <2>5. CASE x = "takings"
      <3>1. f = "paid"
        BY <1>1, <1>4, <2>5 DEF OutletTakings
      <3> QED
        BY <1>1, <1>2, <2>5, <3>1, TakingsSplit
    <2> QED
      BY <1>1, <2>1, <2>2, <2>3, <2>4, <2>5
  <1>5. AddsUp(R, {[till |-> k, says |-> G[k]] : k \in Sessions})
    BY <1>4, AddsUpIs
  <1> QED
    BY <1>3, <1>5 DEF R

\* So do those of the laundry shifts.
LEMMA LaundryReportsAddUp ==
  ASSUME mix = "sessions", SessionsNamed, RowsStamped, SlipsNumbered
  PROVE  AddsUp([totals  |-> [completed |-> OutletTotals(Days).completed],
                 takings |-> OutletTakings(Days), laundry |-> OutletLaundry(Days),
                 profits |-> [completed |-> OutletTotals(Days).completed]],
                {[till |-> k, says |-> LaundryReport(k)] : k \in Sessions})
  <1> DEFINE R == [totals  |-> [completed |-> OutletTotals(Days).completed],
                   takings |-> OutletTakings(Days), laundry |-> OutletLaundry(Days),
                   profits |-> [completed |-> OutletTotals(Days).completed]]
             G == [k \in Sessions |-> LaundryReport(k)]
  <1>1. /\ DOMAIN R = {"totals", "takings", "laundry", "profits"}
        /\ R["totals"] = [completed |-> OutletTotals(Days).completed]
        /\ R["profits"] = [completed |-> OutletTotals(Days).completed]
        /\ R["takings"] = OutletTakings(Days) /\ R["laundry"] = OutletLaundry(Days)
    OBVIOUS
  <1>2. \A k \in Sessions :
          /\ G[k]["totals"] = ShiftTotals(k) /\ G[k]["takings"] = SessionTakings(k)
          /\ G[k]["laundry"] = ShiftLoads(k) /\ G[k]["profits"] = ShiftProfits(k)
    BY DEF LaundryReport
  <1>3. {[till |-> k, says |-> LaundryReport(k)] : k \in Sessions}
          = {[till |-> k, says |-> G[k]] : k \in Sessions}
    OBVIOUS
  <1>4. /\ OutletTotals(Days).completed = Lines(Live(OfDays(Days)), {"Completed"})
        /\ \A k : ShiftTotals(k).completed = Lines(Live(DoneIn(k)), {"Completed"})
        /\ \A k : ShiftProfits(k).completed = Lines(Live(DoneIn(k)), {"Completed"})
    BY ListIs DEF OutletTotals, Totals, ShiftTotals, ShiftProfits
  <1> HIDE DEF R, G
  <1>5. ASSUME NEW x \in DOMAIN R, NEW f \in DOMAIN R[x]
        PROVE  Splits(R[x][f], [k \in Sessions |-> G[k][x][f]])
    <2>1. CASE x = "laundry"
      BY <1>1, <1>2, <1>5, <2>1, FiguresSplit
    <2>2. CASE x = "takings"
      <3>1. f = "paid"
        BY <1>1, <1>5, <2>2 DEF OutletTakings
      <3> QED
        BY <1>1, <1>2, <2>2, <3>1, TakingsSplit
    <2>3. CASE x \in {"totals", "profits"}
      <3> DEFINE D == [k \in Sessions |-> Lines(Live(DoneIn(k)), {"Completed"})]
      <3>1. R[x] = [completed |-> OutletTotals(Days).completed] /\ f = "completed"
        BY <1>1, <1>5, <2>3
      <3>2. Splits(R[x][f], D)
        BY <1>4, <3>1, LiveSplits
      <3>3. \A k \in Sessions : G[k][x][f] = D[k]
        BY <1>2, <1>4, <2>3, <3>1
      <3> HIDE DEF D
      <3> QED
        BY <3>2, <3>3, SplitsAs
    <2> QED
      BY <1>1, <2>1, <2>2, <2>3
  <1>6. AddsUp(R, {[till |-> k, says |-> G[k]] : k \in Sessions})
    BY <1>5, AddsUpIs
  <1> QED
    BY <1>3, <1>6 DEF R

\* What the sessions' named rows come to.
LEMMA SessionsTell ==
  ASSUME SessionsInv, RowsStamped
  PROVE  ReportsAddUp
  <1> SUFFICES ASSUME mix = "sessions"
               PROVE  LET totals  == OutletTotals(Days)
                          details == OutletDetails(Days)
                          month   == MonthlySummary(Days)
                          active  == totals.completed \cup totals.partly \cup totals.delivered
                      IN  /\ AddsUp([totals |-> totals, ranked |-> OutletRanked(Days),
                                     takings |-> OutletTakings(Days), details |-> details,
                                     profits |-> OutletProfits(Days)],
                                    {[till |-> k, says |-> SessionReport(k)] : k \in Sessions})
                          /\ AddsUp([totals  |-> [completed |-> totals.completed],
                                     takings |-> OutletTakings(Days),
                                     laundry |-> OutletLaundry(Days),
                                     profits |-> [completed |-> totals.completed]],
                                    {[till |-> k, says |-> LaundryReport(k)] : k \in Sessions})
                          /\ OutletList(Days) = UNION {SessionList(k) : k \in Sessions}
                          /\ OutletProfits(Days).completed = totals.completed
                          /\ details["Partially Paid"] = totals.partly
                          /\ \A k \in Sessions : ShiftLoads(k).loads \subseteq SessionLoads(k)
                          /\ month.orders = active /\ month.outstanding = totals.partly
                          /\ active = UNION {GetTotalSalesData(k) : k \in Sessions}
                          /\ active = UNION {GetRevenueTrend(d) : d \in Days}
    BY DEF ReportsAddUp
  <1> DEFINE L == Live(OfDays(Days))
             totals == OutletTotals(Days)
             active == totals.completed \cup totals.partly \cup totals.delivered
  <1>1. /\ totals.completed = Lines(L, {"Completed"})
        /\ totals.partly = Lines(L, {"Partially Paid"})
        /\ totals.delivered = Lines(L, {"Delivered"})
    BY DEF OutletTotals, Totals
  <1>2. active = Lines(L, Active)
    BY <1>1 DEF Lines, Active
  <1>3. OfDays(Days) = UNION {RungIn(k) : k \in Sessions}
    BY ReportsAssumption DEF OfDays, RungIn, SessionsInv, SessionsNamed
  <1>4. \A k : DoneIn(k) \subseteq OfDays(Days)
    BY ReportsAssumption DEF OfDays, DoneIn
  <1>5. OutletList(Days) = UNION {SessionList(k) : k \in Sessions}
    BY <1>3, <1>4 DEF OutletList, SessionList, Live
  <1>6. OutletProfits(Days).completed = totals.completed
    BY DEF OutletTotals, Totals, OutletProfits, Profits, OutletList
  <1>7. OutletDetails(Days)["Partially Paid"] = totals.partly
    BY DEF OutletTotals, Totals, OutletDetails, Details
  <1>8. \A k \in Sessions : ShiftLoads(k).loads \subseteq SessionLoads(k)
    BY DEF ShiftLoads, SessionLoads, Loads, Lines, Live
  <1>9. /\ MonthlySummary(Days).orders = active
        /\ MonthlySummary(Days).outstanding = totals.partly
    BY <1>1, <1>2 DEF MonthlySummary
  <1>10. active = UNION {GetTotalSalesData(k) : k \in Sessions}
    BY <1>2, <1>3 DEF GetTotalSalesData, Lines, Live
  <1>11. active = UNION {GetRevenueTrend(d) : d \in Days}
    BY <1>2 DEF GetRevenueTrend, Lines, Live, OfDays
  <1> QED
    BY <1>5, <1>6, <1>7, <1>8, <1>9, <1>10, <1>11, SessionReportsAddUp, LaundryReportsAddUp
       DEF SessionsInv

\* No sale is rung up yet and no payment taken.
LEMMA SessionsBegin == RInit => SessionsInv
  <1> SUFFICES ASSUME RInit
               PROVE  SessionsInv
    OBVIOUS
  <1>1. \A s \in Sales : ~Exists(s)
    BY DEF RInit, Init, Blank, Exists
  <1>2. \A w \in Workers, s \in Sales : tx[w].seen[s].paid = 0
    BY DEF RInit, Init, Idle, Blank
  <1>3. Total > 0
    BY MoneyAssumption
  <1>4. SessionsNamed
    <2>1. /\ rung \in [Sales -> Sessions \cup {NoSession}]
          /\ doneIn \in [Sales -> Sessions \cup {NoSession}]
      BY DEF RInit
    <2>2. \A w \in Workers, s \in Sales : ~(tx[w].seen[s].paid >= Total)
      BY <1>2, <1>3, MoneyAssumption
    <2> QED
      BY <1>1, <2>1, <2>2 DEF SessionsNamed
  <1>5. SlipsNumbered
    BY DEF SlipsNumbered, RInit
  <1> QED
    BY <1>4, <1>5 DEF SessionsInv

\* The reports of the sessions always add up to those of the outlet and of the
\* laundry shifts, to the dashboard's figures and to the month's (report.service.ts,
\* monthly-summary.service.ts).
THEOREM SessionsAddUp == RSpec => []ReportsAddUp
  <1>1. RInit => CacheInv /\ SessionsInv
    BY CacheBegins, SessionsBegin
  <1>2. TypeOK /\ BatchesRung /\ CacheInv /\ [RNext]_rvars => CacheInv'
    BY CacheNext
  <1>3. TypeOK /\ LedgerInv /\ BatchesRung /\ CacheInv /\ SessionsInv /\ [RNext]_rvars
          => SessionsInv'
    BY NamedNext, NumberedNext, AskedNext DEF CacheInv, SessionsInv
  <1>4. CacheInv /\ SessionsInv => ReportsAddUp
    BY SessionsTell DEF CacheInv
  <1> QED
    BY <1>1, <1>2, <1>3, <1>4, ReportsWatch, TypeCorrect, LedgerIsBacked, BatchesAreRung, PTL
       DEF RSpec

\* The reports agree with one another, and a report served from the cache with
\* the books it was asked of.
THEOREM ReportsAreTrue == RSpec => []ReportsTrue
  BY SessionsAddUp, CacheStaysCurrent, PTL DEF ReportsTrue

=============================================================================
