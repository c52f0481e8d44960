--------------------------- MODULE SaleLifecycle ---------------------------
(***************************************************************************)
(* The life of sales rows in one tenant database (sales.service.ts): a     *)
(* checkout creates a row; payments, reversals (void, return, refund),     *)
(* delivery confirmations and laundry collections move its status; a       *)
(* remove soft-deletes it.                                                 *)
(*                                                                         *)
(* A handler that reads the row and later writes it is two steps of a      *)
(* request worker: Begin (the snapshot read and the guards evaluated on    *)
(* it) and Commit (its writes, applied to the rows as they are then).      *)
(* MySQL's REPEATABLE READ takes no lock on the read, and the writes keep  *)
(* their row locks until commit, so nothing finer is observable.           *)
(*                                                                         *)
(* Money is a natural number of units and every sale owes Total.  A        *)
(* request's payments appear as their sum; amounts derived from paidAmount *)
(* (change, session attribution) are left out, and points is 1 when the    *)
(* sale earned any.                                                        *)
(***************************************************************************)
EXTENDS Integers

CONSTANTS
    Sales,        \* sale ids a client may ring up
    Workers,      \* requests the server may have in flight at once
    Total,        \* totalAmount of every sale
    Tenders,      \* sums of tenderedAmount a request may bring
    PayLater,     \* sales rung up owing money (kasbon, pay at pickup)
    Laundry,      \* sales that carry an orderRef, which collect looks up
    Deliverable,  \* sales of salesType Delivery
    Members,      \* sales of a loyalty member that earn points
    Lite,         \* sales of a tenant on the Retail Lite plan
    MaxTendered,  \* bound: no payment starts on a sale that took this much
    MaxReversals  \* bound: no reversal starts on a sale reversed this often

ASSUME MoneyAssumption ==
    /\ Total \in Nat \ {0}
    /\ Tenders \subseteq Nat
    /\ MaxTendered \in Nat /\ MaxReversals \in Nat

\* Lite takes full payment only and has no delivery orders.
ASSUME PlanAssumption ==
    /\ Lite \subseteq Sales
    /\ Lite \cap (PayLater \cup Deliverable) = {}

VARIABLES
    sale,         \* the sales rows
    rows,         \* sums over the payment rows of each sale
    restored,     \* stock restorations recorded for each sale
    completions,  \* history: times the sale's status became Completed
    earns,        \* EARN credits and EARN reversals on the loyalty account
    aged,         \* sales made longer ago than LITE_VOID_WINDOW_MS
    raced,        \* history: sales on which two payments overlapped
    tx            \* the open transaction of each worker

vars == <<sale, rows, restored, completions, earns, aged, raced, tx>>

Reversals == {"Voided", "Returned", "Refunded"}
Open      == {"Completed", "Partially Paid"}
Status    == Reversals \cup Open \cup {"Unrung", "Delivered"}
Unused    == "Voided"       \* filler in `to` of a request that reverses nothing
Ops       == {"idle", "pay", "reverse", "deliver", "collect"}

SaleRow == [status: Status, paid: Nat, points: Nat,
            delivered: BOOLEAN, collected: BOOLEAN, deleted: BOOLEAN]

Blank == [status |-> "Unrung", paid |-> 0, points |-> 0,
          delivered |-> FALSE, collected |-> FALSE, deleted |-> FALSE]

\* tendered, live: tenderedAmount of all rows and of rows not reversed;
\* intake: tendered at checkout; applied: paidAmount of Receive Payment rows.
RowSums == [tendered: Nat, live: Nat, intake: Nat, applied: Nat]

TxType == [op: Ops, batch: SUBSET Sales, tender: Nat, to: Reversals,
           seen: [Sales -> SaleRow]]

Idle == [op |-> "idle", batch |-> {}, tender |-> 0, to |-> Unused,
         seen |-> [s \in Sales |-> Blank]]

TypeOK ==
    /\ sale \in [Sales -> SaleRow]
    /\ rows \in [Sales -> RowSums]
    /\ restored \in [Sales -> Nat]
    /\ completions \in [Sales -> Nat]
    /\ earns \in [Sales -> [credited: Nat, reversed: Nat]]
    /\ aged \subseteq Sales /\ raced \subseteq Sales
    /\ tx \in [Workers -> TxType]

Init ==
    /\ sale = [s \in Sales |-> Blank]
    /\ rows = [s \in Sales |->
                 [tendered |-> 0, live |-> 0, intake |-> 0, applied |-> 0]]
    /\ restored = [s \in Sales |-> 0]
    /\ completions = [s \in Sales |-> 0]
    /\ earns = [s \in Sales |-> [credited |-> 0, reversed |-> 0]]
    /\ aged = {} /\ raced = {}
    /\ tx = [w \in Workers |-> Idle]

----------------------------------------------------------------------------
(* Helpers *)

Lesser(a, b) == IF a < b THEN a ELSE b


\* paidAmount of the new rows: each settles min(tendered, balance open), in
\* order, so together they settle min(sum of tenders, balance).
AppliedToBalance(tender, remaining) ==
    Lesser(tender, IF remaining > 0 THEN remaining ELSE 0)

\* Mutant: the rows record what they settle instead of what was handed over.
ReceivedSettled(sums, tender, applied) ==
    [sums EXCEPT !.tendered = @ + applied, !.live = @ + applied,
                 !.applied = @ + applied]

Received(sums, tender, applied) ==
    [sums EXCEPT !.tendered = @ + tender, !.live = @ + tender,
                 !.applied = @ + applied]

\* payment.updateMany of a reversal; its mutant forgets the rows.
RowsLeftLive(sums) == sums
RowsReversed(sums) == [sums EXCEPT !.live = 0]

StatusOnPaid(paid) == IF paid >= Total THEN "Completed" ELSE "Partially Paid"

Exists(s)  == sale[s].status # "Unrung"
Visible(s) == Exists(s) /\ ~sale[s].deleted

\* creditEarnedPoints creates a batch under the unique (account, sale) index;
\* soft-deleted batches stay in it, so a sale earns once in its life.
MayEarn(s) == earns[s].credited = 0
Credited(e) == [e EXCEPT !.credited = @ + 1]

Snapshot(batch) == [s \in Sales |-> IF s \in batch THEN sale[s] ELSE Blank]

Start(w, op, batch, tender, to) ==
    /\ tx[w].op = "idle"
    /\ tx' = [tx EXCEPT ![w] = [op |-> op, batch |-> batch, tender |-> tender,
                                to |-> to, seen |-> Snapshot(batch)]]
    /\ raced' = raced \cup {s \in batch : op = "pay" /\
                    \E v \in Workers : tx[v].op = "pay" /\ s \in tx[v].batch}
    /\ UNCHANGED <<sale, rows, restored, completions, earns, aged>>

Finish(w) == tx' = [tx EXCEPT ![w] = Idle]

\* How many times s entered Completed once its row becomes `row`.
CountCompletion(s, row) ==
    completions' = [completions EXCEPT ![s] =
        @ + (IF row.status = "Completed" /\ sale[s].status # "Completed"
             THEN 1 ELSE 0)]

----------------------------------------------------------------------------
(* completeNewSales: the row, its payments and its earn are one insert. *)
Checkout(s, tender) ==
    LET row == [Blank EXCEPT !.status = StatusOnPaid(tender), !.paid = tender,
                             !.points = IF s \in Members /\ tender >= Total
                                         THEN 1 ELSE 0]
    IN  /\ ~Exists(s)
        /\ s \in PayLater \/ tender >= Total
        /\ sale' = [sale EXCEPT ![s] = row]
        /\ rows' = [rows EXCEPT ![s] = [tendered |-> tender, live |-> tender,
                                        intake |-> tender, applied |-> 0]]
        /\ CountCompletion(s, row)
        /\ earns' = IF row.points > 0 THEN [earns EXCEPT ![s] = Credited(@)]
                                  ELSE earns
        /\ UNCHANGED <<restored, aged, raced, tx>>

(* addPaymentToPartiallyPaidSales *)
BeginPay(w, s, tender) ==
    /\ Visible(s)
    /\ sale[s].status = "Partially Paid"
    /\ sale[s].paid < Total
    /\ tender > 0
    /\ rows[s].tendered < MaxTendered
    /\ Start(w, "pay", {s}, tender, Unused)

\* paidAmount and status are written absolutely, from the snapshot.
CommitPay(w, s) ==
    LET seen  == tx[w].seen[s]
        paid  == seen.paid + tx[w].tender
        earn  == s \in Members /\ paid >= Total
        row   == [sale[s] EXCEPT !.paid = paid, !.status = StatusOnPaid(paid),
                                 !.points = IF earn THEN 1 ELSE @]
    IN  /\ tx[w].op = "pay" /\ s \in tx[w].batch
        /\ earn => MayEarn(s)
        /\ sale' = [sale EXCEPT ![s] = row]
        /\ rows' = [rows EXCEPT ![s] = Received(@, tx[w].tender,
                         AppliedToBalance(tx[w].tender, Total - seen.paid))]
        /\ CountCompletion(s, row)
        /\ earns' = IF earn THEN [earns EXCEPT ![s] = Credited(@)] ELSE earns
        /\ Finish(w)
        /\ UNCHANGED <<restored, aged, raced>>

\* The 24 hours a Lite sale can be reversed in.
InVoidWindow(s) == s \in Lite => s \notin aged

\* The read and the checks the three reversals share.
BeginReverse(w, s, to) ==
    /\ Visible(s)
    /\ sale[s].status = "Completed"
    /\ restored[s] < MaxReversals
    /\ Start(w, "reverse", {s}, 0, to)

VoidSales(w, s)   == InVoidWindow(s) /\ BeginReverse(w, s, "Voided")
ReturnSales(w, s) == s \notin Lite /\ BeginReverse(w, s, "Returned")
RefundSales(w, s) == s \notin Lite /\ BeginReverse(w, s, "Refunded")

\* Mutant: the unconditional write claimSalesReversal replaced.
ClaimUnconditional(s) == ~sale[s].deleted

\* claimSalesReversal: one conditional write flips the row or matches nothing.
ClaimHolds(s) == ~sale[s].deleted /\ sale[s].status = "Completed"

\* The claim, then payments, stock and loyalty; a lost claim throws (Abort).
CommitReverse(w, s) ==
    /\ tx[w].op = "reverse" /\ s \in tx[w].batch
    /\ ClaimHolds(s)
    /\ sale' = [sale EXCEPT ![s].status = tx[w].to]
    /\ rows' = [rows EXCEPT ![s] = RowsReversed(@)]
    /\ restored' = [restored EXCEPT ![s] = @ + 1]
    /\ earns' = IF tx[w].seen[s].points > 0
                THEN [earns EXCEPT ![s].reversed = @ + 1] ELSE earns
    /\ Finish(w)
    /\ UNCHANGED <<completions, aged, raced>>

(* confirmDeliveryBatch *)
BeginDeliver(w, batch) ==
    /\ batch # {} /\ batch \subseteq Deliverable
    /\ \A s \in batch : /\ Visible(s)
                        /\ sale[s].status \in Open
                        /\ ~sale[s].delivered
    /\ Start(w, "deliver", batch, 0, Unused)

\* updateMany by id only: the status the sale was read in is not rechecked.
DeliveredRow(row, seenStatus) ==
    [row EXCEPT !.delivered = TRUE,
                !.status = IF seenStatus = "Completed" THEN "Delivered" ELSE @]

CommitDeliver(w) ==
    /\ tx[w].op = "deliver"
    /\ sale' = [s \in Sales |->
                  IF s \in tx[w].batch
                  THEN DeliveredRow(sale[s], tx[w].seen[s].status)
                  ELSE sale[s]]
    /\ Finish(w)
    /\ UNCHANGED <<rows, restored, completions, earns, aged, raced>>

(* collect: two statements, no transaction, no look at status or deleted. *)
BeginCollect(w, s) ==
    /\ s \in Laundry /\ Exists(s)
    /\ Start(w, "collect", {s}, 0, Unused)

CommitCollect(w, s) ==
    LET row == [sale[s] EXCEPT !.collected = TRUE,
                               !.status = IF tx[w].seen[s].paid >= Total
                                          THEN "Completed" ELSE @]
    IN  /\ tx[w].op = "collect" /\ s \in tx[w].batch
        /\ sale' = [sale EXCEPT ![s] = row]
        /\ CountCompletion(s, row)
        /\ Finish(w)
        /\ UNCHANGED <<rows, restored, earns, aged, raced>>

(* remove: soft delete; no stock, payment or status is touched. *)
Remove(s) ==
    /\ Visible(s)
    /\ sale' = [sale EXCEPT ![s].deleted = TRUE]
    /\ UNCHANGED <<rows, restored, completions, earns, aged, raced, tx>>

\* A lost claim, a rejected insert, a deadlock victim, a timeout or a crash.
Abort(w) ==
    /\ tx[w].op # "idle"
    /\ Finish(w)
    /\ UNCHANGED <<sale, rows, restored, completions, earns, aged, raced>>

\* 24 hours pass since the sale was made (only the Lite plan looks).
WindowCloses(s) ==
    /\ s \in Lite /\ Exists(s) /\ s \notin aged
    /\ aged' = aged \cup {s}
    /\ UNCHANGED <<sale, rows, restored, completions, earns, raced, tx>>

Next ==
    \/ \E s \in Sales : \/ \E t \in Tenders : Checkout(s, t)
                        \/ Remove(s)
                        \/ WindowCloses(s)
    \/ \E w \in Workers, s \in Sales :
          \/ \E t \in Tenders : BeginPay(w, s, t)
          \/ CommitPay(w, s)
          \/ VoidSales(w, s) \/ ReturnSales(w, s) \/ RefundSales(w, s)
          \/ CommitReverse(w, s)
          \/ BeginCollect(w, s)
          \/ CommitCollect(w, s)
    \/ \E w \in Workers : \/ \E batch \in SUBSET Sales : BeginDeliver(w, batch)
                          \/ CommitDeliver(w)
                          \/ Abort(w)

Spec == Init /\ [][Next]_vars

----------------------------------------------------------------------------
(* Properties *)

\* Sales whose checkout takes the whole total and that collect cannot reach.
PaidAtCounter == Sales \ (PayLater \cup Laundry)

CompletedNow(s) == IF sale[s].status = "Completed" THEN 1 ELSE 0

\* Each stock restoration of a void, return or refund used up one entry of the
\* sale into Completed: concurrent reversals never share one (the incident
\* claimSalesReversal was written after).
RestorationsBacked ==
    \A s \in Sales : restored[s] + CompletedNow(s) <= completions[s]

\* A sale settled at checkout, outside laundry, restores its stock at most once,
\* however void, return, refund, delivery and remove interleave.
PaidInFullRestoredOnce == \A s \in PaidAtCounter : restored[s] <= 1

\* Stock comes back only for a sale that was completed, and for a counter sale
\* once.
RestoredOnce == RestorationsBacked /\ PaidInFullRestoredOnce

\* Such a sale never takes back more earned points than it credited.
ClawbacksEarned ==
    \A s \in PaidAtCounter : earns[s].reversed <= earns[s].credited

\* paidAmount never claims money no payment row shows, whatever stale snapshot
\* a payment computed it from.
CreditBackedByRows == \A s \in Sales : sale[s].paid <= rows[s].tendered

\* While a sale is reversed none of its payment rows still counts as money
\* received, a payment that committed around the reversal included.
ReversedRowsDead ==
    \A s \in Sales : sale[s].status \in Reversals => rows[s].live = 0

\* A sale credits its loyalty account once, through checkout or through any of
\* several racing payments.
EarnedAtMostOnce == \A s \in Sales : earns[s].credited <= 1

\* No payment is lost unless two payments of the sale overlap: a payment that
\* overlaps anything else leaves paidAmount the sum of what was handed over,
\* and the Receive Payment rows settle no more than checkout left open.
PaymentsSettled ==
    \A s \in Sales \ raced :
        /\ sale[s].paid = rows[s].tendered
        /\ rows[s].applied > 0 => rows[s].intake + rows[s].applied <= Total

\* The money and the points of a sale follow what is left of it.
MoneyFollows == ReversedRowsDead /\ EarnedAtMostOnce /\ PaymentsSettled

\* The stock of one sale is restored once, whichever way it was paid.
RestoredAtMostOnce == \A s \in Sales : restored[s] <= 1

----------------------------------------------------------------------------
(* The strengthening that makes the invariants above inductive. *)

\* A sale not rung up has no payment row.
UnrungUnpaid ==
    \A s \in Sales : sale[s].status = "Unrung" => rows[s].tendered = 0

\* A snapshot never shows more paid, or an earn that was not, than the tables do.
SnapshotBacked ==
    \A w \in Workers, s \in Sales :
        /\ tx[w].seen[s].paid <= rows[s].tendered
        /\ tx[w].seen[s].points > 0 => earns[s].credited >= 1

\* Earn flags and earn reversals follow the credits and the restorations.
EarnsBacked ==
    \A s \in Sales :
        /\ sale[s].points > 0 => earns[s].credited >= 1
        /\ earns[s].reversed > 0 => earns[s].credited >= 1
        /\ earns[s].reversed <= restored[s]

\* A sale paid at the counter never owes, so no payment and no collection is
\* ever open on it and it entered Completed once, at checkout.
CounterClosed ==
    \A s \in PaidAtCounter :
        /\ sale[s].status # "Partially Paid"
        /\ completions[s] <= 1
        /\ sale[s].status = "Unrung" => completions[s] = 0
        /\ \A w \in Workers : tx[w].op \in {"pay", "collect"}
                                => s \notin tx[w].batch

IInv == /\ TypeOK
        /\ RestorationsBacked
        /\ CreditBackedByRows
        /\ UnrungUnpaid
        /\ SnapshotBacked
        /\ EarnsBacked
        /\ CounterClosed

\* A sale not rung up has earned nothing.
UnrungUnearned ==
    \A s \in Sales : sale[s].status = "Unrung" => earns[s].credited = 0

\* Checkout and the payments settle no more than was handed over.
SettledFromTendered ==
    \A s \in Sales : rows[s].intake + rows[s].applied <= rows[s].tendered

\* A payment open on a sale no second payment joined is the only one, and the
\* balance it read is still the sale's.
PaymentHoldsBalance ==
    \A w \in Workers, s \in Sales \ raced :
        tx[w].op = "pay" /\ s \in tx[w].batch =>
            /\ Exists(s)
            /\ tx[w].seen[s].paid = sale[s].paid
            /\ sale[s].paid < Total
            /\ \A v \in Workers \ {w} : tx[v].op = "pay" => s \notin tx[v].batch

MoneyInv == /\ MoneyFollows
            /\ UnrungUnearned
            /\ SettledFromTendered
            /\ PaymentHoldsBalance

=============================================================================
