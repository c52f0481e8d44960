----------------------------- MODULE HeldValue -----------------------------
(***************************************************************************)
(* What one customer holds: vouchers, subscriptions of one prepaid         *)
(* package, and the spend that earns milestone vouchers.  A checkout uses  *)
(* a voucher and a subscription (sales.service.ts), a reversal gives them  *)
(* back, the customer subscribes, cancels and records uses by hand         *)
(* (subscription-package.service.ts), vouchers are issued by hand or when  *)
(* a milestone is reached (voucher.service.ts), and a job expires          *)
(* subscriptions past their end (cron/subscription-expiry.cron.ts).        *)
(*                                                                         *)
(* A request is two steps of a worker, as in PointsLedger: Begin reads a   *)
(* snapshot and plans its writes, Commit applies them.  Quota is written   *)
(* relatively; a status is written as planned.                             *)
(***************************************************************************)
EXTENDS Integers, Sequences, FiniteSets, Sums

CONSTANTS
    Sales,       \* sales of the customer
    Packs,       \* subscriptions of the package, in the order they are bought
    Usage,       \* those counted in uses (USAGE); the others run for a time (TIME)
    Ending,      \* those with an end date
    Quota,       \* uses a USAGE subscription starts with
    Units,       \* uses a checkout or a recorded use may ask for
    Rounded,     \* sales whose points round to zero
    Reopenable,  \* laundry sales, which collect makes Completed again
    Workers,     \* requests, and milestone checks, in flight at once
    Threshold,   \* spend per milestone, in sales and subscriptions
    Mixes,       \* sets of operations, sales and subscriptions to consider together
    MaxIssued,   \* bound: vouchers issued by hand
    MaxReversals \* bound: a laundry order is reopened until it was reversed so often

Ops == {"sell", "reverse", "collect", "issue", "lapse", "subscribe", "cancel", "record",
        "expire", "check", "restart", "repeatable"}

ASSUME HeldAssumption ==
    /\ Usage \subseteq Packs /\ Ending \subseteq Packs
    /\ Rounded \subseteq Sales /\ Reopenable \subseteq Sales
    /\ Quota \in Nat \ {0} /\ Units \subseteq Nat \ {0} /\ Threshold \in Nat \ {0}
    /\ Mixes \subseteq SUBSET (Ops \cup Sales \cup Packs)
    /\ MaxIssued \in Nat /\ MaxReversals \in Nat
    /\ IsFiniteSet(Sales) /\ Sales # {} /\ "none" \notin Sales \cup Packs

VARIABLES
    mix,     \* the operations of this behaviour
    voucher, \* voucher rows, in the order they were issued
    pack,    \* customer_subscription rows
    usage,   \* subscription_usage rows; (sale, subscription) is unique
    sale,    \* the sales rows
    spend,   \* loyalty_account.totalSpend
    due,     \* milestone checks that are scheduled but not started
    check,   \* the milestone checks under way
    tx,      \* the plan each worker is about to commit
    peak,    \* history: the most that was ever spent
    raced,   \* history: subscriptions on which requests overlapped
    doubled  \* history: two milestone checks overlapped

vars == <<mix, voucher, pack, usage, sale, spend, due, check, tx, peak, raced, doubled>>
counters == <<spend, due, check, peak, doubled>>

Voucher == [status: {"ACTIVE", "REDEEMED", "EXPIRED"}, sale: Sales \cup {"none"},
            ends: {"later", "past"}, by: {"hand", "rule"}]
PackRow == [status: {"none", "ACTIVE", "EXPIRED", "CANCELLED"}, left: Int, used: Int,
            version: Nat, ends: {"never", "later", "past"}]
UsageRow == [qty: Nat, state: {"none", "live", "deleted"}]
SaleRow == [state: {"unrung", "completed", "reversed"}, voucher: Nat,
            pack: Packs \cup {"none"}, reversals: Nat]

Ids == DOMAIN voucher

\* seen: the version of the subscription that was read; turns: the status
\* written to it, "same" when none is; becomes: the same for the voucher.
NoPlan == [op |-> "idle", sale |-> CHOOSE s \in Sales : TRUE, voucher |-> 0,
           becomes |-> "same", pack |-> "none", qty |-> 0, seen |-> 0, turns |-> "same"]
Plan == [op: Ops \cup {"idle"}, sale: Sales, voucher: Nat,
         becomes: {"same", "ACTIVE", "REDEEMED", "EXPIRED"}, pack: Packs \cup {"none"},
         qty: Nat, seen: Nat, turns: {"same", "ACTIVE", "EXPIRED", "CANCELLED"}]

\* slot: the voucher a check is after; count: those it found.
NoCheck == [phase |-> "idle", spend |-> 0, slot |-> 1, count |-> 0]
Check == [phase: {"idle", "counting", "inserting"}, spend: Int, slot: Nat, count: Nat]

TypeOK ==
    /\ mix \in Mixes
    /\ voucher \in Seq(Voucher) /\ pack \in [Packs -> PackRow]
    /\ usage \in [Sales -> [Packs -> UsageRow]]
    /\ sale \in [Sales -> SaleRow] /\ \A s \in Sales : sale[s].voucher \in Ids \cup {0}
    /\ spend \in Int /\ peak \in Int /\ due \in Nat
    /\ check \in [Workers -> Check]
    /\ tx \in [Workers -> Plan] /\ \A w \in Workers : tx[w].voucher \in Ids \cup {0}
    /\ raced \subseteq Packs /\ doubled \in BOOLEAN

Init ==
    /\ mix \in Mixes
    /\ voucher = <<>>
    /\ pack = [k \in Packs |-> [status |-> "none", left |-> 0, used |-> 0, version |-> 0,
                                ends |-> "never"]]
    /\ usage = [s \in Sales |-> [k \in Packs |-> [qty |-> 0, state |-> "none"]]]
    /\ sale = [s \in Sales |-> [state |-> "unrung", voucher |-> 0, pack |-> "none",
                             reversals |-> 0]]
    /\ spend = 0 /\ due = 0 /\ peak = 0
    /\ check = [w \in Workers |-> NoCheck]
    /\ tx = [w \in Workers |-> NoPlan]
    /\ raced = {} /\ doubled = FALSE

----------------------------------------------------------------------------
(* The steps of a request *)

Begin(w, p) ==
    /\ p.op \in mix /\ tx[w].op = "idle"
    /\ tx' = [tx EXCEPT ![w] = p]
    /\ raced' = raced \cup {k \in Packs : p.pack = k /\ \E v \in Workers : tx[v].pack = k}
    /\ UNCHANGED <<mix, voucher, pack, usage, sale, counters>>

VersionHeld(p) == pack[p.pack].version = p.seen

\* Mutant: the redemption does not test the status it overwrites.
HoldsAnyVoucher(p) ==
    /\ p.op = "sell" => /\ sale[p.sale].state = "unrung"
                        /\ p.pack \in Usage => VersionHeld(p)
    /\ p.op = "reverse" => sale[p.sale].state = "completed"
    /\ p.op = "record" => usage[p.sale][p.pack].state = "none"
    /\ p.op = "subscribe" => pack[p.pack].status = "none"
\* The conditions of the conditional writes and of the unique indexes.  Two
\* checkouts of one sale are two sales, and so with subscriptions.
Holds(p) ==
    /\ p.op = "sell" => /\ sale[p.sale].state = "unrung"
                        /\ p.voucher # 0 => voucher[p.voucher].status = "ACTIVE"
                        /\ p.pack \in Usage => VersionHeld(p)
    /\ p.op = "reverse" => sale[p.sale].state = "completed"
    /\ p.op = "record" => usage[p.sale][p.pack].state = "none"
    /\ p.op = "subscribe" => pack[p.pack].status = "none"

\* redeemedInSalesId is set by a redemption and cleared by a restoration.
Redeemed(v, p) ==
    [v EXCEPT !.status = p.becomes, !.sale = IF p.op = "sell" THEN p.sale ELSE "none"]

Fresh(k) == [status |-> "ACTIVE", left |-> IF k \in Usage THEN Quota ELSE 0, used |-> 0,
             version |-> 1, ends |-> IF k \in Ending THEN "later" ELSE "never"]

\* What the request changes quota by: recordUsage updates where the version
\* is the one it read, which matches no row and fails nobody when it is not.
Taken(p) == CASE p.op = "sell" -> p.qty
              [] p.op = "record" -> IF VersionHeld(p) THEN p.qty ELSE 0
              [] p.op = "reverse" /\ p.pack \in Usage -> -p.qty
              [] OTHER -> 0

Turned(row, p) ==
    IF p.op = "subscribe" THEN Fresh(p.pack) ELSE
    [row EXCEPT !.left = IF p.pack \in Usage THEN @ - Taken(p) ELSE @,
                !.used = @ + Taken(p),
                !.version = IF Taken(p) > 0 THEN @ + 1 ELSE @,
                !.status = IF p.turns = "same" THEN @ ELSE p.turns]

RowOf(row, p) ==
    CASE p.op \in {"sell", "record"} -> [qty |-> p.qty, state |-> "live"]
      [] p.op = "reverse" /\ p.pack \in Usage /\ row.state = "live" -> [row EXCEPT !.state = "deleted"]
      [] OTHER -> row

Became(row, p) ==
    IF p.op = "sell"
    THEN [row EXCEPT !.state = "completed", !.voucher = p.voucher, !.pack = p.pack]
    ELSE [row EXCEPT !.state = "reversed", !.reversals = @ + 1]

\* A sale and a subscription count one each; a reversal takes back what the
\* sale counted only when it also earned points.
Spent(p) == CASE p.op \in {"sell", "subscribe"} -> 1
              [] p.op = "reverse" /\ p.sale \notin Rounded -> -1
              [] OTHER -> 0

More(a, b) == IF a > b THEN a ELSE b

Commit(w) ==
    LET p == tx[w] IN
    /\ p.op # "idle" /\ Holds(p)
    /\ voucher' = IF p.voucher = 0 THEN voucher ELSE [voucher EXCEPT ![p.voucher] = Redeemed(@, p)]
    /\ pack' = IF p.pack = "none" THEN pack ELSE [pack EXCEPT ![p.pack] = Turned(@, p)]
    /\ usage' = IF p.pack = "none" THEN usage ELSE [usage EXCEPT ![p.sale][p.pack] = RowOf(@, p)]
    /\ sale' = IF p.op \in {"sell", "reverse"} THEN [sale EXCEPT ![p.sale] = Became(@, p)] ELSE sale
    /\ spend' = spend + Spent(p)
    /\ peak' = More(peak, spend')
    /\ due' = IF p.op = "sell" /\ "check" \in mix THEN due + 1 ELSE due
    /\ tx' = [tx EXCEPT ![w] = NoPlan]
    /\ UNCHANGED <<mix, check, raced, doubled>>

\* Refused by Holds, a deadlock's victim, cut off by a timeout or a crash.
Abort(w) ==
    /\ tx[w].op # "idle"
    /\ tx' = [tx EXCEPT ![w] = NoPlan]
    /\ UNCHANGED <<mix, voucher, pack, usage, sale, counters, raced>>

----------------------------------------------------------------------------
(* Checkout and reversal *)

Usable(k) == pack[k].status = "ACTIVE" /\ pack[k].ends # "past"
Lesser(a, b) == IF a < b THEN a ELSE b

\* A cart with n eligible units uses what the quota covers of them; the last
\* use ends the subscription.  A TIME subscription counts one use per sale.
Covered(k, n) == IF k \in Usage THEN Lesser(n, pack[k].left) ELSE 1

Exhausted(k, n) == IF k \in Usage /\ pack[k].left - n <= 0 THEN "EXPIRED" ELSE "same"

Using(p, k, n) == [p EXCEPT !.pack = k, !.qty = n, !.seen = pack[k].version,
                            !.turns = Exhausted(k, n)]

Sell(w, s, i, k, n) ==
    LET p == [NoPlan EXCEPT !.op = "sell", !.sale = s, !.voucher = i,
                            !.becomes = IF i = 0 THEN "same" ELSE "REDEEMED"]
    IN  /\ s \in mix /\ sale[s].state = "unrung"
        /\ i # 0 => voucher[i].status = "ACTIVE" /\ voucher[i].ends = "later"
        /\ k # "none" => Usable(k) /\ Covered(k, n) > 0
        /\ Begin(w, IF k = "none" THEN p ELSE Using(p, k, Covered(k, n)))

\* restoreVoucherForSale finds the voucher by redeemedInSalesId, and the sale
\* must have one.
Restorable(s) == {i \in Ids : /\ sale[s].voucher # 0
                              /\ voucher[i].sale = s /\ voucher[i].status = "REDEEMED"}

\* Mutant: also one past its end is opened again.
Reopened(k) == IF pack[k].status = "EXPIRED" THEN "ACTIVE" ELSE "same"
Reactivated(k) == IF pack[k].status = "EXPIRED" /\ pack[k].ends # "past" THEN "ACTIVE" ELSE "same"

\* Mutant: one use comes back, however many were taken.
OneBack(s, k) == 1
\* restoreCustomerSubscriptionForSale: as many as the usage row says, one
\* when there is none.
Returned(s, k) == IF usage[s][k].state = "live" THEN usage[s][k].qty ELSE 1

Reverse(w, s) ==
    LET k == sale[s].pack
        p == [NoPlan EXCEPT !.op = "reverse", !.sale = s]
        q == IF k \in Usage
             THEN [p EXCEPT !.pack = k, !.qty = Returned(s, k), !.turns = Reactivated(k)] ELSE p
    IN  /\ sale[s].state = "completed"
        /\ \/ Restorable(s) = {} /\ Begin(w, q)
           \/ \E i \in Restorable(s) :
                Begin(w, [q EXCEPT !.voucher = i, !.becomes = IF voucher[i].ends = "later"
                                                            THEN "ACTIVE" ELSE "EXPIRED"])

\* collect: a laundry order that was reversed is Completed again.
Reopen(s) ==
    /\ "collect" \in mix /\ s \in Reopenable /\ sale[s].state = "reversed"
    /\ sale[s].reversals < MaxReversals
    /\ sale' = [sale EXCEPT ![s].state = "completed"]
    /\ UNCHANGED <<mix, voucher, pack, usage, counters, tx, raced>>

----------------------------------------------------------------------------
(* Subscriptions *)

Live == {k \in Packs : Usable(k)}

Subscribe(w, k) ==
    /\ k \in mix /\ pack[k].status = "none" /\ Live = {}
    /\ Begin(w, [NoPlan EXCEPT !.op = "subscribe", !.pack = k])

\* cancelSubscription: the status is written by id, in a statement of its own.
Cancel(w, k) ==
    /\ pack[k].status \notin {"none", "CANCELLED"}
    /\ Begin(w, [NoPlan EXCEPT !.op = "cancel", !.pack = k, !.turns = "CANCELLED"])

\* recordUsage names a sale, whatever became of it.
RecordUsage(w, s, k, n) ==
    /\ sale[s].state # "unrung" /\ Usable(k)
    /\ k \in Usage => pack[k].left >= n
    /\ Begin(w, Using([NoPlan EXCEPT !.op = "record", !.sale = s], k, n))

\* The end of a subscription passes.
Ends(k) ==
    /\ "expire" \in mix /\ pack[k].ends = "later"
    /\ pack' = [pack EXCEPT ![k].ends = "past"]
    /\ UNCHANGED <<mix, voucher, usage, sale, counters, tx, raced>>

PastEnd == {k \in Packs : pack[k].status = "ACTIVE" /\ pack[k].ends = "past"}
\* expireSubscriptionsForTenant: one conditional update.
Expire ==
    /\ "expire" \in mix /\ PastEnd # {}
    /\ pack' = [k \in Packs |-> [pack[k] EXCEPT !.status = IF k \in PastEnd THEN "EXPIRED" ELSE @]]
    /\ UNCHANGED <<mix, voucher, usage, sale, counters, tx, raced>>

----------------------------------------------------------------------------
(* Vouchers *)

Issued(by) == [status |-> "ACTIVE", sale |-> "none", ends |-> "later", by |-> by]
By(who) == {i \in Ids : voucher[i].by = who}

IssueVoucher ==
    /\ "issue" \in mix /\ Cardinality(By("hand")) < MaxIssued
    /\ voucher' = Append(voucher, Issued("hand"))
    /\ UNCHANGED <<mix, pack, usage, sale, counters, tx, raced>>

\* expiresAt passes; no job writes EXPIRED.
Lapse(i) ==
    /\ "lapse" \in mix /\ voucher[i].ends = "later"
    /\ voucher' = [voucher EXCEPT ![i].ends = "past"]
    /\ UNCHANGED <<mix, pack, usage, sale, counters, tx, raced>>

----------------------------------------------------------------------------
(* Milestones *)

\* How many vouchers a spend of n is worth by the one rule there is.
Expected(n) == IF n < Threshold THEN 0
               ELSE IF "repeatable" \in mix THEN n \div Threshold ELSE 1

\* checkMilestones, scheduled after a sale has committed, reads the spend.
StartCheck(w) ==
    /\ due > 0 /\ check[w].phase = "idle"
    /\ due' = due - 1
    /\ check' = [check EXCEPT ![w] = [NoCheck EXCEPT !.spend = spend,
                          !.phase = IF Expected(spend) > 0 THEN "counting" ELSE "idle"]]
    /\ doubled' = (doubled \/ \E v \in Workers : check[v].phase # "idle")
    /\ UNCHANGED <<mix, voucher, pack, usage, sale, spend, tx, peak, raced>>

\* Mutant: vouchers that are used or expired are not counted.
Standing == {i \in By("rule") : voucher[i].status = "ACTIVE"}
Counted == By("rule")
\* issueIfMissing counts in a transaction that locks nothing ...
CountVouchers(w) ==
    /\ check[w].phase = "counting"
    /\ check' = [check EXCEPT ![w].phase = "inserting", ![w].count = Cardinality(Counted)]
    /\ UNCHANGED <<mix, voucher, pack, usage, sale, spend, due, tx, peak, raced, doubled>>

\* Mutant: the first slot that is taken ends the check.
StopsAt(c) == c.slot < Expected(c.spend) /\ c.count < c.slot
GoesOn(c) == c.slot < Expected(c.spend)
\* ... and inserts when the slot is free, then goes on to the next.
InsertVoucher(w) ==
    LET c == check[w] IN
    /\ c.phase = "inserting"
    /\ voucher' = IF c.count < c.slot THEN Append(voucher, Issued("rule")) ELSE voucher
    /\ check' = [check EXCEPT ![w] = IF GoesOn(c) THEN [c EXCEPT !.phase = "counting", !.slot = @ + 1]
                                     ELSE NoCheck]
    /\ UNCHANGED <<mix, pack, usage, sale, spend, due, tx, peak, raced, doubled>>

\* The server restarts: what is scheduled is forgotten, what is open is
\* rolled back.
Restart ==
    /\ "restart" \in mix
    /\ due' = 0 /\ check' = [w \in Workers |-> NoCheck] /\ tx' = [w \in Workers |-> NoPlan]
    /\ UNCHANGED <<mix, voucher, pack, usage, sale, spend, peak, raced, doubled>>

Next ==
    \/ \E w \in Workers :
        \/ \E s \in Sales :
            \/ \E i \in Ids \cup {0}, k \in Packs \cup {"none"}, n \in Units : Sell(w, s, i, k, n)
            \/ Reverse(w, s)
            \/ \E k \in Packs, n \in Units : RecordUsage(w, s, k, n)
        \/ \E k \in Packs : Subscribe(w, k) \/ Cancel(w, k)
        \/ Commit(w) \/ Abort(w)
        \/ StartCheck(w) \/ CountVouchers(w) \/ InsertVoucher(w)
    \/ \E s \in Sales : Reopen(s)
    \/ \E k \in Packs : Ends(k)
    \/ \E i \in Ids : Lapse(i)
    \/ Expire \/ IssueVoucher \/ Restart

Spec == Init /\ [][Next]_vars

\* The job runs every night; a scheduled check is run, and goes on.
FairSpec == /\ Spec /\ WF_vars(Expire)
            /\ \A w \in Workers : /\ WF_vars(StartCheck(w))
                                  /\ WF_vars(CountVouchers(w) \/ InsertVoucher(w))

----------------------------------------------------------------------------
(* Properties *)

NeverReopened ==
    \A s \in Sales : sale[s].reversals <= (IF sale[s].state = "reversed" THEN 1 ELSE 0)

\* A voucher is spent once: the sales that stand with it are the one it says
\* it was redeemed in, whichever checkouts and reversals overlap.
VoucherSpentOnce ==
    NeverReopened => \A i \in Ids :
        {s \in Sales : sale[s].state = "completed" /\ sale[s].voucher = i}
            = IF voucher[i].status = "REDEEMED" THEN {voucher[i].sale} ELSE {}

\* What is left and what was used of a quota are the quota, checkouts that
\* overlap never take more than there is, and with nothing left a subscription
\* is not ACTIVE.
QuotaConserved ==
    \A k \in Usage : pack[k].status # "none" =>
        /\ pack[k].left >= 0 /\ pack[k].left + pack[k].used = Quota
        /\ pack[k].status = "ACTIVE" => pack[k].left > 0

\* Neither a voucher nor a use of a package pays for two sales.
PaidForOnce == VoucherSpentOnce /\ QuotaConserved

\* Uses that are left can be used: they are in an ACTIVE subscription unless
\* it was cancelled or has ended, as long as no two requests overlap on it.
QuotaUsable ==
    \A k \in Usage \ raced : pack[k].left > 0 /\ pack[k].ends # "past" =>
        pack[k].status \in {"ACTIVE", "CANCELLED"}

\* The usage rows explain what was used, with overlaps as long as no use is
\* recorded by hand, of sales reversed once.
Uses(k) == [s \in Sales |-> IF usage[s][k].state = "live" THEN usage[s][k].qty ELSE 0]
UsageExplains ==
    \A k \in Packs : ("record" \in mix => k \notin raced) /\ (\A s \in Sales : sale[s].reversals <= 1)
        => pack[k].used = SumOver(Uses(k), Sales)

\* What a customer was sold is left to use, or a row says where it went.
QuotaExplained == QuotaUsable /\ UsageExplains

\* A cancelled subscription stays cancelled, unless requests overlap on it.
CancelledStays ==
    [][\A k \in Packs \ raced' : pack[k].status = "CANCELLED" => pack'[k].status = "CANCELLED"]_vars

\* A subscription that is shut when its end has passed stays shut, and no
\* request plans to open it, but for a reversal that read it before.
MayOpen(k, plans) == \E w \in Workers : plans[w].pack = k /\ plans[w].turns = "ACTIVE"
PastStaysShut ==
    [][\A k \in Packs : pack[k].ends = "past" /\ pack[k].status # "ACTIVE" /\ ~MayOpen(k, tx)
            => pack'[k].status # "ACTIVE" /\ ~MayOpen(k, tx')]_vars

\* A subscription that was cancelled or has ended does not come back.
ShutStays == CancelledStays /\ PastStaysShut

\* No more milestone vouchers than the most that was ever spent is worth,
\* unless two checks overlap.
MilestonesWithin == ~doubled => Cardinality(By("rule")) <= Expected(peak)

\* A milestone that is reached when a check is scheduled gets its voucher,
\* unless the server restarts or the sale is reversed first.
MilestoneIssued ==
    \A n \in 1..Cardinality(Sales) : 
        (due > 0 /\ Expected(spend) >= n /\ "restart" \notin mix)
            ~> (Cardinality(By("rule")) >= n \/ Expected(spend) < n)

\* A subscription past its end is shut in the end.
EventuallyShut == \A k \in Packs : k \in PastEnd ~> k \notin PastEnd

\* What the two jobs are there for gets done.
JobsDone == MilestoneIssued /\ EventuallyShut
=============================================================================
