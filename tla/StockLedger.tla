---------------------------- MODULE StockLedger ----------------------------
(***************************************************************************)
(* The stock of one item over the outlets and warehouses of a tenant: its  *)
(* balance row per location, the FIFO receipt layers behind it, and the    *)
(* movements that say how the balance came about.  Sales and their         *)
(* reversals (sales.service.ts), outlet adjustments and clearances         *)
(* (stock-balance.service.ts), warehouse receipts, adjustments and         *)
(* transfers (location-stock-engine.ts) and the drain of the warehouses on *)
(* a plan downgrade all write the three.                                   *)
(*                                                                         *)
(* A request is two steps of a worker: Begin reads a snapshot and computes *)
(* every write from it (a plan); Commit applies the plan to the rows as    *)
(* they are then.  That is MySQL's REPEATABLE READ: the reads lock         *)
(* nothing, and the writes hold their row locks until the commit.          *)
(*                                                                         *)
(* What differs between the operations is how a balance is written:        *)
(* sales and reversals write "available = available + delta", all others   *)
(* write the sum of the balance they READ and the delta, and of those only *)
(* the outlet adjustments check that the row still has the version read.   *)
(***************************************************************************)
EXTENDS Integers, SequencesExt, Sums

CONSTANTS
    Outlets,      \* outlet ids
    Main,         \* the outlet with the lowest id
    Warehouses,   \* warehouse ids, ascending
    Opening,      \* stock a location starts with, in one receipt
    Sales,        \* sale ids
    Workers,      \* requests in flight at once
    Quantities,   \* quantities a request may name
    Setups,       \* the items and traffic to consider, see Setup
    MaxReceipts,  \* bound: receipt rows
    MaxVersion    \* bound: no write starts on a row of this version

Houses == Range(Warehouses)
Locs   == Outlets \cup Houses

\* Adjust writes under the row's version; Relative adds inside the UPDATE.
Adjust   == {"adjust", "override"}
Relative == {"sell", "reverse"}
External == {"adjust", "override", "clear", "receive", "withdraw",
             "reset", "empty"}
Ops      == Relative \cup External \cup {"transfer", "drain"}

\* A laundry supply may run short; `rows` are the locations that stock the
\* item at the start; `ops` are the operations in use; serial requests do not
\* overlap.
Setup == [item: {"retail", "supply"}, rows: SUBSET Locs, ops: SUBSET Ops,
          traffic: {"serial", "overlapping"}]

ASSUME StockAssumption ==
    /\ Main \in Outlets /\ Sales # {} /\ Warehouses \in Seq(Houses) /\ IsInjective(Warehouses)
    /\ IsFiniteSet(Locs) /\ IsFiniteSet(Sales)
    /\ Outlets \cap Houses = {} /\ Setups \subseteq Setup
    /\ Opening \in Nat \ {0} /\ Quantities \subseteq Nat \ {0}
    /\ MaxReceipts \in Nat /\ MaxVersion \in Nat

VARIABLES
    setup,   \* the setup of this behaviour
    bal,     \* availableQuantity of each location (0 without a row)
    rows,    \* locations with a balance row
    ver,     \* version of each balance row
    rec,     \* receipt rows; a deleted one has quantity 0
    moved,   \* history: opening stock and movement deltas of each location
    outside, \* history: opening stock and net stock-in, sales left out
    sale,    \* the sales of the item
    active,  \* TRUE until the warehouses are deactivated
    tx       \* the plan each worker is about to commit

vars == <<setup, bal, rows, ver, rec, moved, outside, sale, active, tx>>

SaleRow == [state: {"unrung", "open", "reversed"}, outlet: Outlets, qty: Nat]
Receipt == [loc: Locs, qty: Nat, date: Nat]

\* at: balance rows written; delta: their movements; seen, version: the
\* snapshot; use: new quantity of receipts read; wipe: locations whose
\* receipts are all deleted; add: receipts created.
NoPlan == [op |-> "idle", id |-> CHOOSE s \in Sales : TRUE, outlet |-> Main,
           qty |-> 0, at |-> {}, delta |-> [l \in Locs |-> 0],
           seen |-> [l \in Locs |-> 0], version |-> [l \in Locs |-> 0],
           use |-> <<>>, wipe |-> {}, add |-> <<>>]

TypeOK ==
    /\ setup \in Setups
    /\ bal \in [Locs -> Int] /\ moved \in [Locs -> Int]
    /\ rows \subseteq Locs /\ ver \in [Locs -> Nat]
    /\ rec \in Seq(Receipt)
    /\ outside \in Int /\ active \in BOOLEAN
    /\ sale \in [Sales -> SaleRow]
    /\ \A w \in Workers :
        /\ tx[w].op \in setup.ops \cup {"idle"}
        /\ tx[w].id \in Sales /\ tx[w].outlet \in Outlets /\ tx[w].qty \in Nat
        /\ tx[w].at \subseteq Locs /\ tx[w].delta \in [Locs -> Int]
        /\ tx[w].seen \in [Locs -> Int] /\ tx[w].version \in [Locs -> Nat]
        /\ tx[w].wipe \subseteq Locs /\ tx[w].add \in Seq(Receipt)
        /\ \A i \in DOMAIN tx[w].use : i \in DOMAIN rec /\ tx[w].use[i] \in Nat

Init ==
    /\ setup \in Setups
    /\ rows = setup.rows
    /\ bal = [l \in Locs |-> IF l \in rows THEN Opening ELSE 0]
    /\ ver = [l \in Locs |-> 1]
    /\ rec = [i \in 1..Cardinality(rows) |->
               [loc |-> SetToSeq(rows)[i], qty |-> Opening, date |-> i]]
    /\ moved = bal
    /\ outside = Opening * Cardinality(rows)
    /\ sale = [s \in Sales |-> [state |-> "unrung", outlet |-> Main, qty |-> 0]]
    /\ active = TRUE
    /\ tx = [w \in Workers |-> NoPlan]

----------------------------------------------------------------------------
(* Quantities and layers *)

Pos(x)       == IF x > 0 THEN x ELSE 0
Lesser(a, b) == IF a <= b THEN a ELSE b
Total(f, S)  == SumOver(f, S)
Qty          == [i \in DOMAIN rec |-> rec[i].qty]
Layers(l)    == {i \in DOMAIN rec : rec[i].loc = l /\ rec[i].qty > 0}
Held(l)      == Total(Qty, Layers(l))

Older(i, j) == rec[i].date < rec[j].date \/ (rec[i].date = rec[j].date /\ i < j)
Fifo(l)     == SetToSortSeq(Layers(l), Older)

\* FIFO depletion: the receipts that n units are drawn from and what is left
\* in each; Ahead is what the older layers of the location hold.
Ahead(i) == Total(Qty, {j \in Layers(rec[i].loc) : Older(j, i)})
Drawn(l, n) == [i \in {j \in Layers(l) : Ahead(j) < n} |->
                Pos(rec[i].qty - (n - Ahead(i)))]
\* Mutant: an override or a clearance leaves the receipts it read.
LeftAlone(l) == [i \in {} |-> 0]
Emptied(l) == [i \in Layers(l) |-> 0]

AfterDebt(prev, delta) == Lesser(delta, Pos(prev + delta))

\* A transfer's layers pay the destination's debt oldest first; those that
\* are left with nothing create no receipt.
Settle(prev, layers) ==
    LET qty(k)  == layers[k].qty
        paid(k) == Total([j \in DOMAIN layers |-> qty(j)], 1..(k - 1))
        kept    == [k \in DOMAIN layers |->
                    [layers[k] EXCEPT !.qty = Pos(@ - Pos(Pos(-prev) - paid(k)))]]
    IN  SelectSeq(kept, LAMBDA layer : layer.qty > 0)

Now == Len(rec) + 1
New(l, n) == IF n > 0 THEN <<[loc |-> l, qty |-> n, date |-> Now]>> ELSE <<>>

----------------------------------------------------------------------------
(* The steps of a request *)

Plan(op, at, delta) ==
    [NoPlan EXCEPT !.op = op, !.at = at, !.seen = bal, !.version = ver,
                   !.delta = [l \in Locs |-> IF l \in at THEN delta[l] ELSE 0]]

\* A worker may take operation op now.
Ready(w, op) ==
    /\ op \in setup.ops /\ tx[w] = NoPlan
    /\ setup.traffic = "serial" => \A v \in Workers : tx[v] = NoPlan

Begin(w, p) ==
    /\ Ready(w, p.op)
    /\ Len(rec) + Len(p.add) <= MaxReceipts
    /\ p.op # "reverse" => \A l \in p.at : ver[l] <= MaxVersion
    /\ tx' = [tx EXCEPT ![w] = p]
    /\ UNCHANGED <<setup, bal, rows, ver, rec, moved, outside, sale, active>>

\* The new balance of a location that plan p writes.
\* Mutant: a sale writes the balance it computed from its snapshot.
WrittenAbsolute(p, l) == p.seen[l] + p.delta[l]
Written(p, l) == (IF p.op \in Relative THEN bal[l] ELSE p.seen[l]) + p.delta[l]

\* Deleting a receipt is final: a later quantity written to it shows nowhere.
Depleted(p) ==
    [i \in DOMAIN rec |->
        [rec[i] EXCEPT !.qty = IF @ = 0 \/ rec[i].loc \in p.wipe THEN 0
                               ELSE IF i \in DOMAIN p.use THEN p.use[i] ELSE @]]

\* The conditions in the WHERE of the writes: the version an adjustment read,
\* the status a reversal claims.
\* Mutant: a reversal does not claim the sale.
Unclaimed(p) == p.op \in Adjust => \A l \in p.at : ver[l] = p.version[l]
Holds(p) ==
    /\ p.op \in Adjust => \A l \in p.at : ver[l] = p.version[l]
    /\ p.op = "reverse" => sale[p.id].state = "open"

Bumped(p) ==
    CASE p.op = "reverse" -> {}
      [] p.op \in Adjust  -> p.at
      [] OTHER            -> p.at \cap rows

Commit(w) ==
    LET p == tx[w] IN
    /\ p.op # "idle" /\ Holds(p)
    /\ bal' = [l \in Locs |-> IF l \in p.at THEN Written(p, l) ELSE bal[l]]
    /\ moved' = [l \in Locs |-> moved[l] + p.delta[l]]
    /\ rows' = rows \cup p.at
    /\ ver' = [l \in Locs |-> IF l \in Bumped(p) THEN ver[l] + 1 ELSE ver[l]]
    /\ rec' = Depleted(p) \o p.add
    /\ outside' = IF p.op \in External THEN outside + Total(p.delta, p.at) ELSE outside
    /\ sale' = CASE p.op = "sell" ->
                   [sale EXCEPT ![p.id] = [state |-> "open", outlet |-> p.outlet,
                                           qty |-> p.qty]]
                 [] p.op = "reverse" -> [sale EXCEPT ![p.id] = [@ EXCEPT !.state = "reversed"]]
                 [] OTHER -> sale
    /\ tx' = [tx EXCEPT ![w] = NoPlan]
    /\ UNCHANGED <<setup, active>>

\* Refused by Holds, chosen as a deadlock's victim, or cut off by a crash.
Abort(w) ==
    /\ tx[w].op # "idle"
    /\ tx' = [tx EXCEPT ![w] = NoPlan]
    /\ UNCHANGED <<setup, bal, rows, ver, rec, moved, outside, sale, active>>

----------------------------------------------------------------------------
(* Sales *)

OpenHouses == IF active THEN Warehouses ELSE <<>>

\* Outlet first, then the warehouses by id; or one of them by an override.
Sources(o) == {<<o>> \o OpenHouses, <<o>>} \cup {<<h>> : h \in Range(OpenHouses)}

Avail(l) == Pos(bal[l])

\* How a sale of n units falls on its sources: in their order, each giving
\* what it has before the next is asked; a supply's shortfall is charged to
\* the first.
Splits(src, n) ==
    {take \in [Locs -> 0..n] :
        /\ \A l \in Locs : take[l] > 0 => l \in Range(src)
        /\ Total(take, Locs) = n
        /\ \A i \in 2..Len(src) :
            /\ take[src[i]] <= Avail(src[i])
            /\ take[src[i]] > 0 =>
                  \A j \in 1..(i - 1) : take[src[j]] >= Avail(src[j])
        /\ take[src[1]] > Avail(src[1]) =>
              \A i \in 2..Len(src) : take[src[i]] = Avail(src[i])}

Sellable(src, n, take) ==
    \/ setup.item = "supply"
    \/ /\ Range(src) \cap rows # {} /\ Total(bal, Range(src)) >= n
       /\ \A l \in Range(src) : take[l] <= Avail(l)

Sell(w, s, o) ==
    /\ sale[s].state = "unrung" /\ \A v \in Workers : tx[v].op = "sell" => tx[v].id # s
    /\ \E src \in Sources(o), n \in Quantities : \E take \in Splits(src, n) :
        /\ Sellable(src, n, take)
        /\ LET at   == {l \in Locs : take[l] > 0}
               used == UNION {DOMAIN Drawn(l, Lesser(take[l], Avail(l))) : l \in at}
           IN  Begin(w, [Plan("sell", at, [l \in Locs |-> -take[l]]) EXCEPT
                          !.id = s, !.outlet = o, !.qty = n,
                          !.use = [i \in used |->
                              LET l == rec[i].loc IN Drawn(l, Lesser(take[l], Avail(l)))[i]]])

\* Void, return and refund restore the balance of the selling outlet, if it
\* has a row, and no receipt.
VoidSale(w, s) ==
    LET o == sale[s].outlet IN
    /\ sale[s].state = "open"
    /\ Begin(w, [Plan("reverse", {o} \cap rows, [l \in Locs |-> sale[s].qty]) EXCEPT
                   !.id = s])

----------------------------------------------------------------------------
(* Outlet stock: stockAdjustment and clearStock *)

\* A missing row is created; a client with a stale version is refused here.
AdjustUp(w, o, n) ==
    Begin(w, [Plan("adjust", {o}, [l \in Locs |-> n]) EXCEPT
               !.add = New(o, AfterDebt(bal[o], n))])

AdjustDown(w, o, n) ==
    /\ Held(o) >= n
    /\ Begin(w, [Plan("adjust", {o}, [l \in Locs |-> -n]) EXCEPT !.use = Drawn(o, n)])

Override(w, o, n) ==
    Begin(w, [Plan("override", {o}, [l \in Locs |-> n - bal[l]]) EXCEPT
               !.use = Emptied(o), !.add = New(o, n)])

\* The receipts deleted are the ones read.
ClearOutlet(w, o) ==
    /\ o \in rows
    /\ Begin(w, [Plan("clear", {o}, [l \in Locs |-> -bal[l]]) EXCEPT !.use = Emptied(o)])

----------------------------------------------------------------------------
(* Warehouse stock and transfers: the location engine *)

\* consumeFIFO refuses what the balance does not cover; what the receipts do
\* not cover becomes a layer of its own, received now.
Consumable(l, n) == l \in rows /\ bal[l] >= n

\* Mutant: the layers consumed arrive as received now.
ConsumedUndated(l, n) == New(l, n)
Consumed(l, n) ==
    LET left == Drawn(l, n)
        used == SelectSeq(Fifo(l), LAMBDA i : i \in DOMAIN left)
        qty(i) == rec[i].qty - left[i]
    IN  [k \in DOMAIN used |-> [rec[used[k]] EXCEPT !.qty = qty(used[k])]]
            \o New(l, n - Total([i \in DOMAIN left |-> qty(i)], DOMAIN left))

At(layers, l) == [k \in DOMAIN layers |-> [layers[k] EXCEPT !.loc = l]]

Receive(w, h, n) ==
    /\ active
    /\ Begin(w, [Plan("receive", {h}, [l \in Locs |-> n]) EXCEPT
                   !.add = Settle(bal[h], New(h, n))])

Withdraw(w, h, n) ==
    /\ active /\ Consumable(h, n)
    /\ Begin(w, [Plan("withdraw", {h}, [l \in Locs |-> -n]) EXCEPT !.use = Drawn(h, n)])

\* clearLocation deletes every receipt there is at the commit.
Reset(w, h, n) ==
    /\ active /\ (h \in rows \/ n > 0)
    /\ Begin(w, [Plan("reset", {h}, [l \in Locs |-> n - bal[l]]) EXCEPT
                   !.wipe = {h} \cap rows, !.add = New(h, n)])

Empty(w, h) ==
    /\ active /\ h \in rows
    /\ Begin(w, [Plan("empty", {h}, [l \in Locs |-> -bal[l]]) EXCEPT !.wipe = {h}])

Transfer(w, a, b, n) ==
    /\ a # b /\ ~(a \in Outlets /\ b \in Outlets)
    /\ active /\ Consumable(a, n)
    /\ Begin(w, [Plan("transfer", {a, b}, [l \in Locs |-> IF l = a THEN -n ELSE n]) EXCEPT
                   !.use = Drawn(a, n), !.add = Settle(bal[b], At(Consumed(a, n), b))])

\* The downgrade's drain is set-based SQL under locking reads: a
\* worker takes it in one step.
\* Positive balances and all receipts go to Main, then the warehouses close.
Drainable == {h \in Houses \cap rows : bal[h] > 0}

Drain(w) ==
    LET from  == Drainable
        goods == Total(bal, from)
        into  == IF from = {} THEN {} ELSE {Main}
        gone  == IF from = {} THEN {} ELSE UNION {Layers(h) : h \in Houses}
        kept  == SetToSortSeq(gone, <)
        delta == [l \in Locs |-> IF l \in into THEN goods
                                 ELSE IF l \in from THEN -bal[l] ELSE 0]
    IN
    /\ active /\ Ready(w, "drain")
    /\ Len(rec) + Len(kept) <= MaxReceipts
    /\ bal' = [l \in Locs |-> bal[l] + delta[l]]
    /\ moved' = [l \in Locs |-> moved[l] + delta[l]]
    /\ rows' = rows \cup into
    /\ ver' = [l \in Locs |-> IF l \in (from \cup into) \cap rows THEN ver[l] + 1 ELSE ver[l]]
    /\ rec' = [i \in DOMAIN rec |-> [rec[i] EXCEPT !.qty = IF i \in gone THEN 0 ELSE @]]
               \o [k \in DOMAIN kept |-> [rec[kept[k]] EXCEPT !.loc = Main]]
    /\ active' = FALSE
    /\ UNCHANGED <<setup, outside, sale, tx>>

Next ==
    \E w \in Workers :
        \/ Drain(w)
        \/ \E s \in Sales : VoidSale(w, s) \/ \E o \in Outlets : Sell(w, s, o)
        \/ \E o \in Outlets : ClearOutlet(w, o)
        \/ \E o \in Outlets, n \in Quantities : AdjustUp(w, o, n) \/ AdjustDown(w, o, n)
        \/ \E o \in Outlets, n \in Quantities \cup {0} : Override(w, o, n)
        \/ \E h \in Houses : Empty(w, h)
        \/ \E h \in Houses, n \in Quantities : Receive(w, h, n) \/ Withdraw(w, h, n)
        \/ \E h \in Houses, n \in Quantities \cup {0} : Reset(w, h, n)
        \/ \E a, b \in Locs, n \in Quantities : Transfer(w, a, b, n)
        \/ Commit(w)
        \/ Abort(w)

Spec == Init /\ [][Next]_vars

----------------------------------------------------------------------------
(* Properties *)

\* Traffic in which every balance write that overlaps another one is relative
\* or versioned: voids do not move the version on, and a row that does not
\* exist has none.
Ordered ==
    \/ setup.traffic = "serial"
    \/ setup.ops \subseteq Relative \cup {"drain"}
    \/ setup.ops \subseteq {"sell", "drain"} \cup Adjust /\ setup.rows = Locs

\* Opening stock and movements of a location add up to its balance: the
\* movement reports explain the stock shown.
LedgerAgrees == Ordered => \A l \in Locs : bal[l] = moved[l]

\* The receipt layers of a location hold no more than its balance, and
\* nothing while it is in debt, so no layer prices stock that is not there.
\* (Serial requests; a downgrade's drain into a debt breaks it, see below.)
ReceiptsWithinBalance ==
    setup.traffic = "serial" /\ (setup.item = "retail" \/ active)
        => \A l \in Locs : Held(l) <= Pos(bal[l])

\* Over all locations, the stock is what came from outside less the sales
\* that stand: a sale takes its quantity once and a reversal restores it
\* once; transfers and the drain neither make nor lose stock.  (A reversal
\* restores nothing to an outlet without a balance row.)
SoldQty == [s \in Sales |-> sale[s].qty]
Standing == {s \in Sales : sale[s].state = "open"}
StockAccounted ==
    Outlets \subseteq setup.rows =>
        Total(moved, Locs) = outside - Total(SoldQty, Standing)

\* The movements explain the stock: at each location what is shown, and over
\* all of them what came in and was sold.
StockExplained == LedgerAgrees /\ StockAccounted

\* Only a laundry supply is sold below zero, when requests do not overlap.
NoOversell ==
    setup.traffic = "serial" /\ setup.item = "retail" => \A l \in Locs : bal[l] >= 0

\* Stock leaves a location oldest layer first: a younger layer is touched
\* only in a step that leaves nothing of the older ones.
OldestFirst ==
    [][setup.traffic = "serial" =>
         \A i, j \in DOMAIN rec :
           /\ rec[i].loc = rec[j].loc /\ rec[i].date < rec[j].date
           /\ rec'[j].qty < rec[j].qty
           => rec'[i].qty = 0]_vars

\* Moving stock keeps the age of every layer, and with it the cost of the
\* goods sold later: over all locations, the quantity of each receipt date
\* is the same before and after, but for what pays the debt of a supply.
OfDate(d) == Total(Qty, {i \in DOMAIN rec : rec[i].date = d})
LayersSurviveMoves ==
    [][/\ setup.traffic = "serial" /\ setup.item = "retail"
       /\ \/ active' # active
          \/ \E w \in Workers : tx[w].op = "transfer" /\ tx'[w] = NoPlan
       => \A d \in 1..Len(rec) : OfDate(d)' = OfDate(d)]_vars

\* First in, first out, through every transfer.
LayersInOrder == OldestFirst /\ LayersSurviveMoves
=============================================================================
