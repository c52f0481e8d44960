------------------------- MODULE StockLedgerProofs -------------------------
(***************************************************************************)
(* Proofs about StockLedger, for any number of locations, sales and        *)
(* workers: the movements account for the balance of each location when    *)
(* every write that overlaps another is relative or versioned; all of them *)
(* together account for what came in and what was sold, whatever overlaps; *)
(* and only a supply is sold below zero when requests do not overlap.      *)
(* After them, proofs about Catalogue.                                     *)
(***************************************************************************)
EXTENDS StockLedger, Catalogue, SumLemmas

Serial == setup.traffic = "serial"

\* A worker never holds a drain: that is one step.
PlanOK(p) ==
    /\ p.op \in (setup.ops \ {"drain"}) \cup {"idle"} /\ p.id \in Sales
    /\ p.outlet \in Outlets /\ p.qty \in Nat
    /\ p.at \subseteq Locs /\ p.delta \in [Locs -> Int]
    /\ p.seen \in [Locs -> Int] /\ p.version \in [Locs -> Nat]
    /\ \A l \in Locs \ p.at : p.delta[l] = 0
    /\ p.op = "idle" => p.at = {}

\* The part of TypeOK that balances and movements rest on.
LedgerType ==
    /\ setup \in Setups
    /\ bal \in [Locs -> Int] /\ moved \in [Locs -> Int]
    /\ rows \subseteq Locs /\ setup.rows \subseteq rows /\ ver \in [Locs -> Nat]
    /\ outside \in Int /\ sale \in [Sales -> SaleRow]
    /\ DOMAIN tx = Workers /\ \A w \in Workers : PlanOK(tx[w])

\* A plan knows the balance of a row whose version has not moved on, and
\* without overlap none has.
Tracks ==
    \A w \in Workers : \A l \in tx[w].at :
        /\ tx[w].op \notin Relative =>
              /\ tx[w].version[l] <= ver[l]
              /\ ver[l] = tx[w].version[l] => bal[l] = tx[w].seen[l]
        /\ Serial => ver[l] = tx[w].version[l] /\ bal[l] = tx[w].seen[l]

\* Serial requests do not overlap.
Alone ==
    Serial => \A v, w \in Workers : tx[v].op # "idle" /\ tx[w].op # "idle" => v = w

Matches == \A l \in Locs : bal[l] = moved[l]

Core == LedgerType /\ Tracks /\ Alone /\ Matches

\* What a plan will do to the stock and the sales that stand: a sale takes its
\* quantity, a reversal restores what was sold, a transfer neither makes nor
\* loses stock.
Balances(p) ==
    /\ p.op = "sell" => /\ sale[p.id].state = "unrung"
                        /\ Total(p.delta, Locs) = -p.qty
    /\ p.op = "reverse" => /\ sale[p.id].state # "unrung"
                           /\ Total(p.delta, Locs) = sale[p.id].qty
    /\ p.op = "transfer" => Total(p.delta, Locs) = 0

\* No sale is rung up twice at once.
SalesApart ==
    \A v, w \in Workers :
        tx[v].op = "sell" /\ tx[w].op = "sell" /\ tx[v].id = tx[w].id => v = w

Stocked  == Outlets \subseteq setup.rows
Accounts == (\A w \in Workers : Balances(tx[w])) /\ SalesApart /\ StockAccounted

IInv == LedgerType /\ (Ordered => Core) /\ (Stocked => Accounts)

\* The steps that begin a request.
Starts(w) ==
    \/ \E s \in Sales : VoidSale(w, s) \/ \E o \in Outlets : Sell(w, s, o)
    \/ \E o \in Outlets : ClearOutlet(w, o)
    \/ \E o \in Outlets, n \in Quantities : AdjustUp(w, o, n) \/ AdjustDown(w, o, n)
    \/ \E o \in Outlets, n \in Quantities \cup {0} : Override(w, o, n)
    \/ \E h \in Houses : Empty(w, h)
    \/ \E h \in Houses, n \in Quantities : Receive(w, h, n) \/ Withdraw(w, h, n)
    \/ \E h \in Houses, n \in Quantities \cup {0} : Reset(w, h, n)
    \/ \E a, b \in Locs, n \in Quantities : Transfer(w, a, b, n)

\* What a plan takes its row to, when the row is as it was read.
Covered(p) == setup.item = "retail" /\ "adjust" \notin setup.ops =>
                \A l \in p.at : bal[l] >= 0 => bal[l] + p.delta[l] >= 0

\* A plan that Begin accepts comes from the snapshot and is well formed.
Sound(p) ==
    /\ Stocked => Balances(p)
    /\ p.op = "sell" => \A v \in Workers : tx[v].op = "sell" => tx[v].id # p.id
Fresh(p) == PlanOK(p) /\ p.seen = bal /\ p.version = ver /\ Covered(p) /\ Sound(p)

\* What Plan(op, at, delta) is made of, however the remaining fields are set.
MadeOf(p, op, at, delta) ==
    /\ p.op = op /\ p.at = at /\ p.seen = bal /\ p.version = ver
    /\ p.delta = [l \in Locs |-> IF l \in at THEN delta[l] ELSE 0]
    /\ p.id \in Sales /\ p.outlet \in Outlets /\ p.qty \in Nat

LEMMA LocsFinite == IsFiniteSet(Locs) /\ IsFiniteSet(Sales) /\ Outlets \subseteq Locs
  BY StockAssumption DEF Locs

LEMMA PlanShape ==
    ASSUME LedgerType, NEW w \in Workers, NEW p, Begin(w, p),
           NEW op, NEW at \in SUBSET Locs, NEW delta \in [Locs -> Int],
           MadeOf(p, op, at, delta),
           setup.item = "retail" /\ "adjust" \notin setup.ops =>
             \A l \in at : bal[l] >= 0 => bal[l] + delta[l] >= 0,
           op \in External \/ (op \in Relative \cup {"transfer"} /\ Sound(p))
    PROVE  \E q : Begin(w, q) /\ Fresh(q)
<1>1. p.op \in setup.ops /\ p.op \notin {"idle", "drain"}
  BY DEF Begin, Ready, MadeOf, Relative, External
<1>2. p.delta \in [Locs -> Int] /\ \A l \in at : p.delta[l] = delta[l]
  BY DEF MadeOf
<1>3. PlanOK(p)
  BY <1>1, <1>2 DEF PlanOK, MadeOf, LedgerType
<1>4. Covered(p)
  BY <1>2 DEF Covered, MadeOf
<1>5. Sound(p)
  BY DEF MadeOf, External, Relative, Sound, Balances
<1>6. Fresh(p)
  BY <1>3, <1>4, <1>5 DEF Fresh, MadeOf
<1>7. QED
  BY <1>6

LEMMA NoPlanMade ==
    /\ NoPlan.op = "idle" /\ NoPlan.at = {}
    /\ NoPlan.id \in Sales /\ NoPlan.outlet \in Outlets /\ NoPlan.qty \in Nat
<1>1. (CHOOSE s \in Sales : TRUE) \in Sales
  BY StockAssumption
<1>2. QED
  BY StockAssumption, <1>1 DEF NoPlan

LEMMA NoPlanOK == ASSUME setup \in Setups PROVE PlanOK(NoPlan)
BY StockAssumption, NoPlanMade DEF NoPlan, PlanOK

LEMMA VoidShape ==
    ASSUME LedgerType, NEW w \in Workers, NEW s \in Sales, VoidSale(w, s)
    PROVE  \E p : Begin(w, p) /\ Fresh(p)
<1> DEFINE o     == sale[s].outlet
           at    == {o} \cap rows
           delta == [l \in Locs |-> sale[s].qty]
           p     == [Plan("reverse", at, delta) EXCEPT !.id = s]
<1>1. /\ Begin(w, p) /\ at \in SUBSET Locs /\ delta \in [Locs -> Int]
      /\ sale[s].qty \in Nat /\ sale[s].state = "open" /\ o \in Outlets
  BY DEF VoidSale, LedgerType, SaleRow
<1>2. MadeOf(p, "reverse", at, delta) /\ p.id = s
  BY NoPlanMade DEF MadeOf, Plan, NoPlan
<1>3. \A l \in at : bal[l] >= 0 => bal[l] + delta[l] >= 0
  BY <1>1 DEF LedgerType
<1>4. ASSUME Stocked PROVE Total(p.delta, Locs) = sale[s].qty
  <2>1. o \in Locs /\ at = {o}
    BY <1>1, <1>4, LocsFinite DEF Stocked, LedgerType
  <2>2. \A l \in Locs : delta[l] = sale[s].qty /\ sale[s].qty \in Int
    BY <1>1
  <2> HIDE DEF p, at, delta
  <2>3. \A l \in Locs : p.delta[l] = IF l = o THEN sale[s].qty ELSE 0
    BY <1>2, <2>1, <2>2 DEF MadeOf
  <2>4. /\ p.delta[o] = sale[s].qty /\ p.delta[o] \in Int
        /\ \A l \in Locs \ {o} : p.delta[l] = 0
        /\ \A l \in Locs : p.delta[l] \in Int
    BY <2>1, <2>2, <2>3
  <2> HIDE DEF o
  <2>5. SumOver(p.delta, Locs) = SumOver(p.delta, {o})
    BY <2>1, <2>4, LocsFinite, SumOverPart
  <2>6. SumOver(p.delta, {o}) = p.delta[o]
    BY <2>4, SumOverOne
  <2>7. QED
    BY <2>4, <2>5, <2>6 DEF Total
<1>5. Sound(p)
  BY <1>1, <1>2, <1>4 DEF Sound, Balances, MadeOf
<1> HIDE DEF p, at, delta
<1>6. QED
  BY <1>1, <1>2, <1>3, <1>5, PlanShape DEF Relative

LEMMA SellShape ==
    ASSUME LedgerType, NEW w \in Workers, NEW s \in Sales,
           NEW o \in Outlets, Sell(w, s, o)
    PROVE  \E p : Begin(w, p) /\ Fresh(p)
<1>1. PICK src \in Sources(o), n \in Quantities : \E take \in Splits(src, n) :
        /\ Sellable(src, n, take)
        /\ \E use : Begin(w, [Plan("sell", {l \in Locs : take[l] > 0},
                                  [l \in Locs |-> -take[l]]) EXCEPT
                             !.id = s, !.outlet = o, !.qty = n, !.use = use])
  BY DEF Sell
<1>2. PICK take, use :
        /\ take \in Splits(src, n) /\ Sellable(src, n, take)
        /\ Begin(w, [Plan("sell", {l \in Locs : take[l] > 0},
                          [l \in Locs |-> -take[l]]) EXCEPT
                     !.id = s, !.outlet = o, !.qty = n, !.use = use])
  BY <1>1
<1> DEFINE at    == {l \in Locs : take[l] > 0}
           delta == [l \in Locs |-> -take[l]]
           p     == [Plan("sell", at, delta) EXCEPT
                       !.id = s, !.outlet = o, !.qty = n, !.use = use]
<1>3. /\ n \in Nat /\ take \in [Locs -> 0..n]
      /\ \A l \in Locs : take[l] > 0 => l \in Range(src)
  BY StockAssumption, <1>2 DEF Splits
<1>4. Begin(w, p) /\ at \in SUBSET Locs /\ delta \in [Locs -> Int]
  BY <1>2, <1>3
<1>5. MadeOf(p, "sell", at, delta) /\ p.id = s /\ p.qty = n
  BY <1>3 DEF MadeOf, Plan, NoPlan
<1>6. setup.item = "retail" => \A l \in at : bal[l] >= 0 => bal[l] + delta[l] >= 0
  <2> SUFFICES ASSUME setup.item = "retail", NEW l \in at, bal[l] >= 0
               PROVE  bal[l] + delta[l] >= 0
    OBVIOUS
  <2>1. take[l] <= Avail(l)
    BY <1>2, <1>3 DEF Sellable
  <2>2. QED
    BY <2>1, <1>3 DEF Avail, Pos, LedgerType
<1>7. Total(p.delta, Locs) = -n
  <2>1. \A l \in Locs : take[l] \in Nat /\ p.delta[l] = -take[l]
    BY <1>3, <1>5 DEF MadeOf
  <2> DEFINE zero == [l \in Locs |-> 0]
  <2> HIDE DEF p, at, delta
  <2>2. \A l \in Locs : take[l] \in Int /\ p.delta[l] \in Int
                          /\ zero[l] = take[l] + p.delta[l]
    BY <2>1
  <2>3. SumOver(zero, Locs) = SumOver(take, Locs) + SumOver(p.delta, Locs)
    <3> HIDE DEF zero
    <3>1. QED
      BY <2>2, LocsFinite, SumOverPlus
  <2>4. SumOver(zero, Locs) = 0
    <3>1. \A l \in Locs : zero[l] = 0
      OBVIOUS
    <3> HIDE DEF zero
    <3>2. QED
      BY <3>1, LocsFinite, SumOverZero
  <2>5. SumOver(take, Locs) = n
    BY <1>2 DEF Splits, Total
  <2>6. SumOver(p.delta, Locs) \in Int
    BY <2>2, LocsFinite, SumOverInt
  <2>7. QED
    BY <1>3, <2>3, <2>4, <2>5, <2>6 DEF Total
<1>8. Sound(p)
  BY <1>5, <1>7 DEF Sell, Sound, Balances, MadeOf
<1> HIDE DEF p, at, delta
<1>9. QED
  BY <1>4, <1>5, <1>6, <1>8, PlanShape DEF Relative

LEMMA AdjustUpShape ==
    ASSUME LedgerType, NEW w \in Workers, NEW o \in Outlets, NEW n \in Quantities, AdjustUp(w, o, n)
    PROVE  \E p : Begin(w, p) /\ Fresh(p)
<1> DEFINE at    == {o}
           delta == [l \in Locs |-> n]
           p     == [Plan("adjust", at, delta) EXCEPT !.add = New(o, AfterDebt(bal[o], n))]
<1>1. Begin(w, p) /\ at \in SUBSET Locs /\ delta \in [Locs -> Int]
  BY StockAssumption DEF AdjustUp, Locs, LedgerType
<1>2. MadeOf(p, "adjust", at, delta)
  BY NoPlanMade DEF MadeOf, Plan, NoPlan
<1>3. setup.item = "retail" /\ "adjust" \notin setup.ops =>
        \A l \in at : bal[l] >= 0 => bal[l] + delta[l] >= 0
  BY <1>1, <1>2 DEF Begin, Ready, MadeOf
<1> HIDE DEF p, at, delta
<1>4. QED
  BY <1>1, <1>2, <1>3, PlanShape DEF External

LEMMA AdjustDownShape ==
    ASSUME LedgerType, NEW w \in Workers, NEW o \in Outlets, NEW n \in Quantities, AdjustDown(w, o, n)
    PROVE  \E p : Begin(w, p) /\ Fresh(p)
<1> DEFINE at    == {o}
           delta == [l \in Locs |-> -n]
           p     == [Plan("adjust", at, delta) EXCEPT !.use = Drawn(o, n)]
<1>1. Begin(w, p) /\ at \in SUBSET Locs /\ delta \in [Locs -> Int]
  BY StockAssumption DEF AdjustDown, Locs, LedgerType
<1>2. MadeOf(p, "adjust", at, delta)
  BY NoPlanMade DEF MadeOf, Plan, NoPlan
<1>3. setup.item = "retail" /\ "adjust" \notin setup.ops =>
        \A l \in at : bal[l] >= 0 => bal[l] + delta[l] >= 0
  BY <1>1, <1>2 DEF Begin, Ready, MadeOf
<1> HIDE DEF p, at, delta
<1>4. QED
  BY <1>1, <1>2, <1>3, PlanShape DEF External

LEMMA OverrideShape ==
    ASSUME LedgerType, NEW w \in Workers, NEW o \in Outlets, NEW n \in Quantities \cup {0}, Override(w, o, n)
    PROVE  \E p : Begin(w, p) /\ Fresh(p)
<1> DEFINE at    == {o}
           delta == [l \in Locs |-> n - bal[l]]
           p     == [Plan("override", at, delta) EXCEPT !.use = Emptied(o), !.add = New(o, n)]
<1>1. Begin(w, p) /\ at \in SUBSET Locs /\ delta \in [Locs -> Int]
  BY StockAssumption DEF Override, Locs, LedgerType
<1>2. MadeOf(p, "override", at, delta)
  BY NoPlanMade DEF MadeOf, Plan, NoPlan
<1>3. setup.item = "retail" /\ "adjust" \notin setup.ops =>
        \A l \in at : bal[l] >= 0 => bal[l] + delta[l] >= 0
  <2>1. n \in Nat
    <3>1. Quantities \subseteq Nat
      BY StockAssumption
    <3>2. QED
      BY <3>1
  <2>2. o \in Locs
    BY DEF Locs
  <2>3. bal[o] \in Int
    BY <2>2 DEF LedgerType
  <2>4. QED
    BY <2>1, <2>2, <2>3
<1> HIDE DEF p, at, delta
<1>4. QED
  BY <1>1, <1>2, <1>3, PlanShape DEF External

LEMMA ClearOutletShape ==
    ASSUME LedgerType, NEW w \in Workers, NEW o \in Outlets, ClearOutlet(w, o)
    PROVE  \E p : Begin(w, p) /\ Fresh(p)
<1> DEFINE at    == {o}
           delta == [l \in Locs |-> -bal[l]]
           p     == [Plan("clear", at, delta) EXCEPT !.use = Emptied(o)]
<1>1. Begin(w, p) /\ at \in SUBSET Locs /\ delta \in [Locs -> Int]
  BY StockAssumption DEF ClearOutlet, Locs, LedgerType
<1>2. MadeOf(p, "clear", at, delta)
  BY NoPlanMade DEF MadeOf, Plan, NoPlan
<1>3. setup.item = "retail" /\ "adjust" \notin setup.ops =>
        \A l \in at : bal[l] >= 0 => bal[l] + delta[l] >= 0
  BY DEF LedgerType, Locs
<1> HIDE DEF p, at, delta
<1>4. QED
  BY <1>1, <1>2, <1>3, PlanShape DEF External

LEMMA EmptyShape ==
    ASSUME LedgerType, NEW w \in Workers, NEW h \in Houses, Empty(w, h)
    PROVE  \E p : Begin(w, p) /\ Fresh(p)
<1> DEFINE at    == {h}
           delta == [l \in Locs |-> -bal[l]]
           p     == [Plan("empty", at, delta) EXCEPT !.wipe = {h}]
<1>1. Begin(w, p) /\ at \in SUBSET Locs /\ delta \in [Locs -> Int]
  BY StockAssumption DEF Empty, Locs, LedgerType
<1>2. MadeOf(p, "empty", at, delta)
  BY NoPlanMade DEF MadeOf, Plan, NoPlan
<1>3. setup.item = "retail" /\ "adjust" \notin setup.ops =>
        \A l \in at : bal[l] >= 0 => bal[l] + delta[l] >= 0
  BY DEF LedgerType, Locs
<1> HIDE DEF p, at, delta
<1>4. QED
  BY <1>1, <1>2, <1>3, PlanShape DEF External

LEMMA ReceiveShape ==
    ASSUME LedgerType, NEW w \in Workers, NEW h \in Houses, NEW n \in Quantities, Receive(w, h, n)
    PROVE  \E p : Begin(w, p) /\ Fresh(p)
<1> DEFINE at    == {h}
           delta == [l \in Locs |-> n]
           p     == [Plan("receive", at, delta) EXCEPT !.add = Settle(bal[h], New(h, n))]
<1>1. Begin(w, p) /\ at \in SUBSET Locs /\ delta \in [Locs -> Int]
  BY StockAssumption DEF Receive, Locs, LedgerType
<1>2. MadeOf(p, "receive", at, delta)
  BY NoPlanMade DEF MadeOf, Plan, NoPlan
<1>3. setup.item = "retail" /\ "adjust" \notin setup.ops =>
        \A l \in at : bal[l] >= 0 => bal[l] + delta[l] >= 0
  BY StockAssumption DEF LedgerType, Locs
<1> HIDE DEF p, at, delta
<1>4. QED
  BY <1>1, <1>2, <1>3, PlanShape DEF External

LEMMA WithdrawShape ==
    ASSUME LedgerType, NEW w \in Workers, NEW h \in Houses, NEW n \in Quantities, Withdraw(w, h, n)
    PROVE  \E p : Begin(w, p) /\ Fresh(p)
<1> DEFINE at    == {h}
           delta == [l \in Locs |-> -n]
           p     == [Plan("withdraw", at, delta) EXCEPT !.use = Drawn(h, n)]
<1>1. Begin(w, p) /\ at \in SUBSET Locs /\ delta \in [Locs -> Int]
  BY StockAssumption DEF Withdraw, Locs, LedgerType
<1>2. MadeOf(p, "withdraw", at, delta)
  BY NoPlanMade DEF MadeOf, Plan, NoPlan
<1>3. setup.item = "retail" /\ "adjust" \notin setup.ops =>
        \A l \in at : bal[l] >= 0 => bal[l] + delta[l] >= 0
  BY StockAssumption DEF Withdraw, Consumable, LedgerType, Locs
<1> HIDE DEF p, at, delta
<1>4. QED
  BY <1>1, <1>2, <1>3, PlanShape DEF External

LEMMA ResetShape ==
    ASSUME LedgerType, NEW w \in Workers, NEW h \in Houses, NEW n \in Quantities \cup {0}, Reset(w, h, n)
    PROVE  \E p : Begin(w, p) /\ Fresh(p)
<1> DEFINE at    == {h}
           delta == [l \in Locs |-> n - bal[l]]
           p     == [Plan("reset", at, delta) EXCEPT !.wipe = {h} \cap rows, !.add = New(h, n)]
<1>1. Begin(w, p) /\ at \in SUBSET Locs /\ delta \in [Locs -> Int]
  BY StockAssumption DEF Reset, Locs, LedgerType
<1>2. MadeOf(p, "reset", at, delta)
  BY NoPlanMade DEF MadeOf, Plan, NoPlan
<1>3. setup.item = "retail" /\ "adjust" \notin setup.ops =>
        \A l \in at : bal[l] >= 0 => bal[l] + delta[l] >= 0
  BY StockAssumption DEF LedgerType, Locs
<1> HIDE DEF p, at, delta
<1>4. QED
  BY <1>1, <1>2, <1>3, PlanShape DEF External

LEMMA TransferShape ==
    ASSUME LedgerType, NEW w \in Workers, NEW a \in Locs, NEW b \in Locs, NEW n \in Quantities, Transfer(w, a, b, n)
    PROVE  \E p : Begin(w, p) /\ Fresh(p)
<1> DEFINE at    == {a, b}
           delta == [l \in Locs |-> IF l = a THEN -n ELSE n]
           p     == [Plan("transfer", at, delta) EXCEPT !.use = Drawn(a, n), !.add = Settle(bal[b], At(Consumed(a, n), b))]
<1>1. Begin(w, p) /\ at \in SUBSET Locs /\ delta \in [Locs -> Int]
  BY StockAssumption DEF Transfer, Locs, LedgerType
<1>2. MadeOf(p, "transfer", at, delta)
  BY NoPlanMade DEF MadeOf, Plan, NoPlan
<1>3. setup.item = "retail" /\ "adjust" \notin setup.ops =>
        \A l \in at : bal[l] >= 0 => bal[l] + delta[l] >= 0
  BY StockAssumption DEF Transfer, Consumable, LedgerType, Locs
<1>4. Total(p.delta, Locs) = 0
  <2>1. /\ a # b /\ n \in Nat
        /\ \A l \in Locs : p.delta[l] = IF l = a THEN -n ELSE IF l = b THEN n ELSE 0
    BY <1>2, StockAssumption DEF Transfer, MadeOf
  <2> HIDE DEF p, at, delta
  <2>2. /\ {a, b} \in SUBSET Locs /\ IsFiniteSet({a, b}) /\ b \in {a, b}
        /\ {a, b} \ {b} = {a}
    BY <2>1, LocsFinite, FS_Subset
  <2>3. /\ \A l \in Locs : p.delta[l] \in Int
        /\ \A l \in Locs \ {a, b} : p.delta[l] = 0
        /\ p.delta[a] = -n /\ p.delta[b] = n
    BY <2>1
  <2>4. SumOver(p.delta, Locs) = SumOver(p.delta, {a, b})
    BY <2>2, <2>3, LocsFinite, SumOverPart
  <2>5. SumOver(p.delta, {a, b}) = SumOver(p.delta, {a}) + p.delta[b]
    BY <2>2, <2>3, SumOverRemove
  <2>6. SumOver(p.delta, {a}) = p.delta[a]
    BY <2>3, SumOverOne
  <2>7. QED
    BY <2>1, <2>3, <2>4, <2>5, <2>6 DEF Total
<1>5. Sound(p)
  BY <1>2, <1>4 DEF Sound, Balances, MadeOf
<1> HIDE DEF p, at, delta
<1>6. QED
  BY <1>1, <1>2, <1>3, <1>5, PlanShape

LEMMA StartShape ==
    ASSUME LedgerType, NEW w \in Workers, Starts(w)
    PROVE  \E p : Begin(w, p) /\ Fresh(p)
BY VoidShape, SellShape, ClearOutletShape, AdjustUpShape, AdjustDownShape,
   OverrideShape, EmptyShape, ReceiveShape, WithdrawShape, ResetShape, TransferShape
   DEF Starts


----------------------------------------------------------------------------
(* The drain of the warehouses, which is one step *)

Goods == Total(bal, Drainable)
Into  == IF Drainable = {} THEN {} ELSE {Main}

\* What the drain adds to each balance.
Shift == [l \in Locs |-> IF l \in Into THEN Goods
                         ELSE IF l \in Drainable THEN -bal[l] ELSE 0]

LEMMA DrainShape ==
    ASSUME LedgerType, NEW w \in Workers, Drain(w)
    PROVE  /\ Drainable \subseteq Houses /\ Drainable \subseteq Locs
           /\ Main \in Locs \ Drainable /\ Goods \in Nat
           /\ \A l \in Locs : Shift[l] \in Int
           /\ \A l \in Locs : /\ bal'[l] = bal[l] + Shift[l]
                              /\ moved'[l] = moved[l] + Shift[l]
           /\ DOMAIN bal' = Locs /\ bal' = [l \in Locs |-> bal'[l]]
           /\ DOMAIN moved' = Locs /\ moved' = [l \in Locs |-> moved'[l]]
           /\ ver' = [l \in Locs |-> IF l \in (Drainable \cup Into) \cap rows
                                     THEN ver[l] + 1 ELSE ver[l]]
           /\ rows' = rows \cup Into /\ Into \subseteq Locs
           /\ UNCHANGED <<setup, outside, sale, tx>>
<1>1. Drainable \subseteq Houses /\ Main \in Locs \ Drainable /\ Houses \subseteq Locs
  BY StockAssumption DEF Drainable, Locs
<1>2. IsFiniteSet(Drainable)
  BY <1>1, LocsFinite, FS_Subset
<1>3. \A l \in Drainable : bal[l] \in Nat
  BY <1>1 DEF LedgerType, Drainable
<1>4. Goods \in Nat
  BY <1>2, <1>3, SumOverNat DEF Goods, Total
<1>5. \A l \in Locs : bal[l] \in Int
  BY DEF LedgerType
<1>6. \A l \in Locs : Shift[l] \in Int
  BY <1>4, <1>5 DEF Shift
<1>7. /\ bal' = [l \in Locs |-> bal[l] + Shift[l]]
      /\ moved' = [l \in Locs |-> moved[l] + Shift[l]]
  BY DEF Drain, Shift, Goods, Into
<1>8. /\ ver' = [l \in Locs |-> IF l \in (Drainable \cup Into) \cap rows
                                THEN ver[l] + 1 ELSE ver[l]]
      /\ rows' = rows \cup Into /\ Into \subseteq Locs
      /\ UNCHANGED <<setup, outside, sale, tx>>
  BY <1>1 DEF Drain, Into
<1> HIDE DEF Shift
<1>9. QED
  BY <1>1, <1>4, <1>6, <1>7, <1>8

\* The drain moves what it takes: Main receives what the warehouses give.
LEMMA DrainMovesOnly ==
    ASSUME LedgerType, NEW w \in Workers, Drain(w)
    PROVE  SumOver(Shift, Locs) = 0
<1> DEFINE D == Drainable
           zero == [l \in Locs |-> 0]
<1>1. /\ D \subseteq Locs /\ Main \in Locs \ D /\ Goods \in Nat
      /\ \A l \in Locs : Shift[l] \in Int /\ bal[l] \in Int
      /\ IsFiniteSet(D)
  BY DrainShape, LocsFinite, FS_Subset DEF LedgerType
<1>2. CASE D = {}
  <2>1. \A l \in Locs : Shift[l] = 0
    BY <1>2 DEF Shift, Into
  <2>2. QED
    BY <2>1, LocsFinite, SumOverZero
<1>3. CASE D # {}
  <2>1. /\ Shift[Main] = Goods /\ \A l \in D : Shift[l] = -bal[l]
        /\ \A l \in Locs \ (D \cup {Main}) : Shift[l] = 0
    BY <1>1, <1>3 DEF Shift, Into
  <2>2. \A l \in D : bal[l] \in Int /\ Shift[l] \in Int /\ zero[l] = bal[l] + Shift[l]
    BY <1>1, <2>1
  <2>3. \A l \in D : zero[l] = 0
    BY <1>1
  <2> HIDE DEF zero, D
  <2>4. SumOver(zero, D) = SumOver(bal, D) + SumOver(Shift, D)
    BY <1>1, <2>2, SumOverPlus
  <2>5. SumOver(zero, D) = 0
    BY <1>1, <2>3, SumOverZero
  <2>6. SumOver(bal, D) = Goods
    BY DEF D, Goods, Total
  <2>7. SumOver(Shift, D) \in Int
    BY <1>1, SumOverInt
  <2>8. SumOver(Shift, D) = -Goods
    BY <1>1, <2>4, <2>5, <2>6, <2>7
  <2>9. SumOver(Shift, D \cup {Main}) = SumOver(Shift, D) + Shift[Main]
    BY <1>1, LocsFinite, SumOverAdd
  <2>10. SumOver(Shift, Locs) = SumOver(Shift, D \cup {Main})
    <3>1. D \cup {Main} \in SUBSET Locs
      BY <1>1
    <3>2. QED
      BY <1>1, <2>1, <3>1, LocsFinite, SumOverPart
  <2>11. QED
    BY <1>1, <2>1, <2>8, <2>9, <2>10
<1>4. QED
  BY <1>2, <1>3

----------------------------------------------------------------------------
(* Types *)

LEMMA NextSplits ==
    ASSUME Next
    PROVE  \E w \in Workers : Starts(w) \/ Drain(w) \/ Commit(w) \/ Abort(w)
BY DEF Next, Starts

LEMMA BeginTyped ==
    ASSUME LedgerType, NEW w \in Workers, NEW p, Begin(w, p), PlanOK(p)
    PROVE  /\ UNCHANGED <<setup, bal, rows, ver, moved, outside, sale>>
           /\ DOMAIN tx' = Workers
           /\ \A v \in Workers : tx'[v] = IF v = w THEN p ELSE tx[v]
           /\ LedgerType'
<1>1. /\ UNCHANGED <<setup, bal, rows, ver, moved, outside, sale>>
      /\ DOMAIN tx' = Workers
      /\ \A v \in Workers : tx'[v] = IF v = w THEN p ELSE tx[v]
  BY DEF Begin, LedgerType
<1>2. LedgerType'
  BY <1>1 DEF LedgerType, PlanOK
<1>3. QED
  BY <1>1, <1>2

LEMMA AbortTyped ==
    ASSUME LedgerType, NEW w \in Workers, Abort(w)
    PROVE  /\ UNCHANGED <<setup, bal, rows, ver, moved, outside, sale>>
           /\ DOMAIN tx' = Workers
           /\ \A v \in Workers : tx'[v] = IF v = w THEN NoPlan ELSE tx[v]
           /\ LedgerType'
<1>1. /\ UNCHANGED <<setup, bal, rows, ver, moved, outside, sale>>
      /\ DOMAIN tx' = Workers
      /\ \A v \in Workers : tx'[v] = IF v = w THEN NoPlan ELSE tx[v]
  BY DEF Abort, LedgerType
<1>2. PlanOK(NoPlan)
  BY NoPlanOK DEF LedgerType
<1>3. LedgerType'
  BY <1>1, <1>2 DEF LedgerType, PlanOK
<1>4. QED
  BY <1>1, <1>3

LEMMA CommitTyped ==
    ASSUME LedgerType, NEW w \in Workers, Commit(w)
    PROVE  LedgerType'
<1> DEFINE p == tx[w]
<1>1. PlanOK(p)
  BY DEF LedgerType
<1>2. bal' \in [Locs -> Int] /\ moved' \in [Locs -> Int]
  <2>1. \A l \in Locs : /\ Written(p, l) \in Int /\ bal[l] \in Int
                        /\ moved[l] + p.delta[l] \in Int
    BY <1>1 DEF LedgerType, PlanOK, Written
  <2>2. /\ bal' = [l \in Locs |-> IF l \in p.at THEN Written(p, l) ELSE bal[l]]
        /\ moved' = [l \in Locs |-> moved[l] + p.delta[l]]
    BY DEF Commit
  <2>3. QED
    BY <2>1, <2>2
<1>3. ver' \in [Locs -> Nat] /\ rows' \subseteq Locs /\ setup.rows \subseteq rows'
  BY <1>1 DEF Commit, LedgerType, PlanOK
<1>4. sale' \in [Sales -> SaleRow]
  <2>1. CASE p.op = "sell"
    BY <1>1, <2>1 DEF Commit, LedgerType, PlanOK, SaleRow
  <2>2. CASE p.op = "reverse"
    <3>1. \A r \in SaleRow : [r EXCEPT !.state = "reversed"] \in SaleRow
      BY DEF SaleRow
    <3>2. sale' = [sale EXCEPT ![p.id] = [@ EXCEPT !.state = "reversed"]]
      BY <2>2 DEF Commit
    <3>3. QED
      BY <1>1, <3>1, <3>2 DEF LedgerType, PlanOK
  <2>3. CASE p.op \notin {"sell", "reverse"}
    BY <2>3 DEF Commit, LedgerType
  <2>4. QED
    BY <2>1, <2>2, <2>3
<1>5. DOMAIN tx' = Workers /\ \A v \in Workers : PlanOK(tx'[v])
  <2>1. PlanOK(NoPlan)
    BY NoPlanOK DEF LedgerType
  <2>2. QED
    BY <2>1 DEF Commit, LedgerType, PlanOK
<1>6. setup' = setup /\ setup \in Setups
  BY DEF Commit, LedgerType
<1>7. outside' \in Int
  <2>1. Total(p.delta, p.at) \in Int
    <3>1. IsFiniteSet(p.at) /\ \A l \in p.at : p.delta[l] \in Int
      BY <1>1, LocsFinite, FS_Subset DEF PlanOK
    <3>2. QED
      BY <3>1, SumOverInt DEF Total
  <2>2. QED
    BY <2>1 DEF Commit, LedgerType
<1>8. QED
  BY <1>2, <1>3, <1>4, <1>5, <1>6, <1>7 DEF LedgerType, PlanOK

LEMMA DrainTyped ==
    ASSUME LedgerType, NEW w \in Workers, Drain(w)
    PROVE  LedgerType'
<1>1. bal' \in [Locs -> Int] /\ moved' \in [Locs -> Int]
  <2>1. \A l \in Locs : bal'[l] \in Int /\ moved'[l] \in Int
    BY DrainShape DEF LedgerType
  <2>2. QED
    BY <2>1, DrainShape
<1>2. ver' \in [Locs -> Nat] /\ rows' \subseteq Locs /\ setup.rows \subseteq rows'
  BY DrainShape DEF LedgerType
<1>3. UNCHANGED <<setup, outside, sale, tx>>
  BY DEF Drain
<1>4. QED
  BY <1>1, <1>2, <1>3 DEF LedgerType, PlanOK

LEMMA Typed == ASSUME LedgerType, Next PROVE LedgerType'
<1>1. PICK w \in Workers : Starts(w) \/ Drain(w) \/ Commit(w) \/ Abort(w)
  BY NextSplits
<1>2. CASE Starts(w)
  BY <1>2, StartShape, BeginTyped DEF Fresh
<1>3. CASE Drain(w) \/ Commit(w) \/ Abort(w)
  BY <1>3, DrainTyped, CommitTyped, AbortTyped
<1>4. QED
  BY <1>1, <1>2, <1>3

----------------------------------------------------------------------------
(* Movements and balances *)

\* A request begins: its plan has just read what it is to track.
LEMMA BeginHolds ==
    ASSUME LedgerType, Core, NEW w \in Workers, NEW p, Begin(w, p), Fresh(p)
    PROVE  Core'
<1>1. /\ UNCHANGED <<setup, bal, rows, ver, moved, sale>> /\ LedgerType'
      /\ \A v \in Workers : tx'[v] = IF v = w THEN p ELSE tx[v]
  BY BeginTyped DEF Fresh
<1>2. Tracks'
  <2> SUFFICES ASSUME NEW v \in Workers, NEW l \in tx'[v].at
               PROVE  /\ tx'[v].op \notin Relative =>
                            /\ tx'[v].version[l] <= ver[l]
                            /\ ver[l] = tx'[v].version[l] => bal[l] = tx'[v].seen[l]
                      /\ Serial => ver[l] = tx'[v].version[l] /\ bal[l] = tx'[v].seen[l]
    BY <1>1 DEF Tracks, Serial
  <2>1. CASE v = w
    <3>1. tx'[v] = p /\ l \in Locs
      BY <1>1, <2>1 DEF Fresh, PlanOK
    <3>2. ver[l] \in Nat
      BY <3>1 DEF LedgerType
    <3>3. QED
      BY <3>1, <3>2 DEF Fresh
  <2>2. CASE v # w
    BY <1>1, <2>2 DEF Core, Tracks
  <2>3. QED
    BY <2>1, <2>2
<1>3. Alone'
  <2>1. Serial => \A v \in Workers : tx[v].op = "idle"
    BY NoPlanMade DEF Begin, Ready, Serial
  <2>2. QED
    BY <1>1, <2>1 DEF Alone, Serial
<1>4. Matches'
  BY <1>1 DEF Core, Matches
<1>5. QED
  BY <1>1, <1>2, <1>3, <1>4 DEF Core

LEMMA AbortHolds ==
    ASSUME LedgerType, Core, NEW w \in Workers, Abort(w)
    PROVE  Core'
<1>1. /\ UNCHANGED <<setup, bal, rows, ver, moved, sale>> /\ LedgerType'
      /\ \A v \in Workers : tx'[v] = IF v = w THEN NoPlan ELSE tx[v]
  BY AbortTyped
<1>2. Tracks' /\ Alone' /\ Matches'
  BY <1>1, NoPlanMade DEF Core, Tracks, Alone, Serial, Matches
<1>3. QED
  BY <1>1, <1>2 DEF Core

\* A commit writes each row of its plan as its delta says: the balance it
\* read is the balance there is, or it adds to the latter.
LEMMA CommitWrites ==
    ASSUME Ordered, Core, NEW w \in Workers, Commit(w)
    PROVE  \A l \in Locs : /\ bal'[l] = bal[l] + tx[w].delta[l]
                           /\ moved'[l] = moved[l] + tx[w].delta[l]
<1> SUFFICES ASSUME NEW l \in Locs
             PROVE  /\ bal'[l] = bal[l] + tx[w].delta[l]
                    /\ moved'[l] = moved[l] + tx[w].delta[l]
  OBVIOUS
<1> DEFINE p == tx[w]
<1>1. PlanOK(p) /\ bal[l] \in Int /\ p.delta[l] \in Int
  BY DEF Core, LedgerType, PlanOK
<1>2. /\ Holds(p) /\ moved'[l] = moved[l] + p.delta[l]
      /\ bal'[l] = IF l \in p.at THEN Written(p, l) ELSE bal[l]
  BY DEF Commit
<1>3. CASE l \notin p.at
  BY <1>1, <1>2, <1>3 DEF PlanOK
<1>4. CASE l \in p.at /\ p.op \in Relative
  BY <1>1, <1>2, <1>4 DEF Written
<1>5. CASE l \in p.at /\ p.op \notin Relative
  <2>1. bal[l] = p.seen[l]
    <3>1. CASE Serial
      BY <1>5, <3>1 DEF Core, Tracks
    <3>2. CASE ~Serial
      <4>1. p.op \in Adjust
        <5>1. p.op # "idle" /\ p.op # "drain" /\ p.op \in setup.ops
          BY <1>1 DEF Commit, PlanOK
        <5>2. QED
          BY <5>1, <1>5, <3>2 DEF Ordered, Serial, Relative
      <4>2. QED
        BY <4>1, <1>2, <1>5 DEF Holds, Core, Tracks
    <3>3. QED
      BY <3>1, <3>2
  <2>2. QED
    BY <1>1, <1>2, <1>5, <2>1 DEF Written
<1>6. QED
  BY <1>3, <1>4, <1>5

\* A plan still tracks the rows it read when a step that moves the version of
\* each row it writes has passed.
LEMMA CommitTracks ==
    ASSUME Ordered, Core, NEW w \in Workers, Commit(w)
    PROVE  Tracks'
<1> DEFINE p == tx[w]
<1>1. /\ PlanOK(p) /\ p.op # "idle" /\ NoPlan.at = {} /\ setup' = setup
      /\ \A v \in Workers : tx'[v] = IF v = w THEN NoPlan ELSE tx[v]
  BY NoPlanMade DEF Commit, Core, LedgerType
<1> SUFFICES ASSUME NEW v \in Workers, NEW l \in tx'[v].at
             PROVE  /\ tx'[v].op \notin Relative =>
                          /\ tx'[v].version[l] <= ver'[l]
                          /\ ver'[l] = tx'[v].version[l] => bal'[l] = tx'[v].seen[l]
                    /\ Serial => ver'[l] = tx'[v].version[l] /\ bal'[l] = tx'[v].seen[l]
  BY <1>1 DEF Tracks, Serial
<1>2. v # w /\ tx'[v] = tx[v] /\ l \in tx[v].at
  BY <1>1
<1>3. PlanOK(tx[v]) /\ l \in Locs /\ tx[v].op # "idle" /\ ~Serial
  BY <1>1, <1>2 DEF Core, Alone, LedgerType, PlanOK
<1>4. CASE tx[v].op \in Relative
  BY <1>2, <1>3, <1>4
<1>5. CASE tx[v].op \notin Relative
  <2>1. /\ tx[v].version[l] <= ver[l]
        /\ ver[l] = tx[v].version[l] => bal[l] = tx[v].seen[l]
        /\ tx[v].version[l] \in Nat /\ ver[l] \in Nat
    BY <1>2, <1>3, <1>5 DEF Core, LedgerType, PlanOK, Tracks
  <2>2. CASE l \notin p.at
    <3>1. bal'[l] = bal[l] /\ ver'[l] = ver[l]
      BY <1>3, <2>2 DEF Commit, Bumped
    <3>2. QED
      BY <1>2, <1>3, <2>1, <3>1
  <2>3. CASE l \in p.at
    <3>1. p.op \in {"sell"} \cup Adjust /\ rows = Locs
      <4>1. tx[v].op # "idle" /\ tx[v].op # "drain" /\ p.op # "drain"
        BY <1>1, <1>2, <1>3 DEF PlanOK
      <4>2. QED
        BY <1>1, <1>2, <1>3, <1>5, <4>1
           DEF Ordered, Serial, PlanOK, Relative, Core, LedgerType
    <3>2. ver'[l] = ver[l] + 1
      BY <1>3, <2>3, <3>1 DEF Commit, Bumped, Adjust
    <3>3. QED
      BY <1>2, <1>3, <2>1, <3>2
  <2>4. QED
    BY <2>2, <2>3
<1>6. QED
  BY <1>4, <1>5

LEMMA CommitHolds ==
    ASSUME Ordered, Core, NEW w \in Workers, Commit(w)
    PROVE  Core'
<1>1. \A l \in Locs : bal[l] \in Int /\ moved[l] \in Int /\ tx[w].delta[l] \in Int
  BY DEF Core, LedgerType, PlanOK
<1>2. Matches'
  BY StockAssumption, <1>1, CommitWrites DEF Core, Matches
<1>3. Alone'
  BY NoPlanMade DEF Core, Alone, Serial, Commit, LedgerType
<1>4. LedgerType'
  BY CommitTyped DEF Core
<1>5. QED
  BY <1>2, <1>3, <1>4, CommitTracks DEF Core

\* The drain moves balances and movements alike; a request that overlaps it
\* adds, or reads a row whose version the drain moves on.
LEMMA DrainHolds ==
    ASSUME Ordered, Core, NEW w \in Workers, Drain(w)
    PROVE  Core'
<1>1. LedgerType /\ LedgerType'
  BY DrainTyped DEF Core
<1>2. Matches' /\ Alone'
  <2>1. \A l \in Locs : bal'[l] = bal[l] + Shift[l] /\ moved'[l] = moved[l] + Shift[l]
    BY <1>1, DrainShape
  <2>2. QED
    BY <1>1, <2>1, DrainShape DEF Core, Matches, Alone, Serial
<1>3. Tracks'
  <2>1. UNCHANGED <<setup, tx>>
    BY <1>1, DrainShape
  <2> SUFFICES ASSUME NEW v \in Workers, NEW l \in tx[v].at
               PROVE  /\ tx[v].op \notin Relative =>
                            /\ tx[v].version[l] <= ver'[l]
                            /\ ver'[l] = tx[v].version[l] => bal'[l] = tx[v].seen[l]
                      /\ Serial => ver'[l] = tx[v].version[l] /\ bal'[l] = tx[v].seen[l]
    BY <2>1 DEF Tracks, Serial
  <2>2. PlanOK(tx[v]) /\ l \in Locs /\ tx[v].op \notin {"idle", "drain"} /\ ~Serial
    BY <1>1, NoPlanMade DEF LedgerType, PlanOK, Drain, Ready, Serial
  <2>3. CASE tx[v].op \in Relative
    BY <2>2, <2>3
  <2>4. CASE tx[v].op \notin Relative
    <3>1. rows = Locs
      <4>1. tx[v].op \in setup.ops /\ setup.rows \subseteq rows /\ rows \subseteq Locs
        BY <1>1, <2>2 DEF PlanOK, LedgerType
      <4>2. ~(setup.ops \subseteq Relative \cup {"drain"})
        BY <2>2, <2>4, <4>1
      <4>3. QED
        BY <2>2, <4>1, <4>2 DEF Ordered, Serial
    <3>2. /\ tx[v].version[l] <= ver[l]
          /\ ver[l] = tx[v].version[l] => bal[l] = tx[v].seen[l]
          /\ tx[v].version[l] \in Nat /\ ver[l] \in Nat /\ bal[l] \in Int
      BY <1>1, <2>2, <2>4 DEF Core, LedgerType, PlanOK, Tracks
    <3>3. CASE l \in Drainable \cup Into
      <4>1. ver'[l] = ver[l] + 1
        BY <1>1, <2>2, <3>1, <3>3, DrainShape
      <4>2. QED
        BY <2>2, <3>2, <4>1
    <3>4. CASE l \notin Drainable \cup Into
      <4>1. ver'[l] = ver[l]
        BY <1>1, <2>2, <3>4, DrainShape
      <4>2. bal'[l] = bal[l]
        <5>1. Shift[l] = 0
          BY <2>2, <3>4 DEF Shift
        <5>2. QED
          BY <1>1, <2>2, <3>2, <5>1, DrainShape
      <4>3. QED
        BY <2>2, <3>2, <4>1, <4>2
    <3>5. QED
      BY <3>3, <3>4
  <2>5. QED
    BY <2>3, <2>4
<1>4. QED
  BY <1>1, <1>2, <1>3 DEF Core

LEMMA CoreHolds == ASSUME LedgerType, Ordered, Core, Next PROVE Core'
<1>1. PICK w \in Workers : Starts(w) \/ Drain(w) \/ Commit(w) \/ Abort(w)
  BY NextSplits
<1>2. CASE Starts(w)
  BY <1>2, StartShape, BeginHolds
<1>3. CASE Drain(w) \/ Commit(w) \/ Abort(w)
  BY <1>3, DrainHolds, CommitHolds, AbortHolds
<1>4. QED
  BY <1>1, <1>2, <1>3

----------------------------------------------------------------------------
(* What came in and what was sold *)

LEMMA StandingRows ==
    ASSUME LedgerType
    PROVE  /\ Standing \subseteq Sales /\ IsFiniteSet(Standing)
           /\ \A s \in Sales : SoldQty[s] = sale[s].qty /\ SoldQty[s] \in Nat
           /\ SumOver(moved, Locs) \in Int /\ SumOver(SoldQty, Standing) \in Int
<1>1. Standing \subseteq Sales /\ IsFiniteSet(Standing)
  BY LocsFinite, FS_Subset DEF Standing
<1>2. \A s \in Sales : SoldQty[s] = sale[s].qty /\ SoldQty[s] \in Nat
  BY DEF SoldQty, LedgerType, SaleRow
<1>3. SumOver(SoldQty, Standing) \in Int
  <2>1. \A s \in Standing : SoldQty[s] \in Int
    BY <1>1, <1>2
  <2>2. QED
    BY <1>1, <2>1, SumOverInt
<1>4. SumOver(moved, Locs) \in Int
  <2>1. \A l \in Locs : moved[l] \in Int
    BY DEF LedgerType
  <2>2. QED
    BY <2>1, LocsFinite, SumOverInt
<1>5. QED
  BY <1>1, <1>2, <1>3, <1>4

\* What a step adds to the movements of all locations.
LEMMA MovedBy ==
    ASSUME LedgerType, LedgerType', NEW d, \A l \in Locs : d[l] \in Int,
           \A l \in Locs : moved'[l] = moved[l] + d[l]
    PROVE  SumOver(moved', Locs) = SumOver(moved, Locs) + SumOver(d, Locs)
<1>1. PICK n : n = moved'
  OBVIOUS
<1>2. \A l \in Locs : moved[l] \in Int /\ d[l] \in Int /\ n[l] = moved[l] + d[l]
  BY <1>1 DEF LedgerType
<1>3. SumOver(n, Locs) = SumOver(moved, Locs) + SumOver(d, Locs)
  BY <1>2, LocsFinite, SumOverPlus
<1>4. QED
  BY <1>1, <1>3

LEMMA BeginAccounts ==
    ASSUME LedgerType, Stocked, Accounts, NEW w \in Workers, NEW p, Begin(w, p), Fresh(p)
    PROVE  Accounts'
<1>1. /\ UNCHANGED <<setup, moved, outside, sale>>
      /\ \A v \in Workers : tx'[v] = IF v = w THEN p ELSE tx[v]
  BY BeginTyped DEF Fresh
<1>2. \A v \in Workers : Balances(tx[v])' <=> Balances(tx'[v])
  BY <1>1 DEF Balances
<1>3. \A v \in Workers : Balances(tx'[v])
  BY <1>1 DEF Accounts, Fresh, Sound
<1>4. SalesApart'
  BY <1>1 DEF Accounts, SalesApart, Fresh, Sound
<1>5. StockAccounted'
  BY <1>1 DEF Accounts, StockAccounted, SoldQty, Standing
<1>6. QED
  BY <1>2, <1>3, <1>4, <1>5 DEF Accounts

LEMMA AbortAccounts ==
    ASSUME LedgerType, Stocked, Accounts, NEW w \in Workers, Abort(w)
    PROVE  Accounts'
<1>1. /\ UNCHANGED <<setup, moved, outside, sale>>
      /\ \A v \in Workers : tx'[v] = IF v = w THEN NoPlan ELSE tx[v]
  BY AbortTyped
<1>2. \A v \in Workers : Balances(tx[v])'
  BY <1>1, NoPlanMade DEF Accounts, Balances
<1>3. SalesApart'
  BY <1>1, NoPlanMade DEF Accounts, SalesApart
<1>4. StockAccounted'
  BY <1>1 DEF Accounts, StockAccounted, SoldQty, Standing
<1>5. QED
  BY <1>2, <1>3, <1>4 DEF Accounts

LEMMA DrainAccounts ==
    ASSUME LedgerType, Stocked, Accounts, NEW w \in Workers, Drain(w)
    PROVE  Accounts'
<1>1. UNCHANGED <<setup, outside, sale, tx>>
  BY DrainShape
<1>2. (\A v \in Workers : Balances(tx[v])') /\ SalesApart'
  BY <1>1 DEF Accounts, Balances, SalesApart
<1>3. SumOver(moved', Locs) = SumOver(moved, Locs)
  <2>1. SumOver(moved', Locs) = SumOver(moved, Locs) + SumOver(Shift, Locs)
    BY DrainShape, DrainTyped, MovedBy
  <2>2. QED
    BY <2>1, DrainMovesOnly, StandingRows
<1>4. StockAccounted'
  BY <1>1, <1>3 DEF Accounts, StockAccounted, SoldQty, Standing, Total
<1>5. QED
  BY <1>2, <1>4 DEF Accounts

\* The sale a commit writes, and the others.
LEMMA CommitSales ==
    ASSUME LedgerType, Stocked, Accounts, NEW w \in Workers, Commit(w)
    PROVE  /\ PlanOK(tx[w]) /\ Balances(tx[w]) /\ Holds(tx[w])
           /\ tx[w].op \in Relative \cup External \cup {"transfer"}
           /\ \A s \in Sales : s # tx[w].id => sale'[s] = sale[s]
           /\ tx[w].op \notin Relative => sale' = sale
           /\ tx[w].op = "sell" =>
                sale'[tx[w].id].state = "open" /\ sale'[tx[w].id].qty = tx[w].qty
           /\ tx[w].op = "reverse" =>
                /\ sale[tx[w].id].state = "open" /\ sale'[tx[w].id].state = "reversed"
                /\ sale'[tx[w].id].qty = sale[tx[w].id].qty
<1> DEFINE p == tx[w]
<1>1. PlanOK(p) /\ Balances(p) /\ Holds(p) /\ p.op # "idle"
  BY DEF LedgerType, Accounts, Commit
<1>2. p.op \in Relative \cup External \cup {"transfer"}
  <2>1. setup.ops \subseteq Ops
    BY StockAssumption DEF LedgerType, Setup
  <2>2. QED
    BY <1>1, <2>1 DEF PlanOK, Ops
<1>3. DOMAIN sale = Sales /\ p.id \in Sales /\ sale[p.id] \in SaleRow
  BY <1>1 DEF LedgerType, PlanOK
<1>4. CASE p.op = "sell"
  <2>1. sale' = [sale EXCEPT ![p.id] = [state |-> "open", outlet |-> p.outlet,
                                        qty |-> p.qty]]
    BY <1>4 DEF Commit
  <2>2. QED
    BY <1>1, <1>2, <1>3, <1>4, <2>1 DEF Relative
<1>5. CASE p.op = "reverse"
  <2>1. sale' = [sale EXCEPT ![p.id] = [@ EXCEPT !.state = "reversed"]]
    BY <1>5 DEF Commit
  <2>2. sale[p.id].state = "open"
    BY <1>1, <1>5 DEF Holds
  <2>3. sale'[p.id] = [sale[p.id] EXCEPT !.state = "reversed"]
    BY <1>3, <2>1
  <2>4. sale'[p.id].state = "reversed" /\ sale'[p.id].qty = sale[p.id].qty
    BY <1>3, <2>3 DEF SaleRow
  <2>5. \A s \in Sales : s # p.id => sale'[s] = sale[s]
    BY <1>3, <2>1
  <2>6. QED
    BY <1>1, <1>2, <1>5, <2>2, <2>4, <2>5 DEF Relative
<1>6. CASE p.op \notin Relative
  <2>1. sale' = sale
    BY <1>6 DEF Commit, Relative
  <2>2. QED
    BY <1>1, <1>2, <1>6, <2>1 DEF Relative
<1>7. QED
  BY <1>4, <1>5, <1>6 DEF Relative

LEMMA CommitTally ==
    ASSUME LedgerType, Stocked, Accounts, NEW w \in Workers, Commit(w)
    PROVE  StockAccounted'
<1> DEFINE p == tx[w]
           M == SumOver(moved, Locs)
           D == SumOver(p.delta, Locs)
           Q == SumOver(SoldQty, Standing)
<1>1. M = outside - Q
  BY DEF Accounts, StockAccounted, Stocked, Total
<1>2. PICK q, r : q = SoldQty' /\ r = Standing'
  OBVIOUS
<1>3. LedgerType' /\ PlanOK(p) /\ p.id \in Sales /\ \A l \in Locs : p.delta[l] \in Int
  BY CommitTyped DEF LedgerType, PlanOK
<1>4. /\ M \in Int /\ D \in Int /\ Q \in Int /\ outside \in Int
      /\ Standing \subseteq Sales /\ IsFiniteSet(Standing)
      /\ \A s \in Sales : SoldQty[s] = sale[s].qty /\ SoldQty[s] \in Int
      /\ IsFiniteSet(Sales) /\ IsFiniteSet(Locs)
  BY <1>3, LocsFinite, SumOverInt, StandingRows DEF LedgerType
<1>5. /\ \A s \in Sales : q[s] = sale'[s].qty /\ q[s] \in Int
      /\ r = {s \in Sales : sale'[s].state = "open"}
  BY <1>2, <1>3 DEF SoldQty, Standing, LedgerType, SaleRow
<1>6. SumOver(moved', Locs) = M + D
  <2>1. \A l \in Locs : moved'[l] = moved[l] + p.delta[l]
    BY DEF Commit
  <2>2. QED
    BY <1>3, <2>1, MovedBy
<1>7. outside' = IF p.op \in External THEN outside + D ELSE outside
  <2>1. SumOver(p.delta, Locs) = SumOver(p.delta, p.at)
    <3>1. p.at \in SUBSET Locs /\ \A l \in Locs \ p.at : p.delta[l] = 0
      BY <1>3 DEF PlanOK
    <3>2. QED
      BY <1>3, <1>4, <3>1, SumOverPart
  <2>2. QED
    BY <2>1 DEF Commit, Total
<1>8. CASE p.op = "sell"
  <2>1. D = -p.qty /\ p.qty \in Int /\ outside' = outside
    BY <1>3, <1>7, <1>8, CommitSales DEF Balances, Total, PlanOK, External
  <2>2. /\ p.id \in Sales \ Standing /\ q[p.id] = p.qty
        /\ \A s \in Standing : q[s] = SoldQty[s]
        /\ r = Standing \cup {p.id}
    BY <1>3, <1>4, <1>5, <1>8, CommitSales DEF Balances, Standing
  <2>3. SumOver(q, Standing \cup {p.id}) = SumOver(q, Standing) + q[p.id]
    BY <1>4, <1>5, <2>2, SumOverAdd
  <2>4. SumOver(SoldQty, Standing) = SumOver(q, Standing)
    <3>1. \A s \in Standing : SoldQty[s] \in Int /\ SoldQty[s] = q[s]
      BY <1>4, <2>2
    <3>2. QED
      BY <1>4, <3>1, SumOverSame
  <2>5. SumOver(q, r) = Q + p.qty
    BY <2>2, <2>3, <2>4
  <2>6. SumOver(moved', Locs) = outside' - SumOver(q, r)
    BY <1>1, <1>4, <1>6, <2>1, <2>5
  <2>7. QED
    BY <1>2, <2>6 DEF StockAccounted, Total
<1>9. CASE p.op = "reverse"
  <2>1. D = sale[p.id].qty /\ outside' = outside
    BY <1>3, <1>7, <1>9, CommitSales DEF Balances, Total, External
  <2>2. /\ p.id \in Standing /\ \A s \in Sales : q[s] = SoldQty[s]
        /\ r = Standing \ {p.id}
    BY <1>3, <1>4, <1>5, <1>9, CommitSales DEF Standing
  <2>3. SumOver(SoldQty, Standing) = SumOver(SoldQty, Standing \ {p.id}) + SoldQty[p.id]
    BY <1>4, <2>2, SumOverRemove
  <2>4. SumOver(SoldQty, Standing \ {p.id}) = SumOver(q, Standing \ {p.id})
    <3>1. /\ IsFiniteSet(Standing \ {p.id})
          /\ \A s \in Standing \ {p.id} : SoldQty[s] \in Int /\ SoldQty[s] = q[s]
      BY <1>4, <2>2, FS_Subset
    <3>2. QED
      BY <3>1, SumOverSame
  <2>5. SumOver(SoldQty, Standing \ {p.id}) \in Int
    BY <1>4, SumOverInt
  <2>6. Q = SumOver(q, r) + D /\ SumOver(q, r) \in Int
    BY <1>3, <1>4, <2>1, <2>2, <2>3, <2>4, <2>5
  <2>7. SumOver(moved', Locs) = outside' - SumOver(q, r)
    BY <1>1, <1>4, <1>6, <2>1, <2>6
  <2>8. QED
    BY <1>2, <2>7 DEF StockAccounted, Total
<1>10. CASE p.op \notin Relative
  <2>1. outside' = outside + D
    <3>1. p.op \in External \/ (p.op = "transfer" /\ D = 0)
      BY <1>10, CommitSales DEF Balances, Total
    <3>2. QED
      BY <1>4, <1>7, <3>1 DEF External
  <2>2. SumOver(q, r) = Q
    <3>1. sale' = sale
      BY <1>10, CommitSales
    <3>2. q = SoldQty /\ r = Standing
      BY <1>2, <3>1 DEF SoldQty, Standing
    <3>3. QED
      BY <3>2
  <2>3. SumOver(moved', Locs) = outside' - SumOver(q, r)
    BY <1>1, <1>4, <1>6, <2>1, <2>2
  <2>4. QED
    BY <1>2, <2>3 DEF StockAccounted, Total
<1>11. QED
  BY <1>8, <1>9, <1>10 DEF Relative

LEMMA CommitAccounts ==
    ASSUME LedgerType, Stocked, Accounts, NEW w \in Workers, Commit(w)
    PROVE  Accounts'
<1> DEFINE p == tx[w]
<1>1. \A v \in Workers : tx'[v] = IF v = w THEN NoPlan ELSE tx[v]
  BY DEF Commit, LedgerType
<1>2. SalesApart'
  BY <1>1, NoPlanMade DEF Accounts, SalesApart
<1>3. ASSUME NEW v \in Workers PROVE Balances(tx[v])'
  <2>1. CASE v = w
    BY <1>1, <2>1, NoPlanMade DEF Balances
  <2>2. CASE v # w
    <3>1. tx'[v] = tx[v] /\ Balances(tx[v]) /\ tx[v].id \in Sales
      BY <1>1, <2>2 DEF Accounts, LedgerType, PlanOK
    <3>2. tx[v].op = "sell" => sale'[tx[v].id] = sale[tx[v].id]
      <4>1. tx[v].op = "sell" /\ tx[v].id = p.id => p.op \notin {"sell", "reverse"}
        BY <2>2, <3>1, CommitSales DEF Accounts, SalesApart, Balances
      <4>2. QED
        BY <3>1, <4>1, CommitSales DEF Relative
    <3>3. tx[v].op = "reverse" =>
            /\ sale'[tx[v].id].state # "unrung"
            /\ sale'[tx[v].id].qty = sale[tx[v].id].qty
      <4>1. tx[v].op = "reverse" /\ tx[v].id = p.id => p.op # "sell"
        BY <3>1, CommitSales DEF Balances
      <4>2. QED
        BY <3>1, <4>1, CommitSales DEF Balances, Relative
    <3>4. QED
      BY <3>1, <3>2, <3>3 DEF Balances
  <2>3. QED
    BY <2>1, <2>2
<1>4. QED
  BY <1>2, <1>3, CommitTally DEF Accounts

LEMMA AccountsHold ==
    ASSUME LedgerType, Stocked, Accounts, Next PROVE Accounts'
<1>1. PICK w \in Workers : Starts(w) \/ Drain(w) \/ Commit(w) \/ Abort(w)
  BY NextSplits
<1>2. CASE Starts(w)
  BY <1>2, StartShape, BeginAccounts
<1>3. CASE Drain(w) \/ Commit(w) \/ Abort(w)
  BY <1>3, DrainAccounts, CommitAccounts, AbortAccounts
<1>4. QED
  BY <1>1, <1>2, <1>3

----------------------------------------------------------------------------
(* The inductive invariant *)

LEMMA InitHolds == ASSUME Init PROVE LedgerType /\ Core
<1>1. setup \in Setups /\ setup.rows \subseteq Locs
  BY StockAssumption DEF Init, Setup
<1>2. outside \in Int
  <2>1. IsFiniteSet(setup.rows)
    BY <1>1, LocsFinite, FS_Subset
  <2>2. Cardinality(setup.rows) \in Nat
    BY <2>1, FS_CardinalityType
  <2>3. QED
    BY <2>2, StockAssumption DEF Init
<1>3. LedgerType
  BY StockAssumption, <1>1, <1>2, NoPlanOK DEF Init, LedgerType, SaleRow
<1>4. Tracks /\ Alone
  BY NoPlanMade DEF Init, Tracks, Alone
<1>5. Matches
  BY DEF Init, Matches
<1>6. QED
  BY <1>3, <1>4, <1>5 DEF Core

LEMMA InitAccounts == ASSUME Init PROVE Accounts
<1>1. LedgerType
  BY InitHolds
<1>2. SumOver(moved, Locs) = Opening * Cardinality(setup.rows)
  <2>1. /\ setup.rows \subseteq Locs /\ IsFiniteSet(setup.rows)
        /\ \A l \in Locs : moved[l] = IF l \in setup.rows THEN Opening ELSE 0
        /\ Opening \in Int
    BY <1>1, LocsFinite, FS_Subset, StockAssumption DEF Init, LedgerType
  <2>2. /\ \A l \in Locs : moved[l] \in Int
        /\ \A l \in Locs \ setup.rows : moved[l] = 0
        /\ \A l \in setup.rows : moved[l] = Opening
    BY <2>1
  <2>3. SumOver(moved, Locs) = SumOver(moved, setup.rows)
    BY <2>1, <2>2, LocsFinite, SumOverPart
  <2>4. SumOver(moved, setup.rows) = Opening * Cardinality(setup.rows)
    BY <2>1, <2>2, SumOverConst
  <2>5. QED
    BY <2>3, <2>4
<1>3. SumOver(SoldQty, Standing) = 0
  <2>1. Standing = {}
    BY DEF Init, Standing
  <2>2. QED
    BY <2>1, SumOverEmpty
<1>4. StockAccounted
  <2>1. outside = Opening * Cardinality(setup.rows) /\ outside \in Int
    BY <1>1 DEF Init, LedgerType
  <2>2. QED
    BY <1>2, <1>3, <2>1 DEF StockAccounted, Total
<1>5. (\A w \in Workers : Balances(tx[w])) /\ SalesApart
  BY NoPlanMade DEF Init, Balances, SalesApart
<1>6. QED
  BY <1>4, <1>5 DEF Accounts

\* A behaviour keeps its setup.
LEMMA SetupStays ==
    ASSUME LedgerType, [Next]_vars
    PROVE  setup' = setup /\ (Ordered' <=> Ordered) /\ (Stocked' <=> Stocked)
<1>1. setup' = setup
  <2>1. CASE Next
    <3>1. PICK w \in Workers : Starts(w) \/ Drain(w) \/ Commit(w) \/ Abort(w)
      BY <2>1, NextSplits
    <3>2. CASE Starts(w)
      BY <3>2, StartShape, BeginTyped DEF Fresh
    <3>3. CASE Drain(w) \/ Commit(w) \/ Abort(w)
      BY <3>3 DEF Drain, Commit, Abort
    <3>4. QED
      BY <3>1, <3>2, <3>3
  <2>2. QED
    BY <2>1 DEF vars
<1>2. QED
  BY <1>1 DEF Ordered, Stocked

LEMMA InitInv == Init => IInv
BY InitHolds, InitAccounts DEF IInv

LEMMA NextHolds == IInv /\ [Next]_vars => IInv'
<1> SUFFICES ASSUME IInv, [Next]_vars PROVE IInv'
  OBVIOUS
<1>1. LedgerType /\ (Ordered' <=> Ordered) /\ (Stocked' <=> Stocked)
  BY SetupStays DEF IInv
<1>2. CASE Next
  <2>1. LedgerType'
    BY <1>1, <1>2, Typed
  <2>2. Ordered => Core'
    BY <1>1, <1>2, CoreHolds DEF IInv
  <2>3. Stocked => Accounts'
    BY <1>1, <1>2, AccountsHold DEF IInv
  <2>4. QED
    BY <1>1, <2>1, <2>2, <2>3 DEF IInv
<1>3. CASE UNCHANGED vars
  <2>1. LedgerType'
    BY <1>1, <1>3 DEF vars, LedgerType, PlanOK
  <2>2. Ordered => Core'
    BY <1>3, <2>1 DEF vars, IInv, Core, Tracks, Alone, Matches, Serial
  <2>3. Stocked => Accounts'
    BY <1>3 DEF vars, IInv, Accounts, Balances, SalesApart, StockAccounted, SoldQty, Standing
  <2>4. QED
    BY <1>1, <2>1, <2>2, <2>3 DEF IInv
<1>4. QED
  BY <1>2, <1>3

----------------------------------------------------------------------------
(* Theorems *)

\* Balances, versions, sales and the plans in flight keep their types.
THEOREM LedgerTyped == Spec => []LedgerType
<1>1. IInv => LedgerType
  BY DEF IInv
<1>2. QED
  BY <1>1, InitInv, NextHolds, PTL DEF Spec

\* Whatever requests the clients overlap, as long as every balance write
\* among them is relative or versioned, the movements of each location add up
\* to its balance.
THEOREM MovementsAccount == Spec => []LedgerAgrees
<1>1. IInv => LedgerAgrees
  BY DEF IInv, Core, LedgerAgrees, Matches
<1>2. QED
  BY <1>1, InitInv, NextHolds, PTL DEF Spec

\* Whatever overlaps, lost balance updates included, the movements over all
\* locations are what came in from outside less the sales that stand: no
\* request takes or restores a quantity twice, and a transfer or a drain
\* neither makes nor loses stock.
THEOREM StockIsAccounted == Spec => []StockAccounted
<1>1. IInv => StockAccounted
  BY DEF IInv, Accounts, StockAccounted, Stocked
<1>2. QED
  BY <1>1, InitInv, NextHolds, PTL DEF Spec

\* The movements explain the stock shown and the stock sold.
THEOREM StockIsExplained == Spec => []StockExplained
BY MovementsAccount, StockIsAccounted, PTL DEF StockExplained

\* The plan in flight takes no balance below zero.
Backed == \A w \in Workers : \A l \in tx[w].at : bal[l] + tx[w].delta[l] >= 0

\* Requests one at a time and no adjustment by a difference (which trusts the
\* receipts, not the balance), of an item that is no supply.
OneAtATime == Serial /\ "adjust" \notin setup.ops /\ setup.item = "retail"

\* No balance is negative, and no plan in flight makes one.
Covering == OneAtATime => Backed /\ NoOversell

LEMMA CoverHolds ==
    ASSUME OneAtATime, Core, Backed, NoOversell, Next
    PROVE  Backed' /\ NoOversell'
<1>1. PICK w \in Workers : Starts(w) \/ Drain(w) \/ Commit(w) \/ Abort(w)
  BY NextSplits
<1>2. LedgerType /\ Ordered /\ \A l \in Locs : bal[l] >= 0 /\ bal[l] \in Int
  BY DEF NoOversell, OneAtATime, Serial, Ordered, Core, LedgerType
<1>3. CASE Starts(w)
  <2>1. PICK p : Begin(w, p) /\ Fresh(p)
    BY <1>2, <1>3, StartShape
  <2>2. /\ bal' = bal
        /\ \A v \in Workers : tx'[v] = IF v = w THEN p ELSE tx[v]
    BY <1>2, <2>1, BeginTyped DEF Fresh
  <2>3. \A l \in p.at : bal[l] + p.delta[l] >= 0
    BY <1>2, <2>1 DEF Fresh, Covered, PlanOK, OneAtATime
  <2>4. QED
    BY <1>2, <2>2, <2>3 DEF Backed, NoOversell
<1>4. CASE Abort(w)
  <2>1. bal' = bal /\ \A v \in Workers : tx'[v] = IF v = w THEN NoPlan ELSE tx[v]
    BY <1>2, <1>4, AbortTyped
  <2>2. QED
    BY <1>2, <2>1, NoPlanMade DEF Backed, NoOversell
<1>5. CASE Commit(w)
  <2>1. \A v \in Workers : v # w => tx[v].op = "idle" /\ tx[v].at = {}
    BY <1>5 DEF Commit, Core, Alone, OneAtATime, LedgerType, PlanOK
  <2>2. \A v \in Workers : tx'[v] = IF v = w THEN NoPlan ELSE tx[v]
    BY <1>2, <1>5 DEF Commit, LedgerType
  <2>3. \A l \in Locs : bal'[l] = bal[l] + tx[w].delta[l]
    BY <1>2, <1>5, CommitWrites
  <2>4. \A l \in Locs : l \notin tx[w].at => tx[w].delta[l] = 0 /\ bal[l] \in Int
    BY DEF Core, LedgerType, PlanOK
  <2>5. \A l \in Locs : bal'[l] >= 0
    BY <1>2, <2>3, <2>4 DEF Backed
  <2>6. QED
    BY <2>1, <2>2, <2>5, NoPlanMade DEF Backed, NoOversell
<1>6. CASE Drain(w)
  <2>1. tx' = tx /\ \A v \in Workers : tx[v].at = {}
    BY <1>6, NoPlanMade DEF Drain, Ready, OneAtATime, Serial
  <2>2. \A l \in Locs : bal'[l] >= 0
    <3>1. \A l \in Locs : bal'[l] = bal[l] + Shift[l] /\ Goods \in Nat
      BY <1>2, <1>6, DrainShape
    <3>2. \A l \in Locs : bal[l] + Shift[l] >= 0
      BY <1>2, <3>1 DEF Shift
    <3>3. QED
      BY <3>1, <3>2
  <2>3. QED
    BY <2>1, <2>2 DEF Backed, NoOversell
<1>7. QED
  BY <1>1, <1>3, <1>4, <1>5, <1>6

\* Only a laundry supply is ever sold, moved or withdrawn below zero, when no
\* two requests overlap.
THEOREM RetailNeverShort == Spec => []("adjust" \notin setup.ops => NoOversell)
<1>1. Init => Covering
  BY NoPlanMade, StockAssumption DEF Init, Backed, NoOversell, Covering
<1>2. IInv /\ Covering /\ [Next]_vars => Covering'
  <2> SUFFICES ASSUME IInv, Covering, [Next]_vars, OneAtATime PROVE Backed' /\ NoOversell'
    BY SetupStays DEF Covering, OneAtATime, Serial, IInv
  <2>1. Core
    BY DEF IInv, OneAtATime, Serial, Ordered
  <2>2. CASE Next
    BY <2>1, <2>2, CoverHolds DEF Covering
  <2>3. CASE UNCHANGED vars
    BY <2>3 DEF vars, Covering, Backed, NoOversell
  <2>4. QED
    BY <2>2, <2>3
<1>3. Covering => ("adjust" \notin setup.ops => NoOversell)
  BY DEF Covering, OneAtATime, Serial, NoOversell
<1>4. QED
  BY <1>1, <1>2, <1>3, InitInv, NextHolds, PTL DEF Spec

(***************************************************************************)
(* Proofs about Catalogue, for any number of items, variants, suppliers    *)
(* and clerks; nothing of the ledger is used (they are kept here for room  *)
(* only).  First what a request asks and what it found; then what each     *)
(* makes of the rows; then what stays of all the catalogue promises.       *)
(***************************************************************************)
(***************************************************************************)
(* Requests: what their handlers make of them.                             *)
(***************************************************************************)
\* What a request says, whatever the catalogue is.
Asked(r) ==
  /\ r \in Request /\ r.op \in Calls
  /\ IF r.op = "dropSupplier" THEN r.pick \in Suppliers ELSE r.item \in Items
  /\ r.what = Keep => r.variant = None
  /\ r.what # Keep => r.op \in {"create", "vary"} /\ r.variant \in Of(r.item) /\ r.variant \in Variants
  /\ r.what = "set" => r.track = Keep
  /\ r.track # Keep => r.op \in {"create", "vary"}
  /\ r.how # Keep => r.op \in {"create", "source"}
  /\ r.op = "source" => r.how # Keep /\ r.pick \in Suppliers /\ (r.how = "list" => r.pick \in r.list)
  /\ r.code # Keep => r.op \in {"create", "recode"}
  /\ r.unit # Keep => r.op = "label"
  /\ r.op = "create" =>
       /\ r.how = "list" /\ r.what \in {Keep, "add"} /\ r.code # Keep
       /\ IF r.list = {} THEN r.pick = None ELSE r.pick \in r.list /\ r.pick \in Suppliers
       /\ r.barcode = None \/ r.barcode # r.code

\* What was so when it was taken, but for what the plan allows.
Found(r, d) ==
  /\ r.op = "create" =>
       /\ d.item[r.item].st = "absent" /\ Cardinality(LiveItems(d)) < Cap /\ CodeFree(d, r.item, r.code)
       /\ r.what = "add" => BarcodeFree(d, r.variant, r.barcode)
  /\ r.op \in {"recode", "source", "vary", "label", "compose", "retire", "remove"} => d.item[r.item].st # "absent"
  /\ r.op = "recode" => CodeFree(d, r.item, r.code)
  /\ r.op = "vary" /\ r.what # Keep =>
       /\ r.what = "add" <=> d.variant[r.variant].st # "live"
       /\ r.what # "drop" => BarcodeFree(d, r.variant, r.barcode)
  /\ r.op = "dropSupplier" => \A j \in LiveItems(d) : SourcesOf(d, j) # {r.pick}
  /\ r.op = "sell" =>
       /\ d.item[r.item].st = "live" /\ d.item[r.item].tracked
       /\ d.rows[r.item][r.place] = 0 => Kind[r.item] = "supply" /\ r.place \in Places

LEMMA AskIs ==
  ASSUME NEW op \in Calls, NEW i \in Items \cup {None}
  PROVE  /\ Ask(op, i) \in Request /\ Ask(op, i).op = op /\ Ask(op, i).item = i
         /\ Ask(op, i).code = Keep /\ Ask(op, i).track = Keep /\ Ask(op, i).unit = Keep
         /\ Ask(op, i).pick = None /\ Ask(op, i).list = {} /\ Ask(op, i).how = Keep
         /\ Ask(op, i).variant = None /\ Ask(op, i).what = Keep /\ Ask(op, i).barcode = None
         /\ Ask(op, i).of = NoRecipe /\ Ask(op, i).place = "base"
  <1>1. "base" \in Keys /\ {} \in SUBSET Suppliers /\ NoRecipe \in [Items -> Units \cup {None}]
    BY DEF Keys, Places, NoRecipe
  <1>. QED
    BY <1>1 DEF Ask, NoRequest, Request, Calls

LEMMA NoneAsked == NoRequest \in Request /\ NoRequest.op = None /\ None \notin Calls /\ NoRequest.item = None
  <1>1. "base" \in Keys /\ {} \in SUBSET Suppliers /\ NoRecipe \in [Items -> Units \cup {None}]
    BY DEF Keys, Places, NoRecipe
  <1>. QED
    BY <1>1 DEF NoRequest, Request, Calls, None

LEMMA CreateAsks ==
  ASSUME db \in Db, mix \in Mixes, NEW w \in Clerks, NEW i \in Items, Create(w, i)
  PROVE  \E r : Start(w, r) /\ Asked(r) /\ Found(r, db)
  <1>1. PICK c \in Codes \cup {None}, S \in SUBSET Suppliers, on \in {"on", "off"}, V \in SUBSET Of(i),
          of \in Recipes[mix] :
          \E p \in IF S = {} THEN {None} ELSE S, b \in IF V = {} THEN {None} ELSE Codes :
          /\ Cardinality(V) < 2 /\ Sendable(of) /\ (b = None \/ b # c)
          /\ Start(w, [Ask("create", i) EXCEPT !.code = c, !.list = S, !.pick = p, !.how = "list",
                          !.track = on, !.of = of, !.barcode = b,
                          !.variant = IF V = {} THEN None ELSE CHOOSE v \in V : TRUE,
                          !.what = IF V = {} THEN Keep ELSE "add"])
    BY Zenon DEF Create
  <1>2. PICK p \in IF S = {} THEN {None} ELSE S, b \in IF V = {} THEN {None} ELSE Codes :
          /\ (b = None \/ b # c)
          /\ Start(w, [Ask("create", i) EXCEPT !.code = c, !.list = S, !.pick = p, !.how = "list",
                          !.track = on, !.of = of, !.barcode = b,
                          !.variant = IF V = {} THEN None ELSE CHOOSE v \in V : TRUE,
                          !.what = IF V = {} THEN Keep ELSE "add"])
    BY <1>1, Zenon
  <1>3. PICK x : x = IF V = {} THEN None ELSE CHOOSE v \in V : TRUE
    OBVIOUS
  <1>4. PICK y : y = IF V = {} THEN Keep ELSE "add"
    OBVIOUS
  <1>5. (V = {} => x = None /\ y = Keep) /\ (V # {} => x \in V /\ y = "add")
    BY <1>3, <1>4
  <1>6. PICK q : q = Ask("create", i)
    OBVIOUS
  <1>7. PICK r : r = [q EXCEPT !.code = c, !.list = S, !.pick = p, !.how = "list", !.track = on,
                               !.of = of, !.barcode = b, !.variant = x, !.what = y]
    OBVIOUS
  <1>8. Start(w, r)
    BY <1>2, <1>3, <1>4, <1>6, <1>7
  <1>9. /\ q \in Request /\ q.op = "create" /\ q.item = i /\ q.unit = Keep
    BY <1>6, AskIs DEF Calls
  <1>10. /\ r.op = "create" /\ r.item = i /\ r.code = c /\ r.list = S /\ r.pick = p /\ r.how = "list"
         /\ r.track = on /\ r.of = of /\ r.barcode = b /\ r.variant = x /\ r.what = y /\ r.unit = Keep
    BY <1>7, <1>9 DEF Request
  <1>11. x \in Variants \cup {None} /\ y \in {Keep, "add"} /\ (y # Keep => x \in Of(i) /\ x \in Variants)
    BY <1>5 DEF Of
  <1>12. /\ p \in Suppliers \cup {None} /\ b \in Codes \cup {None} /\ of \in [Items -> Units \cup {None}] /\ on \in {"on", "off"}
         /\ c \in Codes \cup {None, Keep} /\ S \in SUBSET Suppliers /\ on \in {"on", "off", Keep}
    BY CatalogueAssumption
  <1>13. r \in Request
    <2>1. y \in {Keep, "add", "drop", "set"}
      BY <1>11
    <2>0. PICK t : t = [q EXCEPT !.code = c]
      OBVIOUS
    <2>2. PICK u : u = [t EXCEPT !.list = S]
      OBVIOUS
    <2>7. t \in Request
      BY <2>0, <1>9, <1>12 DEF Request
    <2>3. u \in Request
      BY <2>2, <2>7, <1>12 DEF Request
    <2>4. PICK z : z = [u EXCEPT !.pick = p, !.how = "list", !.track = on]
      OBVIOUS
    <2>5. z \in Request
      BY <2>3, <2>4, <1>12 DEF Request
    <2>6. r = [z EXCEPT !.of = of, !.barcode = b, !.variant = x, !.what = y]
      BY <2>0, <2>2, <2>4, <1>7
    <2>. QED
      BY <2>1, <2>5, <2>6, <1>11, <1>12 DEF Request
  <1>14. c # Keep
    BY CatalogueAssumption DEF Keep, None
  <1>15. Asked(r)
    <2>1. y # "set" /\ (y = Keep => x = None)
      BY <1>5 DEF Keep
    <2>2. IF S = {} THEN p = None ELSE p \in S /\ p \in Suppliers
      OBVIOUS
    <2>. QED
      BY <1>10, <1>11, <1>13, <1>14, <2>1, <2>2, <1>2 DEF Asked, Calls
  <1>16. Found(r, db)
    BY <1>8, <1>10, <1>12 DEF Found, Fits, Create, Start
  <1>. QED
    BY <1>8, <1>15, <1>16

LEMMA RecodeAsks ==
  ASSUME db \in Db, NEW w \in Clerks, NEW i \in Items, db.item[i].st # "absent", Recode(w, i)
  PROVE  \E r : Start(w, r) /\ Asked(r) /\ Found(r, db)
  <1>1. PICK c \in Codes \cup {None} : Start(w, [Ask("recode", i) EXCEPT !.code = c])
    BY DEF Recode
  <1>2. PICK q : q = Ask("recode", i)
    OBVIOUS
  <1>3. PICK r : r = [q EXCEPT !.code = c]
    OBVIOUS
  <1>4. /\ q \in Request /\ q.op = "recode" /\ q.item = i /\ q.unit = Keep /\ q.what = Keep /\ q.variant = None
        /\ q.track = Keep /\ q.how = Keep
    BY <1>2, AskIs DEF Calls
  <1>5. c \in Codes \cup {None, Keep}
    OBVIOUS
  <1>6. r \in Request
    BY <1>3, <1>4, <1>5 DEF Request
  <1>7. /\ r.op = "recode" /\ r.item = i /\ r.unit = Keep /\ r.what = Keep /\ r.variant = None
        /\ r.track = Keep /\ r.how = Keep
    BY <1>3, <1>4 DEF Request
  <1>8. Start(w, r)
    BY <1>1, <1>2, <1>3
  <1>9. Asked(r)
    BY <1>6, <1>7 DEF Asked, Calls, Keep
  <1>10. Found(r, db)
    BY <1>7, <1>8 DEF Found, Fits, Start
  <1>. QED
    BY <1>8, <1>9, <1>10

LEMMA SourceAsks ==
  ASSUME db \in Db, NEW w \in Clerks, NEW i \in Items, db.item[i].st # "absent", Source(w, i)
  PROVE  \E r : Start(w, r) /\ Asked(r) /\ Found(r, db)
  <1>1. PICK how \in {"list", "empty", "legacy"}, S \in SUBSET Suppliers, p \in Suppliers :
          /\ IF how = "list" THEN p \in S ELSE S = {}
          /\ Start(w, [Ask("source", i) EXCEPT !.how = how, !.list = S, !.pick = p])
    BY Zenon DEF Source
  <1>2. PICK q : q = Ask("source", i)
    OBVIOUS
  <1>3. PICK r : r = [q EXCEPT !.how = how, !.list = S, !.pick = p]
    OBVIOUS
  <1>4. /\ q \in Request /\ q.op = "source" /\ q.item = i /\ q.unit = Keep /\ q.what = Keep /\ q.variant = None
        /\ q.track = Keep /\ q.code = Keep
    BY <1>2, AskIs DEF Calls
  <1>5. how \in {Keep, "list", "empty", "legacy"} /\ p \in Suppliers \cup {None} /\ how # Keep
    BY DEF Keep
  <1>6. r \in Request
    <2>1. PICK z : z = [q EXCEPT !.how = how]
      OBVIOUS
    <2>2. PICK y : y = [z EXCEPT !.list = S]
      OBVIOUS
    <2>3. z \in Request
      BY <2>1, <1>4, <1>5 DEF Request
    <2>4. y \in Request
      BY <2>2, <2>3 DEF Request
    <2>5. r = [y EXCEPT !.pick = p]
      BY <1>3, <2>1, <2>2
    <2>. QED
      BY <2>4, <2>5, <1>5 DEF Request
  <1>7. /\ r.op = "source" /\ r.item = i /\ r.unit = Keep /\ r.what = Keep /\ r.variant = None
        /\ r.track = Keep /\ r.code = Keep /\ r.how = how /\ r.list = S /\ r.pick = p
    BY <1>3, <1>4 DEF Request
  <1>8. Start(w, r)
    BY <1>1, <1>2, <1>3
  <1>9. Asked(r)
    BY <1>1, <1>5, <1>6, <1>7 DEF Asked, Calls, Keep
  <1>10. Found(r, db)
    BY <1>7, <1>8 DEF Found, Fits, Start
  <1>. QED
    BY <1>8, <1>9, <1>10

LEMMA VaryAsks ==
  ASSUME db \in Db, NEW w \in Clerks, NEW i \in Items, db.item[i].st # "absent", Vary(w, i)
  PROVE  \E r : Start(w, r) /\ Asked(r) /\ Found(r, db)
  <1>1. PICK t \in {"on", "off", Keep} :
          \/ t # Keep /\ Start(w, [Ask("vary", i) EXCEPT !.track = t])
          \/ \E v \in Of(i), what \in {"add", "drop", "set"}, b \in Codes \cup {None} :
                 /\ (what = "drop" => b = None) /\ (what = "set" => t = Keep)
                 /\ Start(w, [Ask("vary", i) EXCEPT !.track = t, !.variant = v, !.what = what,
                                                    !.barcode = b])
    BY Zenon DEF Vary
  <1>2. PICK q : q = Ask("vary", i)
    OBVIOUS
  <1>4. /\ q \in Request /\ q.op = "vary" /\ q.item = i /\ q.unit = Keep /\ q.what = Keep /\ q.variant = None
        /\ q.how = Keep /\ q.code = Keep
    BY <1>2, AskIs DEF Calls
  <1>5. CASE t # Keep /\ Start(w, [Ask("vary", i) EXCEPT !.track = t])
    <2>1. PICK r : r = [q EXCEPT !.track = t]
      OBVIOUS
    <2>2. r \in Request
      BY <1>4, <2>1 DEF Request
    <2>3. /\ r.op = "vary" /\ r.item = i /\ r.unit = Keep /\ r.what = Keep /\ r.variant = None
          /\ r.how = Keep /\ r.code = Keep
      BY <2>1, <1>4 DEF Request
    <2>4. Start(w, r)
      BY <1>5, <1>2, <2>1
    <2>5. Asked(r)
      BY <2>2, <2>3 DEF Asked, Calls, Keep
    <2>6. Found(r, db)
      BY <2>3, <2>4 DEF Found, Fits, Start
    <2>. QED
      BY <2>4, <2>5, <2>6
  <1>6. CASE \E v \in Of(i), what \in {"add", "drop", "set"}, b \in Codes \cup {None} :
                 /\ (what = "drop" => b = None) /\ (what = "set" => t = Keep)
                 /\ Start(w, [Ask("vary", i) EXCEPT !.track = t, !.variant = v, !.what = what,
                                                    !.barcode = b])
    <2>1. PICK v \in Of(i), what \in {"add", "drop", "set"}, b \in Codes \cup {None} :
                 /\ (what = "drop" => b = None) /\ (what = "set" => t = Keep)
                 /\ Start(w, [Ask("vary", i) EXCEPT !.track = t, !.variant = v, !.what = what,
                                                    !.barcode = b])
      BY <1>6, Zenon
    <2>2. PICK r : r = [q EXCEPT !.track = t, !.variant = v, !.what = what, !.barcode = b]
      OBVIOUS
    <2>3. v \in Variants /\ v \in Variants \cup {None} /\ what \in {Keep, "add", "drop", "set"} /\ what # Keep
      BY DEF Of, Keep
    <2>4. r \in Request
      <3>1. PICK z : z = [q EXCEPT !.track = t]
        OBVIOUS
      <3>2. PICK y : y = [z EXCEPT !.variant = v]
        OBVIOUS
      <3>3. z \in Request
        BY <3>1, <1>4 DEF Request
      <3>4. y \in Request
        BY <3>2, <3>3, <2>3 DEF Request
      <3>5. r = [y EXCEPT !.what = what, !.barcode = b]
        BY <2>2, <3>1, <3>2
      <3>. QED
        BY <3>4, <3>5, <2>3 DEF Request
    <2>5. /\ r.op = "vary" /\ r.item = i /\ r.unit = Keep /\ r.what = what /\ r.variant = v
          /\ r.how = Keep /\ r.code = Keep /\ r.track = t
      BY <2>2, <1>4 DEF Request
    <2>6. Start(w, r)
      BY <2>1, <1>2, <2>2
    <2>7. Asked(r)
      BY <2>1, <2>3, <2>4, <2>5 DEF Asked, Calls, Keep
    <2>8. Found(r, db)
      BY <2>5, <2>6 DEF Found, Fits, Start
    <2>. QED
      BY <2>6, <2>7, <2>8
  <1>. QED
    BY <1>1, <1>5, <1>6

LEMMA LabelAsks ==
  ASSUME db \in Db, NEW w \in Clerks, NEW i \in Items, db.item[i].st # "absent", Label(w, i)
  PROVE  \E r : Start(w, r) /\ Asked(r) /\ Found(r, db)
  <1>1. PICK u \in Units : Start(w, [Ask("label", i) EXCEPT !.unit = u])
    BY DEF Label
  <1>2. PICK q : q = Ask("label", i)
    OBVIOUS
  <1>3. PICK r : r = [q EXCEPT !.unit = u]
    OBVIOUS
  <1>4. /\ q \in Request /\ q.op = "label" /\ q.item = i /\ q.code = Keep /\ q.what = Keep /\ q.variant = None
        /\ q.track = Keep /\ q.how = Keep
    BY <1>2, AskIs DEF Calls
  <1>6. r \in Request
    BY <1>3, <1>4 DEF Request
  <1>7. /\ r.op = "label" /\ r.item = i /\ r.code = Keep /\ r.what = Keep /\ r.variant = None
        /\ r.track = Keep /\ r.how = Keep
    BY <1>3, <1>4 DEF Request
  <1>8. Start(w, r)
    BY <1>1, <1>2, <1>3
  <1>9. Asked(r)
    BY <1>6, <1>7 DEF Asked, Calls, Keep
  <1>10. Found(r, db)
    BY <1>7, <1>8 DEF Found, Fits, Start
  <1>. QED
    BY <1>8, <1>9, <1>10

LEMMA ComposeAsks ==
  ASSUME db \in Db, mix \in Mixes, NEW w \in Clerks, NEW i \in Items, db.item[i].st # "absent", Compose(w, i)
  PROVE  \E r : Start(w, r) /\ Asked(r) /\ Found(r, db)
  <1>1. PICK of \in Recipes[mix] :
          Start(w, [Ask("compose", i) EXCEPT !.of = of])
    BY DEF Compose
  <1>2. PICK q : q = Ask("compose", i)
    OBVIOUS
  <1>3. PICK r : r = [q EXCEPT !.of = of]
    OBVIOUS
  <1>4. /\ q \in Request /\ q.op = "compose" /\ q.item = i /\ q.code = Keep /\ q.what = Keep /\ q.variant = None
        /\ q.track = Keep /\ q.how = Keep /\ q.unit = Keep
    BY <1>2, AskIs DEF Calls
  <1>5. of \in [Items -> Units \cup {None}]
    BY CatalogueAssumption
  <1>6. r \in Request
    BY <1>3, <1>4, <1>5 DEF Request
  <1>7. /\ r.op = "compose" /\ r.item = i /\ r.code = Keep /\ r.what = Keep /\ r.variant = None
        /\ r.track = Keep /\ r.how = Keep /\ r.unit = Keep /\ r.of = of
    BY <1>3, <1>4 DEF Request
  <1>8. Start(w, r)
    BY <1>1, <1>2, <1>3
  <1>9. Asked(r)
    BY <1>6, <1>7 DEF Asked, Calls, Keep
  <1>10. Found(r, db)
    BY <1>7, <1>8 DEF Found, Fits, Start
  <1>. QED
    BY <1>8, <1>9, <1>10

LEMMA EndAsks ==
  ASSUME db \in Db, NEW w \in Clerks, NEW i \in Items, db.item[i].st # "absent", Retire(w, i) \/ RemoveItem(w, i)
  PROVE  \E r : Start(w, r) /\ Asked(r) /\ Found(r, db)
  <1>1. PICK op \in {"retire", "remove"} : Start(w, Ask(op, i))
    BY DEF Retire, RemoveItem
  <1>2. PICK r : r = Ask(op, i)
    OBVIOUS
  <1>3. op \in Calls
    BY DEF Calls
  <1>4. /\ r \in Request /\ r.op = op /\ r.item = i /\ r.code = Keep /\ r.what = Keep /\ r.variant = None
        /\ r.track = Keep /\ r.how = Keep /\ r.unit = Keep
    BY <1>2, <1>3, AskIs
  <1>5. Start(w, r)
    BY <1>1, <1>2
  <1>6. Asked(r)
    BY <1>3, <1>4 DEF Asked, Calls, Keep
  <1>7. Found(r, db)
    BY <1>4, <1>5 DEF Found, Fits, Start
  <1>. QED
    BY <1>5, <1>6, <1>7

LEMMA DropSupplierAsks ==
  ASSUME db \in Db, NEW w \in Clerks, NEW s \in Suppliers, DropSupplier(w, s)
  PROVE  \E r : Start(w, r) /\ Asked(r) /\ Found(r, db)
  <1>2. PICK q : q = Ask("dropSupplier", None)
    OBVIOUS
  <1>3. PICK r : r = [q EXCEPT !.pick = s]
    OBVIOUS
  <1>4. /\ q \in Request /\ q.op = "dropSupplier" /\ q.code = Keep /\ q.what = Keep /\ q.variant = None
        /\ q.track = Keep /\ q.how = Keep /\ q.unit = Keep
    BY <1>2, AskIs DEF Calls
  <1>5. s \in Suppliers \cup {None}
    OBVIOUS
  <1>6. r \in Request
    BY <1>3, <1>4, <1>5 DEF Request
  <1>7. /\ r.op = "dropSupplier" /\ r.pick = s /\ r.code = Keep /\ r.what = Keep /\ r.variant = None
        /\ r.track = Keep /\ r.how = Keep /\ r.unit = Keep
    BY <1>3, <1>4 DEF Request
  <1>8. Start(w, r)
    BY <1>2, <1>3 DEF DropSupplier
  <1>9. Asked(r)
    BY <1>6, <1>7 DEF Asked, Calls, Keep
  <1>10. Found(r, db)
    BY <1>7, <1>8 DEF Found, Fits, Start
  <1>. QED
    BY <1>8, <1>9, <1>10

LEMMA CheckoutAsks ==
  ASSUME db \in Db, NEW w \in Clerks, NEW i \in Items, Checkout(w, i)
  PROVE  \E r : Start(w, r) /\ Asked(r) /\ Found(r, db)
  <1>1. PICK k \in Places \cup LiveOf(db, i) : Start(w, [Ask("sell", i) EXCEPT !.place = k])
    BY DEF Checkout
  <1>2. PICK q : q = Ask("sell", i)
    OBVIOUS
  <1>3. PICK r : r = [q EXCEPT !.place = k]
    OBVIOUS
  <1>4. /\ q \in Request /\ q.op = "sell" /\ q.item = i /\ q.code = Keep /\ q.what = Keep /\ q.variant = None
        /\ q.track = Keep /\ q.how = Keep /\ q.unit = Keep
    BY <1>2, AskIs DEF Calls
  <1>5. k \in Keys
    BY DEF Keys, LiveOf, Of
  <1>6. r \in Request
    BY <1>3, <1>4, <1>5 DEF Request
  <1>7. /\ r.op = "sell" /\ r.item = i /\ r.code = Keep /\ r.what = Keep /\ r.variant = None
        /\ r.track = Keep /\ r.how = Keep /\ r.unit = Keep
    BY <1>3, <1>4 DEF Request
  <1>8. Start(w, r)
    BY <1>1, <1>2, <1>3
  <1>11. db.item[i].st = "live"
    BY DEF Checkout, LiveItems
  <1>9. Asked(r)
    BY <1>6, <1>7 DEF Asked, Calls, Keep
  <1>10. Found(r, db)
    BY <1>7, <1>8, <1>11 DEF Found, Fits, Start
  <1>. QED
    BY <1>8, <1>9, <1>10

\* A step takes a request or carries one out.
LEMMA ItemSteps ==
  ASSUME db \in Db, mix \in Mixes, ItemsNext
  PROVE  \E w \in Clerks : Finish(w) \/ (begun < MaxRequests /\ \E r : Start(w, r) /\ Asked(r) /\ Found(r, db))
  <1>1. PICK w \in Clerks :
    \/ Finish(w)
    \/ /\ begun < MaxRequests
       /\ \/ \E s \in Suppliers : DropSupplier(w, s)
          \/ \E i \in Items : Create(w, i) \/ Checkout(w, i)
          \/ \E i \in {j \in Items : db.item[j].st # "absent"} :
                 \/ Recode(w, i) \/ Source(w, i) \/ Vary(w, i) \/ Label(w, i) \/ Compose(w, i)
                 \/ Retire(w, i) \/ RemoveItem(w, i)
    BY DEF ItemsNext
  <1>2. CASE Finish(w)
    BY <1>2
  <1>3. ASSUME NEW s \in Suppliers, DropSupplier(w, s) PROVE \E r : Start(w, r) /\ Asked(r) /\ Found(r, db)
    BY <1>3, DropSupplierAsks
  <1>4. ASSUME NEW i \in Items, Create(w, i) \/ Checkout(w, i) PROVE \E r : Start(w, r) /\ Asked(r) /\ Found(r, db)
    BY <1>4, CreateAsks, CheckoutAsks
  <1>5. ASSUME NEW i \in Items, db.item[i].st # "absent",
               Recode(w, i) \/ Source(w, i) \/ Vary(w, i) \/ Label(w, i) \/ Compose(w, i) \/ Retire(w, i) \/ RemoveItem(w, i)
        PROVE  \E r : Start(w, r) /\ Asked(r) /\ Found(r, db)
    BY <1>5, RecodeAsks, SourceAsks, VaryAsks, LabelAsks, ComposeAsks, EndAsks
  <1>. QED
    BY <1>1, <1>2, <1>3, <1>4, <1>5

(***************************************************************************)
(* What each request makes of the rows.                                    *)
(***************************************************************************)
LEMMA DbHas ==
  ASSUME NEW d \in Db
  PROVE  /\ d.item \in [Items -> ItemRow] /\ d.variant \in [Variants -> VariantRow]
         /\ d.link \in [Items -> [Suppliers -> Links]] /\ d.line \in [Items -> [Items -> Lines]]
         /\ d.rows \in [Items -> [Keys -> Nat]] /\ d.supplier \in [Suppliers -> BOOLEAN]
  BY DEF Db

LEMMA DbIs ==
  ASSUME NEW I \in [Items -> ItemRow], NEW V \in [Variants -> VariantRow],
         NEW K \in [Items -> [Suppliers -> Links]], NEW L \in [Items -> [Items -> Lines]],
         NEW R \in [Items -> [Keys -> Nat]], NEW S \in [Suppliers -> BOOLEAN], NEW d \in Db,
         NEW e, e = [d EXCEPT !.item = I, !.variant = V, !.link = K, !.line = L, !.rows = R, !.supplier = S]
  PROVE  /\ e \in Db /\ e.item = I /\ e.variant = V /\ e.link = K /\ e.line = L /\ e.rows = R /\ e.supplier = S
  BY DEF Db

TrackAfter(r, d) == IF r.track = Keep THEN d.item[r.item].tracked ELSE r.track = "on"
UnitAfter(r, d) == Rewritten(d.item[r.item].unit, r.unit)
Relabels(r, seen, d) == Kind[r.item] = "supply" /\ UnitAfter(r, d) # seen.item[r.item].unit
RowAfter(r, seen, d) ==
  [d.item[r.item] EXCEPT !.code = Rewritten(@, r.code), !.tracked = TrackAfter(r, d), !.unit = UnitAfter(r, d),
                         !.varied = VariedAfter(r, seen, @), !.sup = IF r.how = Keep THEN @ ELSE r.pick]
LineAfter(r, seen, d, s, c) ==
  IF s = r.item /\ r.op = "compose" THEN r.of[c]
  ELSE IF Relabels(r, seen, d) /\ c = r.item /\ d.line[s][c] \in Units THEN UnitAfter(r, d) ELSE d.line[s][c]
VariantAfter(r, d, v) ==
  IF v # r.variant THEN d.variant[v]
  ELSE IF r.what = "drop" THEN [d.variant[v] EXCEPT !.st = "gone"]
  ELSE [st |-> IF r.what = "add" THEN "live" ELSE d.variant[v].st, code |-> r.barcode]

EditedAs(d, seen, r, e) ==
  /\ e.item = [d.item EXCEPT ![r.item] = RowAfter(r, seen, d)]
  /\ e.link = [d.link EXCEPT ![r.item] = Linked(r, seen, d.link[r.item])]
  /\ e.rows = [d.rows EXCEPT ![r.item] = RowsAfter(r, seen, d.rows[r.item], TrackAfter(r, d))]
  /\ e.line = [s \in Items |-> [c \in Items |-> LineAfter(r, seen, d, s, c)]]
  /\ e.variant = [v \in Variants |-> VariantAfter(r, d, v)]
  /\ e.supplier = d.supplier
LEMMA EditedIs ==
  ASSUME NEW d \in Db, NEW seen \in Db, NEW r, r.item \in Items, NEW e, e = Edited(r, seen, d)
  PROVE  EditedAs(d, seen, r, e)
  BY DEF EditedAs, Edited, Db, TrackAfter, UnitAfter, Relabels, RowAfter, LineAfter, VariantAfter

CreatedRow(r, d) == [st |-> "live", code |-> Rewritten(None, r.code), tracked |-> r.track # "off",
                     varied |-> r.what = "add", sup |-> IF r.pick = None THEN Default ELSE r.pick,
                     unit |-> d.item[r.item].unit]
CreatedAs(d, r, e) ==
  /\ e.item = [d.item EXCEPT ![r.item] = CreatedRow(r, d)]
  /\ e.link = [d.link EXCEPT ![r.item] = Listed(d.link[r.item], r.list, IF r.pick = None THEN Default ELSE r.pick)]
  /\ e.rows = [d.rows EXCEPT ![r.item] = [k \in Keys |->
                     IF r.track # "off" /\ (k = "base" \/ (r.what = "add" /\ k = r.variant)) THEN 1 ELSE 0]]
  /\ e.line = [d.line EXCEPT ![r.item] = r.of]
  /\ e.variant = [v \in Variants |-> IF r.what = "add" /\ v = r.variant THEN [st |-> "live", code |-> r.barcode]
                                         ELSE d.variant[v]]
  /\ e.supplier = [d.supplier EXCEPT ![Default] = @ \/ r.pick = None]
LEMMA CreatedIs ==
  ASSUME NEW d \in Db, NEW r, r.item \in Items, NEW e, e = Created(r, d)
  PROVE  CreatedAs(d, r, e)
  <1>1. PICK V : V = IF r.what = "add" THEN {r.variant} ELSE {}
    OBVIOUS
  <1>2. PICK p : p = IF r.pick = None THEN Default ELSE r.pick
    OBVIOUS
  <1>3. /\ (V # {}) = (r.what = "add")
        /\ \A k : k \in V <=> r.what = "add" /\ k = r.variant
        /\ \A k : k \in V \cup {"base"} <=> k = "base" \/ (r.what = "add" /\ k = r.variant)
    BY <1>1
  <1>4. PICK on \in BOOLEAN : on = (r.track # "off")
    OBVIOUS
  <1>5. e = [d EXCEPT !.item[r.item] = [st |-> "live", code |-> Rewritten(None, r.code), tracked |-> on,
                               varied |-> V # {}, sup |-> p, unit |-> @.unit],
                  !.link[r.item] = Listed(@, r.list, p),
                  !.supplier[Default] = @ \/ r.pick = None,
                  !.variant = [v \in Variants |->
                      IF v \in V THEN [st |-> "live", code |-> r.barcode] ELSE @[v]],
                  !.line[r.item] = r.of,
                  !.rows[r.item] = [k \in Keys |-> IF on /\ k \in V \cup {"base"} THEN 1 ELSE 0]]
    BY <1>1, <1>2, <1>4 DEF Created
  <1>6. /\ e.item = [d.item EXCEPT ![r.item] = [st |-> "live", code |-> Rewritten(None, r.code), tracked |-> on,
                               varied |-> V # {}, sup |-> p, unit |-> d.item[r.item].unit]]
        /\ e.link = [d.link EXCEPT ![r.item] = Listed(d.link[r.item], r.list, p)]
        /\ e.supplier = [d.supplier EXCEPT ![Default] = @ \/ r.pick = None]
        /\ e.variant = [v \in Variants |-> IF v \in V THEN [st |-> "live", code |-> r.barcode] ELSE d.variant[v]]
        /\ e.line = [d.line EXCEPT ![r.item] = r.of]
        /\ e.rows = [d.rows EXCEPT ![r.item] = [k \in Keys |-> IF on /\ k \in V \cup {"base"} THEN 1 ELSE 0]]
    BY <1>5 DEF Db
  <1>7. e.item = [d.item EXCEPT ![r.item] = CreatedRow(r, d)]
    BY <1>2, <1>3, <1>4, <1>6 DEF CreatedRow
  <1>8. [k \in Keys |-> IF on /\ k \in V \cup {"base"} THEN 1 ELSE 0] =
        [k \in Keys |-> IF r.track # "off" /\ (k = "base" \/ (r.what = "add" /\ k = r.variant)) THEN 1 ELSE 0]
    BY <1>3, <1>4
  <1>9. [v \in Variants |-> IF v \in V THEN [st |-> "live", code |-> r.barcode] ELSE d.variant[v]] =
        [v \in Variants |-> IF r.what = "add" /\ v = r.variant THEN [st |-> "live", code |-> r.barcode] ELSE d.variant[v]]
    BY <1>3
  <1>. QED
    BY <1>2, <1>6, <1>7, <1>8, <1>9, Zenon DEF CreatedAs

RetiredAs(d, r, e) ==
  /\ e.item = [d.item EXCEPT ![r.item] = [@ EXCEPT !.st = "gone"]]
  /\ e.rows = [d.rows EXCEPT ![r.item] = [k \in Keys |-> 0]]
  /\ e.variant = [v \in Variants |-> IF v \in LiveOf(d, r.item) THEN [d.variant[v] EXCEPT !.st = "gone"] ELSE d.variant[v]]
  /\ e.link = d.link /\ e.line = d.line /\ e.supplier = d.supplier
LEMMA RetiredIs ==
  ASSUME NEW d \in Db, NEW r, r.item \in Items, NEW e, e = Retired(r, d)
  PROVE  RetiredAs(d, r, e)
  BY DEF RetiredAs, Retired, Db

RemovedAs(d, r, e) ==
  /\ e.item = [d.item EXCEPT ![r.item] = [@ EXCEPT !.st = "gone"]]
  /\ e.rows = [d.rows EXCEPT ![r.item] = [k \in Keys |-> 0]]
  /\ e.line = [s \in Items |-> [c \in Items |->
           IF r.item \in {s, c} /\ d.line[s][c] \in Units THEN "gone" ELSE d.line[s][c]]]
  /\ e.link = d.link /\ e.variant = d.variant /\ e.supplier = d.supplier
LEMMA RemovedIs ==
  ASSUME NEW d \in Db, NEW r, r.item \in Items, NEW e, e = Removed(r, d)
  PROVE  RemovedAs(d, r, e)
  BY DEF RemovedAs, Removed, Db

SupplierGoneAs(d, r, e) ==
  /\ e.link = [i \in Items |-> [s \in Suppliers |->
           IF s = r.pick /\ d.link[i][s] \in LinkLive THEN "gone" ELSE d.link[i][s]]]
  /\ e.supplier = [d.supplier EXCEPT ![r.pick] = FALSE]
  /\ e.item = d.item /\ e.variant = d.variant /\ e.line = d.line /\ e.rows = d.rows
LEMMA SupplierGoneIs ==
  ASSUME NEW d \in Db, NEW r, NEW e, e = SupplierGone(r, d)
  PROVE  SupplierGoneAs(d, r, e)
  BY DEF SupplierGoneAs, SupplierGone, Db

SoldAs(d, seen, r, e) ==
  /\ e.rows = IF seen.rows[r.item][r.place] = 0
                  THEN [d.rows EXCEPT ![r.item][r.place] = @ + 1] ELSE d.rows
  /\ e.item = d.item /\ e.variant = d.variant /\ e.line = d.line /\ e.link = d.link /\ e.supplier = d.supplier
LEMMA SoldIs ==
  ASSUME NEW d \in Db, NEW seen, NEW r, r.item \in Items, NEW e, e = Sold(r, seen, d)
  PROVE  SoldAs(d, seen, r, e)
  BY DEF SoldAs, Sold, Db

(***************************************************************************)
(* Types.                                                                  *)
(***************************************************************************)
LEMMA LinksTyped ==
  ASSUME NEW links \in [Suppliers -> Links], NEW S, NEW p
  PROVE  Listed(links, S, p) \in [Suppliers -> Links] /\ Promoted(links, p) \in [Suppliers -> Links]
  <1>1. ASSUME NEW s \in Suppliers
        PROVE  /\ (IF s = p THEN "preferred" ELSE IF s \in S THEN "other"
                   ELSE IF links[s] \in LinkLive THEN "gone" ELSE links[s]) \in Links
               /\ (IF s = p THEN "preferred" ELSE IF links[s] = "preferred" THEN "other" ELSE links[s]) \in Links
    <2>1. links[s] \in Links /\ {"preferred", "other", "gone"} \subseteq Links
      BY DEF Links
    <2>. QED
      BY <2>1
  <1>. QED
    BY <1>1 DEF Listed, Promoted

LEMMA RowsTyped ==
  ASSUME NEW old \in [Keys -> Nat], NEW r, NEW seen, NEW t
  PROVE  RowsAfter(r, seen, old, t) \in [Keys -> Nat]
  BY DEF RowsAfter

LEMMA EditedTyped ==
  ASSUME NEW d \in Db, NEW seen \in Db, NEW r, Asked(r), Found(r, seen),
         r.op \in {"recode", "source", "vary", "label", "compose"}
  PROVE  Edited(r, seen, d) \in Db
  <1>1. PICK e : e = Edited(r, seen, d)
    OBVIOUS
  <1>2. r.item \in Items /\ r \in Request
    BY DEF Asked
  <1>3. /\ r.code \in Codes \cup {None, Keep} /\ r.track \in {"on", "off", Keep} /\ r.unit \in Units \cup {Keep}
        /\ r.what \in {Keep, "add", "drop", "set"} /\ r.barcode \in Codes \cup {None} /\ r.how \in {Keep, "list", "empty", "legacy"}
    BY <1>2 DEF Request
  <1>4. r.how # Keep => r.pick \in Suppliers
    BY DEF Asked
  <1>5. d.item[r.item] \in ItemRow
    BY <1>2, DbHas
  <1>6. RowAfter(r, seen, d) \in ItemRow
    <2>1. PICK q : q = d.item[r.item]
      OBVIOUS
    <2>2. q \in ItemRow
      BY <1>5, <2>1
    <2>3. PICK c : c = Rewritten(q.code, r.code)
      OBVIOUS
    <2>4. PICK t : t = TrackAfter(r, d)
      OBVIOUS
    <2>5. PICK u : u = UnitAfter(r, d)
      OBVIOUS
    <2>6. PICK v : v = VariedAfter(r, seen, q.varied)
      OBVIOUS
    <2>7. PICK s : s = IF r.how = Keep THEN q.sup ELSE r.pick
      OBVIOUS
    <2>8. c \in Codes \cup {None}
      BY <1>3, <2>2, <2>3 DEF Rewritten, ItemRow
    <2>9. t \in BOOLEAN
      BY <2>1, <2>2, <2>4 DEF TrackAfter, ItemRow
    <2>10. u \in Units
      BY <1>3, <2>1, <2>2, <2>5 DEF UnitAfter, Rewritten, ItemRow
    <2>11. v \in BOOLEAN
      BY <2>2, <2>6 DEF VariedAfter, ItemRow
    <2>12. s \in Suppliers \cup {None}
      BY <1>4, <2>2, <2>7 DEF ItemRow
    <2>13. [q EXCEPT !.code = c, !.tracked = t, !.unit = u, !.varied = v, !.sup = s] \in ItemRow
      BY <2>2, <2>8, <2>9, <2>10, <2>11, <2>12 DEF ItemRow
    <2>14. RowAfter(r, seen, d) = [q EXCEPT !.code = c, !.tracked = t, !.unit = u, !.varied = v, !.sup = s]
      BY <2>1, <2>3, <2>4, <2>5, <2>6, <2>7 DEF RowAfter
    <2>. QED
      BY <2>13, <2>14
  <1>7. Linked(r, seen, d.link[r.item]) \in [Suppliers -> Links]
    BY <1>2, DbHas, LinksTyped DEF Linked
  <1>8. RowsAfter(r, seen, d.rows[r.item], TrackAfter(r, d)) \in [Keys -> Nat]
    BY <1>2, DbHas, RowsTyped
  <1>9. ASSUME NEW s \in Items, NEW c \in Items PROVE LineAfter(r, seen, d, s, c) \in Lines
    <2>1. d.line[s][c] \in Lines /\ d.item[r.item] \in ItemRow
      BY <1>2, DbHas
    <2>2. UnitAfter(r, d) \in Units
      BY <1>3, <2>1 DEF UnitAfter, Rewritten, ItemRow
    <2>3. r.of[c] \in Units \cup {None}
      BY <1>2 DEF Request
    <2>. QED
      BY <2>1, <2>2, <2>3 DEF LineAfter, Lines, None
  <1>10. ASSUME NEW v \in Variants PROVE VariantAfter(r, d, v) \in VariantRow
    <2>1. d.variant[v] \in VariantRow
      BY DbHas
    <2>. QED
      BY <1>3, <2>1 DEF VariantAfter, VariantRow
  <1>13. EditedAs(d, seen, r, e)
    BY <1>1, <1>2, EditedIs
  <1>11. /\ e.item \in [Items -> ItemRow] /\ e.link \in [Items -> [Suppliers -> Links]]
         /\ e.rows \in [Items -> [Keys -> Nat]] /\ e.line \in [Items -> [Items -> Lines]]
         /\ e.variant \in [Variants -> VariantRow] /\ e.supplier \in [Suppliers -> BOOLEAN]
    BY <1>2, <1>6, <1>7, <1>8, <1>9, <1>10, <1>13, DbHas DEF EditedAs
  <1>12. e = [d EXCEPT !.item = e.item, !.link = e.link, !.rows = e.rows, !.line = e.line, !.variant = e.variant]
    BY <1>1 DEF Edited, Db
  <1>. QED
    BY <1>1, <1>11, <1>12 DEF Db

LEMMA CreatedTyped ==
  ASSUME NEW d \in Db, NEW r, Asked(r), r.op = "create"
  PROVE  Created(r, d) \in Db
  <1>1. PICK e : e = Created(r, d)
    OBVIOUS
  <1>2. r.item \in Items /\ r \in Request
    BY DEF Asked
  <1>3. /\ r.code \in Codes \cup {None, Keep} /\ r.barcode \in Codes \cup {None}
    BY <1>2 DEF Request
  <1>4. PICK p \in Suppliers : p = IF r.pick = None THEN Default ELSE r.pick
    BY CatalogueAssumption DEF Asked
  <1>5. d.item[r.item] \in ItemRow /\ \A c \in Items : d.item[c].unit \in Units
    BY <1>2, DbHas DEF ItemRow
  <1>6. CreatedRow(r, d) \in ItemRow
    BY <1>3, <1>4, <1>5 DEF CreatedRow, ItemRow, Rewritten
  <1>7. Listed(d.link[r.item], r.list, p) \in [Suppliers -> Links]
    BY <1>2, DbHas, LinksTyped
  <1>8. r.of \in [Items -> Lines]
    BY <1>2 DEF Request, Lines, None
  <1>9. [k \in Keys |-> IF r.track # "off" /\ (k = "base" \/ (r.what = "add" /\ k = r.variant)) THEN 1 ELSE 0] \in [Keys -> Nat]
    OBVIOUS
  <1>10. ASSUME NEW v \in Variants
         PROVE  (IF r.what = "add" /\ v = r.variant THEN [st |-> "live", code |-> r.barcode] ELSE d.variant[v]) \in VariantRow
    <2>1. d.variant[v] \in VariantRow
      BY DbHas
    <2>. QED
      BY <1>3, <2>1 DEF VariantRow
  <1>13. CreatedAs(d, r, e)
    BY <1>1, <1>2, CreatedIs
  <1>11. /\ e.item \in [Items -> ItemRow] /\ e.link \in [Items -> [Suppliers -> Links]]
         /\ e.rows \in [Items -> [Keys -> Nat]] /\ e.line \in [Items -> [Items -> Lines]]
         /\ e.variant \in [Variants -> VariantRow] /\ e.supplier \in [Suppliers -> BOOLEAN]
    <2>1. e.item \in [Items -> ItemRow]
      BY <1>13, <1>2, <1>6, DbHas DEF CreatedAs
    <2>2. e.link \in [Items -> [Suppliers -> Links]]
      BY <1>13, <1>2, <1>4, <1>7, DbHas DEF CreatedAs
    <2>3. e.rows \in [Items -> [Keys -> Nat]]
      BY <1>13, <1>2, <1>9, DbHas DEF CreatedAs
    <2>4. e.line \in [Items -> [Items -> Lines]]
      BY <1>13, <1>2, <1>8, DbHas DEF CreatedAs
    <2>5. e.variant \in [Variants -> VariantRow]
      BY <1>13, <1>2, <1>10 DEF CreatedAs
    <2>6. e.supplier \in [Suppliers -> BOOLEAN]
      <3>1. PICK b \in BOOLEAN : b = (d.supplier[Default] \/ r.pick = None)
        OBVIOUS
      <3>2. e.supplier = [d.supplier EXCEPT ![Default] = b]
        BY <1>13, <3>1, Zenon DEF CreatedAs
      <3>3. PICK B : B = BOOLEAN
        OBVIOUS
      <3>4. d.supplier \in [Suppliers -> B] /\ b \in B
        BY <3>3, DbHas
      <3>5. [d.supplier EXCEPT ![Default] = b] \in [Suppliers -> B]
        BY <3>4
      <3>. QED
        BY <3>2, <3>3, <3>5
    <2>. QED
      BY <2>1, <2>2, <2>3, <2>4, <2>5, <2>6
  <1>12. e = [d EXCEPT !.item = e.item, !.link = e.link, !.supplier = e.supplier, !.variant = e.variant, !.line = e.line, !.rows = e.rows]
    BY <1>1 DEF Created, Db
  <1>. QED
    BY <1>1, <1>11, <1>12 DEF Db

LEMMA EndTyped ==
  ASSUME NEW d \in Db, NEW r, r.item \in Items
  PROVE  Retired(r, d) \in Db /\ Removed(r, d) \in Db
  <1>1. [k \in Keys |-> 0] \in [Keys -> Nat]
    OBVIOUS
  <1>2. [d.item[r.item] EXCEPT !.st = "gone"] \in ItemRow
    <2>1. PICK q : q = d.item[r.item]
      OBVIOUS
    <2>2. q \in ItemRow
      BY <2>1, DbHas
    <2>3. [q EXCEPT !.st = "gone"] \in ItemRow
      BY <2>2 DEF ItemRow
    <2>. QED
      BY <2>1, <2>3
  <1>3. Retired(r, d) \in Db
    <2>1. PICK e : e = Retired(r, d)
      OBVIOUS
    <2>2. RetiredAs(d, r, e)
      BY <2>1, RetiredIs
    <2>3. ASSUME NEW v \in Variants
          PROVE  (IF v \in LiveOf(d, r.item) THEN [d.variant[v] EXCEPT !.st = "gone"] ELSE d.variant[v]) \in VariantRow
      <3>1. PICK q : q = d.variant[v]
        OBVIOUS
      <3>2. q \in VariantRow
        BY <3>1, DbHas
      <3>3. [q EXCEPT !.st = "gone"] \in VariantRow
        BY <3>2 DEF VariantRow
      <3>. QED
        BY <3>1, <3>2, <3>3
    <2>4. /\ e.item \in [Items -> ItemRow] /\ e.rows \in [Items -> [Keys -> Nat]] /\ e.variant \in [Variants -> VariantRow]
      BY <1>1, <1>2, <2>2, <2>3, DbHas DEF RetiredAs
    <2>5. e = [d EXCEPT !.item = e.item, !.rows = e.rows, !.variant = e.variant]
      BY <2>1 DEF Retired, Db
    <2>. QED
      BY <2>1, <2>4, <2>5 DEF Db
  <1>4. Removed(r, d) \in Db
    <2>1. PICK e : e = Removed(r, d)
      OBVIOUS
    <2>2. RemovedAs(d, r, e)
      BY <2>1, RemovedIs
    <2>3. ASSUME NEW s \in Items, NEW c \in Items
          PROVE  (IF r.item \in {s, c} /\ d.line[s][c] \in Units THEN "gone" ELSE d.line[s][c]) \in Lines
      <3>1. d.line[s][c] \in Lines
        BY DbHas
      <3>. QED
        BY <3>1 DEF Lines
    <2>4. /\ e.item \in [Items -> ItemRow] /\ e.rows \in [Items -> [Keys -> Nat]] /\ e.line \in [Items -> [Items -> Lines]]
      BY <1>1, <1>2, <2>2, <2>3, DbHas DEF RemovedAs
    <2>5. e = [d EXCEPT !.item = e.item, !.rows = e.rows, !.line = e.line]
      BY <2>1 DEF Removed, Db
    <2>. QED
      BY <2>1, <2>4, <2>5 DEF Db
  <1>. QED
    BY <1>3, <1>4

LEMMA SupplierGoneTyped ==
  ASSUME NEW d \in Db, NEW r
  PROVE  SupplierGone(r, d) \in Db
  <1>1. PICK e : e = SupplierGone(r, d)
    OBVIOUS
  <1>2. SupplierGoneAs(d, r, e)
    BY <1>1, SupplierGoneIs
  <1>3. ASSUME NEW i \in Items, NEW s \in Suppliers
        PROVE  (IF s = r.pick /\ d.link[i][s] \in LinkLive THEN "gone" ELSE d.link[i][s]) \in Links
    <2>1. d.link[i][s] \in Links
      BY DbHas
    <2>. QED
      BY <2>1 DEF Links
  <1>4. e.link \in [Items -> [Suppliers -> Links]]
    BY <1>2, <1>3 DEF SupplierGoneAs
  <1>5. e.supplier \in [Suppliers -> BOOLEAN]
    <2>1. PICK B : B = BOOLEAN
      OBVIOUS
    <2>2. d.supplier \in [Suppliers -> B] /\ FALSE \in B
      BY <2>1, DbHas
    <2>3. [d.supplier EXCEPT ![r.pick] = FALSE] \in [Suppliers -> B]
      BY <2>2
    <2>. QED
      BY <1>2, <2>1, <2>3 DEF SupplierGoneAs
  <1>6. e = [d EXCEPT !.link = e.link, !.supplier = e.supplier]
    BY <1>1 DEF SupplierGone, Db
  <1>. QED
    BY <1>1, <1>4, <1>5, <1>6 DEF Db

LEMMA SoldTyped ==
  ASSUME NEW d \in Db, NEW seen, NEW r, r.item \in Items, r.place \in Keys
  PROVE  Sold(r, seen, d) \in Db
  <1>1. PICK e : e = Sold(r, seen, d)
    OBVIOUS
  <1>2. SoldAs(d, seen, r, e)
    BY <1>1, SoldIs
  <1>3. d.rows[r.item][r.place] + 1 \in Nat
    BY DbHas
  <1>4. e.rows \in [Items -> [Keys -> Nat]]
    BY <1>2, <1>3, DbHas DEF SoldAs
  <1>5. e = [d EXCEPT !.rows = e.rows]
    BY <1>1 DEF Sold, Db
  <1>. QED
    BY <1>1, <1>4, <1>5 DEF Db

LEMMA AfterTyped ==
  ASSUME NEW d \in Db, NEW seen \in Db, NEW r, Asked(r), Found(r, seen)
  PROVE  After(r, seen, d) \in Db
  <1>1. r.op \in Calls /\ (r.op # "dropSupplier" => r.item \in Items) /\ r.place \in Keys
    BY DEF Asked, Request
  <1>2. CASE r.op = "create"
    BY <1>2, CreatedTyped DEF After
  <1>3. CASE r.op = "retire" \/ r.op = "remove"
    BY <1>1, <1>3, EndTyped DEF After
  <1>4. CASE r.op = "dropSupplier"
    BY <1>4, SupplierGoneTyped DEF After
  <1>5. CASE r.op = "sell"
    BY <1>1, <1>5, SoldTyped DEF After
  <1>6. CASE r.op \in {"recode", "source", "vary", "label", "compose"}
    BY <1>6, EditedTyped DEF After
  <1>. QED
    BY <1>1, <1>2, <1>3, <1>4, <1>5, <1>6 DEF Calls

\* Every request under way is one that a handler takes, and found what it checks.
JobsInv == \A w \in Clerks : ~AtRest(w) => Asked(job[w].ask) /\ Found(job[w].ask, job[w].seen) /\ job[w].ask.op \in mix
ItemsTyped == ItemsTypeOK /\ job \in [Clerks -> [ask: Request, seen: Db]] /\ JobsInv

LEMMA NoTxMade == NoTx \in [ask: Request, seen: Db] /\ NoTx.ask = NoRequest
  <1>1. (CHOOSE d \in Origins : TRUE) \in Db
    BY CatalogueAssumption
  <1>. QED
    BY <1>1, NoneAsked DEF NoTx

LEMMA StartTyped ==
  ASSUME ItemsTyped, NEW w \in Clerks, NEW r, begun < MaxRequests, Start(w, r), Asked(r), Found(r, db)
  PROVE  ItemsTyped'
  <1>1. PICK t : t = [ask |-> r, seen |-> db]
    OBVIOUS
  <1>2. t \in [ask: Request, seen: Db] /\ t.ask = r /\ t.seen = db
    BY <1>1 DEF Asked, ItemsTyped, ItemsTypeOK
  <1>3. job' = [job EXCEPT ![w] = t]
    BY <1>1 DEF Start
  <1>4. job' \in [Clerks -> [ask: Request, seen: Db]] /\ job'[w] = t /\ \A v \in Clerks \ {w} : job'[v] = job[v]
    BY <1>2, <1>3 DEF ItemsTyped
  <1>5. /\ mix' = mix /\ plan' = plan /\ db' = db /\ sent' = sent /\ dropped' = dropped /\ strayed' = strayed
        /\ bare' = bare /\ opened' = opened /\ retired' = retired /\ astray' = astray /\ r.op \in mix
        /\ begun' = begun + 1 /\ raced' \in BOOLEAN
    BY DEF Start, ItemsTyped, ItemsTypeOK
  <1>6. begun' \in 0..MaxRequests
    BY <1>5, CatalogueAssumption DEF ItemsTyped, ItemsTypeOK
  <1>7. \A v \in Clerks : job'[v].ask \in Request /\ job'[v].seen \in Db
    BY <1>4
  <1>8. ItemsTypeOK'
    BY <1>5, <1>6, <1>7 DEF ItemsTypeOK, ItemsTyped
  <1>9. JobsInv'
    <2> SUFFICES ASSUME NEW v \in Clerks, job'[v].ask # NoRequest
                 PROVE  Asked(job'[v].ask) /\ Found(job'[v].ask, job'[v].seen) /\ job'[v].ask.op \in mix'
      BY DEF JobsInv, AtRest
    <2>1. CASE v = w
      BY <1>2, <1>4, <1>5, <2>1
    <2>2. CASE v # w
      BY <1>4, <1>5, <2>2 DEF JobsInv, ItemsTyped, AtRest
    <2>. QED
      BY <2>1, <2>2
  <1>. QED
    BY <1>4, <1>8, <1>9 DEF ItemsTyped

LEMMA FinishTyped ==
  ASSUME ItemsTyped, NEW w \in Clerks, Finish(w)
  PROVE  ItemsTyped'
  <1>1. PICK r, seen, i : r = job[w].ask /\ seen = job[w].seen /\ i = r.item
    OBVIOUS
  <1>2. Asked(r) /\ Found(r, seen) /\ r \in Request /\ seen \in Db /\ db \in Db
    BY <1>1 DEF ItemsTyped, ItemsTypeOK, JobsInv, Finish
  <1>13. opened' = opened \/ (r.op = "sell" /\ opened' = opened \cup {i})
    BY <1>1, Zenon DEF Finish
  <1>14. retired' = retired \/ (r.op = "retire" /\ retired' = retired \cup {i})
    BY <1>1, Zenon DEF Finish
  <1>15. astray' = astray \/ (r.op \in {"create", "compose"} /\
            astray' = (astray \ ({i} \X Items)) \cup ({i} \X Misstated(db, r.of)))
    BY <1>1, Zenon DEF Finish
  <1>3. /\ job' = [job EXCEPT ![w] = NoTx] /\ db' = After(r, seen, db) /\ sent' = Stamped(r, seen, db)
        /\ dropped' = dropped \cup IF r.op = "dropSupplier" THEN {r.pick} ELSE {}
        /\ strayed' = IF r.how = Keep THEN strayed
                      ELSE IF r.how = "empty" /\ Preferred(db, i) # {r.pick} THEN strayed \cup {i}
                      ELSE IF r.how = "empty" THEN strayed ELSE strayed \ {i}
        /\ bare' = IF r.op = "vary" THEN (bare \ GivenRows(r, seen)) \cup LeftOut(r, seen) ELSE bare
        /\ UNCHANGED <<mix, plan, begun, raced>>
    BY <1>1 DEF Finish
  <1>4. db' \in Db
    BY <1>2, <1>3, AfterTyped
  <1>5. /\ r.op = "dropSupplier" => r.pick \in Suppliers
        /\ r.op # "dropSupplier" => i \in Items
        /\ r.how # Keep => i \in Items
        /\ r.what # Keep => r.variant \in Variants
    BY <1>1, <1>2 DEF Asked
  <1>6. sent' \subseteq Items
    <2>1. r.op \in {"sell", "dropSupplier"} => Stamped(r, seen, db) \subseteq Items
      BY DEF Stamped
    <2>2. r.op \notin {"sell", "dropSupplier"} => Stamped(r, seen, db) \subseteq {i} \cup UsedIn(seen, i)
      BY <1>1, Zenon DEF Stamped
    <2>3. UsedIn(seen, i) \subseteq Items
      BY DEF UsedIn
    <2>. QED
      BY <1>3, <1>5, <2>1, <2>2, <2>3
  <1>7. dropped' \subseteq Suppliers /\ strayed' \subseteq Items /\ opened' \subseteq Items /\ retired' \subseteq Items
    BY <1>3, <1>5, <1>13, <1>14 DEF ItemsTyped, ItemsTypeOK
  <1>8. bare' \subseteq Items \cup Variants
    BY <1>1, <1>3, <1>5 DEF ItemsTyped, ItemsTypeOK, LeftOut, LiveOf, Of
  <1>16. astray' \subseteq Items \X Items
    BY <1>5, <1>15 DEF ItemsTyped, ItemsTypeOK, Misstated
  <1>9. job' \in [Clerks -> [ask: Request, seen: Db]] /\ job'[w] = NoTx /\ \A v \in Clerks \ {w} : job'[v] = job[v]
    BY <1>3, NoTxMade DEF ItemsTyped
  <1>10. \A v \in Clerks : job'[v].ask \in Request /\ job'[v].seen \in Db
    BY <1>9
  <1>11. ItemsTypeOK'
    BY <1>3, <1>4, <1>6, <1>7, <1>8, <1>10, <1>16 DEF ItemsTypeOK, ItemsTyped
  <1>12. JobsInv'
    <2> SUFFICES ASSUME NEW v \in Clerks, job'[v].ask # NoRequest
                 PROVE  Asked(job'[v].ask) /\ Found(job'[v].ask, job'[v].seen) /\ job'[v].ask.op \in mix'
      BY DEF JobsInv, AtRest
    <2>1. v # w
      BY <1>9, NoTxMade
    <2>. QED
      BY <1>3, <1>9, <2>1 DEF JobsInv, ItemsTyped, AtRest
  <1>. QED
    BY <1>9, <1>11, <1>12 DEF ItemsTyped

LEMMA ItemsStart == ItemsInit => ItemsTyped
  <1> SUFFICES ASSUME ItemsInit PROVE ItemsTyped
    OBVIOUS
  <1>1. job \in [Clerks -> [ask: Request, seen: Db]] /\ \A w \in Clerks : job[w] = NoTx
    BY NoTxMade DEF ItemsInit
  <1>2. mix \in Mixes /\ plan \in Plans[mix] /\ db \in Db /\ begun \in 0..MaxRequests
    BY CatalogueAssumption DEF ItemsInit
  <1>3. ItemsTypeOK
    BY <1>1, <1>2 DEF ItemsInit, ItemsTypeOK
  <1>. QED
    BY <1>1, <1>3, NoTxMade DEF ItemsTyped, JobsInv, AtRest

LEMMA ItemsStep == ItemsTyped /\ [ItemsNext]_itemVars => ItemsTyped'
  <1> SUFFICES ASSUME ItemsTyped, [ItemsNext]_itemVars PROVE ItemsTyped'
    OBVIOUS
  <1>1. CASE UNCHANGED itemVars
    <2>1. /\ mix' = mix /\ plan' = plan /\ db' = db /\ job' = job /\ sent' = sent /\ begun' = begun /\ raced' = raced
          /\ dropped' = dropped /\ strayed' = strayed /\ bare' = bare /\ opened' = opened /\ retired' = retired /\ astray' = astray
      BY <1>1 DEF itemVars, ghosts
    <2>2. ItemsTypeOK'
      BY <2>1 DEF ItemsTyped, ItemsTypeOK
    <2>3. JobsInv'
      BY <2>1 DEF ItemsTyped, JobsInv, AtRest
    <2>. QED
      BY <2>1, <2>2, <2>3 DEF ItemsTyped
  <1>2. CASE ItemsNext
    BY <1>2, ItemSteps, StartTyped, FinishTyped DEF ItemsTyped, ItemsTypeOK
  <1>. QED
    BY <1>1, <1>2

(***************************************************************************)
(* Requests in turn.                                                       *)
(***************************************************************************)
\* Nothing but stock rows may differ.
SameButRows(d, e) ==
  /\ d.item = e.item /\ d.variant = e.variant /\ d.link = e.link /\ d.line = e.line /\ d.supplier = e.supplier
Editing(w) == ~AtRest(w) /\ job[w].ask.op # "sell"
\* While they take turns, one request edits the catalogue, and sees it as it is.
Turns == ~raced =>
  /\ \A v, w \in Clerks : Editing(v) /\ Editing(w) => v = w
  /\ \A w \in Clerks : Editing(w) => SameButRows(job[w].seen, db)

LEMMA SoldSame ==
  ASSUME NEW d \in Db, NEW seen, NEW r, r.item \in Items
  PROVE  SameButRows(d, Sold(r, seen, d))
  <1>1. PICK e : e = Sold(r, seen, d)
    OBVIOUS
  <1>2. SoldAs(d, seen, r, e)
    BY <1>1, SoldIs
  <1>. QED
    BY <1>1, <1>2 DEF SoldAs, SameButRows

LEMMA TurnsStart == ItemsInit => Turns
  BY NoTxMade DEF ItemsInit, Turns, Editing, AtRest

LEMMA TurnsStep ==
  ASSUME ItemsTyped, Turns, [ItemsNext]_itemVars
  PROVE  Turns'
  <1>1. CASE UNCHANGED itemVars
    BY <1>1 DEF itemVars, ghosts, Turns, Editing, AtRest, SameButRows
  <1>2. ASSUME NEW w \in Clerks, NEW r, Start(w, r), Asked(r) PROVE Turns'
    <2>1. PICK t : t = [ask |-> r, seen |-> db]
      OBVIOUS
    <2>2. t.ask = r /\ t.seen = db
      BY <2>1
    <2>3. job' = [job EXCEPT ![w] = t] /\ db' = db /\ (~raced' => ~raced)
      BY <1>2, <2>1 DEF Start
    <2>4. job'[w] = t /\ \A v \in Clerks \ {w} : job'[v] = job[v]
      BY <2>3 DEF ItemsTyped
    <2>5. ~raced' => r.op = "sell" \/ ~\E v \in Clerks : ~AtRest(v) /\ job[v].ask.op # "sell"
      BY <1>2, Zenon DEF Start
    <2>. QED
      BY <2>2, <2>3, <2>4, <2>5 DEF Turns, Editing, AtRest, SameButRows
  <1>3. ASSUME NEW w \in Clerks, Finish(w) PROVE Turns'
    <2>1. job' = [job EXCEPT ![w] = NoTx] /\ raced' = raced /\ ~AtRest(w)
      BY <1>3 DEF Finish
    <2>2. job'[w] = NoTx /\ \A v \in Clerks \ {w} : job'[v] = job[v]
      BY <2>1 DEF ItemsTyped
    <2>3. CASE job[w].ask.op = "sell"
      <3>1. db' = Sold(job[w].ask, job[w].seen, db)
        BY <1>3, <2>3 DEF Finish, After
      <3>2. job[w].ask.item \in Items /\ db \in Db
        BY <2>1, <2>3 DEF ItemsTyped, ItemsTypeOK, JobsInv, Asked
      <3>3. SameButRows(db, db')
        BY <3>1, <3>2, SoldSame
      <3>. QED
        BY <2>1, <2>2, <3>3, NoTxMade DEF Turns, Editing, AtRest, SameButRows
    <2>4. CASE job[w].ask.op # "sell"
      <3>1. ~raced' => \A v \in Clerks : ~(job'[v].ask # NoRequest /\ job'[v].ask.op # "sell")
        BY <2>1, <2>2, <2>4, NoTxMade DEF Turns, Editing, AtRest
      <3>. QED
        BY <3>1 DEF Turns, Editing, AtRest, SameButRows
    <2>. QED
      BY <2>3, <2>4
  <1>. QED
    BY <1>1, <1>2, <1>3, ItemSteps DEF ItemsTyped, ItemsTypeOK

\* One that sees the catalogue as it is edits it by what it is.
LEMMA FoundNow ==
  ASSUME NEW d, NEW seen, SameButRows(seen, d), NEW r, r.op # "sell", Found(r, seen)
  PROVE  Found(r, d)
  BY DEF Found, SameButRows, CodeFree, BarcodeFree, LiveItems, SourcesOf

LEMMA EditedNow ==
  ASSUME NEW d \in Db, NEW seen, SameButRows(seen, d), NEW r, NEW e, EditedAs(d, seen, r, e)
  PROVE  EditedAs(d, d, r, e)
  <1>1. LiveOf(seen, r.item) = LiveOf(d, r.item) /\ Preferred(seen, r.item) = Preferred(d, r.item)
    BY DEF SameButRows, LiveOf, Preferred
  <1>2. NowOf(r, seen) = NowOf(r, d)
    BY <1>1 DEF NowOf
  <1>3. RowAfter(r, seen, d) = RowAfter(r, d, d)
    BY <1>2 DEF RowAfter, VariedAfter
  <1>4. \A links : Linked(r, seen, links) = Linked(r, d, links)
    BY <1>1 DEF Linked
  <1>5. (TurnsOn(r, seen) <=> TurnsOn(r, d)) /\ (TurnsOff(r, seen) <=> TurnsOff(r, d))
    BY DEF TurnsOn, TurnsOff, SameButRows
  <1>6. \A t : Made(r, seen, t) = Made(r, d, t)
    BY <1>2, <1>5 DEF Made, SameButRows
  <1>7. \A old, t : RowsAfter(r, seen, old, t) = RowsAfter(r, d, old, t)
    BY <1>5, <1>6 DEF RowsAfter
  <1>8. \A s, c : LineAfter(r, seen, d, s, c) = LineAfter(r, d, d, s, c)
    BY DEF LineAfter, Relabels, SameButRows
  <1>. QED
    BY <1>3, <1>4, <1>7, <1>8 DEF EditedAs

LEMMA LeftNow ==
  ASSUME NEW d, NEW seen, SameButRows(seen, d), NEW r
  PROVE  LeftOut(r, seen) = LeftOut(r, d) /\ GivenRows(r, seen) = GivenRows(r, d) /\ UsedIn(seen, r.item) = UsedIn(d, r.item)
  <1>1. (TurnsOn(r, seen) <=> TurnsOn(r, d)) /\ LiveOf(seen, r.item) = LiveOf(d, r.item)
    BY DEF TurnsOn, SameButRows, LiveOf
  <1>. QED
    BY <1>1 DEF LeftOut, GivenRows, UsedIn, SameButRows

(***************************************************************************)
(* What stays when an item is edited.                                      *)
(***************************************************************************)
EditOps == {"recode", "source", "vary", "label", "compose"}

\* An edit of the item it names leaves the others.
LEMMA EditedFields ==
  ASSUME NEW d \in Db, NEW r, Asked(r), r.op \in EditOps, NEW e, EditedAs(d, d, r, e)
  PROVE  /\ \A j \in Items \ {r.item} : e.item[j] = d.item[j] /\ e.link[j] = d.link[j] /\ e.rows[j] = d.rows[j]
         /\ e.item[r.item].st = d.item[r.item].st
         /\ e.item[r.item].code = Rewritten(d.item[r.item].code, r.code)
         /\ e.item[r.item].unit = UnitAfter(r, d)
         /\ e.item[r.item].sup = IF r.how = Keep THEN d.item[r.item].sup ELSE r.pick
         /\ e.item[r.item].tracked <=> TrackAfter(r, d)
         /\ e.item[r.item].varied <=> VariedAfter(r, d, d.item[r.item].varied)
         /\ e.link[r.item] = Linked(r, d, d.link[r.item])
         /\ e.rows[r.item] = RowsAfter(r, d, d.rows[r.item], TrackAfter(r, d))
         /\ \A s, c \in Items : e.line[s][c] = LineAfter(r, d, d, s, c)
         /\ \A v \in Variants : e.variant[v] = VariantAfter(r, d, v)
  <1>1. r.item \in Items
    BY DEF Asked, EditOps
  <1>2. PICK q : q = d.item[r.item]
    OBVIOUS
  <1>3. q \in ItemRow
    BY <1>1, <1>2, DbHas
  <1>4. PICK t : t = TrackAfter(r, d)
    OBVIOUS
  <1>5. PICK u : u = UnitAfter(r, d)
    OBVIOUS
  <1>6. PICK v : v = VariedAfter(r, d, q.varied)
    OBVIOUS
  <1>7. PICK p : p = RowAfter(r, d, d)
    OBVIOUS
  <1>8. p = [q EXCEPT !.code = Rewritten(@, r.code), !.tracked = t, !.unit = u, !.varied = v,
                      !.sup = IF r.how = Keep THEN @ ELSE r.pick]
    BY <1>2, <1>4, <1>5, <1>6, <1>7 DEF RowAfter
  <1>9. /\ p.st = q.st /\ p.code = Rewritten(q.code, r.code) /\ p.unit = u
        /\ p.sup = IF r.how = Keep THEN q.sup ELSE r.pick
    BY <1>3, <1>8 DEF ItemRow
  <1>10. p.tracked = t /\ p.varied = v
    BY <1>3, <1>8 DEF ItemRow
  <1>11. e.item = [d.item EXCEPT ![r.item] = p]
    BY <1>7 DEF EditedAs
  <1>12. e.item[r.item] = p /\ \A j \in Items \ {r.item} : e.item[j] = d.item[j]
    BY <1>1, <1>11, DbHas
  <1>13. /\ e.link[r.item] = Linked(r, d, d.link[r.item])
         /\ \A j \in Items \ {r.item} : e.link[j] = d.link[j]
    BY <1>1, DbHas DEF EditedAs
  <1>14. /\ e.rows[r.item] = RowsAfter(r, d, d.rows[r.item], TrackAfter(r, d))
         /\ \A j \in Items \ {r.item} : e.rows[j] = d.rows[j]
    BY <1>1, DbHas DEF EditedAs
  <1>15. /\ \A s, c \in Items : e.line[s][c] = LineAfter(r, d, d, s, c)
         /\ \A x \in Variants : e.variant[x] = VariantAfter(r, d, x)
    BY DEF EditedAs
  <1>16. e.item[r.item].tracked <=> TrackAfter(r, d)
    BY <1>4, <1>10, <1>12
  <1>17. e.item[r.item].varied <=> VariedAfter(r, d, d.item[r.item].varied)
    BY <1>2, <1>6, <1>10, <1>12
  <1>. QED
    BY <1>2, <1>5, <1>9, <1>12, <1>13, <1>14, <1>15, <1>16, <1>17

LEMMA EditedVariants ==
  ASSUME NEW d \in Db, NEW r, Asked(r), Found(r, d), r.op \in EditOps, NEW e, EditedAs(d, d, r, e)
  PROVE  /\ LiveItems(e) = LiveItems(d)
         /\ LiveOf(e, r.item) = NowOf(r, d)
         /\ \A j \in Items \ {r.item} : LiveOf(e, j) = LiveOf(d, j)
         /\ \A v \in Variants : v # r.variant \/ r.what = Keep => e.variant[v] = d.variant[v]
         /\ r.what \in {"add", "set"} => e.variant[r.variant].st = "live" /\ e.variant[r.variant].code = r.barcode
         /\ r.what = "drop" => e.variant[r.variant].st = "gone"
         /\ r.what \in {"set", "drop"} => r.variant \in LiveOf(d, r.item)
         /\ r.what = "add" => r.variant \notin LiveOf(d, r.item)
  <1>1. r.item \in Items /\ r.what \in {Keep, "add", "drop", "set"}
    BY DEF Asked, EditOps, Request
  <1>2. r.what = Keep => r.variant \notin Variants
    BY CatalogueAssumption DEF Asked
  <1>3. r.what # Keep => r.variant \in Of(r.item) /\ r.variant \in Variants /\ r.op = "vary"
    BY DEF Asked, EditOps
  <1>4. \A v \in Variants : e.variant[v] = VariantAfter(r, d, v) /\ d.variant[v] \in VariantRow
    BY DbHas, EditedFields
  <1>5. \A v \in Variants : v # r.variant \/ r.what = Keep => e.variant[v] = d.variant[v]
    BY <1>2, <1>4 DEF VariantAfter
  <1>6. r.what = "drop" => e.variant[r.variant].st = "gone"
    <2>1. SUFFICES ASSUME r.what = "drop" PROVE e.variant[r.variant].st = "gone"
      OBVIOUS
    <2>2. PICK q : q = d.variant[r.variant]
      OBVIOUS
    <2>3. q \in VariantRow
      BY <2>1, <2>2, <1>3, <1>4 DEF Keep
    <2>4. e.variant[r.variant] = [q EXCEPT !.st = "gone"]
      BY <2>1, <2>2, <1>3, <1>4 DEF VariantAfter, Keep
    <2>. QED
      BY <2>3, <2>4 DEF VariantRow
  <1>7. /\ r.what \in {"set", "drop"} => d.variant[r.variant].st = "live"
        /\ r.what = "add" => d.variant[r.variant].st # "live"
    BY <1>3 DEF Found, Keep
  <1>8. r.what \in {"add", "set"} => e.variant[r.variant].st = "live" /\ e.variant[r.variant].code = r.barcode
    <2>1. SUFFICES ASSUME r.what \in {"add", "set"}
                   PROVE  e.variant[r.variant].st = "live" /\ e.variant[r.variant].code = r.barcode
      OBVIOUS
    <2>2. PICK x : x = r.variant
      OBVIOUS
    <2>3. x \in Variants /\ r.what # "drop"
      BY <2>1, <2>2, <1>3 DEF Keep
    <2>4. e.variant[x] = [st |-> IF r.what = "add" THEN "live" ELSE d.variant[x].st, code |-> r.barcode]
      BY <2>2, <2>3, <1>4 DEF VariantAfter
    <2>5. (IF r.what = "add" THEN "live" ELSE d.variant[x].st) = "live"
      BY <2>1, <2>2, <1>7
    <2>6. e.variant[x] = [st |-> "live", code |-> r.barcode]
      BY <2>4, <2>5
    <2>. QED
      BY <2>2, <2>6
  <1>9. LiveItems(e) = LiveItems(d)
    <2>1. \A j \in Items : e.item[j].st = d.item[j].st
      BY EditedFields
    <2>. QED
      BY <2>1 DEF LiveItems
  <1>10. LiveOf(e, r.item) = NowOf(r, d)
    <2>1. CASE r.what = Keep
      BY <1>5, <2>1 DEF LiveOf, NowOf, Of, Keep
    <2>2. CASE r.what = "add"
      BY <1>3, <1>5, <1>8, <2>2 DEF LiveOf, NowOf, Of, Keep
    <2>3. CASE r.what = "drop"
      BY <1>3, <1>5, <1>6, <2>3 DEF LiveOf, NowOf, Of, Keep
    <2>4. CASE r.what = "set"
      BY <1>3, <1>5, <1>7, <1>8, <2>4 DEF LiveOf, NowOf, Of, Keep
    <2>. QED
      BY <1>1, <2>1, <2>2, <2>3, <2>4
  <1>11. ASSUME NEW j \in Items \ {r.item} PROVE LiveOf(e, j) = LiveOf(d, j)
    <2>1. \A v \in Of(j) : v \in Variants /\ e.variant[v] = d.variant[v]
      BY <1>3, <1>5 DEF Of
    <2>. QED
      BY <2>1 DEF LiveOf
  <1>12. /\ r.what \in {"set", "drop"} => r.variant \in LiveOf(d, r.item)
         /\ r.what = "add" => r.variant \notin LiveOf(d, r.item)
    BY <1>3, <1>7 DEF LiveOf, Keep
  <1>. QED
    BY <1>5, <1>6, <1>8, <1>9, <1>10, <1>11, <1>12

\* Keys of a row are apart: places, and variants.
LEMMA KeysApart ==
  /\ "base" \in Keys /\ "branch" \in Keys /\ "base" \notin Variants /\ "branch" \notin Variants
  /\ \A v \in Variants : v \in Keys /\ v \notin Items
  BY CatalogueAssumption DEF Keys, Places

LEMMA EditedLatent ==
  ASSUME NEW d \in Db, NEW r, Asked(r), Found(r, d), r.op \in EditOps, NEW e, EditedAs(d, d, r, e), Latent(d)
  PROVE  Latent(e)
  <1>1. r.item \in Items /\ d.item[r.item].st # "absent"
    BY DEF Asked, Found, EditOps
  <1>2. \A i \in Items : e.item[i].st = "absent" => LiveOf(e, i) = {}
    BY <1>1, EditedFields, EditedVariants DEF Latent
  <1>3. ASSUME NEW i \in Items, NEW v \in Variants, e.rows[i][v] > 0 PROVE v \in LiveOf(e, i)
    <2>1. CASE i # r.item
      BY <1>3, <2>1, EditedFields, EditedVariants DEF Latent
    <2>2. CASE i = r.item
      <3>1. PICK t : t = TrackAfter(r, d)
        OBVIOUS
      <3>2. e.rows[i][v] = (IF TurnsOff(r, d) \/ Dropped(r, v) THEN 0 ELSE d.rows[i][v])
                           + (IF v \in Made(r, d, t) THEN 1 ELSE 0)
        <4>1. e.rows[r.item] = RowsAfter(r, d, d.rows[r.item], t)
          BY <3>1, EditedFields
        <4>2. v \in Keys
          BY KeysApart
        <4>. QED
          BY <2>2, <4>1, <4>2 DEF RowsAfter
      <3>3. v \in Made(r, d, t) => v \in NowOf(r, d)
        <4>1. r.what = "add" => r.variant \in NowOf(r, d)
          BY DEF NowOf
        <4>. QED
          BY <4>1, KeysApart DEF Made
      <3>4. d.rows[i][v] > 0 => v \in LiveOf(d, i)
        BY DEF Latent
      <3>5. ~Dropped(r, v) /\ v \in LiveOf(d, i) => v \in NowOf(r, d)
        BY <2>2 DEF NowOf, Dropped
      <3>6. d.rows[i][v] \in Nat
        BY <2>2, DbHas, KeysApart
      <3>7. v \in NowOf(r, d)
        BY <1>3, <3>2, <3>3, <3>4, <3>5, <3>6
      <3>. QED
        BY <2>2, <3>7, EditedVariants
    <2>. QED
      BY <2>1, <2>2
  <1>. QED
    BY <1>2, <1>3 DEF Latent

\* An edit leaves the rows as the switch says.
LEMMA EditedRows ==
  ASSUME NEW d \in Db, NEW r, Asked(r), Found(r, d), r.op \in EditOps, NEW e, EditedAs(d, d, r, e),
         Latent(d), CodesRight(d), NEW behind, NEW left, RowsRight(d, behind, left),
         NEW left2, left2 = IF r.op = "vary" THEN (left \ GivenRows(r, d)) \cup LeftOut(r, d) ELSE left
  PROVE  RowsRight(e, behind, left2)
  <1>1. r.item \in Items /\ r.what \in {Keep, "add", "drop", "set"} /\ r.track \in {"on", "off", Keep}
    BY DEF Asked, EditOps, Request
  <1>2. LiveItems(e) = LiveItems(d) /\ LiveOf(e, r.item) = NowOf(r, d)
    BY EditedVariants
  <1>3. r.what # Keep => r.variant \in Of(r.item) /\ r.variant \in Variants
    BY DEF Asked
  <1>4. ASSUME NEW i \in LiveItems(e)
        PROVE  /\ i \in behind \/ \A k \in Keys : e.rows[i][k] <= IF e.item[i].tracked THEN 1 ELSE 0
               /\ e.item[i].tracked =>
                    /\ \A v \in LiveOf(e, i) \ left2 : e.rows[i][v] > 0
                    /\ i \in left2 \/ e.rows[i]["base"] > 0
    <2>1. /\ i \in behind \/ \A k \in Keys : d.rows[i][k] <= IF d.item[i].tracked THEN 1 ELSE 0
          /\ d.item[i].tracked =>
               /\ \A v \in LiveOf(d, i) \ left : d.rows[i][v] > 0
               /\ i \in left \/ d.rows[i]["base"] > 0
      BY <1>2 DEF RowsRight
    <2>2. i \in Items
      BY DEF LiveItems
    <2>3. CASE i # r.item
      <3>1. e.rows[i] = d.rows[i] /\ e.item[i] = d.item[i] /\ LiveOf(e, i) = LiveOf(d, i)
        BY <2>2, <2>3, EditedFields, EditedVariants
      <3>2. GivenRows(r, d) \subseteq {r.item} \cup Of(r.item)
        BY <1>1, <1>3 DEF GivenRows, Keep
      <3>3. Of(r.item) \cap Of(i) = {} /\ LiveOf(d, i) \subseteq Of(i) /\ i \notin Of(r.item) /\ r.item \notin Of(i)
        BY <1>1, <2>2, <2>3, KeysApart DEF Of, LiveOf
      <3>4. /\ i \in left => i \in left2
            /\ \A v \in LiveOf(d, i) : v \in left => v \in left2
        BY <2>3, <3>2, <3>3
      <3>. QED
        BY <2>1, <3>1, <3>4
    <2>4. CASE i = r.item
      <3>1. PICK t : t = TrackAfter(r, d)
        OBVIOUS
      <3>2. PICK had : had = d.item[i].tracked
        OBVIOUS
      <3>3. had \in BOOLEAN /\ t \in BOOLEAN
        BY <1>1, <2>2, <2>4, <3>1, <3>2, DbHas DEF ItemRow, TrackAfter
      <3>4. e.rows[i] = RowsAfter(r, d, d.rows[i], t) /\ (e.item[i].tracked <=> t)
        BY <2>4, <3>1, EditedFields
      <3>5. \A k \in Keys : /\ d.rows[i][k] \in Nat
                            /\ e.rows[i][k] = (IF TurnsOff(r, d) \/ Dropped(r, k) THEN 0 ELSE d.rows[i][k])
                                              + (IF k \in Made(r, d, t) THEN 1 ELSE 0)
        BY <2>2, <3>4, DbHas DEF RowsAfter
      <3>6. LiveOf(e, i) = NowOf(r, d) /\ (\A v \in NowOf(r, d) : v \in Keys)
        <4>1. \A v \in NowOf(r, d) : v \in Variants
          BY <1>3 DEF NowOf, LiveOf, Of, Keep
        <4>. QED
          BY <1>2, <2>4, <4>1, KeysApart
      <3>7. CASE TurnsOff(r, d)
        <4>1. ~t /\ ~TurnsOn(r, d)
          BY <3>1, <3>7 DEF TurnsOff, TurnsOn, TrackAfter, Keep
        <4>2. Made(r, d, t) = {}
          BY <4>1 DEF Made
        <4>3. \A k \in Keys : e.rows[i][k] = 0
          BY <3>5, <3>7, <4>2
        <4>. QED
          BY <3>4, <4>1, <4>3
      <3>8. CASE TurnsOn(r, d)
        <4>1. t /\ ~had /\ ~TurnsOff(r, d) /\ r.op = "vary" /\ r.track = "on" /\ r.track # Keep
          BY <2>4, <3>1, <3>2, <3>8 DEF TurnsOff, TurnsOn, TrackAfter, Keep, Asked, EditOps
        <4>2. i \in behind \/ \A k \in Keys : e.rows[i][k] <= 1
          <5>1. SUFFICES ASSUME i \notin behind, NEW k \in Keys PROVE e.rows[i][k] <= 1
            OBVIOUS
          <5>2. d.rows[i][k] <= 0
            BY <2>1, <3>2, <4>1, <5>1
          <5>3. d.rows[i][k] \in Nat /\ e.rows[i][k] = (IF TurnsOff(r, d) \/ Dropped(r, k) THEN 0 ELSE d.rows[i][k])
                                                      + (IF k \in Made(r, d, t) THEN 1 ELSE 0)
            BY <3>5
          <5>. QED
            BY <5>2, <5>3
        <4>3. left2 = (left \ GivenRows(r, d)) \cup LeftOut(r, d)
          BY <4>1
        <4>4. CASE ~d.item[i].varied
          <5>1. LiveOf(d, i) = {}
            BY <1>2, <4>4 DEF CodesRight
          <5>2. r.what \in {Keep, "add"}
            BY <1>1, <2>4, <5>1, EditedVariants
          <5>3. Made(r, d, t) = {"base"} /\ ~Dropped(r, "base")
            BY <2>4, <3>8, <4>4, <5>2 DEF Made, Dropped, Keep
          <5>4. e.rows[i]["base"] > 0
            <6>1. /\ d.rows[i]["base"] \in Nat
                  /\ e.rows[i]["base"] = (IF TurnsOff(r, d) \/ Dropped(r, "base") THEN 0 ELSE d.rows[i]["base"])
                                         + (IF "base" \in Made(r, d, t) THEN 1 ELSE 0)
              BY <3>5, KeysApart
            <6>2. e.rows[i]["base"] = d.rows[i]["base"] + 1
              <7>1. "base" \in Made(r, d, t)
                BY <5>3
              <7>2. ~TurnsOff(r, d) /\ ~Dropped(r, "base")
                BY <4>1, <5>3, Zenon
              <7>. QED
                BY <6>1, <7>1, <7>2
            <6>. QED
              BY <6>1, <6>2
          <5>5. NowOf(r, d) \subseteq LeftOut(r, d)
            BY <2>4, <3>8, <4>4, <5>1, <5>2 DEF NowOf, LeftOut, Keep
          <5>. QED
            BY <3>4, <3>6, <4>1, <4>2, <4>3, <5>4, <5>5
        <4>5. CASE d.item[i].varied /\ r.what = Keep
          <5>1. NowOf(r, d) = LiveOf(d, i)
            BY <2>4, <4>5 DEF NowOf, Keep
          <5>2. LeftOut(r, d) = {i} \cup LiveOf(d, i)
            BY <2>4, <3>8, <4>5 DEF LeftOut
          <5>. QED
            BY <3>4, <3>6, <4>1, <4>2, <4>3, <5>1, <5>2
        <4>6. CASE d.item[i].varied /\ r.what # Keep
          <5>1. Made(r, d, t) = NowOf(r, d) /\ i \in LeftOut(r, d)
            BY <2>4, <3>8, <4>6 DEF Made, LeftOut
          <5>2. \A v \in NowOf(r, d) : e.rows[i][v] > 0
            BY <3>5, <3>6, <5>1
          <5>. QED
            BY <3>4, <3>6, <4>1, <4>2, <4>3, <5>1, <5>2
        <4>. QED
          BY <4>4, <4>5, <4>6
      <3>9. CASE ~TurnsOff(r, d) /\ ~TurnsOn(r, d)
        <4>1. t <=> had
          BY <1>1, <2>4, <3>1, <3>2, <3>3, <3>9 DEF TurnsOff, TurnsOn, TrackAfter
        <4>2. GivenRows(r, d) = (IF r.what = "add" THEN {r.variant} ELSE {}) /\ LeftOut(r, d) = {}
          BY <3>9 DEF GivenRows, LeftOut
        <4>3. r.what # Keep => r.op = "vary" /\ r.variant \in Variants
          BY DEF Asked, EditOps
        <4>4. left2 = left \ (IF r.what = "add" THEN {r.variant} ELSE {})
          BY <4>2, <4>3 DEF Keep
        <4>5. Made(r, d, t) = IF r.what = "add" /\ t THEN {r.variant} ELSE {}
          BY <3>9 DEF Made
        <4>6. i \in left => i \in left2
          BY <2>2, <4>3, <4>4, KeysApart DEF Keep
        <4>7. ~Dropped(r, "base")
          BY <4>3, KeysApart DEF Dropped, Keep
        <4>8. e.rows[i]["base"] >= d.rows[i]["base"]
          BY <3>5, <3>9, <4>7, KeysApart
        <4>9. r.what = "add" => d.rows[i][r.variant] = 0
          <5>1. SUFFICES ASSUME r.what = "add" PROVE d.rows[i][r.variant] = 0
            OBVIOUS
          <5>2. r.variant \in Variants /\ r.variant \notin LiveOf(d, i)
            BY <2>4, <4>3, <5>1, EditedVariants DEF Keep
          <5>3. r.variant \in Keys /\ d.rows[i][r.variant] \in Nat
            BY <3>5, <5>2, KeysApart
          <5>. QED
            BY <2>2, <5>2, <5>3 DEF Latent
        <4>10. i \in behind \/ \A k \in Keys : e.rows[i][k] <= IF t THEN 1 ELSE 0
          BY <2>1, <3>2, <3>5, <4>1, <4>5, <4>9
        <4>11. ASSUME t, NEW v \in NowOf(r, d), v \notin left2 PROVE e.rows[i][v] > 0
          <5>1. CASE r.what = "add" /\ v = r.variant
            BY <3>5, <3>6, <4>5, <4>11, <5>1
          <5>2. CASE ~(r.what = "add" /\ v = r.variant)
            <6>1. v \in LiveOf(d, i) /\ ~Dropped(r, v) /\ v \notin left
              BY <2>4, <4>4, <4>11, <5>2 DEF NowOf, Dropped
            <6>2. d.rows[i][v] > 0
              BY <2>1, <3>2, <4>1, <4>11, <6>1
            <6>. QED
              BY <3>5, <3>6, <3>9, <6>1, <6>2
          <5>. QED
            BY <5>1, <5>2
        <4>12. had => i \in left2 \/ e.rows[i]["base"] > 0
          <5>1. e.rows[i]["base"] \in Int /\ d.rows[i]["base"] \in Int
            BY <3>5, KeysApart
          <5>. QED
            BY <2>1, <3>2, <4>6, <4>8, <5>1
        <4>. QED
          BY <3>3, <3>4, <3>6, <4>1, <4>10, <4>11, <4>12
      <3>. QED
        BY <3>7, <3>8, <3>9
    <2>. QED
      BY <2>3, <2>4
  <1>. QED
    BY <1>4 DEF RowsRight

\* A list or a supplier leaves one preferred.
LEMMA ListedOne ==
  ASSUME NEW links \in [Suppliers -> Links], NEW S, NEW p \in Suppliers
  PROVE  /\ {s \in Suppliers : Listed(links, S, p)[s] = "preferred"} = {p}
         /\ p \in {s \in Suppliers : Listed(links, S, p)[s] \in LinkLive}
         /\ {s \in Suppliers : Promoted(links, p)[s] = "preferred"} = {p}
         /\ p \in {s \in Suppliers : Promoted(links, p)[s] \in LinkLive}
  BY DEF Listed, Promoted, LinkLive

\* What becomes of the supplies an empty list is sent with.
Empties(r, d, empty) ==
  IF r.how = Keep THEN empty
  ELSE IF r.how = "empty" /\ Preferred(d, r.item) # {r.pick} THEN empty \cup {r.item}
  ELSE IF r.how = "empty" THEN empty ELSE empty \ {r.item}

LEMMA EditedSources ==
  ASSUME NEW d \in Db, NEW r, Asked(r), Found(r, d), r.op \in EditOps, NEW e, EditedAs(d, d, r, e),
         NEW empty, NEW removed, SourcesRight(d, empty, removed)
  PROVE  SourcesRight(e, Empties(r, d, empty), removed)
  <1>1. r.item \in Items /\ r.how \in {Keep, "list", "empty", "legacy"}
    BY DEF Asked, EditOps, Request
  <1>2. LiveItems(e) = LiveItems(d)
    BY EditedVariants
  <1>3. ASSUME NEW i \in LiveItems(e)
        PROVE  /\ SourcesOf(e, i) # {} /\ \A s, t \in Preferred(e, i) : s = t
               /\ \/ i \in Empties(r, d, empty)
                  \/ Preferred(e, i) = {e.item[i].sup}
                  \/ Preferred(e, i) = {} /\ e.item[i].sup \in removed
    <2>1. /\ SourcesOf(d, i) # {} /\ \A s, t \in Preferred(d, i) : s = t
          /\ \/ i \in empty
             \/ Preferred(d, i) = {d.item[i].sup}
             \/ Preferred(d, i) = {} /\ d.item[i].sup \in removed
      BY <1>2 DEF SourcesRight
    <2>2. i \in Items
      BY DEF LiveItems
    <2>3. CASE i # r.item
      <3>1. e.link[i] = d.link[i] /\ e.item[i] = d.item[i]
        BY <2>2, <2>3, EditedFields
      <3>2. SourcesOf(e, i) = SourcesOf(d, i) /\ Preferred(e, i) = Preferred(d, i)
        BY <3>1 DEF SourcesOf, Preferred
      <3>3. i \in empty => i \in Empties(r, d, empty)
        BY <2>3 DEF Empties
      <3>. QED
        BY <2>1, <3>1, <3>2, <3>3
    <2>4. CASE i = r.item
      <3>1. e.link[i] = Linked(r, d, d.link[i]) /\ d.link[i] \in [Suppliers -> Links]
        BY <2>2, <2>4, EditedFields, DbHas
      <3>2. e.item[i].sup = IF r.how = Keep THEN d.item[i].sup ELSE r.pick
        BY <2>4, EditedFields
      <3>3. r.how # Keep => r.pick \in Suppliers
        BY DEF Asked, EditOps
      <3>4. CASE r.how = Keep
        <4>1. e.link[i] = d.link[i] /\ e.item[i].sup = d.item[i].sup
          BY <3>1, <3>2, <3>4 DEF Linked, Keep
        <4>2. SourcesOf(e, i) = SourcesOf(d, i) /\ Preferred(e, i) = Preferred(d, i)
          BY <4>1 DEF SourcesOf, Preferred
        <4>. QED
          BY <2>1, <3>4, <4>1, <4>2 DEF Empties
      <3>5. CASE r.how = "empty"
        <4>1. e.link[i] = d.link[i] /\ e.item[i].sup = r.pick
          BY <3>1, <3>2, <3>5 DEF Linked, Keep
        <4>2. SourcesOf(e, i) = SourcesOf(d, i) /\ Preferred(e, i) = Preferred(d, i)
          BY <4>1 DEF SourcesOf, Preferred
        <4>3. i \in Empties(r, d, empty) \/ Preferred(d, i) = {r.pick}
          BY <2>4, <3>5 DEF Empties, Keep
        <4>. QED
          BY <2>1, <4>1, <4>2, <4>3
      <3>6. CASE r.how = "legacy" /\ Preferred(d, i) = {r.pick}
        <4>1. e.link[i] = d.link[i] /\ e.item[i].sup = r.pick
          BY <2>4, <3>1, <3>2, <3>6 DEF Linked, Keep
        <4>2. SourcesOf(e, i) = SourcesOf(d, i) /\ Preferred(e, i) = Preferred(d, i)
          BY <4>1 DEF SourcesOf, Preferred
        <4>. QED
          BY <2>1, <3>6, <4>1, <4>2
      <3>7. CASE r.how = "list" \/ (r.how = "legacy" /\ Preferred(d, i) # {r.pick})
        <4>1. r.how # Keep /\ r.pick \in Suppliers /\ e.item[i].sup = r.pick
          BY <3>2, <3>3, <3>7 DEF Keep
        <4>2. e.link[i] = Listed(d.link[i], r.list, r.pick) \/ e.link[i] = Promoted(d.link[i], r.pick)
          BY <2>4, <3>1, <3>7 DEF Linked, Keep
        <4>3. Preferred(e, i) = {r.pick} /\ r.pick \in SourcesOf(e, i)
          BY <3>1, <4>1, <4>2, ListedOne DEF Preferred, SourcesOf
        <4>. QED
          BY <4>1, <4>3
      <3>. QED
        BY <1>1, <3>4, <3>5, <3>6, <3>7
    <2>. QED
      BY <2>3, <2>4
  <1>. QED
    BY <1>3 DEF SourcesRight

\* The lines sent astray once the request has written its recipe.
AstrayAfter(r, d, wrong) ==
  IF r.op \in {"create", "compose"}
  THEN (wrong \ ({r.item} \X Items)) \cup ({r.item} \X Misstated(d, r.of)) ELSE wrong

\* The other lines are as astray as they were.
LEMMA OthersAstray ==
  ASSUME NEW d, NEW r, NEW wrong, NEW s, NEW c \in Items, s # r.item \/ r.op \notin {"create", "compose"},
         <<s, c>> \notin AstrayAfter(r, d, wrong)
  PROVE  <<s, c>> \notin wrong
  BY DEF AstrayAfter

LEMMA EditedRecipes ==
  ASSUME NEW d \in Db, NEW r, Asked(r), r.op \in EditOps, NEW e, EditedAs(d, d, r, e),
         NEW edited, NEW wrong, RecipesRight(d, edited, wrong)
  PROVE  RecipesRight(e, edited, AstrayAfter(r, d, wrong))
  <1>1. r.item \in Items
    BY DEF Asked, EditOps
  <1>2. ASSUME NEW s \in Items, NEW c \in Items, e.line[s][c] \in Units, <<s, c>> \notin AstrayAfter(r, d, wrong)
        PROVE  /\ Kind[c] = "supply" /\ (e.item[c].st = "live" \/ c \in edited)
               /\ e.line[s][c] = e.item[c].unit
    <2>1. e.line[s][c] = LineAfter(r, d, d, s, c)
      BY EditedFields
    <2>2. e.item[c].st = d.item[c].st
      BY EditedFields
    <2>3. CASE s = r.item /\ r.op = "compose"
      <3>1. e.line[s][c] = r.of[c]
        BY <2>1, <2>3 DEF LineAfter
      <3>5. r.of[c] \in Units /\ <<r.item, c>> \notin AstrayAfter(r, d, wrong)
        BY <1>2, <2>3, <3>1
      <3>6. r.of[c] # None
        BY <3>5, CatalogueAssumption
      <3>7. c \notin Misstated(d, r.of)
        BY <2>3, <3>5 DEF AstrayAfter
      <3>2. Kind[c] = "supply" /\ d.item[c].st = "live" /\ r.of[c] = d.item[c].unit
        BY <3>6, <3>7 DEF Misstated
      <3>3. r.unit = Keep
        BY <2>3 DEF Asked
      <3>4. e.item[c].unit = d.item[c].unit
        BY <3>3, EditedFields DEF UnitAfter, Rewritten
      <3>. QED
        BY <2>2, <3>1, <3>2, <3>4
    <2>4. CASE ~(s = r.item /\ r.op = "compose")
      <3>0. <<s, c>> \notin wrong
        BY <1>2, <2>4, OthersAstray DEF EditOps
      <3>1. CASE Relabels(r, d, d) /\ c = r.item /\ d.line[s][c] \in Units
        <4>1. e.line[s][c] = UnitAfter(r, d)
          BY <2>1, <2>4, <3>1 DEF LineAfter
        <4>2. e.item[c].unit = UnitAfter(r, d)
          BY <3>1, EditedFields
        <4>. QED
          BY <2>2, <3>0, <3>1, <4>1, <4>2 DEF RecipesRight
      <3>2. CASE ~(Relabels(r, d, d) /\ c = r.item /\ d.line[s][c] \in Units)
        <4>1. e.line[s][c] = d.line[s][c]
          BY <2>1, <2>4, <3>2, Zenon DEF LineAfter
        <4>2. /\ d.line[s][c] \in Units /\ Kind[c] = "supply" /\ (d.item[c].st = "live" \/ c \in edited)
              /\ d.line[s][c] = d.item[c].unit
          BY <1>2, <3>0, <4>1 DEF RecipesRight
        <4>3. e.item[c].unit = d.item[c].unit
          <5>1. CASE c = r.item
            <6>1. UnitAfter(r, d) = d.item[c].unit
              BY <3>2, <4>2, <5>1 DEF Relabels
            <6>. QED
              BY <5>1, <6>1, EditedFields
          <5>2. CASE c # r.item
            BY <5>2, EditedFields
          <5>. QED
            BY <5>1, <5>2
        <4>. QED
          BY <2>2, <4>1, <4>2, <4>3
      <3>. QED
        BY <3>1, <3>2
    <2>. QED
      BY <2>3, <2>4
  <1>. QED
    BY <1>2 DEF RecipesRight

LEMMA EditedCodes ==
  ASSUME NEW d \in Db, NEW r, Asked(r), Found(r, d), r.op \in EditOps, NEW e, EditedAs(d, d, r, e), CodesRight(d)
  PROVE  CodesRight(e)
  <1>1. /\ r.item \in Items /\ r.what \in {Keep, "add", "drop", "set"} /\ r.code \in Codes \cup {None, Keep}
        /\ r.barcode \in Codes \cup {None}
    BY DEF Asked, EditOps, Request
  <1>2. LiveItems(e) = LiveItems(d) /\ LiveOf(e, r.item) = NowOf(r, d)
    BY EditedVariants
  <1>3. r.what # Keep => r.variant \in Variants /\ r.op = "vary"
    BY DEF Asked, EditOps
  <1>4. ASSUME NEW i \in LiveItems(e) PROVE e.item[i].varied <=> LiveOf(e, i) # {}
    <2>1. i \in Items /\ (d.item[i].varied <=> LiveOf(d, i) # {})
      BY <1>2 DEF LiveItems, CodesRight
    <2>2. CASE i # r.item
      <3>1. e.item[i] = d.item[i] /\ LiveOf(e, i) = LiveOf(d, i)
        BY <2>1, <2>2, EditedFields, EditedVariants
      <3>. QED
        BY <2>1, <3>1
    <2>3. CASE i = r.item
      <3>1. e.item[i].varied <=> VariedAfter(r, d, d.item[i].varied)
        BY <2>3, EditedFields
      <3>2. CASE r.what = "drop"
        BY <1>2, <2>3, <3>1, <3>2 DEF VariedAfter
      <3>3. CASE r.what = Keep
        BY <1>2, <2>1, <2>3, <3>1, <3>3 DEF VariedAfter, NowOf, Keep
      <3>4. CASE r.what \in {"add", "set"}
        <4>1. r.variant \in NowOf(r, d)
          BY <3>4, EditedVariants DEF NowOf
        <4>. QED
          BY <1>2, <2>3, <3>1, <3>4, <4>1 DEF VariedAfter, Keep
      <3>. QED
        BY <1>1, <3>2, <3>3, <3>4
    <2>. QED
      BY <2>2, <2>3
  <1>5. ASSUME NEW c \in Codes, NEW x \in Bearers(e, c), NEW y \in Bearers(e, c) PROVE x = y
    <2>1. c # None /\ c # Keep
      BY CatalogueAssumption
    <2>2. ASSUME NEW z \in Bearers(d, c), NEW u \in Bearers(d, c) PROVE z = u
      BY DEF CodesRight
    <2>3. CASE r.what = Keep
      <3>1. \A v \in Variants : e.variant[v] = d.variant[v]
        BY <2>3, EditedVariants
      <3>2. \A j \in Items : j = r.item \/ e.item[j] = d.item[j]
        BY EditedFields
      <3>3. e.item[r.item].code = Rewritten(d.item[r.item].code, r.code)
        BY EditedFields
      <3>4. CASE r.code = c
        <4>1. r.op = "recode" /\ CodeFree(d, r.item, c)
          BY <2>1, <3>4 DEF Asked, Found, EditOps
        <4>2. \A z \in Bearers(e, c) : z = r.item
          BY <1>2, <2>1, <3>1, <3>2, <4>1 DEF Bearers, CodeFree, LiveItems
        <4>. QED
          BY <4>2
      <3>5. CASE r.code # c
        <4>1. Bearers(e, c) \subseteq Bearers(d, c)
          BY <1>2, <3>1, <3>2, <3>3, <3>5 DEF Bearers, Rewritten, LiveItems
        <4>. QED
          BY <2>2, <4>1
      <3>. QED
        BY <3>4, <3>5
    <2>4. CASE r.what # Keep
      <3>1. \A v \in Variants : v # r.variant => e.variant[v] = d.variant[v]
        BY EditedVariants
      <3>2. \A j \in Items : e.item[j].code = d.item[j].code
        <4>1. r.code = Keep
          BY <1>3, <2>4 DEF Asked
        <4>. QED
          BY <4>1, EditedFields DEF Rewritten
      <3>3. CASE r.what = "drop" \/ r.barcode # c
        <4>1. \A v \in Variants : e.variant[v].st = "live" /\ e.variant[v].code = c => d.variant[v].st = "live" /\ d.variant[v].code = c
          <5>1. r.what = "drop" => e.variant[r.variant].st # "live"
            BY EditedVariants
          <5>2. r.what # "drop" => e.variant[r.variant].code # c
            BY <1>1, <2>4, <3>3, EditedVariants
          <5>. QED
            BY <3>1, <5>1, <5>2
        <4>2. Bearers(e, c) \subseteq Bearers(d, c)
          BY <1>2, <3>2, <4>1 DEF Bearers, LiveItems
        <4>. QED
          BY <2>2, <4>2
      <3>4. CASE r.what # "drop" /\ r.barcode = c
        <4>1. BarcodeFree(d, r.variant, c)
          BY <1>3, <2>4, <3>4 DEF Found
        <4>2. \A z \in Bearers(e, c) : z = r.variant
          BY <1>2, <2>1, <3>1, <3>2, <4>1 DEF Bearers, BarcodeFree, LiveItems
        <4>. QED
          BY <4>2
      <3>. QED
        BY <3>3, <3>4
    <2>. QED
      BY <2>3, <2>4
  <1>6. Cardinality(LiveItems(e)) <= Cap
    BY <1>2 DEF CodesRight
  <1>. QED
    BY <1>4, <1>5, <1>6 DEF CodesRight

(***************************************************************************)
(* What stays when an item is created.                                     *)
(***************************************************************************)
PickOf(r) == IF r.pick = None THEN Default ELSE r.pick
CreatedHas(d, r, e) ==
  /\ r.item \in Items /\ PickOf(r) \in Suppliers
  /\ \A j \in Items \ {r.item} :
       e.item[j] = d.item[j] /\ e.link[j] = d.link[j] /\ e.rows[j] = d.rows[j] /\ e.line[j] = d.line[j]
  /\ e.item[r.item].st = "live" /\ e.item[r.item].code = r.code /\ e.item[r.item].sup = PickOf(r)
  /\ e.item[r.item].unit = d.item[r.item].unit
  /\ e.item[r.item].tracked <=> r.track # "off"
  /\ e.item[r.item].varied <=> r.what = "add"
  /\ e.link[r.item] = Listed(d.link[r.item], r.list, PickOf(r))
  /\ \A k \in Keys : e.rows[r.item][k] =
       IF r.track # "off" /\ (k = "base" \/ (r.what = "add" /\ k = r.variant)) THEN 1 ELSE 0
  /\ \A c \in Items : e.line[r.item][c] = r.of[c]
  /\ \A v \in Variants : e.variant[v] =
       IF r.what = "add" /\ v = r.variant THEN [st |-> "live", code |-> r.barcode] ELSE d.variant[v]
LEMMA CreatedFields ==
  ASSUME NEW d \in Db, NEW r, Asked(r), r.op = "create", NEW e, CreatedAs(d, r, e)
  PROVE  CreatedHas(d, r, e)
  <1>0. PICK p : p = IF r.pick = None THEN Default ELSE r.pick
    OBVIOUS
  <1>1. r.item \in Items /\ r.code # Keep
    BY DEF Asked
  <1>2. p \in Suppliers
    BY <1>0, CatalogueAssumption DEF Asked
  <1>3. PICK on \in BOOLEAN : on = (r.track # "off")
    OBVIOUS
  <1>4. PICK v \in BOOLEAN : v = (r.what = "add")
    OBVIOUS
  <1>5. PICK q : q = CreatedRow(r, d)
    OBVIOUS
  <1>6. q = [st |-> "live", code |-> r.code, tracked |-> on, varied |-> v, sup |-> p, unit |-> d.item[r.item].unit]
    BY <1>0, <1>1, <1>3, <1>4, <1>5 DEF CreatedRow, Rewritten
  <1>7. /\ q.st = "live" /\ q.code = r.code /\ q.sup = p /\ q.unit = d.item[r.item].unit
        /\ q.tracked = on /\ q.varied = v
    BY <1>6
  <1>8. e.item = [d.item EXCEPT ![r.item] = q]
    BY <1>5 DEF CreatedAs
  <1>9. e.item[r.item] = q /\ \A j \in Items \ {r.item} : e.item[j] = d.item[j]
    BY <1>1, <1>8, DbHas
  <1>10. \A j \in Items \ {r.item} : e.link[j] = d.link[j] /\ e.rows[j] = d.rows[j] /\ e.line[j] = d.line[j]
    BY <1>1, DbHas DEF CreatedAs
  <1>11. e.link[r.item] = Listed(d.link[r.item], r.list, p)
    BY <1>0, <1>1, DbHas DEF CreatedAs
  <1>12. \A k \in Keys : e.rows[r.item][k] =
              IF r.track # "off" /\ (k = "base" \/ (r.what = "add" /\ k = r.variant)) THEN 1 ELSE 0
    BY <1>1, DbHas DEF CreatedAs
  <1>13. \A c \in Items : e.line[r.item][c] = r.of[c]
    BY <1>1, DbHas DEF CreatedAs
  <1>14. \A x \in Variants : e.variant[x] =
              IF r.what = "add" /\ x = r.variant THEN [st |-> "live", code |-> r.barcode] ELSE d.variant[x]
    BY DEF CreatedAs
  <1>15. e.item[r.item].tracked <=> r.track # "off"
    BY <1>3, <1>7, <1>9
  <1>16. e.item[r.item].varied <=> r.what = "add"
    BY <1>4, <1>7, <1>9
  <1>. QED
    BY <1>0, <1>1, <1>2, <1>7, <1>9, <1>10, <1>11, <1>12, <1>13, <1>14, <1>15, <1>16 DEF CreatedHas, PickOf

CreatedLives(d, r, e) ==
  /\ LiveItems(e) = LiveItems(d) \cup {r.item} /\ r.item \notin LiveItems(d)
  /\ LiveOf(e, r.item) = IF r.what = "add" THEN {r.variant} ELSE {}
  /\ \A j \in Items \ {r.item} : LiveOf(e, j) = LiveOf(d, j)
  /\ r.what = "add" => r.variant \in Of(r.item) /\ r.variant \in Variants
LEMMA CreatedVariants ==
  ASSUME NEW d \in Db, NEW r, Asked(r), Found(r, d), r.op = "create", NEW e, CreatedAs(d, r, e), Latent(d)
  PROVE  CreatedLives(d, r, e)
  <1>1. CreatedHas(d, r, e)
    BY CreatedFields
  <1>2. r.item \in Items /\ d.item[r.item].st = "absent"
    BY DEF Asked, Found
  <1>3. r.what = "add" => r.variant \in Of(r.item) /\ r.variant \in Variants
    BY DEF Asked, Keep
  <1>4. LiveItems(e) = LiveItems(d) \cup {r.item} /\ r.item \notin LiveItems(d)
    <2>1. \A j \in Items \ {r.item} : e.item[j] = d.item[j]
      BY <1>1 DEF CreatedHas
    <2>2. e.item[r.item].st = "live"
      BY <1>1 DEF CreatedHas
    <2>. QED
      BY <1>2, <2>1, <2>2 DEF LiveItems
  <1>5. LiveOf(d, r.item) = {}
    BY <1>2 DEF Latent
  <1>6. \A v \in Variants : ~(r.what = "add" /\ v = r.variant) => e.variant[v] = d.variant[v]
    BY <1>1 DEF CreatedHas
  <1>7. r.what = "add" => e.variant[r.variant].st = "live"
    <2>1. SUFFICES ASSUME r.what = "add" PROVE e.variant[r.variant].st = "live"
      OBVIOUS
    <2>2. e.variant[r.variant] = [st |-> "live", code |-> r.barcode]
      BY <1>1, <1>3, <2>1 DEF CreatedHas
    <2>. QED
      BY <2>2
  <1>8. LiveOf(e, r.item) = IF r.what = "add" THEN {r.variant} ELSE {}
    BY <1>3, <1>5, <1>6, <1>7 DEF LiveOf, Of
  <1>9. ASSUME NEW j \in Items \ {r.item} PROVE LiveOf(e, j) = LiveOf(d, j)
    <2>1. \A v \in Of(j) : v \in Variants /\ e.variant[v] = d.variant[v]
      BY <1>3, <1>6 DEF Of
    <2>. QED
      BY <2>1 DEF LiveOf
  <1>. QED
    BY <1>3, <1>4, <1>8, <1>9 DEF CreatedLives

LEMMA CreatedLatent ==
  ASSUME NEW d \in Db, NEW r, Asked(r), Found(r, d), r.op = "create", NEW e, CreatedAs(d, r, e), Latent(d)
  PROVE  Latent(e)
  <1>1. CreatedHas(d, r, e) /\ CreatedLives(d, r, e)
    BY CreatedFields, CreatedVariants
  <1>2. r.item \in Items /\ e.item[r.item].st = "live"
    BY <1>1 DEF CreatedHas
  <1>3. ASSUME NEW i \in Items, e.item[i].st = "absent" PROVE LiveOf(e, i) = {}
    <2>1. i \in Items \ {r.item}
      BY <1>2, <1>3
    <2>2. e.item[i] = d.item[i] /\ LiveOf(e, i) = LiveOf(d, i)
      BY <1>1, <2>1 DEF CreatedLives, CreatedHas
    <2>. QED
      BY <1>3, <2>2 DEF Latent
  <1>4. ASSUME NEW i \in Items, NEW v \in Variants, e.rows[i][v] > 0 PROVE v \in LiveOf(e, i)
    <2>1. CASE i # r.item
      <3>1. e.rows[i] = d.rows[i] /\ LiveOf(e, i) = LiveOf(d, i)
        BY <1>1, <2>1 DEF CreatedLives, CreatedHas
      <3>. QED
        BY <1>4, <3>1 DEF Latent
    <2>2. CASE i = r.item
      <3>1. v \in Keys /\ v # "base"
        BY KeysApart
      <3>2. e.rows[i][v] = IF r.track # "off" /\ (v = "base" \/ (r.what = "add" /\ v = r.variant)) THEN 1 ELSE 0
        BY <1>1, <2>2, <3>1 DEF CreatedHas
      <3>3. r.what = "add" /\ v = r.variant
        BY <1>4, <3>1, <3>2
      <3>. QED
        BY <1>1, <2>2, <3>3 DEF CreatedLives
    <2>. QED
      BY <2>1, <2>2
  <1>. QED
    BY <1>3, <1>4 DEF Latent

LEMMA CreatedRows ==
  ASSUME NEW d \in Db, NEW r, Asked(r), Found(r, d), r.op = "create", NEW e, CreatedAs(d, r, e), Latent(d),
         NEW behind, NEW left, RowsRight(d, behind, left)
  PROVE  RowsRight(e, behind, left)
  <1>1. CreatedHas(d, r, e) /\ CreatedLives(d, r, e)
    BY CreatedFields, CreatedVariants
  <1>2. ASSUME NEW i \in LiveItems(e)
        PROVE  /\ i \in behind \/ \A k \in Keys : e.rows[i][k] <= IF e.item[i].tracked THEN 1 ELSE 0
               /\ e.item[i].tracked =>
                    /\ \A v \in LiveOf(e, i) \ left : e.rows[i][v] > 0
                    /\ i \in left \/ e.rows[i]["base"] > 0
    <2>1. i \in Items
      BY DEF LiveItems
    <2>2. CASE i # r.item
      <3>1. i \in LiveItems(d) /\ e.rows[i] = d.rows[i] /\ e.item[i] = d.item[i] /\ LiveOf(e, i) = LiveOf(d, i)
        BY <1>1, <2>1, <2>2 DEF CreatedLives, CreatedHas
      <3>. QED
        BY <3>1 DEF RowsRight
    <2>3. CASE i = r.item
      <3>1. \A k \in Keys : e.rows[i][k] =
              IF r.track # "off" /\ (k = "base" \/ (r.what = "add" /\ k = r.variant)) THEN 1 ELSE 0
        BY <1>1, <2>3 DEF CreatedHas
      <3>2. e.item[i].tracked <=> r.track # "off"
        BY <1>1, <2>3 DEF CreatedHas
      <3>3. \A v \in LiveOf(e, i) : v \in Keys /\ r.what = "add" /\ v = r.variant
        BY <1>1, <2>3, KeysApart DEF CreatedLives
      <3>4. CASE r.track = "off"
        BY <3>1, <3>2, <3>4
      <3>5. CASE r.track # "off"
        <4>1. \A k \in Keys : e.rows[i][k] <= 1
          BY <3>1
        <4>2. \A v \in LiveOf(e, i) : e.rows[i][v] > 0
          BY <3>1, <3>3, <3>5
        <4>3. e.rows[i]["base"] > 0
          BY <3>1, <3>5, KeysApart
        <4>. QED
          BY <3>2, <3>5, <4>1, <4>2, <4>3
      <3>. QED
        BY <3>4, <3>5
    <2>. QED
      BY <2>2, <2>3
  <1>. QED
    BY <1>2 DEF RowsRight

LEMMA CreatedSources ==
  ASSUME NEW d \in Db, NEW r, Asked(r), Found(r, d), r.op = "create", NEW e, CreatedAs(d, r, e), Latent(d),
         NEW empty, NEW removed, SourcesRight(d, empty, removed)
  PROVE  SourcesRight(e, Empties(r, d, empty), removed)
  <1>1. CreatedHas(d, r, e) /\ CreatedLives(d, r, e)
    BY CreatedFields, CreatedVariants
  <1>2. ASSUME NEW i \in LiveItems(e)
        PROVE  /\ SourcesOf(e, i) # {} /\ \A s, t \in Preferred(e, i) : s = t
               /\ \/ i \in Empties(r, d, empty)
                  \/ Preferred(e, i) = {e.item[i].sup}
                  \/ Preferred(e, i) = {} /\ e.item[i].sup \in removed
    <2>1. i \in Items
      BY DEF LiveItems
    <2>2. CASE i # r.item
      <3>1. i \in LiveItems(d) /\ e.link[i] = d.link[i] /\ e.item[i] = d.item[i]
        BY <1>1, <2>1, <2>2 DEF CreatedLives, CreatedHas
      <3>2. SourcesOf(e, i) = SourcesOf(d, i) /\ Preferred(e, i) = Preferred(d, i)
        BY <3>1 DEF SourcesOf, Preferred
      <3>3. i \in empty => i \in Empties(r, d, empty)
        BY <2>2 DEF Empties
      <3>4. /\ SourcesOf(d, i) # {} /\ \A s, t \in Preferred(d, i) : s = t
            /\ \/ i \in empty
               \/ Preferred(d, i) = {d.item[i].sup}
               \/ Preferred(d, i) = {} /\ d.item[i].sup \in removed
        BY <3>1 DEF SourcesRight
      <3>. QED
        BY <3>1, <3>2, <3>3, <3>4
    <2>3. CASE i = r.item
      <3>1. e.link[i] = Listed(d.link[i], r.list, PickOf(r)) /\ e.item[i].sup = PickOf(r) /\ PickOf(r) \in Suppliers
        BY <1>1, <2>3 DEF CreatedHas
      <3>2. d.link[i] \in [Suppliers -> Links]
        BY <2>1, DbHas
      <3>3. Preferred(e, i) = {PickOf(r)} /\ PickOf(r) \in SourcesOf(e, i)
        BY <3>1, <3>2, ListedOne DEF Preferred, SourcesOf
      <3>. QED
        BY <3>1, <3>3
    <2>. QED
      BY <2>2, <2>3
  <1>. QED
    BY <1>2 DEF SourcesRight

LEMMA CreatedRecipes ==
  ASSUME NEW d \in Db, NEW r, Asked(r), r.op = "create", NEW e, CreatedAs(d, r, e),
         NEW edited, NEW wrong, RecipesRight(d, edited, wrong)
  PROVE  RecipesRight(e, edited, AstrayAfter(r, d, wrong))
  <1>1. CreatedHas(d, r, e)
    BY CreatedFields
  <1>2. ASSUME NEW s \in Items, NEW c \in Items, e.line[s][c] \in Units, <<s, c>> \notin AstrayAfter(r, d, wrong)
        PROVE  /\ Kind[c] = "supply" /\ (e.item[c].st = "live" \/ c \in edited)
               /\ e.line[s][c] = e.item[c].unit
    <2>1. e.item[c].unit = d.item[c].unit /\ (d.item[c].st = "live" => e.item[c].st = "live")
      BY <1>1 DEF CreatedHas
    <2>2. CASE s = r.item
      <3>1. e.line[s][c] = r.of[c]
        BY <1>1, <2>2 DEF CreatedHas
      <3>3. r.of[c] \in Units /\ <<r.item, c>> \notin AstrayAfter(r, d, wrong)
        BY <1>2, <2>2, <3>1
      <3>6. r.of[c] # None
        BY <3>3, CatalogueAssumption
      <3>7. c \notin Misstated(d, r.of)
        BY <2>2, <3>3 DEF AstrayAfter
      <3>2. Kind[c] = "supply" /\ d.item[c].st = "live" /\ r.of[c] = d.item[c].unit
        BY <3>6, <3>7 DEF Misstated
      <3>. QED
        BY <2>1, <3>1, <3>2
    <2>3. CASE s # r.item
      <3>1. e.line[s][c] = d.line[s][c] /\ <<s, c>> \notin wrong
        BY <1>1, <1>2, <2>3, OthersAstray DEF CreatedHas
      <3>. QED
        BY <1>2, <2>1, <3>1 DEF RecipesRight
    <2>. QED
      BY <2>2, <2>3
  <1>. QED
    BY <1>2 DEF RecipesRight

LEMMA CreatedCodes ==
  ASSUME NEW d \in Db, NEW r, Asked(r), Found(r, d), r.op = "create", NEW e, CreatedAs(d, r, e), Latent(d), CodesRight(d)
  PROVE  CodesRight(e)
  <1>1. CreatedHas(d, r, e) /\ CreatedLives(d, r, e)
    BY CreatedFields, CreatedVariants
  <1>2. Cardinality(LiveItems(e)) <= Cap
    <2>1. IsFiniteSet(LiveItems(d))
      BY CatalogueAssumption, FS_Subset DEF LiveItems
    <2>2. Cardinality(LiveItems(e)) = Cardinality(LiveItems(d)) + 1
      BY <1>1, <2>1, FS_AddElement DEF CreatedLives
    <2>3. Cardinality(LiveItems(d)) \in Nat /\ Cardinality(LiveItems(d)) < Cap
      BY <2>1, FS_CardinalityType DEF Found
    <2>. QED
      BY <2>2, <2>3, CatalogueAssumption
  <1>3. ASSUME NEW i \in LiveItems(e) PROVE e.item[i].varied <=> LiveOf(e, i) # {}
    <2>1. i \in Items
      BY DEF LiveItems
    <2>2. CASE i # r.item
      <3>1. i \in LiveItems(d) /\ e.item[i] = d.item[i] /\ LiveOf(e, i) = LiveOf(d, i)
        BY <1>1, <2>1, <2>2 DEF CreatedLives, CreatedHas
      <3>. QED
        BY <3>1 DEF CodesRight
    <2>3. CASE i = r.item
      <3>1. e.item[i].varied <=> r.what = "add"
        BY <1>1, <2>3 DEF CreatedHas
      <3>. QED
        BY <1>1, <2>3, <3>1 DEF CreatedLives
    <2>. QED
      BY <2>2, <2>3
  <1>4. ASSUME NEW c \in Codes, NEW x \in Bearers(e, c), NEW y \in Bearers(e, c) PROVE x = y
    <2>1. c # None /\ c # Keep
      BY CatalogueAssumption
    <2>2. ASSUME NEW z \in Bearers(d, c), NEW u \in Bearers(d, c) PROVE z = u
      BY DEF CodesRight
    <2>3. /\ LiveItems(e) = LiveItems(d) \cup {r.item}
          /\ \A j \in LiveItems(d) : e.item[j] = d.item[j]
          /\ e.item[r.item].code = r.code
      BY <1>1 DEF CreatedLives, CreatedHas, LiveItems
    <2>4. \A v \in Variants : ~(r.what = "add" /\ v = r.variant) => e.variant[v] = d.variant[v]
      BY <1>1 DEF CreatedHas
    <2>5. r.what = "add" => e.variant[r.variant].code = r.barcode
      <3>1. SUFFICES ASSUME r.what = "add" PROVE e.variant[r.variant].code = r.barcode
        OBVIOUS
      <3>2. e.variant[r.variant] = [st |-> "live", code |-> r.barcode]
        BY <1>1, <3>1 DEF CreatedLives, CreatedHas
      <3>. QED
        BY <3>2
    <2>6. r.barcode = None \/ r.barcode # r.code
      BY DEF Asked
    <2>7. CASE r.code = c
      <3>1. CodeFree(d, r.item, c) /\ r.barcode # c
        BY <2>1, <2>6, <2>7 DEF Found
      <3>2. \A z \in Bearers(e, c) : z = r.item
        BY <2>1, <2>3, <2>4, <2>5, <3>1 DEF Bearers, CodeFree
      <3>. QED
        BY <3>2
    <2>8. CASE r.code # c /\ r.what = "add" /\ r.barcode = c
      <3>1. BarcodeFree(d, r.variant, c)
        BY <2>8 DEF Found
      <3>2. \A z \in Bearers(e, c) : z = r.variant
        BY <2>1, <2>3, <2>4, <2>8, <3>1 DEF Bearers, BarcodeFree
      <3>. QED
        BY <3>2
    <2>9. CASE r.code # c /\ ~(r.what = "add" /\ r.barcode = c)
      <3>1. Bearers(e, c) \subseteq Bearers(d, c)
        BY <2>3, <2>4, <2>5, <2>9 DEF Bearers
      <3>. QED
        BY <2>2, <3>1
    <2>. QED
      BY <2>7, <2>8, <2>9
  <1>. QED
    BY <1>2, <1>3, <1>4 DEF CodesRight

(***************************************************************************)
(* What stays when an item or a supplier goes, and at a checkout.          *)
(***************************************************************************)
\* What all of it is.
CatalogueSound(d, behind, left, empty, removed, edited, wrong) ==
  /\ RowsRight(d, behind, left) /\ SourcesRight(d, empty, removed) /\ RecipesRight(d, edited, wrong)
  /\ CodesRight(d) /\ Latent(d)

\* An item that goes takes its rows with it; it leaves its variants, or they go too.
Gone(d, r, e) ==
  /\ e.item[r.item].st = "gone" /\ e.item[r.item].unit = d.item[r.item].unit
  /\ \A j \in Items \ {r.item} : e.item[j] = d.item[j] /\ e.rows[j] = d.rows[j] /\ LiveOf(e, j) = LiveOf(d, j)
  /\ \A k \in Keys : e.rows[r.item][k] = 0
  /\ \A v \in Variants : e.variant[v].code = d.variant[v].code /\ (e.variant[v].st = "live" => d.variant[v].st = "live")
  /\ e.link = d.link
  /\ LiveItems(e) = LiveItems(d) \ {r.item}

LEMMA RetiredGone ==
  ASSUME NEW d \in Db, NEW r, r.item \in Items, NEW e, RetiredAs(d, r, e)
  PROVE  Gone(d, r, e) /\ e.line = d.line
  <1>1. PICK q : q = d.item[r.item]
    OBVIOUS
  <1>2. q \in ItemRow
    BY <1>1, DbHas
  <1>3. PICK p : p = [q EXCEPT !.st = "gone"]
    OBVIOUS
  <1>4. p.st = "gone" /\ p.unit = q.unit
    BY <1>2, <1>3 DEF ItemRow
  <1>5. e.item[r.item] = p /\ \A j \in Items \ {r.item} : e.item[j] = d.item[j]
    BY <1>1, <1>3, DbHas DEF RetiredAs
  <1>6. /\ \A j \in Items \ {r.item} : e.rows[j] = d.rows[j]
        /\ \A k \in Keys : e.rows[r.item][k] = 0
        /\ e.link = d.link /\ e.line = d.line
    BY DbHas DEF RetiredAs
  <1>7. ASSUME NEW v \in Variants
        PROVE  /\ e.variant[v].code = d.variant[v].code /\ (e.variant[v].st = "live" => d.variant[v].st = "live")
               /\ v \notin LiveOf(d, r.item) => e.variant[v] = d.variant[v]
    <2>1. PICK x : x = d.variant[v]
      OBVIOUS
    <2>2. x \in VariantRow
      BY <2>1, DbHas
    <2>3. PICK y : y = [x EXCEPT !.st = "gone"]
      OBVIOUS
    <2>4. y.st = "gone" /\ y.code = x.code
      BY <2>2, <2>3 DEF VariantRow
    <2>5. e.variant[v] = IF v \in LiveOf(d, r.item) THEN y ELSE x
      BY <2>1, <2>3 DEF RetiredAs
    <2>. QED
      BY <2>1, <2>4, <2>5
  <1>8. ASSUME NEW j \in Items \ {r.item} PROVE LiveOf(e, j) = LiveOf(d, j)
    <2>1. \A v \in Of(j) : v \in Variants /\ v \notin LiveOf(d, r.item)
      BY DEF Of, LiveOf
    <2>2. \A v \in Of(j) : e.variant[v] = d.variant[v]
      BY <1>7, <2>1
    <2>. QED
      BY <2>2 DEF LiveOf
  <1>9. LiveItems(e) = LiveItems(d) \ {r.item}
    BY <1>4, <1>5 DEF LiveItems
  <1>. QED
    BY <1>1, <1>4, <1>5, <1>6, <1>7, <1>8, <1>9 DEF Gone

LEMMA RemovedGone ==
  ASSUME NEW d \in Db, NEW r, r.item \in Items, NEW e, RemovedAs(d, r, e)
  PROVE  Gone(d, r, e)
  <1>1. PICK q : q = d.item[r.item]
    OBVIOUS
  <1>2. q \in ItemRow
    BY <1>1, DbHas
  <1>3. PICK p : p = [q EXCEPT !.st = "gone"]
    OBVIOUS
  <1>4. p.st = "gone" /\ p.unit = q.unit
    BY <1>2, <1>3 DEF ItemRow
  <1>5. e.item[r.item] = p /\ \A j \in Items \ {r.item} : e.item[j] = d.item[j]
    BY <1>1, <1>3, DbHas DEF RemovedAs
  <1>6. /\ \A j \in Items \ {r.item} : e.rows[j] = d.rows[j]
        /\ \A k \in Keys : e.rows[r.item][k] = 0
        /\ e.link = d.link /\ e.variant = d.variant
    BY DbHas DEF RemovedAs
  <1>7. \A j \in Items : LiveOf(e, j) = LiveOf(d, j)
    BY <1>6 DEF LiveOf
  <1>8. LiveItems(e) = LiveItems(d) \ {r.item}
    BY <1>4, <1>5 DEF LiveItems
  <1>. QED
    BY <1>1, <1>4, <1>5, <1>6, <1>7, <1>8 DEF Gone

LEMMA GoneRows ==
  ASSUME NEW d, NEW r, NEW e, Gone(d, r, e), NEW behind, NEW left, RowsRight(d, behind, left)
  PROVE  RowsRight(e, behind, left)
  <1>1. ASSUME NEW i \in LiveItems(e)
        PROVE  i \in LiveItems(d) /\ e.item[i] = d.item[i] /\ e.rows[i] = d.rows[i] /\ LiveOf(e, i) = LiveOf(d, i)
    BY DEF Gone, LiveItems
  <1>. QED
    BY <1>1 DEF RowsRight

LEMMA GoneSources ==
  ASSUME NEW d, NEW r, NEW e, Gone(d, r, e), NEW empty, NEW removed, SourcesRight(d, empty, removed)
  PROVE  SourcesRight(e, empty, removed)
  <1>1. ASSUME NEW i \in LiveItems(e)
        PROVE  i \in LiveItems(d) /\ e.item[i] = d.item[i] /\ SourcesOf(e, i) = SourcesOf(d, i) /\ Preferred(e, i) = Preferred(d, i)
    BY DEF Gone, LiveItems, SourcesOf, Preferred
  <1>. QED
    BY <1>1 DEF SourcesRight

LEMMA GoneCodes ==
  ASSUME NEW d, NEW r, NEW e, Gone(d, r, e), CodesRight(d)
  PROVE  CodesRight(e)
  <1>1. ASSUME NEW i \in LiveItems(e)
        PROVE  i \in LiveItems(d) /\ e.item[i] = d.item[i] /\ LiveOf(e, i) = LiveOf(d, i)
    BY DEF Gone, LiveItems
  <1>2. ASSUME NEW c \in Codes, NEW x \in Bearers(e, c) PROVE x \in Bearers(d, c)
    BY <1>1 DEF Gone, Bearers
  <1>3. Cardinality(LiveItems(e)) <= Cap
    <2>1. IsFiniteSet(LiveItems(d)) /\ LiveItems(e) \subseteq LiveItems(d)
      BY <1>1, CatalogueAssumption, FS_Subset DEF LiveItems
    <2>2. /\ Cardinality(LiveItems(e)) <= Cardinality(LiveItems(d))
          /\ Cardinality(LiveItems(e)) \in Nat /\ Cardinality(LiveItems(d)) \in Nat
      BY <2>1, FS_Subset, FS_CardinalityType
    <2>. QED
      BY <2>2, CatalogueAssumption DEF CodesRight
  <1>4. \A i \in LiveItems(e) : e.item[i].varied <=> LiveOf(e, i) # {}
    BY <1>1 DEF CodesRight
  <1>5. \A c \in Codes : \A x, y \in Bearers(e, c) : x = y
    BY <1>2 DEF CodesRight
  <1>. QED
    BY <1>3, <1>4, <1>5 DEF CodesRight

LEMMA GoneLatent ==
  ASSUME NEW d, NEW r, r.item \in Items, NEW e, Gone(d, r, e), Latent(d)
  PROVE  Latent(e)
  <1>1. \A i \in Items : e.item[i].st = "absent" => LiveOf(e, i) = {}
    BY DEF Gone, Latent
  <1>2. ASSUME NEW i \in Items, NEW v \in Variants, e.rows[i][v] > 0 PROVE v \in LiveOf(e, i)
    <2>1. i # r.item
      BY <1>2, KeysApart DEF Gone
    <2>. QED
      BY <1>2, <2>1 DEF Gone, Latent
  <1>. QED
    BY <1>1, <1>2 DEF Latent

LEMMA RetiredSound ==
  ASSUME NEW d \in Db, NEW r, r.item \in Items, NEW e, RetiredAs(d, r, e), NEW behind, NEW left, NEW empty,
         NEW removed, NEW edited, NEW wrong, CatalogueSound(d, behind, left, empty, removed, edited, wrong)
  PROVE  CatalogueSound(e, behind, left, empty, removed, edited \cup {r.item}, wrong)
  <1>1. Gone(d, r, e) /\ e.line = d.line
    BY RetiredGone
  <1>2. RowsRight(e, behind, left) /\ SourcesRight(e, empty, removed) /\ CodesRight(e)
    BY <1>1, GoneRows, GoneSources, GoneCodes DEF CatalogueSound
  <1>3. Latent(e)
    BY <1>1, GoneLatent DEF CatalogueSound
  <1>4. ASSUME NEW s \in Items, NEW c \in Items, e.line[s][c] \in Units, <<s, c>> \notin wrong
        PROVE  Kind[c] = "supply" /\ (e.item[c].st = "live" \/ c \in edited \cup {r.item}) /\ e.line[s][c] = e.item[c].unit
    <2>1. Kind[c] = "supply" /\ (d.item[c].st = "live" \/ c \in edited) /\ e.line[s][c] = d.item[c].unit
      BY <1>1, <1>4 DEF CatalogueSound, RecipesRight
    <2>2. c = r.item \/ e.item[c] = d.item[c]
      BY <1>1 DEF Gone
    <2>. QED
      BY <1>1, <2>1, <2>2 DEF Gone
  <1>5. RecipesRight(e, edited \cup {r.item}, wrong)
    BY <1>4 DEF RecipesRight
  <1>. QED
    BY <1>2, <1>3, <1>5 DEF CatalogueSound

LEMMA RemovedSound ==
  ASSUME NEW d \in Db, NEW r, r.item \in Items, NEW e, RemovedAs(d, r, e), NEW behind, NEW left, NEW empty,
         NEW removed, NEW edited, NEW wrong, CatalogueSound(d, behind, left, empty, removed, edited, wrong)
  PROVE  CatalogueSound(e, behind, left, empty, removed, edited, wrong)
  <1>1. Gone(d, r, e)
    BY RemovedGone
  <1>2. RowsRight(e, behind, left) /\ SourcesRight(e, empty, removed) /\ CodesRight(e)
    BY <1>1, GoneRows, GoneSources, GoneCodes DEF CatalogueSound
  <1>3. "gone" \notin Units
    BY CatalogueAssumption
  <1>4. ASSUME NEW s \in Items, NEW c \in Items, e.line[s][c] \in Units
        PROVE  e.line[s][c] = d.line[s][c] /\ c # r.item
    <2>1. e.line[s][c] = IF r.item \in {s, c} /\ d.line[s][c] \in Units THEN "gone" ELSE d.line[s][c]
      BY DEF RemovedAs
    <2>. QED
      BY <1>3, <1>4, <2>1
  <1>5. Latent(e)
    BY <1>1, GoneLatent DEF CatalogueSound
  <1>6. ASSUME NEW s \in Items, NEW c \in Items, e.line[s][c] \in Units, <<s, c>> \notin wrong
        PROVE  Kind[c] = "supply" /\ (e.item[c].st = "live" \/ c \in edited) /\ e.line[s][c] = e.item[c].unit
    <2>1. e.line[s][c] = d.line[s][c] /\ c # r.item
      BY <1>4, <1>6
    <2>2. e.item[c] = d.item[c]
      BY <1>1, <2>1 DEF Gone
    <2>. QED
      BY <1>6, <2>1, <2>2 DEF CatalogueSound, RecipesRight
  <1>7. RecipesRight(e, edited, wrong)
    BY <1>6 DEF RecipesRight
  <1>. QED
    BY <1>2, <1>5, <1>7 DEF CatalogueSound

LEMMA SupplierGoneSound ==
  ASSUME NEW d \in Db, NEW r, r.op = "dropSupplier", r.pick \in Suppliers, Found(r, d), NEW e, SupplierGoneAs(d, r, e),
         NEW behind, NEW left, NEW empty, NEW removed, NEW edited, NEW wrong, CatalogueSound(d, behind, left, empty, removed, edited, wrong)
  PROVE  CatalogueSound(e, behind, left, empty, removed \cup {r.pick}, edited, wrong)
  <1>1. e.item = d.item /\ e.variant = d.variant /\ e.line = d.line /\ e.rows = d.rows
    BY DEF SupplierGoneAs
  <1>2. LiveItems(e) = LiveItems(d) /\ \A i : LiveOf(e, i) = LiveOf(d, i)
    BY <1>1 DEF LiveItems, LiveOf
  <1>3. \A c : Bearers(e, c) = Bearers(d, c)
    BY <1>1, <1>2 DEF Bearers
  <1>4. RowsRight(e, behind, left)
    BY <1>1, <1>2 DEF CatalogueSound, RowsRight
  <1>5. RecipesRight(e, edited, wrong)
    BY <1>1 DEF CatalogueSound, RecipesRight
  <1>6. CodesRight(e)
    BY <1>1, <1>2, <1>3 DEF CatalogueSound, CodesRight
  <1>7. Latent(e)
    BY <1>1, <1>2 DEF CatalogueSound, Latent
  <1>8. ASSUME NEW i \in LiveItems(e)
        PROVE  /\ SourcesOf(e, i) # {} /\ \A s, t \in Preferred(e, i) : s = t
               /\ \/ i \in empty
                  \/ Preferred(e, i) = {e.item[i].sup}
                  \/ Preferred(e, i) = {} /\ e.item[i].sup \in removed \cup {r.pick}
    <2>1. /\ SourcesOf(d, i) # {} /\ \A s, t \in Preferred(d, i) : s = t
          /\ \/ i \in empty
             \/ Preferred(d, i) = {d.item[i].sup}
             \/ Preferred(d, i) = {} /\ d.item[i].sup \in removed
      BY <1>2 DEF CatalogueSound, SourcesRight
    <2>2. i \in Items /\ SourcesOf(d, i) # {r.pick}
      BY <1>2 DEF LiveItems, Found
    <2>3. \A s \in Suppliers : e.link[i][s] = IF s = r.pick /\ d.link[i][s] \in LinkLive THEN "gone" ELSE d.link[i][s]
      BY <2>2 DEF SupplierGoneAs
    <2>4. SourcesOf(e, i) = SourcesOf(d, i) \ {r.pick}
      BY <2>3 DEF SourcesOf, LinkLive
    <2>5. Preferred(e, i) = Preferred(d, i) \ {r.pick}
      BY <2>3 DEF Preferred, LinkLive
    <2>6. SourcesOf(e, i) # {}
      BY <2>1, <2>2, <2>4
    <2>. QED
      BY <1>1, <2>1, <2>5, <2>6
  <1>9. SourcesRight(e, empty, removed \cup {r.pick})
    BY <1>8 DEF SourcesRight
  <1>. QED
    BY <1>4, <1>5, <1>6, <1>7, <1>9 DEF CatalogueSound

\* A checkout, whose item is opened when it may have found the switch or the row changed.
LEMMA SoldSound ==
  ASSUME NEW d \in Db, NEW seen, NEW r, r.op = "sell", Asked(r), Found(r, seen), NEW e, SoldAs(d, seen, r, e),
         NEW behind, NEW left, NEW empty, NEW removed, NEW edited, NEW wrong, CatalogueSound(d, behind, left, empty, removed, edited, wrong),
         NEW behind2, behind \subseteq behind2,
         e.rows # d.rows /\ (~d.item[r.item].tracked \/ d.rows[r.item][r.place] > 0) => r.item \in behind2
  PROVE  CatalogueSound(e, behind2, left, empty, removed, edited, wrong)
  <1>1. e.item = d.item /\ e.variant = d.variant /\ e.line = d.line /\ e.link = d.link
    BY DEF SoldAs
  <1>2. LiveItems(e) = LiveItems(d) /\ \A i : LiveOf(e, i) = LiveOf(d, i)
    BY <1>1 DEF LiveItems, LiveOf
  <1>3. \A c : Bearers(e, c) = Bearers(d, c)
    BY <1>1, <1>2 DEF Bearers
  <1>4. \A i : SourcesOf(e, i) = SourcesOf(d, i) /\ Preferred(e, i) = Preferred(d, i)
    BY <1>1 DEF SourcesOf, Preferred
  <1>5. SourcesRight(e, empty, removed)
    BY <1>1, <1>2, <1>4 DEF CatalogueSound, SourcesRight
  <1>6. RecipesRight(e, edited, wrong)
    BY <1>1 DEF CatalogueSound, RecipesRight
  <1>7. CodesRight(e)
    BY <1>1, <1>2, <1>3 DEF CatalogueSound, CodesRight
  <1>8. r.item \in Items /\ r.place \in Keys
    BY DEF Asked, Request
  <1>9. \A i \in Items, k \in Keys : d.rows[i][k] \in Nat
    BY DbHas
  <1>10. CASE seen.rows[r.item][r.place] # 0
    <2>1. e.rows = d.rows
      BY <1>10 DEF SoldAs
    <2>2. RowsRight(e, behind2, left)
      BY <1>1, <1>2, <2>1 DEF CatalogueSound, RowsRight
    <2>3. Latent(e)
      BY <1>1, <1>2, <2>1 DEF CatalogueSound, Latent
    <2>. QED
      BY <1>5, <1>6, <1>7, <2>2, <2>3 DEF CatalogueSound
  <1>11. CASE seen.rows[r.item][r.place] = 0
    <2>1. e.rows = [d.rows EXCEPT ![r.item][r.place] = @ + 1]
      BY <1>11 DEF SoldAs
    <2>2. /\ e.rows[r.item][r.place] = d.rows[r.item][r.place] + 1
          /\ \A i \in Items, k \in Keys : i # r.item \/ k # r.place => e.rows[i][k] = d.rows[i][k]
      BY <1>8, <2>1, DbHas
    <2>3. r.place \in Places
      BY <1>11 DEF Found
    <2>4. e.rows # d.rows
      BY <1>8, <1>9, <2>2
    <2>5. ASSUME NEW i \in Items, NEW v \in Variants, e.rows[i][v] > 0 PROVE v \in LiveOf(e, i)
      <3>1. v \in Keys /\ v # r.place
        BY <2>3, KeysApart, CatalogueAssumption DEF Places
      <3>. QED
        BY <1>2, <2>2, <2>5, <3>1 DEF CatalogueSound, Latent
    <2>6. Latent(e)
      BY <1>1, <1>2, <2>5 DEF CatalogueSound, Latent
    <2>7. ASSUME NEW i \in LiveItems(e)
          PROVE  /\ i \in behind2 \/ \A k \in Keys : e.rows[i][k] <= IF e.item[i].tracked THEN 1 ELSE 0
                 /\ e.item[i].tracked =>
                      /\ \A v \in LiveOf(e, i) \ left : e.rows[i][v] > 0
                      /\ i \in left \/ e.rows[i]["base"] > 0
      <3>1. /\ i \in behind \/ \A k \in Keys : d.rows[i][k] <= IF d.item[i].tracked THEN 1 ELSE 0
            /\ d.item[i].tracked =>
                 /\ \A v \in LiveOf(d, i) \ left : d.rows[i][v] > 0
                 /\ i \in left \/ d.rows[i]["base"] > 0
        BY <1>2 DEF CatalogueSound, RowsRight
      <3>2. i \in Items
        BY DEF LiveItems
      <3>3. \A k \in Keys : d.rows[i][k] > 0 => e.rows[i][k] > 0
        BY <1>8, <1>9, <2>2, <3>2
      <3>4. e.item[i] = d.item[i] /\ LiveOf(e, i) = LiveOf(d, i)
        BY <1>1, <1>2
      <3>5. \A v \in LiveOf(d, i) : v \in Keys
        BY KeysApart DEF LiveOf, Of
      <3>6. ASSUME i \notin behind2, NEW k \in Keys PROVE e.rows[i][k] <= IF e.item[i].tracked THEN 1 ELSE 0
        <4>1. d.rows[i][k] <= IF d.item[i].tracked THEN 1 ELSE 0
          BY <3>1, <3>6
        <4>2. CASE i # r.item \/ k # r.place
          BY <2>2, <3>2, <3>4, <4>1, <4>2
        <4>3. CASE i = r.item /\ k = r.place
          <5>1. d.item[i].tracked /\ ~(d.rows[i][k] > 0)
            BY <2>4, <3>6, <4>3
          <5>2. e.rows[i][k] = d.rows[i][k] + 1 /\ d.rows[i][k] \in Nat
            BY <1>9, <2>2, <3>2, <4>3
          <5>. QED
            BY <3>4, <5>1, <5>2
        <4>. QED
          BY <4>2, <4>3
      <3>7. e.item[i].tracked =>
                 /\ \A v \in LiveOf(e, i) \ left : e.rows[i][v] > 0
                 /\ i \in left \/ e.rows[i]["base"] > 0
        BY <3>1, <3>3, <3>4, <3>5, KeysApart
      <3>. QED
        BY <3>6, <3>7
    <2>8. RowsRight(e, behind2, left)
      BY <2>7 DEF RowsRight
    <2>. QED
      BY <1>5, <1>6, <1>7, <2>6, <2>8 DEF CatalogueSound
  <1>. QED
    BY <1>10, <1>11

(***************************************************************************)
(* The catalogue is sound while requests take turns.                       *)
(***************************************************************************)
LEMMA EditedSound ==
  ASSUME NEW d \in Db, NEW r, Asked(r), Found(r, d), r.op \in EditOps, NEW e, EditedAs(d, d, r, e),
         NEW behind, NEW left, NEW empty, NEW removed, NEW edited, NEW wrong, CatalogueSound(d, behind, left, empty, removed, edited, wrong)
  PROVE  CatalogueSound(e, behind, IF r.op = "vary" THEN (left \ GivenRows(r, d)) \cup LeftOut(r, d) ELSE left,
               Empties(r, d, empty), removed, edited, AstrayAfter(r, d, wrong))
  <1>1. PICK left2 : left2 = IF r.op = "vary" THEN (left \ GivenRows(r, d)) \cup LeftOut(r, d) ELSE left
    OBVIOUS
  <1>2. RowsRight(e, behind, left2)
    BY <1>1, EditedRows DEF CatalogueSound
  <1>3. SourcesRight(e, Empties(r, d, empty), removed)
    BY EditedSources DEF CatalogueSound
  <1>4. RecipesRight(e, edited, AstrayAfter(r, d, wrong)) /\ CodesRight(e) /\ Latent(e)
    BY EditedRecipes, EditedCodes, EditedLatent DEF CatalogueSound
  <1>. QED
    BY <1>1, <1>2, <1>3, <1>4 DEF CatalogueSound

LEMMA CreatedSound ==
  ASSUME NEW d \in Db, NEW r, Asked(r), Found(r, d), r.op = "create", NEW e, CreatedAs(d, r, e),
         NEW behind, NEW left, NEW empty, NEW removed, NEW edited, NEW wrong, CatalogueSound(d, behind, left, empty, removed, edited, wrong)
  PROVE  CatalogueSound(e, behind, left, Empties(r, d, empty), removed, edited, AstrayAfter(r, d, wrong))
  <1>1. RowsRight(e, behind, left) /\ SourcesRight(e, Empties(r, d, empty), removed)
    BY CreatedRows, CreatedSources DEF CatalogueSound
  <1>2. RecipesRight(e, edited, AstrayAfter(r, d, wrong)) /\ CodesRight(e) /\ Latent(e)
    BY CreatedRecipes, CreatedCodes, CreatedLatent DEF CatalogueSound
  <1>. QED
    BY <1>1, <1>2 DEF CatalogueSound

ItemsSound == ~raced => CatalogueSound(db, opened, bare, strayed, dropped, retired, astray)
ItemsInv == ItemsTyped /\ Turns /\ ItemsSound

\* What a request that ends does, told by what it asked and saw.
LEMMA FinishIs ==
  ASSUME NEW w \in Clerks, Finish(w), NEW r, r = job[w].ask, NEW seen, seen = job[w].seen
  PROVE  /\ db' = After(r, seen, db) /\ sent' = Stamped(r, seen, db)
         /\ dropped' = IF r.op = "dropSupplier" THEN dropped \cup {r.pick} ELSE dropped
         /\ strayed' = Empties(r, db, strayed)
         /\ bare' = IF r.op = "vary" THEN (bare \ GivenRows(r, seen)) \cup LeftOut(r, seen) ELSE bare
         /\ opened \subseteq opened' /\ (r.op # "sell" => opened' = opened)
         /\ r.op = "sell" /\ db' # db /\ (~db.item[r.item].tracked \/ db.rows[r.item][r.place] > 0) => r.item \in opened'
         /\ retired' = IF r.op = "retire" THEN retired \cup {r.item} ELSE retired
         /\ astray' = AstrayAfter(r, db, astray)
         /\ raced' = raced /\ ~AtRest(w)
  <1>1. /\ db' = After(r, seen, db) /\ sent' = Stamped(r, seen, db) /\ raced' = raced /\ ~AtRest(w)
        /\ dropped' = dropped \cup IF r.op = "dropSupplier" THEN {r.pick} ELSE {}
        /\ strayed' = Empties(r, db, strayed)
        /\ bare' = IF r.op = "vary" THEN (bare \ GivenRows(r, seen)) \cup LeftOut(r, seen) ELSE bare
        /\ retired' = retired \cup IF r.op = "retire" THEN {r.item} ELSE {}
        /\ astray' = AstrayAfter(r, db, astray)
    BY DEF Finish, Empties, AstrayAfter
  <1>2. opened' = opened \cup IF /\ r.op = "sell" /\ db' # db
                                 /\ ~db.item[r.item].tracked \/ db.rows[r.item][r.place] > 0
                              THEN {r.item} ELSE {}
    BY DEF Finish
  <1>3. opened \subseteq opened' /\ (r.op # "sell" => opened' = opened)
    BY <1>2
  <1>4. r.op = "sell" /\ db' # db /\ (~db.item[r.item].tracked \/ db.rows[r.item][r.place] > 0) => r.item \in opened'
    BY <1>2
  <1>. QED
    BY <1>1, <1>3, <1>4

LEMMA SoundFinish ==
  ASSUME ItemsInv, NEW w \in Clerks, Finish(w), ~raced
  PROVE  CatalogueSound(db', opened', bare', strayed', dropped', retired', astray')
  <1>1. PICK r, seen : r = job[w].ask /\ seen = job[w].seen
    OBVIOUS
  <1>2. /\ db' = After(r, seen, db) /\ ~AtRest(w)
        /\ dropped' = IF r.op = "dropSupplier" THEN dropped \cup {r.pick} ELSE dropped
        /\ strayed' = Empties(r, db, strayed)
        /\ bare' = IF r.op = "vary" THEN (bare \ GivenRows(r, seen)) \cup LeftOut(r, seen) ELSE bare
        /\ opened \subseteq opened' /\ (r.op # "sell" => opened' = opened)
        /\ r.op = "sell" /\ db' # db /\ (~db.item[r.item].tracked \/ db.rows[r.item][r.place] > 0) => r.item \in opened'
        /\ retired' = IF r.op = "retire" THEN retired \cup {r.item} ELSE retired
        /\ astray' = AstrayAfter(r, db, astray)
    BY <1>1, FinishIs
  <1>3. Asked(r) /\ Found(r, seen) /\ db \in Db /\ seen \in Db
    BY <1>1, <1>2 DEF ItemsInv, ItemsTyped, ItemsTypeOK, JobsInv
  <1>4. CatalogueSound(db, opened, bare, strayed, dropped, retired, astray)
    BY DEF ItemsInv, ItemsSound
  <1>5. r.op # "sell" => SameButRows(seen, db)
    BY <1>1, <1>2 DEF ItemsInv, Turns, Editing
  <1>6. r.op \in Calls /\ (r.op # "dropSupplier" => r.item \in Items) /\ (r.op = "dropSupplier" => r.pick \in Suppliers)
    BY <1>3 DEF Asked
  <1>7. r.op \notin {"create", "source"} => strayed' = strayed
    <2>1. r.op \notin {"create", "source"} => r.how = Keep
      BY <1>3 DEF Asked
    <2>. QED
      BY <1>2, <2>1 DEF Empties
  <1>14. r.op \notin {"create", "compose"} => astray' = astray
    BY <1>2 DEF AstrayAfter
  <1>8. CASE r.op = "sell"
    <2>1. SoldAs(db, seen, r, db')
      BY <1>2, <1>3, <1>6, <1>8, SoldIs DEF After
    <2>2. db'.rows # db.rows /\ (~db.item[r.item].tracked \/ db.rows[r.item][r.place] > 0) => r.item \in opened'
      BY <1>2, <1>8
    <2>3. bare' = bare /\ strayed' = strayed /\ dropped' = dropped /\ retired' = retired /\ astray' = astray
      BY <1>2, <1>7, <1>8, <1>14
    <2>4. CatalogueSound(db', opened', bare, strayed, dropped, retired, astray)
      BY <1>2, <1>3, <1>4, <1>8, <2>1, <2>2, SoldSound
    <2>. QED
      BY <2>3, <2>4
  <1>9. CASE r.op = "create"
    <2>1. CreatedAs(db, r, db')
      BY <1>2, <1>3, <1>6, <1>9, CreatedIs DEF After
    <2>2. Found(r, db)
      BY <1>3, <1>5, <1>9, FoundNow
    <2>3. opened' = opened /\ bare' = bare /\ dropped' = dropped /\ retired' = retired
      BY <1>2, <1>9
    <2>4. CatalogueSound(db', opened, bare, Empties(r, db, strayed), dropped, retired, AstrayAfter(r, db, astray))
      BY <1>3, <1>4, <1>9, <2>1, <2>2, CreatedSound
    <2>. QED
      BY <1>2, <2>3, <2>4
  <1>10. CASE r.op = "retire"
    <2>1. RetiredAs(db, r, db')
      BY <1>2, <1>3, <1>6, <1>10, RetiredIs DEF After
    <2>2. opened' = opened /\ bare' = bare /\ dropped' = dropped /\ retired' = retired \cup {r.item} /\ strayed' = strayed /\ astray' = astray
      BY <1>2, <1>7, <1>14, <1>10
    <2>3. CatalogueSound(db', opened, bare, strayed, dropped, retired \cup {r.item}, astray)
      BY <1>3, <1>4, <1>6, <1>10, <2>1, RetiredSound
    <2>. QED
      BY <2>2, <2>3
  <1>11. CASE r.op = "remove"
    <2>1. RemovedAs(db, r, db')
      BY <1>2, <1>3, <1>6, <1>11, RemovedIs DEF After
    <2>2. opened' = opened /\ bare' = bare /\ dropped' = dropped /\ retired' = retired /\ strayed' = strayed /\ astray' = astray
      BY <1>2, <1>7, <1>14, <1>11
    <2>3. CatalogueSound(db', opened, bare, strayed, dropped, retired, astray)
      BY <1>3, <1>4, <1>6, <1>11, <2>1, RemovedSound
    <2>. QED
      BY <2>2, <2>3
  <1>12. CASE r.op = "dropSupplier"
    <2>1. SupplierGoneAs(db, r, db')
      BY <1>2, <1>3, <1>12, SupplierGoneIs DEF After
    <2>2. opened' = opened /\ bare' = bare /\ dropped' = dropped \cup {r.pick} /\ retired' = retired /\ strayed' = strayed /\ astray' = astray
      BY <1>2, <1>7, <1>14, <1>12
    <2>3. Found(r, db)
      BY <1>3, <1>5, <1>12, FoundNow
    <2>4. CatalogueSound(db', opened, bare, strayed, dropped \cup {r.pick}, retired, astray)
      BY <1>3, <1>4, <1>6, <1>12, <2>1, <2>3, SupplierGoneSound
    <2>. QED
      BY <2>2, <2>4
  <1>13. CASE r.op \in EditOps
    <2>1. SameButRows(seen, db) /\ r.op # "sell"
      BY <1>5, <1>13 DEF EditOps
    <2>2. EditedAs(db, seen, r, db')
      BY <1>2, <1>3, <1>6, <1>13, EditedIs DEF After, EditOps
    <2>3. EditedAs(db, db, r, db') /\ Found(r, db)
      BY <1>3, <2>1, <2>2, EditedNow, FoundNow
    <2>4. LeftOut(r, seen) = LeftOut(r, db) /\ GivenRows(r, seen) = GivenRows(r, db)
      BY <2>1, LeftNow
    <2>5. opened' = opened /\ dropped' = dropped /\ retired' = retired
      BY <1>2, <1>13 DEF EditOps
    <2>6. CatalogueSound(db', opened, IF r.op = "vary" THEN (bare \ GivenRows(r, db)) \cup LeftOut(r, db) ELSE bare,
                Empties(r, db, strayed), dropped, retired, AstrayAfter(r, db, astray))
      BY <1>3, <1>4, <1>13, <2>3, EditedSound
    <2>. QED
      BY <1>2, <2>4, <2>5, <2>6
  <1>. QED
    BY <1>6, <1>8, <1>9, <1>10, <1>11, <1>12, <1>13 DEF Calls, EditOps

LEMMA SoundStart == ItemsInit => ItemsSound
  <1> SUFFICES ASSUME ItemsInit PROVE CatalogueSound(db, opened, bare, strayed, dropped, retired, astray)
    BY DEF ItemsSound
  <1>1. /\ db \in Origins /\ opened = {} /\ bare = {} /\ strayed = {} /\ dropped = {} /\ retired = {} /\ astray = {}
    BY DEF ItemsInit
  <1>2. RowsRight(db, {}, {}) /\ SourcesRight(db, {}, {}) /\ RecipesRight(db, {}, {}) /\ CodesRight(db) /\ Latent(db)
    BY <1>1, OriginsAssumption
  <1>. QED
    BY <1>1, <1>2 DEF CatalogueSound

LEMMA SoundStep == ItemsInv /\ [ItemsNext]_itemVars => ItemsInv'
  <1> SUFFICES ASSUME ItemsInv, [ItemsNext]_itemVars PROVE ItemsInv'
    OBVIOUS
  <1>1. ItemsTyped' /\ Turns'
    BY ItemsStep, TurnsStep DEF ItemsInv
  <1>2. ItemsSound'
    <2> SUFFICES ASSUME ~raced' PROVE CatalogueSound(db', opened', bare', strayed', dropped', retired', astray')
      BY DEF ItemsSound
    <2>1. CASE UNCHANGED itemVars
      BY <2>1 DEF itemVars, ghosts, ItemsInv, ItemsSound
    <2>2. ASSUME NEW w \in Clerks, NEW r, Start(w, r)
          PROVE  CatalogueSound(db', opened', bare', strayed', dropped', retired', astray')
      <3>1. /\ db' = db /\ opened' = opened /\ bare' = bare /\ strayed' = strayed
            /\ dropped' = dropped /\ retired' = retired /\ astray' = astray
        BY <2>2 DEF Start
      <3>2. ~raced
        BY <2>2 DEF Start
      <3>. QED
        BY <3>1, <3>2 DEF ItemsInv, ItemsSound
    <2>3. ASSUME NEW w \in Clerks, Finish(w)
          PROVE  CatalogueSound(db', opened', bare', strayed', dropped', retired', astray')
      BY <2>3, SoundFinish, FinishIs
    <2>. QED
      BY <2>1, <2>2, <2>3, ItemSteps DEF ItemsInv, ItemsTyped, ItemsTypeOK
  <1>. QED
    BY <1>1, <1>2 DEF ItemsInv

LEMMA ItemsAlways == ItemsSpec => []ItemsInv
  <1>1. ItemsInit => ItemsInv
    BY ItemsStart, TurnsStart, SoundStart DEF ItemsInv
  <1>. QED
    BY <1>1, SoundStep, PTL DEF ItemsSpec

\* While edits take turns, a stock row is there when the switch is on, and none when
\* it is off, whatever checkouts overlap them, but for what is left out or opened.
THEOREM RowsKeep == ItemsSpec => []RowsFollow
  <1>1. ItemsInv => RowsFollow
    BY DEF ItemsInv, ItemsSound, CatalogueSound, RowsFollow
  <1>. QED
    BY <1>1, ItemsAlways, PTL

\* A live item keeps a source; a recipe line that was sent of a live supply in its
\* unit stays one, whatever becomes of the supply, while requests take turns.
THEOREM LinksKeep == ItemsSpec => []LinksKept
  <1>1. ItemsInv => LinksKept
    BY DEF ItemsInv, ItemsTyped, ItemsSound, CatalogueSound, LinksKept
  <1>. QED
    BY <1>1, ItemsAlways, PTL

\* A code leads to one thing, the plan's limit holds, and an item has variants
\* exactly when it says so.
THEOREM CodesKeep == ItemsSpec => []CodesApart
  <1>1. ItemsInv => CodesApart
    BY DEF ItemsInv, ItemsSound, CatalogueSound, CodesApart
  <1>. QED
    BY <1>1, ItemsAlways, PTL

(***************************************************************************)
(* What the feed hears of.                                                 *)
(***************************************************************************)
LEMMA ShownSame ==
  ASSUME NEW d, NEW e, NEW i, e.item[i] = d.item[i], LiveOf(e, i) = LiveOf(d, i),
         \A v \in LiveOf(d, i) : e.variant[v] = d.variant[v], e.link[i] = d.link[i],
         \A c \in Items : e.line[i][c] = d.line[i][c]
  PROVE  Shown(e, i) = Shown(d, i)
  <1>1. [v \in LiveOf(e, i) |-> e.variant[v].code] = [v \in LiveOf(d, i) |-> d.variant[v].code]
    OBVIOUS
  <1>2. SourcesOf(e, i) = SourcesOf(d, i)
    BY DEF SourcesOf
  <1>3. [s \in SourcesOf(e, i) |-> e.link[i][s]] = [s \in SourcesOf(d, i) |-> d.link[i][s]]
    BY <1>2
  <1>4. PICK E, D : /\ E = {x \in Items : Kind[i] = "service" /\ e.line[i][x] \in Units}
                    /\ D = {x \in Items : Kind[i] = "service" /\ d.line[i][x] \in Units}
    OBVIOUS
  <1>5. E = D /\ \A c \in D : e.line[i][c] = d.line[i][c]
    BY <1>4
  <1>6. [c \in E |-> e.line[i][c]] = [c \in D |-> d.line[i][c]]
    BY <1>5
  <1>. QED
    BY <1>1, <1>3, <1>4, <1>6 DEF Shown

\* Whoever ends a request, an item that it changes is stamped, or loses a line.
LEMMA FinishTold ==
  ASSUME ItemsInv, NEW w \in Clerks, Finish(w), ~raced, NEW i \in Items, i \notin sent',
         \A c \in Items : db.line[i][c] \in Units => db'.item[c].st # "gone"
  PROVE  Shown(db', i) = Shown(db, i)
  <1>1. PICK r, seen : r = job[w].ask /\ seen = job[w].seen
    OBVIOUS
  <1>2. db' = After(r, seen, db) /\ sent' = Stamped(r, seen, db) /\ ~AtRest(w)
    BY <1>1, FinishIs
  <1>3. Asked(r) /\ Found(r, seen) /\ db \in Db /\ seen \in Db
    BY <1>1, <1>2 DEF ItemsInv, ItemsTyped, ItemsTypeOK, JobsInv
  <1>4. Latent(db)
    BY DEF ItemsInv, ItemsSound, CatalogueSound
  <1>5. r.op # "sell" => SameButRows(seen, db)
    BY <1>1, <1>2 DEF ItemsInv, Turns, Editing
  <1>6. r.op \in Calls /\ (r.op # "dropSupplier" => r.item \in Items)
    BY <1>3 DEF Asked
  <1>7. r.op \notin {"sell", "dropSupplier"} => i # r.item
    BY <1>2 DEF Stamped
  <1>8. CASE r.op = "sell"
    <2>1. SoldAs(db, seen, r, db')
      BY <1>2, <1>3, <1>6, <1>8, SoldIs DEF After
    <2>2. LiveOf(db', i) = LiveOf(db, i)
      BY <2>1 DEF SoldAs, LiveOf
    <2>. QED
      BY <2>1, <2>2, ShownSame DEF SoldAs
  <1>9. CASE r.op = "create"
    <2>1. CreatedAs(db, r, db') /\ Found(r, db)
      BY <1>2, <1>3, <1>5, <1>6, <1>9, CreatedIs, FoundNow DEF After
    <2>2. CreatedHas(db, r, db') /\ CreatedLives(db, r, db')
      BY <1>3, <1>4, <1>9, <2>1, CreatedFields, CreatedVariants
    <2>3. i \in Items \ {r.item}
      BY <1>7, <1>9
    <2>4. db'.item[i] = db.item[i] /\ db'.link[i] = db.link[i] /\ db'.line[i] = db.line[i] /\ LiveOf(db', i) = LiveOf(db, i)
      BY <2>2, <2>3 DEF CreatedHas, CreatedLives
    <2>5. ASSUME NEW v \in LiveOf(db, i) PROVE db'.variant[v] = db.variant[v]
      <3>1. v \in Variants /\ ~(r.what = "add" /\ v = r.variant)
        BY <2>2, <2>3 DEF LiveOf, Of, CreatedLives
      <3>. QED
        BY <2>2, <3>1 DEF CreatedHas
    <2>. QED
      BY <2>4, <2>5, ShownSame
  <1>10. CASE r.op = "retire"
    <2>1. RetiredAs(db, r, db')
      BY <1>2, <1>3, <1>6, <1>10, RetiredIs DEF After
    <2>2. Gone(db, r, db') /\ db'.line = db.line
      BY <1>3, <1>6, <1>10, <2>1, RetiredGone
    <2>3. i \in Items \ {r.item}
      BY <1>7, <1>10
    <2>4. \A v \in LiveOf(db, i) : db'.variant[v] = db.variant[v]
      <3>1. \A v \in LiveOf(db, i) : v \in Variants /\ v \notin LiveOf(db, r.item)
        BY <2>3 DEF LiveOf, Of
      <3>. QED
        BY <2>1, <3>1 DEF RetiredAs
    <2>. QED
      BY <2>2, <2>3, <2>4, ShownSame DEF Gone
  <1>11. CASE r.op = "remove"
    <2>1. RemovedAs(db, r, db')
      BY <1>2, <1>3, <1>6, <1>11, RemovedIs DEF After
    <2>2. Gone(db, r, db') /\ db'.variant = db.variant
      BY <1>3, <1>6, <1>11, <2>1, RemovedGone DEF RemovedAs
    <2>3. i \in Items \ {r.item}
      BY <1>7, <1>11
    <2>4. ASSUME NEW c \in Items PROVE db'.line[i][c] = db.line[i][c]
      <3>1. db'.line[i][c] = IF r.item \in {i, c} /\ db.line[i][c] \in Units THEN "gone" ELSE db.line[i][c]
        BY <2>1 DEF RemovedAs
      <3>2. c = r.item => db.line[i][c] \notin Units
        BY <2>2 DEF Gone
      <3>. QED
        BY <2>3, <3>1, <3>2
    <2>. QED
      BY <2>2, <2>3, <2>4, ShownSame DEF Gone
  <1>12. CASE r.op = "dropSupplier"
    <2>1. SupplierGoneAs(db, r, db')
      BY <1>2, <1>3, <1>12, SupplierGoneIs DEF After
    <2>2. sent' = {j \in Items : seen.link[j][r.pick] \in LinkLive}
      BY <1>2, <1>12 DEF Stamped
    <2>3. db.link[i][r.pick] \notin LinkLive
      BY <1>5, <1>12, <2>2 DEF SameButRows
    <2>4. db'.link[i] = db.link[i]
      <3>1. db'.link[i] = [s \in Suppliers |->
               IF s = r.pick /\ db.link[i][s] \in LinkLive THEN "gone" ELSE db.link[i][s]]
        BY <2>1 DEF SupplierGoneAs
      <3>2. db.link[i] \in [Suppliers -> Links]
        BY <1>3, DbHas
      <3>. QED
        BY <2>3, <3>1, <3>2
    <2>5. db'.item = db.item /\ db'.variant = db.variant /\ db'.line = db.line /\ LiveOf(db', i) = LiveOf(db, i)
      BY <2>1 DEF SupplierGoneAs, LiveOf
    <2>. QED
      BY <2>4, <2>5, ShownSame
  <1>13. CASE r.op \in EditOps
    <2>1. SameButRows(seen, db) /\ r.op \notin {"sell", "dropSupplier", "create", "retire", "remove"}
      BY <1>5, <1>13 DEF EditOps
    <2>2. EditedAs(db, seen, r, db')
      BY <1>2, <1>3, <1>6, <1>13, EditedIs DEF After, EditOps
    <2>3. EditedAs(db, db, r, db') /\ Found(r, db)
      BY <1>3, <2>1, <2>2, EditedNow, FoundNow
    <2>4. i \in Items \ {r.item}
      BY <1>7, <2>1
    <2>5. db'.item[i] = db.item[i] /\ db'.link[i] = db.link[i]
      BY <1>3, <1>13, <2>3, <2>4, EditedFields
    <2>6. LiveOf(db', i) = LiveOf(db, i)
      BY <1>3, <1>13, <2>3, <2>4, EditedVariants
    <2>7. ASSUME NEW v \in LiveOf(db, i) PROVE db'.variant[v] = db.variant[v]
      <3>1. v \in Variants /\ (r.what = Keep \/ v # r.variant)
        BY <1>3, <2>4 DEF LiveOf, Of, Asked
      <3>. QED
        BY <1>3, <1>13, <2>3, <3>1, EditedVariants
    <2>8. ASSUME NEW c \in Items PROVE db'.line[i][c] = db.line[i][c]
      <3>1. db'.line[i][c] = LineAfter(r, db, db, i, c)
        BY <1>3, <1>13, <2>3, EditedFields
      <3>2. ~(Relabels(r, db, db) /\ c = r.item /\ db.line[i][c] \in Units)
        <4>1. SUFFICES ASSUME Relabels(r, db, db), db.line[i][r.item] \in Units PROVE FALSE
          OBVIOUS
        <4>2. r.unit # Keep /\ UnitAfter(r, db) = r.unit
          BY <4>1 DEF Relabels, UnitAfter, Rewritten
        <4>3. r.op = "label"
          BY <1>3, <4>2 DEF Asked
        <4>4. Kind[r.item] = "supply" /\ r.unit # seen.item[r.item].unit
          BY <2>1, <4>1, <4>2 DEF Relabels, SameButRows
        <4>5. sent' = {r.item} \cup UsedIn(seen, r.item)
          BY <1>2, <4>3, <4>4 DEF Stamped
        <4>6. i \in UsedIn(seen, r.item)
          BY <2>1, <4>1 DEF UsedIn, SameButRows
        <4>. QED
          BY <4>5, <4>6
      <3>. QED
        BY <2>4, <3>1, <3>2 DEF LineAfter
    <2>. QED
      BY <2>5, <2>6, <2>7, <2>8, ShownSame
  <1>. QED
    BY <1>6, <1>8, <1>9, <1>10, <1>11, <1>12, <1>13 DEF Calls, EditOps

LEMMA ItemsTold ==
  ASSUME ItemsInv, ItemsNext
  PROVE  \A i \in Items : Shown(db', i) # Shown(db, i) =>
           i \in sent' \/ raced \/ \E c \in Items : db.line[i][c] \in Units /\ db'.item[c].st = "gone"
  <1> SUFFICES ASSUME NEW i \in Items, i \notin sent', ~raced,
                      \A c \in Items : db.line[i][c] \in Units => db'.item[c].st # "gone"
               PROVE  Shown(db', i) = Shown(db, i)
    OBVIOUS
  <1>1. ASSUME NEW w \in Clerks, NEW r, Start(w, r) PROVE Shown(db', i) = Shown(db, i)
    <2>1. db' = db
      BY <1>1 DEF Start
    <2>. QED
      BY <2>1
  <1>2. ASSUME NEW w \in Clerks, Finish(w) PROVE Shown(db', i) = Shown(db, i)
    BY <1>2, FinishTold
  <1>. QED
    BY <1>1, <1>2, ItemSteps DEF ItemsInv, ItemsTyped, ItemsTypeOK

\* A write that changes what the feed shows of an item stamps it, but for the
\* services that lose a supply.
THEOREM ItemsTell == ItemsSpec => ItemsResent
  <1>1. ItemsInv /\ [ItemsNext]_itemVars =>
          [\A i \in Items : Shown(db', i) # Shown(db, i) =>
             \/ i \in sent' \/ raced
             \/ \E c \in Items : db.line[i][c] \in Units /\ db'.item[c].st = "gone"]_itemVars
    BY ItemsTold
  <1>. QED
    BY <1>1, ItemsAlways, PTL DEF ItemsSpec, ItemsResent
=============================================================================
