------------------------- MODULE PointsLedgerProofs -------------------------
(***************************************************************************)
(* Proofs about PointsLedger for every set of sales, workers and amounts,  *)
(* and every account to start with; and, from "Replayed writes" on, about  *)
(* WriteReplay for every set of keys and servers.                          *)
(***************************************************************************)
EXTENDS PointsLedger, WriteReplay, SumLemmas, TLAPS

Picks == UNION {[S -> Nat] : S \in SUBSET Nat}

Plan == [op: Ops \cup {"idle"}, id: Sales, to: States, earned: Nat, redeemed: Nat,
         seen: Picks, take: Picks, drop: SUBSET Nat, add: Seq(Batch),
         undo: SUBSET {"earn", "redeem"}, delta: Int, log: Int]

Cron == [phase: {"asleep", "awake"}, due: SUBSET Nat, cursor: Nat, page: Picks]

Typed ==
    /\ mix \in Mixes
    /\ batch \in Seq(Batch)
    /\ points \in Int /\ logged \in Int
    /\ sale \in [Sales -> SaleRow]
    /\ tx \in [Workers -> Plan]
    /\ cron \in Cron /\ cron.due \subseteq Ids /\ DOMAIN cron.page \subseteq Ids
    /\ raced \in BOOLEAN

(***************************************************************************)
(* Batches                                                                 *)
(***************************************************************************)
LEMMA PicksAre ==
  ASSUME NEW f, NEW S \in SUBSET Nat, f \in [S -> Nat]
  PROVE  f \in Picks
  BY DEF Picks

LEMMA PicksGive ==
  ASSUME NEW f \in Picks
  PROVE  DOMAIN f \subseteq Nat /\ \A i \in DOMAIN f : f[i] \in Nat
  BY DEF Picks

LEMMA IdsAre ==
  ASSUME Typed
  PROVE  /\ Len(batch) \in Nat /\ Ids = 1..Len(batch)
         /\ \A i \in Ids : /\ batch[i] \in Batch /\ batch[i].left \in Nat
                           /\ Left[i] = batch[i].left
         /\ Live \subseteq Ids
  <1>1. Len(batch) \in Nat /\ Ids = 1..Len(batch)
    BY DEF Typed, Ids
  <1>2. \A i \in Ids : batch[i] \in Batch
    BY <1>1 DEF Typed
  <1>3. \A i \in Ids : batch[i].left \in Nat
    BY <1>2 DEF Batch
  <1>. QED
    BY <1>1, <1>2, <1>3 DEF Left, Live

\* The sum of what f gives for the batches in S.
LEMMA TotalNat ==
  ASSUME Typed, NEW f, NEW S, \A i \in S \cap Ids : f[i] \in Nat
  PROVE  Total(f, S) \in Nat
  <1> DEFINE g == [i \in Ids |-> IF i \in S THEN f[i] ELSE 0]
  <1>1. Len(batch) \in Nat /\ Ids = 1..Len(batch) /\ Len(batch) \in 0..Len(batch)
    BY IdsAre
  <1>2. \A i \in 1..Len(batch) : g[i] \in Nat
    BY <1>1
  <1> HIDE DEF g
  <1>3. Sum(g, Len(batch)) \in Nat
    BY <1>1, <1>2, SumNat
  <1>. QED
    BY <1>3 DEF Total, g

LEMMA TakenTyped ==
  ASSUME Typed, NEW n \in Nat
  PROVE  /\ Taken(n) \in Picks
         /\ DOMAIN Taken(n) \subseteq Live
         /\ \A i \in DOMAIN Taken(n) : Taken(n)[i] <= Left[i]
  <1>1. \A i \in Ids : Left[i] \in Nat /\ Ahead(i) \in Nat
    BY TotalNat, IdsAre DEF Ahead
  <1>2. \A i \in DOMAIN Taken(n) : /\ i \in Live /\ i \in Ids /\ Ahead(i) < n
                                   /\ Taken(n)[i] = Lesser(Left[i], n - Ahead(i))
    BY IdsAre DEF Taken
  <1>3. \A i \in DOMAIN Taken(n) : Taken(n)[i] \in Nat /\ Taken(n)[i] <= Left[i]
    BY <1>1, <1>2 DEF Lesser
  <1>4. Taken(n) \in [DOMAIN Taken(n) -> Nat]
    BY <1>3 DEF Taken
  <1>5. DOMAIN Taken(n) \in SUBSET Nat
    BY <1>2, IdsAre
  <1>. QED
    BY <1>2, <1>3, <1>4, <1>5, PicksAre

\* What each batch is worth to the account.
Worth(b) == [i \in DOMAIN b |-> IF b[i].state = "live" THEN b[i].left ELSE 0]

HeldWorth == /\ Held = Sum(Worth(batch), Len(batch)) /\ Held \in Nat
             /\ \A i \in Ids : Worth(batch)[i] \in Nat

LEMMA HeldIsWorth ==
  ASSUME Typed
  PROVE  HeldWorth
  <1> DEFINE g == [i \in Ids |-> IF i \in Live THEN Left[i] ELSE 0]
  <1>1. \A i \in Ids : Worth(batch)[i] \in Nat
    BY IdsAre DEF Worth, Ids
  <1>2. \A i \in 1..Len(batch) : g[i] \in Int /\ g[i] = Worth(batch)[i]
    BY IdsAre DEF Worth, Ids, Live
  <1> HIDE DEF g
  <1>3. Sum(g, Len(batch)) = Sum(Worth(batch), Len(batch))
    BY <1>2, IdsAre, SumSame
  <1>4. Held \in Nat
    BY TotalNat, IdsAre DEF Held
  <1>. QED
    BY <1>1, <1>3, <1>4 DEF HeldWorth, Held, Total, g

\* Drawing goes through the dated batches in their order, then the others.
DatedLeft   == [i \in Ids |-> IF i \in Live /\ i \in Dated THEN Left[i] ELSE 0]
UndatedLeft == [i \in Ids |-> IF i \in Live /\ i \notin Dated THEN Left[i] ELSE 0]

LEMMA KindsAre ==
  ASSUME Typed
  PROVE  /\ \A i \in Ids : DatedLeft[i] \in Nat /\ UndatedLeft[i] \in Nat
         /\ Sum(DatedLeft, Len(batch)) \in Nat
         /\ Sum(UndatedLeft, Len(batch)) \in Nat
         /\ Held = Sum(DatedLeft, Len(batch)) + Sum(UndatedLeft, Len(batch))
  <1> DEFINE g == [i \in Ids |-> IF i \in Live THEN Left[i] ELSE 0]
  <1>1. Len(batch) \in Nat /\ Len(batch) \in 0..Len(batch) /\ Ids = 1..Len(batch)
    BY IdsAre
  <1>2. \A i \in Ids : DatedLeft[i] \in Nat /\ UndatedLeft[i] \in Nat
    BY IdsAre DEF DatedLeft, UndatedLeft
  <1>3. \A i \in 1..Len(batch) : /\ DatedLeft[i] \in Int /\ UndatedLeft[i] \in Int
                                 /\ g[i] = DatedLeft[i] + UndatedLeft[i]
    BY <1>1, IdsAre DEF DatedLeft, UndatedLeft
  <1> HIDE DEF g
  <1>4. Sum(g, Len(batch)) = Sum(DatedLeft, Len(batch)) + Sum(UndatedLeft, Len(batch))
    BY <1>1, <1>3, SumAdds
  <1>5. /\ Sum(DatedLeft, Len(batch)) \in Nat
        /\ Sum(UndatedLeft, Len(batch)) \in Nat
    BY <1>1, <1>2, SumNat
  <1>. QED
    BY <1>2, <1>4, <1>5 DEF Held, Total, g

LEMMA AheadDated ==
  ASSUME Typed, NEW i \in Dated
  PROVE  Ahead(i) = Sum(DatedLeft, i - 1)
  <1> DEFINE g == [j \in Ids |-> IF j \in {k \in Live : Sooner(k, i)} THEN Left[j] ELSE 0]
  <1>1. Len(batch) \in Nat /\ Ids = 1..Len(batch) /\ i \in 1..Len(batch)
    BY IdsAre DEF Dated
  <1>2. i - 1 \in 0..Len(batch)
    BY <1>1
  <1>3. \A j \in 1..(i - 1) : g[j] \in Int /\ g[j] = DatedLeft[j]
    BY <1>1, IdsAre DEF DatedLeft, UndatedLeft, Sooner
  <1>4. \A j \in ((i - 1) + 1)..Len(batch) : g[j] = 0
    BY <1>1 DEF Sooner
  <1> HIDE DEF g
  <1>5. Sum(g, Len(batch)) = Sum(DatedLeft, i - 1)
    BY <1>1, <1>2, <1>3, <1>4, SumPrefix
  <1>. QED
    BY <1>5 DEF Ahead, Total, g

LEMMA AheadUndated ==
  ASSUME Typed, NEW i \in Ids \ Dated
  PROVE  Ahead(i) = Sum(DatedLeft, Len(batch)) + Sum(UndatedLeft, i - 1)
  <1> DEFINE g == [j \in Ids |-> IF j \in {k \in Live : Sooner(k, i)} THEN Left[j] ELSE 0]
             u == [j \in Ids |-> IF j < i THEN UndatedLeft[j] ELSE 0]
  <1>1. Len(batch) \in Nat /\ Ids = 1..Len(batch) /\ i \in 1..Len(batch)
    BY IdsAre
  <1>2. i - 1 \in 0..Len(batch)
    BY <1>1
  <1>0. \A j \in Ids : DatedLeft[j] \in Nat /\ UndatedLeft[j] \in Nat
    BY KindsAre
  <1>3. \A j \in 1..Len(batch) : DatedLeft[j] \in Int /\ UndatedLeft[j] \in Int
    BY <1>0, <1>1
  <1>4. \A j \in 1..(i - 1) : u[j] \in Int /\ u[j] = UndatedLeft[j]
    BY <1>1, <1>3
  <1>5. \A j \in ((i - 1) + 1)..Len(batch) : u[j] = 0
    BY <1>1
  <1>6. \A j \in 1..Len(batch) : u[j] \in Int
    BY <1>1, <1>3
  <1>7. \A j \in 1..Len(batch) : g[j] = DatedLeft[j] + u[j]
    BY <1>1, IdsAre DEF DatedLeft, UndatedLeft, Sooner
  <1> HIDE DEF g, u
  <1>8. Sum(u, Len(batch)) = Sum(UndatedLeft, i - 1)
    BY <1>1, <1>2, <1>4, <1>5, SumPrefix
  <1>9. Sum(g, Len(batch)) = Sum(DatedLeft, Len(batch)) + Sum(u, Len(batch))
    BY <1>1, <1>3, <1>6, <1>7, SumAdds
  <1>. QED
    BY <1>8, <1>9 DEF Ahead, Total, g

\* A draw of n takes n, or all there is.
LEMMA TakenSum ==
  ASSUME Typed, NEW n \in Nat
  PROVE  Total(Taken(n), DOMAIN Taken(n)) = IF Held < n THEN Held ELSE n
  <1> DEFINE D == Sum(DatedLeft, Len(batch))
             U == Sum(UndatedLeft, Len(batch))
             rest == IF D < n THEN n - D ELSE 0
             t == [i \in Ids |-> IF i \in DOMAIN Taken(n) THEN Taken(n)[i] ELSE 0]
             d == [i \in Ids |-> IF i \in Dated THEN t[i] ELSE 0]
             u == [i \in Ids |-> IF i \in Dated THEN 0 ELSE t[i]]
  <1>1. Len(batch) \in Nat /\ Ids = 1..Len(batch) /\ Live \subseteq Ids
        /\ \A i \in Ids : Left[i] \in Nat
    BY IdsAre
  <1>2. /\ \A i \in Ids : DatedLeft[i] \in Nat /\ UndatedLeft[i] \in Nat
        /\ D \in Nat /\ U \in Nat /\ Held = D + U
    BY KindsAre
  <1>3. \A i \in Ids : /\ i - 1 \in 0..Len(batch)
                       /\ Sum(DatedLeft, i - 1) \in Nat /\ Sum(UndatedLeft, i - 1) \in Nat
    <2>1. \A k \in 0..Len(batch) : Sum(DatedLeft, k) \in Nat
      BY <1>1, <1>2, SumNat
    <2>2. \A k \in 0..Len(batch) : Sum(UndatedLeft, k) \in Nat
      BY <1>1, <1>2, SumNat
    <2>. QED
      BY <1>1, <2>1, <2>2
  <1>4. \A i \in Ids : t[i] = IF i \in Live /\ Ahead(i) < n
                              THEN IF Left[i] < n - Ahead(i) THEN Left[i] ELSE n - Ahead(i)
                              ELSE 0
    BY <1>1 DEF Taken, Lesser
  <1>5. ASSUME NEW i \in 1..Len(batch)
        PROVE  d[i] = IF Sum(DatedLeft, i - 1) >= n THEN 0
                      ELSE IF DatedLeft[i] < n - Sum(DatedLeft, i - 1) THEN DatedLeft[i]
                      ELSE n - Sum(DatedLeft, i - 1)
    <2>1. CASE i \in Live /\ i \in Dated
      <3>1. Ahead(i) = Sum(DatedLeft, i - 1) /\ DatedLeft[i] = Left[i]
        BY <1>1, <2>1, AheadDated DEF DatedLeft
      <3>2. d[i] = t[i]
        BY <1>1, <2>1
      <3> HIDE DEF d, t
      <3>. QED
        BY <1>1, <1>3, <1>4, <2>1, <3>1, <3>2
    <2>2. CASE ~(i \in Live /\ i \in Dated)
      <3>1. DatedLeft[i] = 0 /\ d[i] = 0
        BY <1>1, <1>4, <2>2 DEF DatedLeft
      <3> HIDE DEF d, t
      <3>. QED
        BY <1>1, <1>3, <3>1
    <2>. QED
      BY <2>1, <2>2
  <1>6. ASSUME NEW i \in 1..Len(batch)
        PROVE  u[i] = IF Sum(UndatedLeft, i - 1) >= rest THEN 0
                      ELSE IF UndatedLeft[i] < rest - Sum(UndatedLeft, i - 1) THEN UndatedLeft[i]
                      ELSE rest - Sum(UndatedLeft, i - 1)
    <2>1. CASE i \in Live /\ i \notin Dated
      <3>1. Ahead(i) = D + Sum(UndatedLeft, i - 1) /\ UndatedLeft[i] = Left[i]
        BY <1>1, <2>1, AheadUndated DEF UndatedLeft
      <3>2. u[i] = t[i]
        BY <1>1, <2>1
      <3> HIDE DEF u, t, D
      <3>. QED
        BY <1>1, <1>2, <1>3, <1>4, <2>1, <3>1, <3>2
    <2>2. CASE ~(i \in Live /\ i \notin Dated)
      <3>1. UndatedLeft[i] = 0 /\ u[i] = 0
        BY <1>1, <1>4, <2>2 DEF UndatedLeft
      <3> HIDE DEF u, t, D
      <3>. QED
        BY <1>1, <1>2, <1>3, <3>1
    <2>. QED
      BY <2>1, <2>2
  <1>7. \A i \in Ids : t[i] \in Nat
    BY TakenTyped, PicksGive
  <1>8. \A i \in 1..Len(batch) : d[i] \in Int /\ u[i] \in Int /\ t[i] = d[i] + u[i]
    BY <1>1, <1>7
  <1>9. rest \in Int /\ rest >= 0 /\ n \in Int /\ n >= 0
    BY <1>2
  <1> HIDE DEF t, d, u, rest, D, U
  <1>10. Sum(d, Len(batch)) = IF D < n THEN D ELSE n
    <2>1. \A k \in 1..Len(batch) : DatedLeft[k] \in Nat
      BY <1>1, <1>2
    <2>2. Sum(d, Len(batch)) = IF Sum(DatedLeft, Len(batch)) < n
                               THEN Sum(DatedLeft, Len(batch)) ELSE n
      BY <1>1, <1>5, <1>9, <2>1, SumTaken
    <2>. QED
      BY <2>2 DEF D
  <1>11. Sum(u, Len(batch)) = IF U < rest THEN U ELSE rest
    BY <1>1, <1>2, <1>6, <1>9, SumTaken DEF U
  <1>12. Sum(t, Len(batch)) = Sum(d, Len(batch)) + Sum(u, Len(batch))
    BY <1>1, <1>8, SumAdds
  <1>13. Sum(t, Len(batch)) = IF Held < n THEN Held ELSE n
    BY <1>2, <1>10, <1>11, <1>12 DEF rest
  <1>. QED
    BY <1>13 DEF Total, t

\* The batches that a draw reaches before another are drawn empty.
LEMMA TakenInOrder ==
  ASSUME Typed, NEW n \in Nat, NEW i \in Live, NEW j \in DOMAIN Taken(n), Sooner(i, j)
  PROVE  i \in DOMAIN Taken(n) /\ Taken(n)[i] = Left[i]
  <1> DEFINE gi == [k \in Ids |-> IF k \in {l \in Live : Sooner(l, i)} THEN Left[k] ELSE 0]
             gj == [k \in Ids |-> IF k \in {l \in Live : Sooner(l, j)} THEN Left[k] ELSE 0]
             e  == [k \in Ids |-> IF k = i THEN Left[i] ELSE 0]
             h  == [k \in Ids |-> gi[k] + e[k]]
  <1>1. /\ Len(batch) \in Nat /\ Ids = 1..Len(batch) /\ Live \subseteq Ids
        /\ \A k \in Ids : Left[k] \in Nat
        /\ i \in Ids /\ j \in Ids /\ Ahead(j) < n
    BY IdsAre DEF Taken
  <1>2. \A k \in 1..Len(batch) : /\ gi[k] \in Int /\ e[k] \in Int /\ gj[k] \in Int
                                 /\ h[k] \in Int /\ h[k] = gi[k] + e[k]
    BY <1>1
  <1>3. \A k \in 1..Len(batch) : h[k] <= gj[k]
    BY <1>1 DEF Sooner
  <1>4. e[i] = Left[i] /\ \A k \in Ids \ {i} : e[k] = 0
    BY <1>1
  <1> HIDE DEF gi, gj, e, h
  <1>5. Sum(h, Len(batch)) = Sum(gi, Len(batch)) + Sum(e, Len(batch))
    BY <1>1, <1>2, SumAdds
  <1>6. Sum(h, Len(batch)) <= Sum(gj, Len(batch))
    BY <1>1, <1>2, <1>3, SumMonotone
  <1>7. Sum(e, Len(batch)) = Left[i]
    BY <1>1, <1>2, <1>4, SumSingle
  <1>8. Ahead(i) = Sum(gi, Len(batch)) /\ Ahead(j) = Sum(gj, Len(batch))
    BY DEF Ahead, Total, gi, gj
  <1>9. Ahead(i) \in Nat /\ Ahead(j) \in Nat
    BY <1>1, TotalNat DEF Ahead
  <1>10. Ahead(i) < n /\ Left[i] <= n - Ahead(i) /\ Left[i] \in Nat
    BY <1>1, <1>5, <1>6, <1>7, <1>8, <1>9
  <1>. QED
    BY <1>9, <1>10 DEF Taken, Lesser

LEMMA TotalEmpty ==
  ASSUME Typed, NEW f, NEW S, S \cap Ids = {}
  PROVE  Total(f, S) = 0
  <1> DEFINE g == [i \in Ids |-> IF i \in S THEN f[i] ELSE 0]
  <1>1. Len(batch) \in Nat /\ Ids = 1..Len(batch) /\ 0 \in 0..Len(batch)
    BY IdsAre
  <1>2. \A k \in 1..Len(batch) : g[k] = 0 /\ g[k] \in Int
    BY <1>1
  <1>3. \A k \in 1..0 : g[k] \in Int /\ g[k] = g[k]
    OBVIOUS
  <1>4. \A k \in (0 + 1)..Len(batch) : g[k] = 0
    BY <1>2
  <1> HIDE DEF g
  <1>5. Sum(g, Len(batch)) = Sum(g, 0) /\ Sum(g, 0) = 0
    BY <1>1, <1>2, <1>3, <1>4, SumPrefix, SumStep
  <1>. QED
    BY <1>5 DEF Total, g

(***************************************************************************)
(* The inductive invariant                                                 *)
(***************************************************************************)
Rows(s) == {i \in Ids : batch[i].sale = s}

Gain(p) == IF p.add = <<>> THEN 0 ELSE p.add[1].left

\* What holds of a plan whatever overlaps it.
Sound(p) ==
    /\ p.op \in mix \cup {"idle"}
    /\ DOMAIN p.take = DOMAIN p.seen /\ DOMAIN p.take \subseteq Ids
    /\ \A i \in DOMAIN p.take : p.take[i] <= p.seen[i]
    /\ p.drop \subseteq DOMAIN p.take /\ \A i \in p.drop : p.take[i] = p.seen[i]
    /\ Len(p.add) <= 1 /\ \A k \in DOMAIN p.add : p.add[k].state = "live"
    /\ p.earned > 0 => Len(p.add) = 1 /\ p.add[1].sale = p.id
    /\ p.log <= p.delta
    /\ p.log # p.delta => p.op = "reverse" /\ sale[p.id].restored >= 1
    /\ p.undo # {} => p.op = "reverse"
    /\ p.op = "pay" \/ p.to = "owing" => p.id \in Deferred
    /\ p.op = "reverse" => p.to = "reversed"
    /\ p.op = "reverse" => \A k \in DOMAIN p.add : p.add[k].sale = "none"
    /\ "earn" \in p.undo => /\ Rows(p.id) # {}
                            /\ \A i \in Rows(p.id) : batch[i].state = "live" => i \in p.drop

\* What holds of it unless drawing requests overlapped.
Current(p) == \A i \in DOMAIN p.take : batch[i].state = "live" /\ batch[i].left = p.seen[i]
Balanced(p) == p.delta = Gain(p) - Total(p.take, DOMAIN p.take)
Ordered(p) ==
    p.op # "reverse" =>
        \A i \in Live, j \in DOMAIN p.take : i < j /\ (j \in Dated => i \in Dated) =>
            i \in DOMAIN p.take /\ p.take[i] = p.seen[i]
Exact(p) == Current(p) /\ Balanced(p) /\ Ordered(p)

SaleOK(s) ==
    /\ sale[s].undone # {} => sale[s].restored >= 1
    /\ sale[s].earned > 0 => Rows(s) # {}
    /\ "earn" \in sale[s].undone => /\ Rows(s) # {}
                                    /\ \A i \in Rows(s) : batch[i].state = "deleted"
    /\ s \notin Deferred => sale[s].state # "owing"
    /\ s \notin Deferred \cup Reopenable =>
          /\ sale[s].restored <= 1
          /\ sale[s].restored > 0 => sale[s].state = "reversed"

Apart ==
    \A w \in Workers : Draws(tx[w]) =>
        DOMAIN cron.page = {} /\ \A v \in Workers \ {w} : ~Draws(tx[v])

PageCurrent ==
    \A i \in DOMAIN cron.page : batch[i].state = "live" /\ batch[i].left = cron.page[i]

Calm == /\ Apart /\ PageCurrent
        /\ \A w \in Workers : Exact(tx[w])
        /\ points = Held

IInv ==
    /\ Typed
    /\ \A w \in Workers : Sound(tx[w])
    /\ \A s \in Sales : SaleOK(s)
    /\ logged <= points
    /\ ~raced => Calm
    /\ HistoryExplains

LEMMA NoPlanIs ==
  /\ NoPlan \in Plan /\ NoPlan.take = <<>> /\ NoPlan.seen = <<>> /\ NoPlan.drop = {}
  /\ NoPlan.add = <<>> /\ NoPlan.op = "idle" /\ NoPlan.to = "unrung" /\ NoPlan.earned = 0
  /\ NoPlan.redeemed = 0 /\ NoPlan.undo = {} /\ NoPlan.delta = 0 /\ NoPlan.log = 0
  <1>1. (CHOOSE s \in Sales : TRUE) \in Sales
    BY PointsAssumption
  <1>2. <<>> \in Picks
    <2>1. <<>> \in [{} -> Nat] /\ {} \in SUBSET Nat
      OBVIOUS
    <2>. QED
      BY <2>1, PicksAre
  <1>3. <<>> \in Seq(Batch)
    OBVIOUS
  <1>. QED
    BY <1>1, <1>2, <1>3 DEF NoPlan, Plan, Ops, States

LEMMA NoPlanSound ==
  ASSUME Typed
  PROVE  Sound(NoPlan) /\ Exact(NoPlan) /\ ~Draws(NoPlan)
  <1>1. DOMAIN NoPlan.take = {} /\ DOMAIN NoPlan.seen = {} /\ DOMAIN NoPlan.add = {}
        /\ Len(NoPlan.add) = 0
    BY NoPlanIs
  <1>2. Total(NoPlan.take, DOMAIN NoPlan.take) = 0
    BY <1>1, TotalEmpty
  <1>3. Sound(NoPlan)
    BY <1>1, NoPlanIs DEF Sound
  <1>4. Exact(NoPlan)
    BY <1>1, <1>2, NoPlanIs DEF Exact, Current, Balanced, Ordered, Gain
  <1>. QED
    BY <1>1, <1>3, <1>4 DEF Draws

\* A request begins: nothing but its plan changes.
LEMMA Begun ==
  ASSUME IInv, NEW w \in Workers, NEW p \in Plan, Begin(w, p),
         Sound(p), ~raced => Exact(p)
  PROVE  IInv'
  <1>1. /\ mix' = mix /\ batch' = batch /\ points' = points /\ logged' = logged
        /\ sale' = sale /\ cron' = cron
        /\ tx' = [tx EXCEPT ![w] = p] /\ raced' = (raced \/ (Draws(p) /\ Drawn))
    BY DEF Begin
  <1>2. tx \in [Workers -> Plan] /\ tx' \in [Workers -> Plan] /\ tx'[w] = p
        /\ \A v \in Workers \ {w} : tx'[v] = tx[v]
    BY <1>1 DEF IInv, Typed
  <1>3. Typed'
    BY <1>1, <1>2 DEF IInv, Typed, Ids
  <1>4. \A v \in Workers : Sound(tx'[v])
    BY <1>2 DEF IInv
  <1>5. (\A v \in Workers : Sound(tx[v]))'
    BY <1>1, <1>4 DEF Sound, Rows, Ids
  <1>6. (\A s \in Sales : SaleOK(s))'
    BY <1>1 DEF IInv, SaleOK, Rows, Ids
  <1>7. (logged <= points)' /\ HistoryExplains'
    BY <1>1 DEF IInv, HistoryExplains
  <1>8. ASSUME ~raced' PROVE Calm'
    <2>1. ~raced /\ Calm /\ Exact(p) /\ (Draws(p) => ~Drawn)
      BY <1>1, <1>8 DEF IInv
    <2>2. \A v \in Workers : Exact(tx'[v])
      BY <1>2, <2>1 DEF Calm
    <2>3. ASSUME NEW v \in Workers PROVE Exact(tx[v])'
      <3>1. Exact(tx'[v])
        BY <2>2
      <3>2. Current(tx[v])'
        BY <1>1, <3>1 DEF Exact, Current
      <3>3. Balanced(tx[v])'
        BY <1>1, <3>1 DEF Exact, Balanced, Gain, Total, Ids
      <3>4. Ordered(tx[v])'
        BY <1>1, <3>1 DEF Exact, Ordered, Live, Dated, Ids
      <3>. QED
        BY <3>2, <3>3, <3>4 DEF Exact
    <2>4. Apart'
      BY <1>1, <1>2, <2>1 DEF Calm, Apart, Drawn, Draws
    <2>5. PageCurrent' /\ (points = Held)'
      BY <1>1, <2>1 DEF Calm, PageCurrent, Held, Total, Left, Live, Ids
    <2>. QED
      BY <2>3, <2>4, <2>5 DEF Calm
  <1>. QED
    BY <1>3, <1>5, <1>6, <1>7, <1>8 DEF IInv

(***************************************************************************)
(* What each request plans                                                 *)
(***************************************************************************)
LEMMA NewIs ==
  ASSUME NEW n \in Nat, NEW x \in {"later", "never"}, NEW s \in Sales \cup {"none"}
  PROVE  /\ New(n, x, s) \in Seq(Batch) /\ Len(New(n, x, s)) <= 1
         /\ \A k \in DOMAIN New(n, x, s) : /\ New(n, x, s)[k].state = "live"
                                           /\ New(n, x, s)[k].sale = s
         /\ n > 0 => Len(New(n, x, s)) = 1 /\ New(n, x, s)[1].sale = s
         /\ n = IF New(n, x, s) = <<>> THEN 0 ELSE New(n, x, s)[1].left
  <1> DEFINE b == [left |-> n, expires |-> x, sale |-> s, state |-> "live"]
  <1>1. b \in Batch /\ b.left = n /\ b.sale = s /\ b.state = "live"
    BY DEF Batch
  <1>2. New(n, x, s) = IF n > 0 THEN <<b>> ELSE <<>>
    BY DEF New
  <1> HIDE DEF b
  <1>3. /\ <<b>> \in Seq(Batch) /\ Len(<<b>>) = 1 /\ DOMAIN <<b>> = {1} /\ <<b>>[1] = b
        /\ <<b>> # <<>> /\ Len(<<>>) = 0 /\ <<>> \in Seq(Batch) /\ DOMAIN <<>> = {}
    BY <1>1
  <1>4. CASE n > 0
    BY <1>1, <1>2, <1>3, <1>4
  <1>5. CASE ~(n > 0)
    BY <1>2, <1>3, <1>5
  <1>. QED
    BY <1>4, <1>5

LEMMA DrawingIs ==
  ASSUME Typed, NEW p \in Plan, NEW take \in Picks, DOMAIN take \subseteq Ids
  PROVE  /\ Drawing(p, take) \in Plan
         /\ Drawing(p, take).take = take
         /\ Drawing(p, take).seen = [i \in DOMAIN take |-> Left[i]]
         /\ Drawing(p, take).op = p.op /\ Drawing(p, take).id = p.id
         /\ Drawing(p, take).to = p.to /\ Drawing(p, take).earned = p.earned
         /\ Drawing(p, take).drop = p.drop /\ Drawing(p, take).add = p.add
         /\ Drawing(p, take).undo = p.undo /\ Drawing(p, take).delta = p.delta
         /\ Drawing(p, take).log = p.log
  <1> DEFINE seen == [i \in DOMAIN take |-> Left[i]]
  <1>1. DOMAIN take \in SUBSET Nat /\ seen \in [DOMAIN take -> Nat]
    BY IdsAre
  <1>2. seen \in Picks
    BY <1>1, PicksAre
  <1>3. Drawing(p, take) = [p EXCEPT !.take = take, !.seen = seen]
    BY DEF Drawing
  <1> HIDE DEF seen
  <1>4. Drawing(p, take) \in Plan
    BY <1>2, <1>3 DEF Plan
  <1>. QED
    BY <1>3, <1>4 DEF Plan, seen

\* A plan that draws n, first in first out, for its gain g.
LEMMA DrawnPlan ==
  ASSUME Typed, NEW p \in Plan, NEW n \in Nat, NEW g \in Nat,
         Gain(p) = g, p.delta = g - n, p.log = p.delta, p.op \in mix,
         p.op \notin {"reverse", "pay", "idle"}, p.drop = {}, p.undo = {},
         Len(p.add) <= 1, \A k \in DOMAIN p.add : p.add[k].state = "live",
         p.earned > 0 => Len(p.add) = 1 /\ p.add[1].sale = p.id,
         p.to = "owing" => p.id \in Deferred,
         ~raced => n <= Held
  PROVE  LET q == Drawing(p, Taken(n)) IN q \in Plan /\ Sound(q) /\ (~raced => Exact(q))
  <1> DEFINE t == Taken(n)
             q == Drawing(p, t)
  <1>1. /\ t \in Picks /\ DOMAIN t \subseteq Live /\ DOMAIN t \subseteq Ids
        /\ \A i \in DOMAIN t : t[i] <= Left[i]
    BY TakenTyped, IdsAre
  <1>2. /\ q \in Plan /\ q.take = t /\ q.seen = [i \in DOMAIN t |-> Left[i]]
        /\ q.op = p.op /\ q.id = p.id /\ q.to = p.to /\ q.earned = p.earned
        /\ q.drop = p.drop /\ q.add = p.add /\ q.undo = p.undo
        /\ q.delta = p.delta /\ q.log = p.log
    BY <1>1, DrawingIs
  <1>3. p.delta \in Int /\ p.undo \subseteq {"earn", "redeem"}
    BY DEF Plan
  <1>4. Total(t, DOMAIN t) = IF Held < n THEN Held ELSE n
    BY TakenSum
  <1>5. \A i \in Live, j \in DOMAIN t : Sooner(i, j) => i \in DOMAIN t /\ t[i] = Left[i]
    BY TakenInOrder
  <1> HIDE DEF t, q
  <1>6. Sound(q)
    BY <1>1, <1>2, <1>3 DEF Sound
  <1>7. ASSUME ~raced PROVE Exact(q)
    <2>1. Current(q)
      BY <1>1, <1>2, IdsAre DEF Current, Live
    <2>2. Total(t, DOMAIN t) = n
      BY <1>4, <1>7, HeldIsWorth DEF HeldWorth
    <2>3. Balanced(q)
      BY <1>2, <2>2 DEF Balanced, Gain
    <2>4. \A i \in Live, j \in DOMAIN t : i < j /\ (j \in Dated => i \in Dated) => Sooner(i, j)
      BY DEF Sooner
    <2>5. Ordered(q)
      BY <1>2, <1>5, <2>4 DEF Ordered
    <2>. QED
      BY <2>1, <2>3, <2>5 DEF Exact
  <1>. QED
    BY <1>2, <1>6, <1>7 DEF q, t

\* A plan that draws nothing.
LEMMA PlainPlan ==
  ASSUME Typed, NEW p \in Plan, p.take = <<>>, p.seen = <<>>, p.drop = {}, p.undo = {},
         p.delta = Gain(p), p.log = p.delta, p.op \in mix, p.op # "reverse",
         Len(p.add) <= 1, \A k \in DOMAIN p.add : p.add[k].state = "live",
         p.earned > 0 => Len(p.add) = 1 /\ p.add[1].sale = p.id,
         p.op = "pay" \/ p.to = "owing" => p.id \in Deferred
  PROVE  Sound(p) /\ Exact(p)
  <1>1. DOMAIN p.take = {} /\ DOMAIN p.seen = {} /\ p.delta \in Int
    BY DEF Plan
  <1>2. Total(p.take, DOMAIN p.take) = 0
    BY <1>1, TotalEmpty
  <1>3. Sound(p)
    BY <1>1 DEF Sound
  <1>. QED
    BY <1>1, <1>2, <1>3 DEF Exact, Current, Balanced, Ordered

SellPlan(s, to, e, n, add, d) ==
    [NoPlan EXCEPT !.op = "sell", !.id = s, !.to = to, !.earned = e, !.redeemed = n,
                   !.add = add, !.delta = d, !.log = d]
PayPlan(s, e, add) ==
    [NoPlan EXCEPT !.op = "pay", !.id = s, !.to = "completed", !.earned = e,
                   !.add = add, !.delta = e, !.log = e]

LEMMA SellIs ==
  ASSUME NEW s \in Sales, NEW to \in States, NEW e \in Nat, NEW n \in Nat,
         NEW add \in Seq(Batch), NEW d \in Int, NEW p, p = SellPlan(s, to, e, n, add, d)
  PROVE  /\ p \in Plan /\ p.op = "sell" /\ p.id = s /\ p.to = to /\ p.earned = e
         /\ p.add = add /\ p.delta = d /\ p.log = d /\ p.drop = {} /\ p.undo = {}
  <1>1. p \in Plan
    BY NoPlanIs DEF SellPlan, Plan, Ops
  <1>2. p.op = "sell" /\ p.id = s /\ p.to = to /\ p.earned = e
    BY NoPlanIs DEF SellPlan, Plan
  <1>3. p.add = add /\ p.delta = d /\ p.log = d /\ p.drop = {} /\ p.undo = {}
    BY NoPlanIs DEF SellPlan, Plan
  <1>. QED
    BY <1>1, <1>2, <1>3

LEMMA PayIs ==
  ASSUME NEW s \in Sales, NEW e \in Nat, NEW add \in Seq(Batch),
         NEW p, p = PayPlan(s, e, add)
  PROVE  /\ p \in Plan /\ p.op = "pay" /\ p.id = s /\ p.to = "completed" /\ p.earned = e
         /\ p.add = add /\ p.delta = e /\ p.log = e /\ p.drop = {} /\ p.undo = {}
         /\ p.take = <<>> /\ p.seen = <<>>
  <1>1. p \in Plan
    <2>1. "completed" \in States /\ "pay" \in Ops
      BY DEF States, Ops
    <2>2. e \in Int
      OBVIOUS
    <2>3. NoPlan \in Plan
      BY NoPlanIs
    <2>. QED
      BY <2>1, <2>2, <2>3 DEF PayPlan, Plan
  <1>2. p.op = "pay" /\ p.id = s /\ p.to = "completed" /\ p.earned = e
    BY NoPlanIs DEF PayPlan, Plan
  <1>3. p.add = add /\ p.delta = e /\ p.log = e /\ p.drop = {} /\ p.undo = {}
    BY NoPlanIs DEF PayPlan, Plan
  <1>4. p.take = <<>> /\ p.seen = <<>>
    BY NoPlanIs DEF PayPlan, Plan
  <1>. QED
    BY <1>1, <1>2, <1>3, <1>4

LEMMA SellStep ==
  ASSUME IInv, NEW w \in Workers, NEW s \in Sales, NEW n \in Amounts \cup {0},
         NEW e \in {0, Earn[s]}, NEW owing \in BOOLEAN, Sell(w, s, n, e, owing)
  PROVE  IInv'
  <1> DEFINE to == IF owing THEN "owing" ELSE "completed"
             add == New(e, "later", s)
             d == e - n
             p == SellPlan(s, to, e, n, add, d)
  <1>1. n \in Nat /\ e \in Nat /\ Typed /\ to \in States /\ d \in Int
    BY PointsAssumption DEF IInv, States
  <1>2. "later" \in {"later", "never"} /\ s \in Sales \cup {"none"}
    OBVIOUS
  <1>3. /\ add \in Seq(Batch) /\ Len(add) <= 1
        /\ \A k \in DOMAIN add : add[k].state = "live"
        /\ e > 0 => Len(add) = 1 /\ add[1].sale = s
        /\ e = IF add = <<>> THEN 0 ELSE add[1].left
    BY <1>1, <1>2, NewIs
  <1>4. Begin(w, Drawing(p, Taken(n))) /\ (to = "owing" => s \in Deferred)
    BY DEF Sell, SellPlan
  <1>5. ~raced => n <= Held
    BY <1>1, HeldIsWorth DEF HeldWorth, Sell, IInv, Calm
  <1> HIDE DEF to, add, d
  <1>6. /\ p \in Plan /\ p.op = "sell" /\ p.id = s /\ p.to = to /\ p.earned = e
        /\ p.add = add /\ p.delta = d /\ p.log = d /\ p.drop = {} /\ p.undo = {}
    BY <1>1, <1>3, SellIs
  <1> HIDE DEF p
  <1>7. p.op \in mix
    <2>1. Drawing(p, Taken(n)).op = "sell"
      BY <1>1, <1>6, TakenTyped, IdsAre, DrawingIs
    <2>. QED
      BY <1>4, <1>6, <2>1 DEF Begin
  <1>8. Gain(p) = e /\ p.delta = e - n
    BY <1>3, <1>6 DEF Gain, d
  <1>9. /\ Drawing(p, Taken(n)) \in Plan /\ Sound(Drawing(p, Taken(n)))
        /\ ~raced => Exact(Drawing(p, Taken(n)))
    BY <1>1, <1>3, <1>4, <1>5, <1>6, <1>7, <1>8, DrawnPlan
  <1>. QED
    BY <1>4, <1>9, Begun

LEMMA PayStep ==
  ASSUME IInv, NEW w \in Workers, NEW s \in Sales, NEW e \in {0, Earn[s]}, Pay(w, s, e)
  PROVE  IInv'
  <1> DEFINE add == New(e, "later", s)
             p == PayPlan(s, e, add)
  <1>1. e \in Nat /\ Typed /\ "completed" \in States
    BY PointsAssumption DEF IInv, States
  <1>2. "later" \in {"later", "never"} /\ s \in Sales \cup {"none"}
    OBVIOUS
  <1>3. /\ add \in Seq(Batch) /\ Len(add) <= 1
        /\ \A k \in DOMAIN add : add[k].state = "live"
        /\ e > 0 => Len(add) = 1 /\ add[1].sale = s
        /\ e = IF add = <<>> THEN 0 ELSE add[1].left
    BY <1>1, <1>2, NewIs
  <1>4. Begin(w, p) /\ sale[s].state = "owing"
    BY DEF Pay, PayPlan
  <1> HIDE DEF add
  <1>5. /\ p \in Plan /\ p.op = "pay" /\ p.id = s /\ p.to = "completed" /\ p.earned = e
        /\ p.add = add /\ p.delta = e /\ p.log = e
        /\ p.drop = {} /\ p.undo = {} /\ p.take = <<>> /\ p.seen = <<>>
    BY <1>1, <1>3, PayIs
  <1>6. s \in Deferred
    BY <1>4 DEF IInv, SaleOK
  <1> HIDE DEF p
  <1>7. Gain(p) = e /\ p.op \in mix
    BY <1>3, <1>4, <1>5 DEF Gain, Begin
  <1>8. Sound(p) /\ Exact(p)
    BY <1>1, <1>3, <1>5, <1>6, <1>7, PlainPlan
  <1>. QED
    BY <1>4, <1>5, <1>8, Begun

\* Manual plans: earning and adjusting up draw nothing, redeeming and
\* adjusting down draw what they take.
LEMMA ManualIs ==
  ASSUME NEW op \in {"earn", "redeem", "adjust"}, NEW d \in Int, NEW add \in Seq(Batch),
         NEW p, p = Manual(op, d, add)
  PROVE  /\ p \in Plan /\ p.op = op /\ p.to = "unrung" /\ p.earned = 0
         /\ p.add = add /\ p.delta = d /\ p.log = d
         /\ p.drop = {} /\ p.undo = {} /\ p.take = <<>> /\ p.seen = <<>>
  <1>1. p \in Plan
    BY NoPlanIs DEF Manual, Plan, Ops
  <1>2. /\ p.op = op /\ p.to = "unrung" /\ p.earned = 0
        /\ p.add = add /\ p.delta = d /\ p.log = d
    BY NoPlanIs DEF Manual, Plan
  <1>3. p.drop = {} /\ p.undo = {} /\ p.take = <<>> /\ p.seen = <<>>
    BY NoPlanIs DEF Manual, Plan
  <1>. QED
    BY <1>1, <1>2, <1>3

LEMMA GiftStep ==
  ASSUME IInv, NEW w \in Workers, NEW n \in Amounts, EarnPoints(w, n) \/ AdjustUp(w, n)
  PROVE  IInv'
  <1>1. PICK op \in {"earn", "adjust"}, x \in {"later", "never"} :
           Begin(w, Manual(op, n, New(n, x, "none")))
    BY DEF EarnPoints, AdjustUp
  <1> DEFINE add == New(n, x, "none")
             p == Manual(op, n, add)
  <1>2. n \in Nat /\ Typed
    BY PointsAssumption DEF IInv
  <1>3. /\ add \in Seq(Batch) /\ Len(add) <= 1
        /\ \A k \in DOMAIN add : add[k].state = "live"
        /\ n = IF add = <<>> THEN 0 ELSE add[1].left
    BY <1>2, NewIs
  <1> HIDE DEF add
  <1>4. /\ p \in Plan /\ p.op = op /\ p.to = "unrung" /\ p.earned = 0
        /\ p.add = add /\ p.delta = n /\ p.log = n
        /\ p.drop = {} /\ p.undo = {} /\ p.take = <<>> /\ p.seen = <<>>
    BY <1>2, <1>3, ManualIs
  <1>5. Begin(w, p)
    BY <1>1 DEF add
  <1> HIDE DEF p
  <1>6. Gain(p) = n /\ p.op \in mix
    BY <1>3, <1>4, <1>5 DEF Gain, Begin
  <1>7. Sound(p) /\ Exact(p)
    BY <1>2, <1>3, <1>4, <1>6, PlainPlan
  <1>. QED
    BY <1>4, <1>5, <1>7, Begun

LEMMA DrawStep ==
  ASSUME IInv, NEW w \in Workers, NEW n \in Amounts, RedeemPoints(w, n) \/ AdjustDown(w, n)
  PROVE  IInv'
  <1>1. PICK op \in {"redeem", "adjust"} :
           Begin(w, Drawing(Manual(op, -n, <<>>), Taken(n)))
    BY DEF RedeemPoints, AdjustDown
  <1> DEFINE d == -n
             none == <<>>
             p == Manual(op, d, none)
  <1>2. n \in Nat /\ d \in Int /\ Typed /\ none \in Seq(Batch)
        /\ op \in {"earn", "redeem", "adjust"}
    BY PointsAssumption DEF IInv
  <1>3. /\ p \in Plan /\ p.op = op /\ p.to = "unrung" /\ p.earned = 0
        /\ p.add = none /\ p.delta = d /\ p.log = d
        /\ p.drop = {} /\ p.undo = {}
    <2> HIDE DEF d, none
    <2>. QED
      BY <1>2, ManualIs
  <1>4. Begin(w, Drawing(p, Taken(n)))
    BY <1>1
  <1>5. ~raced => n <= Held
    BY DEF RedeemPoints, AdjustDown, IInv, Calm
  <1> HIDE DEF p
  <1>6. p.op \in mix
    <2>1. Drawing(p, Taken(n)).op = op
      BY <1>2, <1>3, TakenTyped, IdsAre, DrawingIs
    <2>. QED
      BY <1>3, <1>4, <2>1 DEF Begin
  <1>7. Gain(p) = 0 /\ p.delta = 0 - n /\ Len(p.add) <= 1
        /\ (\A k \in DOMAIN p.add : p.add[k].state = "live")
    BY <1>2, <1>3 DEF Gain
  <1>8. /\ Drawing(p, Taken(n)) \in Plan /\ Sound(Drawing(p, Taken(n)))
        /\ ~raced => Exact(Drawing(p, Taken(n)))
    BY <1>2, <1>3, <1>5, <1>6, <1>7, DrawnPlan
  <1>. QED
    BY <1>4, <1>8, Begun

\* Reversals
ReversePlan(s, drop, add, d, l, undo) ==
    [NoPlan EXCEPT !.op = "reverse", !.id = s, !.to = "reversed", !.drop = drop,
                   !.add = add, !.delta = d, !.log = l, !.undo = undo]

LEMMA ReverseIs ==
  ASSUME NEW s \in Sales, NEW drop \in SUBSET Nat, NEW add \in Seq(Batch),
         NEW d \in Int, NEW l \in Int, NEW undo \in SUBSET {"earn", "redeem"},
         NEW p, p = ReversePlan(s, drop, add, d, l, undo)
  PROVE  /\ p \in Plan /\ p.op = "reverse" /\ p.id = s /\ p.to = "reversed" /\ p.earned = 0
         /\ p.drop = drop /\ p.add = add /\ p.delta = d /\ p.log = l /\ p.undo = undo
  <1>1. p \in Plan
    <2>1. "reversed" \in States /\ "reverse" \in Ops
      BY DEF States, Ops
    <2>2. NoPlan \in Plan
      BY NoPlanIs
    <2>. QED
      BY <2>1, <2>2 DEF ReversePlan, Plan
  <1>2. p.op = "reverse" /\ p.id = s /\ p.to = "reversed" /\ p.earned = 0
    BY NoPlanIs DEF ReversePlan, Plan
  <1>3. p.drop = drop /\ p.add = add /\ p.delta = d /\ p.log = l /\ p.undo = undo
    BY NoPlanIs DEF ReversePlan, Plan
  <1>. QED
    BY <1>1, <1>2, <1>3

LEMMA ReverseStep ==
  ASSUME IInv, NEW w \in Workers, NEW s \in Sales, ReverseLoyalty(w, s)
  PROVE  IInv'
  <1> DEFINE earns == EarnedBatches(s)
             again == sale[s].redeemed
             back == Total(Left, earns)
             add == New(again, "never", "none")
             d == again - Clawback(s)
             new(leg, n) == IF leg \in sale[s].undone THEN 0 ELSE n
             l == new("redeem", again) + new("earn", ClawLogged(s))
             undo == {leg \in {"earn", "redeem"} :
                        IF leg = "earn" THEN sale[s].earned > 0 ELSE again > 0}
             p == ReversePlan(s, earns, add, d, l, undo)
             take == [i \in earns |-> Left[i]]
             q == Drawing(p, take)
  <1>1. /\ Typed /\ SaleOK(s) /\ again \in Nat /\ sale[s].earned \in Nat
        /\ sale[s].undone \subseteq {"earn", "redeem"}
    BY DEF IInv, Typed, SaleRow
  <1>2. /\ earns \subseteq Ids /\ \A i \in earns : i \in Nat /\ Left[i] \in Nat
        /\ \A i \in earns : Left[i] = batch[i].left /\ batch[i].state = "live"
    BY <1>1, IdsAre DEF EarnedBatches
  <1>3. back \in Nat /\ Clawback(s) = back /\ ClawLogged(s) = -back
    BY <1>1, <1>2, TotalNat DEF Clawback, ClawLogged
  <1>4. "never" \in {"later", "never"} /\ "none" \in Sales \cup {"none"}
    OBVIOUS
  <1>5. /\ add \in Seq(Batch) /\ Len(add) <= 1
        /\ \A k \in DOMAIN add : add[k].state = "live" /\ add[k].sale = "none"
        /\ again = IF add = <<>> THEN 0 ELSE add[1].left
    BY <1>1, <1>4, NewIs
  <1>6. Begin(w, q)
    BY DEF ReverseLoyalty, ReversePlan
  <1>7. /\ d = again - back /\ d \in Int /\ l \in Int
        /\ l = new("redeem", again) + new("earn", -back)
    BY <1>1, <1>3
  <1>8. "earn" \in sale[s].undone => back = 0
    <2>1. "earn" \in sale[s].undone => earns = {}
      BY <1>1 DEF SaleOK, EarnedBatches, Rows
    <2>. QED
      BY <1>1, <2>1, TotalEmpty
  <1>9. l <= d /\ (l # d => sale[s].restored >= 1)
    <2>1. l # d => sale[s].undone # {}
      BY <1>1, <1>3, <1>7
    <2>2. l <= d
      BY <1>1, <1>3, <1>7, <1>8
    <2>. QED
      BY <1>1, <2>1, <2>2 DEF SaleOK
  <1>10. undo \in SUBSET {"earn", "redeem"} /\ earns \in SUBSET Nat
    BY <1>2
  <1>11. "earn" \in undo => /\ Rows(s) # {}
                            /\ \A i \in Rows(s) : batch[i].state = "live" => i \in earns
    BY <1>1 DEF SaleOK, EarnedBatches, Rows
  <1>12. take \in Picks /\ DOMAIN take = earns
    <2>1. take \in [earns -> Nat]
      BY <1>2
    <2>. QED
      BY <1>10, <2>1, PicksAre
  <1>13. \A i \in earns : take[i] = Left[i]
    OBVIOUS
  <1>14. Total(take, earns) = back
    <2>1. [i \in Ids |-> IF i \in earns THEN take[i] ELSE 0]
            = [i \in Ids |-> IF i \in earns THEN Left[i] ELSE 0]
      OBVIOUS
    <2>. QED
      BY <2>1 DEF Total
  <1> HIDE DEF earns, add, d, l, undo, take, again, back
  <1>15. /\ p \in Plan /\ p.op = "reverse" /\ p.id = s /\ p.to = "reversed" /\ p.earned = 0
         /\ p.drop = earns /\ p.add = add /\ p.delta = d /\ p.log = l /\ p.undo = undo
    BY <1>5, <1>7, <1>10, ReverseIs
  <1> HIDE DEF p
  <1>16. /\ q \in Plan /\ q.take = take /\ q.seen = [i \in DOMAIN take |-> Left[i]]
         /\ q.op = "reverse" /\ q.id = s /\ q.to = "reversed" /\ q.earned = 0
         /\ q.drop = earns /\ q.add = add /\ q.delta = d /\ q.log = l /\ q.undo = undo
    BY <1>1, <1>2, <1>12, <1>15, DrawingIs
  <1> HIDE DEF q
  <1>17. Sound(q)
    <2>1. q.op \in mix
      BY <1>6 DEF Begin
    <2>2. DOMAIN q.take = earns /\ DOMAIN q.seen = earns
      BY <1>12, <1>16
    <2>3. \A i \in earns : q.take[i] <= q.seen[i] /\ q.take[i] = q.seen[i]
      BY <1>2, <1>12, <1>13, <1>16
    <2>. QED
      BY <1>2, <1>5, <1>9, <1>11, <1>16, <2>1, <2>2, <2>3 DEF Sound
  <1>18. Exact(q)
    <2>1. Current(q)
      BY <1>2, <1>12, <1>16 DEF Current
    <2>2. Balanced(q)
      BY <1>5, <1>7, <1>12, <1>14, <1>16 DEF Balanced, Gain
    <2>3. Ordered(q)
      BY <1>16 DEF Ordered
    <2>. QED
      BY <2>1, <2>2, <2>3 DEF Exact
  <1>. QED
    BY <1>6, <1>16, <1>17, <1>18, Begun

(***************************************************************************)
(* What the plans in flight rely on, when batches and sales change         *)
(***************************************************************************)
\* Batches are added and deleted, not removed; the batch of a sale is its only
\* one; sales are reversed more often, not less.
Grown ==
    /\ mix' = mix
    /\ Ids \subseteq Ids'
    /\ \A i \in Ids : /\ batch'[i].sale = batch[i].sale
                      /\ batch'[i].state = "live" => batch[i].state = "live"
    /\ \A i \in Ids' \ Ids : batch'[i].sale = "none" \/ Rows(batch'[i].sale) = {}
    /\ \A s \in Sales : sale[s].restored <= sale'[s].restored

LEMMA StillSound ==
  ASSUME Typed, Typed', Grown, NEW p \in Plan, Sound(p)
  PROVE  Sound(p)'
  <1>1. p.id \in Sales /\ p.id # "none"
    BY PointsAssumption DEF Plan
  <1>2. sale[p.id].restored \in Nat /\ sale'[p.id].restored \in Nat
    BY <1>1 DEF Typed, SaleRow
  <1>3. sale[p.id].restored >= 1 => sale'[p.id].restored >= 1
    BY <1>1, <1>2 DEF Grown
  <1>4. "earn" \in p.undo => /\ Rows(p.id)' # {}
                            /\ \A i \in Rows(p.id)' : batch'[i].state = "live" => i \in p.drop
    <2>1. SUFFICES ASSUME Rows(p.id) # {},
                          \A i \in Rows(p.id) : batch[i].state = "live" => i \in p.drop
                   PROVE  /\ Rows(p.id)' # {}
                          /\ \A i \in Rows(p.id)' : batch'[i].state = "live" => i \in p.drop
      BY DEF Sound
    <2>2. Rows(p.id) \subseteq Rows(p.id)'
      BY DEF Grown, Rows
    <2>3. Rows(p.id)' \subseteq Rows(p.id)
      BY <1>1, <2>1 DEF Grown, Rows
    <2>. QED
      BY <2>1, <2>2, <2>3 DEF Grown, Rows
  <1>5. p.op \in mix' \cup {"idle"} /\ DOMAIN p.take \subseteq Ids'
    BY DEF Sound, Grown
  <1>. QED
    BY <1>3, <1>4, <1>5 DEF Sound

\* A sale that is as it was, or reversed the more, is still all right.
LEMMA StillOK ==
  ASSUME Typed, Typed', Grown, NEW s \in Sales, SaleOK(s), sale'[s] = sale[s]
  PROVE  SaleOK(s)'
  <1>1. s # "none"
    BY PointsAssumption
  <1>2. Rows(s) \subseteq Rows(s)' /\ (Rows(s) # {} => Rows(s)' \subseteq Rows(s))
    BY <1>1 DEF Grown, Rows
  <1>3. \A i \in Rows(s) : batch[i].state = "deleted" => batch'[i].state = "deleted"
    <2>1. \A i \in Ids' : batch'[i] \in Batch
      BY DEF Typed, Ids
    <2>2. \A i \in Ids' : batch'[i].state \in {"live", "deleted"}
      BY <2>1 DEF Batch
    <2>. QED
      BY <2>2 DEF Grown, Rows
  <1>. QED
    BY <1>2, <1>3 DEF SaleOK

Unmoved == \A i \in Ids : /\ batch'[i].left = batch[i].left
                          /\ batch'[i].state = batch[i].state
                          /\ batch'[i].expires = "never" <=> batch[i].expires = "never"

\* A plan that draws nothing stays exact as long as the batches of before stay
\* what they were, and so does one whose batches do.
LEMMA StillExact ==
  ASSUME Typed, Typed', NEW p \in Plan, Sound(p), Exact(p), Ids \subseteq Ids',
         ~Draws(p) \/ Unmoved
  PROVE  Exact(p)'
  <1>1. /\ Len(batch) \in Nat /\ Ids = 1..Len(batch)
        /\ Len(batch') \in Nat /\ Ids' = 1..Len(batch')
        /\ DOMAIN p.take \subseteq Ids
    BY DEF Typed, Ids, Sound
  <1>2. \A i \in DOMAIN p.take : i \in Nat /\ p.take[i] \in Nat
    BY PicksGive DEF Plan
  <1>3. Current(p)'
    BY <1>1 DEF Exact, Current, Draws, Unmoved
  <1>4. Ordered(p)'
    <2>1. CASE ~Draws(p)
      BY <2>1 DEF Ordered, Draws
    <2>2. CASE Unmoved
      <3>1. \A i \in Live', j \in DOMAIN p.take : i < j => i \in Ids /\ j \in Ids
        BY <1>1 DEF Live
      <3>2. ASSUME NEW i \in Live', i \in Ids PROVE i \in Live
        <4>1. batch'[i].state = "live" /\ batch'[i].left > 0
          BY <3>2 DEF Live
        <4>2. batch[i].state = "live" /\ batch[i].left > 0
          BY <2>2, <3>2, <4>1 DEF Unmoved
        <4>. QED
          BY <3>2, <4>2 DEF Live
      <3>3. ASSUME p.op # "reverse", NEW i \in Live', NEW j \in DOMAIN p.take,
                   i < j, j \in Dated' => i \in Dated'
            PROVE  i \in DOMAIN p.take /\ p.take[i] = p.seen[i]
        <4>1. i \in Ids /\ j \in Ids /\ i \in Live
          BY <3>1, <3>2, <3>3
        <4>2. j \in Dated => i \in Dated
          BY <2>2, <3>3, <4>1 DEF Unmoved, Dated
        <4>. QED
          BY <3>3, <4>1, <4>2 DEF Exact, Ordered
      <3>. QED
        BY <3>3 DEF Ordered
    <2>. QED
      BY <2>1, <2>2
  <1>5. Total(p.take, DOMAIN p.take)' = Total(p.take, DOMAIN p.take)
    <2> DEFINE f == [i \in Ids |-> IF i \in DOMAIN p.take THEN p.take[i] ELSE 0]
               g == [i \in Ids' |-> IF i \in DOMAIN p.take THEN p.take[i] ELSE 0]
               m == Len(batch)
               n == Len(batch')
    <2>1. m \in 0..n /\ n \in Nat
      BY <1>1
    <2>2. \A k \in 1..m : g[k] \in Int /\ g[k] = f[k]
      BY <1>1, <1>2
    <2>3. \A k \in (m + 1)..n : g[k] = 0
      BY <1>1
    <2> HIDE DEF f, g, m, n
    <2>4. Sum(g, n) = Sum(f, m)
      BY <2>1, <2>2, <2>3, SumPrefix
    <2>. QED
      BY <2>4 DEF Total, f, g, m, n
  <1>6. Balanced(p)'
    BY <1>5 DEF Exact, Balanced, Gain
  <1>. QED
    BY <1>3, <1>4, <1>6 DEF Exact

LEMMA NoPlanStill ==
  ASSUME Typed'
  PROVE  Sound(NoPlan)' /\ Exact(NoPlan)'
  BY NoPlanSound, PTL

LEMMA HeldIsWorthNext ==
  ASSUME Typed'
  PROVE  HeldWorth'
  BY HeldIsWorth, PTL

(***************************************************************************)
(* Committing a plan                                                       *)
(***************************************************************************)
\* The batches after a commit: those drawn from hold the less, those taken
\* back are deleted, and there is at most one more.
Applied(p, b) ==
    /\ b \in Seq(Batch) /\ Len(b) = Len(batch) + Len(p.add)
    /\ Ids \subseteq DOMAIN b /\ DOMAIN b = 1..Len(b)
    /\ \A i \in Ids :
          /\ b[i].left = IF i \in DOMAIN p.take THEN p.seen[i] - p.take[i] ELSE batch[i].left
          /\ b[i].state = IF i \in p.drop THEN "deleted" ELSE batch[i].state
          /\ b[i].sale = batch[i].sale /\ b[i].expires = batch[i].expires
    /\ p.add # <<>> => Len(p.add) = 1 /\ b[Len(b)] = p.add[1]
    /\ \A i \in DOMAIN b \ Ids : p.add # <<>> /\ i = Len(b)

LEMMA EmptyIs ==
  ASSUME NEW S, NEW q \in Seq(S), Len(q) = 0
  PROVE  q = <<>>
  OBVIOUS

LEMMA SettledIs ==
  ASSUME Typed, NEW p \in Plan, Sound(p), NEW b, b = Settled(p) \o p.add
  PROVE  Applied(p, b)
  <1> DEFINE row(i) == [batch[i] EXCEPT
                  !.left = IF i \in DOMAIN p.take THEN p.seen[i] - p.take[i] ELSE @,
                  !.state = IF i \in p.drop THEN "deleted" ELSE @]
  <1>1. Len(batch) \in Nat /\ Ids = 1..Len(batch)
    BY IdsAre
  <1>2. \A i \in Ids : batch[i] \in Batch
    BY IdsAre
  <1>3. p.add \in Seq(Batch) /\ Len(p.add) \in Nat /\ Len(p.add) <= 1
    BY DEF Plan, Sound
  <1>4. \A i \in DOMAIN p.take : p.seen[i] - p.take[i] \in Nat
    BY PicksGive DEF Plan, Sound
  <1>5. ASSUME NEW i \in Ids
        PROVE  /\ row(i) \in Batch
               /\ row(i).left = IF i \in DOMAIN p.take THEN p.seen[i] - p.take[i] ELSE batch[i].left
               /\ row(i).state = IF i \in p.drop THEN "deleted" ELSE batch[i].state
               /\ row(i).sale = batch[i].sale /\ row(i).expires = batch[i].expires
    BY <1>2, <1>4 DEF Batch
  <1>6. Settled(p) = [i \in 1..Len(batch) |-> row(i)]
    BY <1>1 DEF Settled
  <1> HIDE DEF row
  <1>7. /\ Settled(p) \in Seq(Batch) /\ Len(Settled(p)) = Len(batch)
        /\ \A i \in Ids : Settled(p)[i] = row(i)
    BY <1>1, <1>5, <1>6
  <1>8. /\ b \in Seq(Batch) /\ Len(b) = Len(batch) + Len(p.add)
        /\ \A i \in Ids : b[i] = row(i)
        /\ \A k \in 1..Len(p.add) : b[Len(batch) + k] = p.add[k]
    <2> DEFINE c == Settled(p)
    <2> HIDE DEF c
    <2>1. c \in Seq(Batch) /\ Len(c) = Len(batch)
      BY <1>7 DEF c
    <2>2. b = c \o p.add
      BY DEF c
    <2>3. /\ b \in Seq(Batch) /\ Len(b) = Len(c) + Len(p.add)
          /\ \A i \in 1..Len(c) : b[i] = c[i]
          /\ \A k \in 1..Len(p.add) : b[Len(c) + k] = p.add[k]
      BY <1>3, <2>1, <2>2
    <2>. QED
      BY <1>1, <1>7, <2>1, <2>3 DEF c
  <1>9. DOMAIN b = 1..Len(b) /\ Ids \subseteq DOMAIN b
    BY <1>1, <1>3, <1>8
  <1>10. p.add # <<>> => Len(p.add) = 1 /\ b[Len(b)] = p.add[1]
    <2>1. p.add # <<>> => Len(p.add) = 1
      <3>1. Len(p.add) = 0 => p.add = <<>>
        BY <1>3, EmptyIs, Zenon
      <3>2. Len(p.add) # 0 => Len(p.add) = 1
        <4> DEFINE k == Len(p.add)
        <4>1. k \in Nat /\ k <= 1
          BY <1>3
        <4> HIDE DEF k
        <4>2. k # 0 => k = 1
          BY <4>1
        <4>. QED
          BY <4>2 DEF k
      <3>. QED
        BY <3>1, <3>2, Zenon
    <2>2. Len(p.add) = 1 => b[Len(batch) + 1] = p.add[1]
      BY <1>8
    <2>. QED
      BY <1>1, <1>8, <2>1, <2>2
  <1>11. \A i \in DOMAIN b \ Ids : p.add # <<>> /\ i = Len(b)
    BY <1>1, <1>3, <1>8, <1>9
  <1>. QED
    BY <1>5, <1>8, <1>9, <1>10, <1>11 DEF Applied

\* The batches gain or lose what the plan says.
LEMMA HeldCommits ==
  ASSUME Typed, Typed', NEW p \in Plan, Sound(p), Exact(p), batch' = Settled(p) \o p.add
  PROVE  Held' = Held + p.delta
  <1> DEFINE m == Len(batch)
             n == Len(batch')
             old == Worth(batch)
             later == Worth(batch')
             t == [i \in Ids |-> IF i \in DOMAIN p.take THEN p.take[i] ELSE 0]
  <1>1. /\ m \in Nat /\ Ids = 1..m /\ DOMAIN p.take \subseteq Ids
        /\ \A i \in Ids : batch[i] \in Batch /\ batch[i].left \in Nat
    BY IdsAre DEF Sound
  <1>2. /\ batch' \in Seq(Batch) /\ n = m + Len(p.add) /\ Ids \subseteq DOMAIN batch'
        /\ DOMAIN batch' = 1..n
        /\ \A i \in Ids :
               /\ batch'[i].left = IF i \in DOMAIN p.take THEN p.seen[i] - p.take[i] ELSE batch[i].left
               /\ batch'[i].state = IF i \in p.drop THEN "deleted" ELSE batch[i].state
        /\ p.add # <<>> => Len(p.add) = 1 /\ batch'[n] = p.add[1]
    <2>1. Applied(p, batch')
      BY SettledIs
    <2>. QED
      BY <2>1 DEF Applied
  <1>3. \A i \in DOMAIN p.take : p.take[i] \in Nat /\ p.seen[i] \in Nat
    BY PicksGive DEF Plan, Sound
  <1>4. \A i \in 1..m : old[i] \in Int /\ later[i] \in Int /\ t[i] \in Int /\ old[i] = later[i] + t[i]
    <2>1. ASSUME NEW i \in 1..m, i \in DOMAIN p.take
          PROVE  old[i] \in Int /\ later[i] \in Int /\ t[i] \in Int /\ old[i] = later[i] + t[i]
      <3>1. batch[i].state = "live" /\ batch[i].left = p.seen[i]
        BY <2>1 DEF Exact, Current
      <3>2. i \in p.drop => p.take[i] = p.seen[i]
        BY DEF Sound
      <3>3. old[i] = p.seen[i] /\ t[i] = p.take[i]
        BY <1>1, <2>1, <3>1 DEF Worth, Ids
      <3>4. later[i] = p.seen[i] - p.take[i]
        <4>1. batch'[i].left = p.seen[i] - p.take[i] /\ i \in DOMAIN batch'
          BY <1>1, <1>2, <2>1
        <4>2. CASE i \in p.drop
          <5>1. batch'[i].state = "deleted"
            BY <1>1, <1>2, <2>1, <4>2
          <5>2. later[i] = 0
            BY <4>1, <5>1 DEF Worth
          <5>. QED
            BY <1>3, <2>1, <3>2, <4>2, <5>2
        <4>3. CASE i \notin p.drop
          <5>1. batch'[i].state = "live"
            BY <1>1, <1>2, <2>1, <3>1, <4>3
          <5>. QED
            BY <4>1, <5>1 DEF Worth
        <4>. QED
          BY <4>2, <4>3
      <3> HIDE DEF old, later, t
      <3>. QED
        BY <1>3, <2>1, <3>3, <3>4
    <2>2. ASSUME NEW i \in 1..m, i \notin DOMAIN p.take
          PROVE  old[i] \in Int /\ later[i] \in Int /\ t[i] \in Int /\ old[i] = later[i] + t[i]
      <3>1. i \notin p.drop
        BY <2>2 DEF Sound
      <3>2. old[i] = (IF batch[i].state = "live" THEN batch[i].left ELSE 0) /\ t[i] = 0
        BY <1>1, <2>2 DEF Worth, Ids
      <3>3. later[i] = IF batch[i].state = "live" THEN batch[i].left ELSE 0
        <4>1. /\ batch'[i].left = batch[i].left /\ batch'[i].state = batch[i].state
              /\ i \in DOMAIN batch'
          BY <1>1, <1>2, <2>2, <3>1
        <4>. QED
          BY <4>1 DEF Worth
      <3> HIDE DEF old, later, t
      <3>. QED
        BY <1>1, <3>2, <3>3
    <2>. QED
      BY <2>1, <2>2
  <1>5. p.add # <<>> => later[n] = p.add[1].left /\ later[n] \in Nat
    <2>1. ASSUME p.add # <<>>
          PROVE  p.add[1].state = "live" /\ p.add[1].left \in Nat /\ n \in DOMAIN batch'
      <3>1. p.add \in Seq(Batch) /\ Len(p.add) = 1
        BY <1>2, <2>1 DEF Plan
      <3>2. 1 \in DOMAIN p.add /\ p.add[1] \in Batch
        BY <3>1
      <3>3. p.add[1].left \in Nat
        BY <3>2 DEF Batch
      <3>. QED
        BY <1>1, <1>2, <3>1, <3>2, <3>3 DEF Sound
    <2>. QED
      BY <1>2, <2>1 DEF Worth
  <1>6. p.add = <<>> => Len(p.add) = 0
    OBVIOUS
  <1>7. Held = Sum(old, m) /\ Held' = Sum(later, n) /\ Held \in Nat
    <2>1. HeldWorth /\ HeldWorth'
      BY HeldIsWorth, HeldIsWorthNext
    <2>. QED
      BY <2>1 DEF HeldWorth
  <1>8. p.delta = Gain(p) - Sum(t, m)
    BY DEF Exact, Balanced, Total
  <1> HIDE DEF m, n, old, later, t
  <1>9. Sum(old, m) = Sum(later, m) + Sum(t, m)
    BY <1>1, <1>4, SumAdds
  <1>12. m \in 0..m /\ (\A k \in 1..m : later[k] \in Int) /\ (\A k \in 1..m : t[k] \in Int)
    BY <1>1, <1>4
  <1>10. Sum(later, n) = Sum(later, m) + Gain(p)
    <2>1. CASE p.add = <<>>
      <3>1. Sum(later, m) \in Int
        BY <1>1, <1>12, SumStep
      <3>. QED
        BY <1>1, <1>2, <1>6, <2>1, <3>1 DEF Gain
    <2>2. CASE p.add # <<>>
      <3>1. n = m + 1 /\ n \in Nat /\ n \in 1..n /\ n - 1 = m
        BY <1>1, <1>2, <2>2
      <3>2. \A k \in 1..n : later[k] \in Int
        BY <1>1, <1>4, <1>5, <2>2, <3>1
      <3>3. Sum(later, n) = Sum(later, n - 1) + later[n]
        BY <3>1, <3>2, SumStep
      <3>. QED
        BY <1>5, <2>2, <3>1, <3>3 DEF Gain
    <2>. QED
      BY <2>1, <2>2
  <1>11. Sum(later, m) \in Int /\ Sum(t, m) \in Int /\ Gain(p) \in Int
    <2>1. Sum(later, m) \in Int
      BY <1>1, <1>12, SumStep
    <2>2. Sum(t, m) \in Int
      BY <1>1, <1>12, SumStep
    <2>3. Gain(p) \in Int
      BY <1>5 DEF Gain
    <2>. QED
      BY <2>1, <2>2, <2>3
  <1>. QED
    BY <1>7, <1>8, <1>9, <1>10, <1>11

\* A plan in flight stays sound, and exact, across a step of somebody else.
LEMMA SoundStays ==
  ASSUME Typed, Typed', Grown, NEW v \in Workers, Sound(tx[v]),
         tx'[v] = tx[v] \/ tx'[v] = NoPlan
  PROVE  Sound(tx[v])'
  <1>1. CASE tx'[v] = tx[v]
    <2>1. PICK q \in Plan : q = tx[v]
      BY DEF Typed
    <2>2. Sound(q)'
      BY <2>1, StillSound
    <2>. QED
      BY <1>1, <2>1, <2>2 DEF Sound, Rows
  <1>2. CASE tx'[v] = NoPlan
    <2>1. Sound(NoPlan)'
      BY NoPlanStill
    <2>. QED
      BY <1>2, <2>1 DEF Sound, Rows, NoPlan
  <1>. QED
    BY <1>1, <1>2

LEMMA ExactStays ==
  ASSUME Typed, Typed', NEW v \in Workers, Sound(tx[v]), Exact(tx[v]), Ids \subseteq Ids',
         \/ tx'[v] = tx[v] /\ (~Draws(tx[v]) \/ Unmoved)
         \/ tx'[v] = NoPlan
  PROVE  Exact(tx[v])'
  <1>1. ASSUME NEW q, tx'[v] = q, Exact(q)' PROVE Exact(tx[v])'
    <2>1. Current(tx[v])'
      BY <1>1 DEF Exact, Current
    <2>2. Balanced(tx[v])'
      BY <1>1 DEF Exact, Balanced, Gain, Total
    <2>3. Ordered(tx[v])'
      BY <1>1 DEF Exact, Ordered
    <2>. QED
      BY <2>1, <2>2, <2>3 DEF Exact
  <1>2. CASE tx'[v] = tx[v] /\ (~Draws(tx[v]) \/ Unmoved)
    <2>1. PICK q \in Plan : q = tx[v]
      BY DEF Typed
    <2>2. Exact(q)'
      BY <1>2, <2>1, StillExact
    <2>. QED
      BY <1>1, <1>2, <2>1, <2>2
  <1>3. CASE tx'[v] = NoPlan
    <2>1. PICK q \in Plan : q = NoPlan
      BY NoPlanIs
    <2>2. Exact(NoPlan)'
      BY NoPlanStill
    <2>3. Exact(q)'
      BY <2>1, <2>2 DEF NoPlan
    <2>. QED
      BY <1>1, <1>3, <2>1, <2>3
  <1>. QED
    BY <1>2, <1>3

\* What is left to show of a step that begins no plan.
LEMMA Preserved ==
  ASSUME IInv, Typed', Grown,
         \A v \in Workers : tx'[v] = tx[v] \/ tx'[v] = NoPlan,
         \A s \in Sales : SaleOK(s)',
         logged' <= points', HistoryExplains',
         ~raced' => /\ ~raced /\ Apart' /\ PageCurrent' /\ (points = Held)'
                    /\ \/ Unmoved
                       \/ \A v \in Workers : ~Draws(tx[v]) \/ tx'[v] = NoPlan
  PROVE  IInv'
  <1>1. Typed /\ \A v \in Workers : Sound(tx[v])
    BY DEF IInv
  <1>2. ASSUME NEW v \in Workers PROVE Sound(tx[v])'
    BY <1>1, SoundStays
  <1>3. ASSUME ~raced', NEW v \in Workers PROVE Exact(tx[v])'
    <2>1. Exact(tx[v]) /\ Ids \subseteq Ids'
      BY <1>3 DEF IInv, Calm, Grown
    <2>. QED
      BY <1>1, <1>3, <2>1, ExactStays
  <1>. QED
    BY <1>2, <1>3 DEF IInv, Calm

LEMMA UnmovedHeld ==
  ASSUME Typed, Typed', Ids' = Ids,
         \A i \in Ids : /\ batch'[i].left = batch[i].left
                        /\ batch'[i].state = batch[i].state
  PROVE  Held' = Held
  <1> DEFINE f == Worth(batch)
             g == Worth(batch')
             m == Len(batch)
             n == Len(batch')
  <1>1. m \in Nat /\ n \in Nat /\ Ids = 1..m /\ Ids' = 1..n
    BY DEF Typed, Ids
  <1>2. m = n
    BY <1>1
  <1>3. Held = Sum(f, m) /\ Held' = Sum(g, n) /\ \A i \in 1..m : f[i] \in Nat
    <2>1. HeldWorth /\ HeldWorth'
      BY HeldIsWorth, HeldIsWorthNext
    <2>. QED
      BY <1>1, <2>1 DEF HeldWorth
  <1>4. \A i \in 1..m : f[i] = g[i]
    BY <1>1 DEF Worth, Ids
  <1> HIDE DEF f, g, m, n
  <1>5. \A i \in 1..m : f[i] \in Int /\ f[i] = g[i]
    BY <1>3, <1>4
  <1>6. Sum(f, m) = Sum(g, m)
    BY <1>1, <1>5, SumSame
  <1>. QED
    BY <1>2, <1>3, <1>6

\* The other steps leave the plans alone, or give one up.
LEMMA AbortStep ==
  ASSUME IInv, NEW w \in Workers, Abort(w)
  PROVE  IInv'
  <1>1. /\ mix' = mix /\ batch' = batch /\ points' = points /\ logged' = logged
        /\ sale' = sale /\ cron' = cron /\ raced' = raced
        /\ tx' = [tx EXCEPT ![w] = NoPlan]
    BY DEF Abort
  <1>2. /\ tx \in [Workers -> Plan] /\ tx' \in [Workers -> Plan]
        /\ tx'[w] = NoPlan /\ \A v \in Workers \ {w} : tx'[v] = tx[v]
    BY <1>1, NoPlanIs DEF IInv, Typed
  <1>3. Typed' /\ Typed /\ Ids' = Ids
    BY <1>1, <1>2 DEF IInv, Typed, Ids
  <1>4. Grown /\ Unmoved
    BY <1>1, <1>3 DEF Grown, Unmoved, Typed, SaleRow
  <1>5. (\A s \in Sales : SaleOK(s))'
    BY <1>1 DEF IInv, SaleOK, Rows, Ids
  <1>6. logged' <= points' /\ HistoryExplains'
    BY <1>1 DEF IInv, HistoryExplains
  <1>7. ASSUME ~raced' PROVE ~raced /\ Apart' /\ PageCurrent' /\ (points = Held)'
    <2>1. ~raced /\ Calm
      BY <1>1, <1>7 DEF IInv
    <2>2. Apart'
      BY <1>1, <1>2, <2>1, NoPlanIs DEF Calm, Apart, Draws
    <2>3. PageCurrent' /\ (points = Held)'
      BY <1>1, <2>1 DEF Calm, PageCurrent, Held, Total, Left, Live, Ids
    <2>. QED
      BY <2>1, <2>2, <2>3
  <1>. QED
    BY <1>2, <1>3, <1>4, <1>5, <1>6, <1>7, Preserved

LEMMA ReopenStep ==
  ASSUME IInv, NEW s \in Sales, Reopen(s)
  PROVE  IInv'
  <1>1. /\ mix' = mix /\ batch' = batch /\ points' = points /\ logged' = logged
        /\ tx' = tx /\ cron' = cron /\ raced' = raced
        /\ sale' = [sale EXCEPT ![s].state = "completed"] /\ s \in Reopenable
    BY DEF Reopen
  <1>2. sale \in [Sales -> SaleRow] /\ \A r \in Sales : sale[r] \in SaleRow
    BY DEF IInv, Typed
  <1>3. /\ sale' \in [Sales -> SaleRow]
        /\ sale'[s].state = "completed"
        /\ \A r \in Sales : /\ sale'[r].restored = sale[r].restored
                            /\ sale'[r].earned = sale[r].earned
                            /\ sale'[r].undone = sale[r].undone
        /\ \A r \in Sales \ {s} : sale'[r] = sale[r]
    BY <1>1, <1>2 DEF SaleRow, States
  <1>4. Typed' /\ Typed /\ Ids' = Ids
    BY <1>1, <1>3 DEF IInv, Typed, Ids
  <1>5. Grown /\ Unmoved
    BY <1>1, <1>2, <1>3, <1>4 DEF Grown, Unmoved, SaleRow
  <1>6. ASSUME NEW r \in Sales PROVE SaleOK(r)'
    <2>1. Rows(r)' = Rows(r)
      BY <1>1, <1>4 DEF Rows
    <2>2. SaleOK(r)
      BY DEF IInv
    <2>3. CASE r = s
      BY <1>1, <1>3, <2>1, <2>2, <2>3 DEF SaleOK
    <2>4. CASE r # s
      BY <1>1, <1>3, <2>1, <2>2, <2>4 DEF SaleOK
    <2>. QED
      BY <2>3, <2>4
  <1>7. logged' <= points' /\ HistoryExplains'
    BY <1>1, <1>3 DEF IInv, HistoryExplains
  <1>8. ~raced' => ~raced /\ Apart' /\ PageCurrent' /\ (points = Held)'
    BY <1>1 DEF IInv, Calm, Apart, Draws, PageCurrent, Held, Total, Left, Live, Ids
  <1>. QED
    BY <1>1, <1>4, <1>5, <1>6, <1>7, <1>8, Preserved

\* A batch that comes due stays dated, and holds what it held.
LEMMA ComesDueStep ==
  ASSUME IInv, NEW i \in Ids, ComesDue(i)
  PROVE  IInv'
  <1>1. /\ mix' = mix /\ points' = points /\ logged' = logged
        /\ tx' = tx /\ cron' = cron /\ raced' = raced /\ sale' = sale
        /\ batch' = [batch EXCEPT ![i].expires = "past"]
        /\ batch[i].expires # "never"
    BY DEF ComesDue, Dated
  <1>2. Typed /\ Len(batch) \in Nat /\ Ids = 1..Len(batch) /\ \A j \in Ids : batch[j] \in Batch
    BY IdsAre DEF IInv
  <1>3. /\ batch' \in Seq(Batch) /\ Len(batch') = Len(batch)
        /\ \A j \in Ids : /\ batch'[j].left = batch[j].left
                          /\ batch'[j].state = batch[j].state
                          /\ batch'[j].sale = batch[j].sale
                          /\ batch'[j].expires = "never" <=> batch[j].expires = "never"
    <2> DEFINE row == [batch[i] EXCEPT !.expires = "past"]
    <2>1. row \in Batch /\ row.left = batch[i].left /\ row.state = batch[i].state
          /\ row.sale = batch[i].sale /\ row.expires = "past"
      BY <1>2 DEF Batch
    <2>2. batch' = [batch EXCEPT ![i] = row]
      BY <1>1
    <2> HIDE DEF row
    <2>3. batch \in Seq(Batch)
      BY <1>2 DEF Typed
    <2>4. batch' \in Seq(Batch) /\ Len(batch') = Len(batch)
      BY <1>2, <2>1, <2>2, <2>3
    <2>5. batch'[i] = row /\ \A j \in Ids \ {i} : batch'[j] = batch[j]
      BY <1>2, <2>2, <2>3
    <2>. QED
      BY <1>1, <1>2, <2>1, <2>4, <2>5
  <1>4. Ids' = Ids /\ Typed'
    <2>1. Ids' = Ids
      BY <1>2, <1>3 DEF Ids
    <2>. QED
      BY <1>1, <1>2, <1>3, <2>1 DEF Typed
  <1>5. Grown /\ Unmoved
    BY <1>1, <1>2, <1>3, <1>4 DEF Grown, Unmoved, Typed, SaleRow
  <1>6. \A r \in Sales : SaleOK(r)'
    BY <1>1, <1>2, <1>4, <1>5, StillOK DEF IInv
  <1>7. logged' <= points' /\ HistoryExplains'
    BY <1>1 DEF IInv, HistoryExplains
  <1>8. Held' = Held
    BY <1>2, <1>3, <1>4, UnmovedHeld DEF Unmoved
  <1>9. ~raced' => ~raced /\ Apart' /\ PageCurrent' /\ (points = Held)'
    BY <1>1, <1>2, <1>3, <1>4, <1>8 DEF IInv, Calm, Apart, Draws, PageCurrent, Typed
  <1>. QED
    BY <1>1, <1>4, <1>5, <1>6, <1>7, <1>9, Preserved

\* The steps of the cron that write nothing but its own state.
LEMMA CronStep ==
  ASSUME IInv, UNCHANGED <<mix, batch, points, logged, sale, tx>>, cron' \in Cron,
         cron'.due \subseteq Ids, DOMAIN cron'.page \subseteq Ids,
         raced' \in BOOLEAN, raced => raced',
         ~raced' /\ DOMAIN cron'.page # {} =>
             /\ \A v \in Workers : ~Draws(tx[v])
             /\ \A i \in DOMAIN cron'.page : /\ batch[i].state = "live"
                                             /\ batch[i].left = cron'.page[i]
  PROVE  IInv'
  <1>1. /\ mix' = mix /\ points' = points /\ logged' = logged /\ batch' = batch
        /\ tx' = tx /\ sale' = sale
    OBVIOUS
  <1>2. Typed' /\ Typed /\ Ids' = Ids
    BY <1>1 DEF IInv, Typed, Ids
  <1>3. Grown /\ Unmoved
    BY <1>1, <1>2 DEF Grown, Unmoved, Typed, SaleRow
  <1>4. \A r \in Sales : SaleOK(r)'
    BY <1>1 DEF IInv, SaleOK, Rows, Ids
  <1>5. logged' <= points' /\ HistoryExplains'
    BY <1>1 DEF IInv, HistoryExplains
  <1>6. ASSUME ~raced' PROVE ~raced /\ Apart' /\ PageCurrent' /\ (points = Held)'
    <2>1. ~raced /\ Calm
      BY <1>6 DEF IInv
    <2>2. Apart' /\ PageCurrent'
      BY <1>1, <1>6, <2>1 DEF Calm, Apart, Draws, PageCurrent
    <2>3. (points = Held)'
      BY <1>1, <2>1 DEF Calm, Held, Total, Left, Live, Ids
    <2>. QED
      BY <2>1, <2>2, <2>3
  <1>. QED
    BY <1>1, <1>2, <1>3, <1>4, <1>5, <1>6, Preserved

LEMMA AsleepIs ==
  ASSUME NEW ph \in {"asleep", "awake"}, NEW d \in SUBSET Nat,
         NEW c, c = [Asleep EXCEPT !.phase = ph, !.due = d]
  PROVE  c \in Cron /\ c.due = d /\ DOMAIN c.page = {}
  <1>1. <<>> \in Picks /\ DOMAIN <<>> = {}
    BY NoPlanIs DEF Plan
  <1>. QED
    BY <1>1 DEF Asleep, Cron

LEMMA SleepIs ==
  /\ Asleep \in Cron /\ Asleep.due = {} /\ DOMAIN Asleep.page = {}
  <1>1. <<>> \in Picks /\ DOMAIN <<>> = {}
    BY NoPlanIs DEF Plan
  <1>. QED
    BY <1>1 DEF Asleep, Cron

LEMMA WakeStep ==
  ASSUME IInv, Wake \/ Die
  PROVE  IInv'
  <1>1. Due \subseteq Ids /\ Due \in SUBSET Nat
    BY IdsAre DEF Due, IInv
  <1>2. CASE Wake
    <2>1. cron' \in Cron /\ cron'.due = Due /\ DOMAIN cron'.page = {}
      BY <1>1, <1>2, AsleepIs DEF Wake
    <2>. QED
      BY <1>1, <1>2, <2>1, CronStep DEF Wake, IInv, Typed
  <1>3. CASE Die
    <2>1. cron' = Asleep
      BY <1>3 DEF Die
    <2>. QED
      BY <1>3, <2>1, SleepIs, CronStep DEF Die, IInv, Typed
  <1>. QED
    BY <1>2, <1>3

LEMMA ReadPageStep ==
  ASSUME IInv, ReadPage
  PROVE  IInv'
  <1> DEFINE page == [i \in PageRows |-> Left[i]]
  <1>1. Typed /\ PageRows \subseteq Live /\ PageRows \subseteq Ids
    BY IdsAre DEF IInv, PageRows, FirstOf
  <1>2. page \in Picks /\ \A i \in PageRows : page[i] = batch[i].left /\ batch[i].state = "live"
    <2>1. page \in [PageRows -> Nat] /\ PageRows \in SUBSET Nat
      BY <1>1, IdsAre
    <2>. QED
      BY <1>1, <2>1, IdsAre, PicksAre DEF Live
  <1>3. raced' = (raced \/ (PageRows # {} /\ Drawn)) /\ raced \in BOOLEAN
    BY <1>1 DEF ReadPage, Typed
  <1>4. CASE PageRows = {}
    <2>1. cron' = Asleep
      BY <1>4 DEF ReadPage
    <2>. QED
      BY <1>3, <1>4, <2>1, SleepIs, CronStep DEF ReadPage
  <1>5. CASE PageRows # {}
    <2>1. cron' = [cron EXCEPT !.page = page]
      BY <1>5 DEF ReadPage
    <2>2. cron \in Cron /\ cron.due \subseteq Ids /\ DOMAIN page = PageRows
      BY <1>1 DEF Typed
    <2> HIDE DEF page
    <2>3. cron' \in Cron /\ cron'.due = cron.due /\ cron'.page = page
      BY <1>2, <2>1, <2>2 DEF Cron
    <2>4. ~raced' => ~Drawn
      BY <1>3, <1>5
    <2>. QED
      BY <1>1, <1>2, <1>3, <2>2, <2>3, <2>4, CronStep DEF ReadPage, Drawn
  <1>. QED
    BY <1>4, <1>5

(***************************************************************************)
(* Expiring a page                                                         *)
(***************************************************************************)
LEMMA ExpiredIs ==
  ASSUME IInv, ExpirePage
  PROVE  /\ Typed' /\ Ids' = Ids
         /\ \A i \in Ids :
              /\ batch'[i].left = IF i \in DOMAIN cron.page THEN 0 ELSE batch[i].left
              /\ batch'[i].state = batch[i].state /\ batch'[i].sale = batch[i].sale
         /\ Charged \in Nat /\ DOMAIN cron'.page = {}
  <1> DEFINE ids == DOMAIN cron.page
             row(i) == [batch[i] EXCEPT !.left = IF i \in ids THEN 0 ELSE @]
  <1>1. /\ Typed /\ Len(batch) \in Nat /\ Ids = 1..Len(batch)
        /\ \A i \in Ids : batch[i] \in Batch
    BY IdsAre DEF IInv
  <1>2. ASSUME NEW i \in Ids
        PROVE  /\ row(i) \in Batch /\ row(i).left = IF i \in ids THEN 0 ELSE batch[i].left
               /\ row(i).state = batch[i].state /\ row(i).sale = batch[i].sale
    BY <1>1 DEF Batch
  <1>3. batch' = [i \in 1..Len(batch) |-> row(i)]
    BY <1>1 DEF ExpirePage
  <1> HIDE DEF row
  <1>4. batch' \in Seq(Batch) /\ Len(batch') = Len(batch) /\ \A i \in Ids : batch'[i] = row(i)
    BY <1>1, <1>2, <1>3
  <1>5. Ids' = Ids
    BY <1>1, <1>4 DEF Ids
  <1>6. cron \in Cron /\ cron.due \subseteq Ids /\ ids \subseteq Ids /\ ids # {}
        /\ cron.page \in Picks /\ \A i \in ids : cron.page[i] \in Nat
    BY <1>1, PicksGive DEF Typed, Cron, ExpirePage
  <1>7. Charged \in Nat
    BY <1>1, <1>6, TotalNat DEF Charged
  <1>8. cron' \in Cron /\ cron'.due \subseteq Ids /\ DOMAIN cron'.page = {}
    <2>1. CASE cron' = Asleep
      BY <2>1, SleepIs
    <2>2. CASE cron' # Asleep
      <3> DEFINE c == CHOOSE i \in ids : \A j \in ids : j <= i
      <3>1. cron' = [cron EXCEPT !.page = <<>>, !.cursor = c] /\ cron.phase = "awake"
        BY <2>2 DEF ExpirePage
      <3>2. c \in Nat
        <4>1. \E i \in ids : \A j \in ids : j <= i
          <5> DEFINE T == {Len(batch) - i : i \in ids}
          <5>1. T \subseteq Nat /\ T # {}
            BY <1>1, <1>6
          <5>2. PICK n \in T : \A m \in T : n <= m
            BY <5>1, LeastNat
          <5>3. PICK i \in ids : n = Len(batch) - i
            BY <5>2
          <5>4. ASSUME NEW j \in ids PROVE j <= i
            <6>1. Len(batch) - j \in T
              OBVIOUS
            <6>2. Len(batch) - i <= Len(batch) - j
              BY <5>2, <5>3, <6>1
            <6>. QED
              BY <1>1, <1>6, <6>2
          <5>. QED
            BY <5>4
        <4>2. c \in ids
          BY <4>1
        <4>. QED
          BY <1>1, <1>6, <4>2
      <3> HIDE DEF c
      <3>3. <<>> \in Picks /\ DOMAIN <<>> = {}
        BY NoPlanIs DEF Plan
      <3>. QED
        BY <1>6, <3>1, <3>2, <3>3 DEF Cron
    <2>. QED
      BY <2>1, <2>2
  <1>9. points' \in Int /\ logged' \in Int
    BY <1>1, <1>7 DEF ExpirePage, Typed
  <1>10. Typed'
    BY <1>1, <1>4, <1>5, <1>8, <1>9 DEF Typed, ExpirePage
  <1>. QED
    BY <1>2, <1>4, <1>5, <1>7, <1>8, <1>10

\* The batches lose what the account is charged for, if they are as read.
LEMMA HeldExpires ==
  ASSUME IInv, ExpirePage, PageCurrent
  PROVE  Held' = Held - Charged /\ Held' \in Nat
  <1> DEFINE m == Len(batch)
             n == Len(batch')
             old == Worth(batch)
             later == Worth(batch')
             t == [i \in Ids |-> IF i \in DOMAIN cron.page THEN cron.page[i] ELSE 0]
  <1>1. /\ Typed' /\ Ids' = Ids
        /\ \A i \in Ids :
              /\ batch'[i].left = IF i \in DOMAIN cron.page THEN 0 ELSE batch[i].left
              /\ batch'[i].state = batch[i].state
    BY ExpiredIs
  <1>2. /\ m \in Nat /\ n \in Nat /\ Ids = 1..m /\ Ids' = 1..n /\ Typed
        /\ \A i \in Ids : batch[i].left \in Nat
    BY <1>1, IdsAre DEF IInv, Typed, Ids
  <1>3. m = n /\ DOMAIN batch' = 1..m
    BY <1>1, <1>2 DEF Ids
  <1>4. ASSUME NEW i \in 1..m
        PROVE  old[i] \in Int /\ later[i] \in Int /\ t[i] \in Int /\ old[i] = later[i] + t[i]
    <2>1. old[i] = IF batch[i].state = "live" THEN batch[i].left ELSE 0
      BY <1>2 DEF Worth, Ids
    <2>2. later[i] = IF batch[i].state = "live"
                   THEN IF i \in DOMAIN cron.page THEN 0 ELSE batch[i].left
                   ELSE 0
      BY <1>1, <1>2, <1>3 DEF Worth
    <2>3. t[i] = IF i \in DOMAIN cron.page THEN cron.page[i] ELSE 0
      BY <1>2
    <2> HIDE DEF old, later, t
    <2>. QED
      BY <1>2, <2>1, <2>2, <2>3 DEF PageCurrent
  <1>5. Held = Sum(old, m) /\ Held' = Sum(later, n) /\ Held' \in Nat /\ Held \in Nat
    <2>1. HeldWorth /\ HeldWorth'
      BY <1>1, <1>2, HeldIsWorth, HeldIsWorthNext
    <2>. QED
      BY <2>1 DEF HeldWorth
  <1>6. Charged = Sum(t, m)
    BY DEF Charged, Total
  <1> HIDE DEF m, n, old, later, t
  <1>7. Sum(old, m) = Sum(later, m) + Sum(t, m)
    BY <1>2, <1>4, SumAdds
  <1>8. Charged \in Nat
    BY ExpiredIs
  <1>. QED
    BY <1>3, <1>5, <1>6, <1>7, <1>8

LEMMA ExpirePageStep ==
  ASSUME IInv, ExpirePage
  PROVE  IInv'
  <1>1. /\ mix' = mix /\ tx' = tx /\ raced' = raced /\ sale' = sale
        /\ points' = IF points > Charged THEN points - Charged ELSE 0
        /\ logged' = logged - Charged /\ DOMAIN cron.page # {}
    BY DEF ExpirePage
  <1>2. /\ Typed' /\ Ids' = Ids
        /\ \A i \in Ids :
             /\ batch'[i].state = batch[i].state /\ batch'[i].sale = batch[i].sale
        /\ Charged \in Nat /\ DOMAIN cron'.page = {}
    BY ExpiredIs
  <1>3. Typed /\ points \in Int /\ logged \in Int /\ logged <= points
    BY DEF IInv, Typed
  <1>4. Grown
    BY <1>1, <1>2, <1>3 DEF Grown, Typed, SaleRow
  <1>5. \A r \in Sales : SaleOK(r)'
    BY <1>1, <1>2, <1>3, <1>4, StillOK DEF IInv
  <1>6. logged' <= points'
    BY <1>1, <1>2, <1>3
  <1>7. ASSUME ~raced
        PROVE  /\ Calm /\ \A v \in Workers : ~Draws(tx[v])
               /\ points' = points - Charged /\ points' = Held'
    <2>1. Calm
      BY <1>7 DEF IInv
    <2>2. \A v \in Workers : ~Draws(tx[v])
      BY <1>1, <2>1 DEF Calm, Apart
    <2>3. points = Held /\ Held' = Held - Charged /\ Held' \in Nat
      BY <2>1, HeldExpires DEF Calm
    <2>. QED
      BY <1>1, <1>2, <1>3, <2>1, <2>2, <2>3
  <1>8. HistoryExplains'
    <2>1. SUFFICES ASSUME ~raced, \A s \in Sales : sale[s].restored <= 1
                   PROVE  points' = logged'
      BY <1>1 DEF HistoryExplains
    <2>2. points = logged
      BY <2>1 DEF IInv, HistoryExplains
    <2>. QED
      BY <1>1, <1>7, <2>1, <2>2
  <1>9. ASSUME ~raced'
        PROVE  ~raced /\ Apart' /\ PageCurrent' /\ (points = Held)'
    <2>1. ~raced
      BY <1>1, <1>9
    <2>2. Apart' /\ PageCurrent'
      BY <1>1, <1>2, <1>7, <2>1 DEF Apart, Draws, PageCurrent
    <2>. QED
      BY <1>7, <2>1, <2>2
  <1>10. ~raced' => \A v \in Workers : ~Draws(tx[v])
    BY <1>1, <1>7
  <1>. QED
    BY <1>1, <1>2, <1>4, <1>5, <1>6, <1>8, <1>9, <1>10, Preserved

(***************************************************************************)
(* The commit                                                              *)
(***************************************************************************)
Books(p) == p.op \in {"sell", "pay", "reverse"}

LEMMA BecameIs ==
  ASSUME NEW p \in Plan, NEW row \in SaleRow, NEW r, r = Became(row, p)
  PROVE  /\ r \in SaleRow /\ r.state = p.to
         /\ r.earned = IF p.earned > 0 THEN p.earned ELSE row.earned
         /\ r.restored = IF p.op = "reverse" THEN row.restored + 1 ELSE row.restored
         /\ r.undone = row.undone \cup p.undo
  <1>1. /\ p.to \in States /\ p.earned \in Nat /\ p.redeemed \in Nat
        /\ p.undo \in SUBSET {"earn", "redeem"}
    BY DEF Plan
  <1>2. r \in SaleRow
    <2> DEFINE e == IF p.earned > 0 THEN p.earned ELSE row.earned
               d == IF p.op = "sell" THEN p.redeemed ELSE row.redeemed
               n == IF p.op = "reverse" THEN row.restored + 1 ELSE row.restored
               u == row.undone \cup p.undo
    <2>1. e \in Nat /\ d \in Nat /\ n \in Nat
      BY <1>1 DEF SaleRow
    <2>2. u \in SUBSET {"earn", "redeem"}
      BY <1>1 DEF SaleRow
    <2>3. r = [row EXCEPT !.state = p.to, !.earned = e, !.redeemed = d,
                          !.restored = n, !.undone = u]
      BY DEF Became
    <2> HIDE DEF e, d, n, u
    <2>. QED
      BY <1>1, <2>1, <2>2, <2>3 DEF SaleRow
  <1>3. /\ r.state = p.to
        /\ r.earned = IF p.earned > 0 THEN p.earned ELSE row.earned
    BY <1>1 DEF Became, SaleRow
  <1>4. /\ r.restored = IF p.op = "reverse" THEN row.restored + 1 ELSE row.restored
        /\ r.undone = row.undone \cup p.undo
    BY <1>1 DEF Became, SaleRow
  <1>. QED
    BY <1>2, <1>3, <1>4

\* What a commit does to the rows.
LEMMA CommitIs ==
  ASSUME IInv, NEW w \in Workers, Commit(w), NEW p, p = tx[w]
  PROVE  /\ p \in Plan /\ Sound(p) /\ Holds(p) /\ p.op # "idle" /\ Typed /\ Typed'
         /\ Applied(p, batch') /\ Ids \subseteq Ids'
         /\ points' = points + p.delta /\ logged' = logged + p.log
         /\ mix' = mix /\ cron' = cron /\ raced' = raced
         /\ tx'[w] = NoPlan /\ \A v \in Workers \ {w} : tx'[v] = tx[v]
         /\ \A s \in Sales : sale'[s] = IF Books(p) /\ s = p.id THEN Became(sale[s], p)
                                        ELSE sale[s]
  <1>1. /\ Typed /\ Sound(p) /\ p \in Plan
    BY DEF IInv, Typed
  <1>2. /\ p.op # "idle" /\ Holds(p) /\ batch' = Settled(p) \o p.add
        /\ points' = points + p.delta /\ logged' = logged + p.log
        /\ mix' = mix /\ cron' = cron /\ raced' = raced
        /\ tx' = [tx EXCEPT ![w] = NoPlan]
        /\ sale' = IF ~Books(p) THEN sale ELSE [sale EXCEPT ![p.id] = Became(@, p)]
    BY DEF Commit, Books
  <1>3. Applied(p, batch')
    BY <1>1, <1>2, SettledIs
  <1>4. Ids \subseteq Ids'
    BY <1>3 DEF Applied, Ids
  <1>5. tx' \in [Workers -> Plan] /\ tx'[w] = NoPlan
        /\ \A v \in Workers \ {w} : tx'[v] = tx[v]
    BY <1>1, <1>2, NoPlanIs DEF Typed
  <1>6. p.id \in Sales /\ p.delta \in Int /\ p.log \in Int
    BY <1>1 DEF Plan
  <1>7. Became(sale[p.id], p) \in SaleRow
    BY <1>1, <1>6, BecameIs DEF Typed
  <1>8. sale' \in [Sales -> SaleRow]
        /\ \A s \in Sales : sale'[s] = IF Books(p) /\ s = p.id THEN Became(sale[s], p)
                                       ELSE sale[s]
    BY <1>1, <1>2, <1>6, <1>7 DEF Typed
  <1>9. batch' \in Seq(Batch)
    BY <1>3 DEF Applied
  <1>10. Typed'
    BY <1>1, <1>2, <1>4, <1>5, <1>6, <1>8, <1>9 DEF Typed
  <1>. QED
    BY <1>1, <1>2, <1>3, <1>4, <1>5, <1>8, <1>10

LEMMA CommitGrows ==
  ASSUME IInv, NEW w \in Workers, Commit(w)
  PROVE  Grown
  <1> DEFINE p == tx[w]
  <1> HIDE DEF p
  <1>1. /\ p \in Plan /\ Sound(p) /\ Holds(p) /\ Typed
        /\ Applied(p, batch') /\ Ids \subseteq Ids' /\ mix' = mix
        /\ \A s \in Sales : sale'[s] = IF Books(p) /\ s = p.id THEN Became(sale[s], p)
                                       ELSE sale[s]
    BY CommitIs DEF p
  <1>2. \A i \in Ids : /\ batch'[i].sale = batch[i].sale
                       /\ batch'[i].state = "live" => batch[i].state = "live"
    BY <1>1 DEF Applied
  <1>3. ASSUME NEW i \in Ids' \ Ids
        PROVE  batch'[i].sale = "none" \/ Rows(batch'[i].sale) = {}
    <2>1. p.add # <<>> /\ i = Len(batch') /\ Len(p.add) = 1 /\ batch'[i] = p.add[1]
      BY <1>1, <1>3 DEF Applied, Ids
    <2>2. 1 \in DOMAIN p.add
      BY <1>1, <2>1 DEF Plan
    <2>. QED
      BY <1>1, <2>1, <2>2 DEF Holds, EarnsOnce, Rows
  <1>4. ASSUME NEW s \in Sales PROVE sale[s].restored <= sale'[s].restored
    <2>1. sale[s] \in SaleRow
      BY <1>1 DEF Typed
    <2>2. CASE Books(p) /\ s = p.id
      <3>1. sale'[s].restored = IF p.op = "reverse" THEN sale[s].restored + 1
                                ELSE sale[s].restored
        BY <1>1, <2>1, <2>2, BecameIs
      <3>. QED
        BY <2>1, <3>1 DEF SaleRow
    <2>3. CASE ~(Books(p) /\ s = p.id)
      BY <1>1, <2>1, <2>3 DEF SaleRow
    <2>. QED
      BY <2>2, <2>3
  <1>. QED
    BY <1>1, <1>2, <1>3, <1>4 DEF Grown

\* The sale that a plan is about.
LEMMA BookedOK ==
  ASSUME IInv, NEW w \in Workers, Commit(w), NEW s \in Sales,
         Books(tx[w]), s = tx[w].id
  PROVE  SaleOK(s)'
  <1> DEFINE p == tx[w]
  <1> HIDE DEF p
  <1>1. /\ p \in Plan /\ Sound(p) /\ Holds(p) /\ Typed /\ Typed'
        /\ Applied(p, batch') /\ Ids \subseteq Ids' /\ Books(p) /\ s = p.id
        /\ sale'[s] = Became(sale[s], p)
    BY CommitIs DEF p
  <1>2. sale[s] \in SaleRow /\ sale[s].restored \in Nat /\ sale[s].undone \subseteq {"earn", "redeem"}
    BY <1>1 DEF Typed, SaleRow
  <1>3. /\ sale'[s].state = p.to
        /\ sale'[s].earned = IF p.earned > 0 THEN p.earned ELSE sale[s].earned
        /\ sale'[s].restored = IF p.op = "reverse" THEN sale[s].restored + 1
                               ELSE sale[s].restored
        /\ sale'[s].undone = sale[s].undone \cup p.undo
    BY <1>1, <1>2, BecameIs
  <1>4. Grown /\ SaleOK(s) /\ s # "none"
    BY CommitGrows, PointsAssumption DEF IInv
  <1>5. Rows(s) \subseteq Rows(s)' /\ (Rows(s) # {} => Rows(s)' \subseteq Rows(s))
    BY <1>4 DEF Grown, Rows
  <1>6. sale'[s].undone # {} => sale'[s].restored >= 1
    BY <1>1, <1>2, <1>3, <1>4 DEF Sound, SaleOK
  <1>7. sale'[s].earned > 0 => Rows(s)' # {}
    <2>1. CASE p.earned > 0
      <3>1. Len(p.add) = 1 /\ p.add[1].sale = s
        BY <1>1, <2>1 DEF Sound
      <3>2. p.add # <<>>
        <4>1. Len(<<>>) = 0
          OBVIOUS
        <4>. QED
          BY <3>1, <4>1
      <3>3. Len(batch) \in Nat
        BY <1>1, IdsAre
      <3>4. batch'[Len(batch')] = p.add[1] /\ Len(batch') \in Ids'
        BY <1>1, <3>1, <3>2, <3>3 DEF Applied, Ids
      <3>. QED
        BY <3>1, <3>4 DEF Rows
    <2>2. CASE ~(p.earned > 0)
      BY <1>3, <1>4, <1>5, <2>2 DEF SaleOK
    <2>. QED
      BY <2>1, <2>2
  <1>8. ASSUME "earn" \in sale'[s].undone
        PROVE  Rows(s)' # {} /\ \A i \in Rows(s)' : batch'[i].state = "deleted"
    <2>1. Rows(s) # {} /\ \A i \in Rows(s) : batch[i].state = "live" => i \in p.drop
      <3>1. CASE "earn" \in sale[s].undone
        BY <1>4, <3>1 DEF SaleOK
      <3>2. CASE "earn" \in p.undo
        BY <1>1, <3>2 DEF Sound
      <3>. QED
        BY <1>3, <1>8, <3>1, <3>2
    <2>2. Rows(s)' = Rows(s) /\ Rows(s) \subseteq Ids
      BY <1>5, <2>1 DEF Rows
    <2>3. ASSUME NEW i \in Rows(s) PROVE batch'[i].state = "deleted"
      <3>1. batch[i] \in Batch
        BY <1>1, <2>2, IdsAre
      <3>2. batch[i].state \in {"live", "deleted"}
        BY <3>1 DEF Batch
      <3>3. batch'[i].state = IF i \in p.drop THEN "deleted" ELSE batch[i].state
        BY <1>1, <2>2 DEF Applied
      <3>. QED
        BY <2>1, <3>2, <3>3
    <2>. QED
      BY <2>1, <2>2, <2>3
  <1>9. s \notin Deferred => sale'[s].state # "owing"
    BY <1>1, <1>3 DEF Sound
  <1>10. ASSUME s \notin Deferred \cup Reopenable
         PROVE  /\ sale'[s].restored <= 1
                /\ sale'[s].restored > 0 => sale'[s].state = "reversed"
    <2>1. sale[s].restored > 0 => sale[s].state = "reversed"
      BY <1>4, <1>10 DEF SaleOK
    <2>2. CASE p.op = "reverse"
      BY <1>1, <1>2, <1>3, <2>1, <2>2 DEF Sound, Holds
    <2>3. CASE p.op = "sell"
      BY <1>1, <1>2, <1>3, <2>1, <2>3 DEF Holds
    <2>4. CASE p.op = "pay"
      BY <1>1, <1>10, <2>4 DEF Sound
    <2>. QED
      BY <1>1, <2>2, <2>3, <2>4 DEF Books
  <1>. QED
    BY <1>6, <1>7, <1>8, <1>9, <1>10 DEF SaleOK

LEMMA CommitStep ==
  ASSUME IInv, NEW w \in Workers, Commit(w)
  PROVE  IInv'
  <1> DEFINE p == tx[w]
  <1> HIDE DEF p
  <1>1. /\ p \in Plan /\ Sound(p) /\ Typed /\ Typed'
        /\ Applied(p, batch') /\ Ids \subseteq Ids'
        /\ points' = points + p.delta /\ logged' = logged + p.log
        /\ cron' = cron /\ raced' = raced
        /\ tx'[w] = NoPlan /\ \A v \in Workers \ {w} : tx'[v] = tx[v]
        /\ \A s \in Sales : sale'[s] = IF Books(p) /\ s = p.id THEN Became(sale[s], p)
                                       ELSE sale[s]
    BY CommitIs DEF p
  <1>2. Grown
    BY CommitGrows
  <1>3. \A s \in Sales : SaleOK(s)'
    <2>. SUFFICES ASSUME NEW s \in Sales PROVE SaleOK(s)'
      OBVIOUS
    <2>1. CASE Books(p) /\ s = p.id
      BY <2>1, BookedOK DEF p
    <2>2. CASE ~(Books(p) /\ s = p.id)
      BY <1>1, <1>2, <2>2, StillOK DEF IInv
    <2>. QED
      BY <2>1, <2>2
  <1>4. /\ points \in Int /\ logged \in Int /\ logged <= points
        /\ p.delta \in Int /\ p.log \in Int /\ p.log <= p.delta
        /\ p.id \in Sales /\ sale[p.id] \in SaleRow /\ sale[p.id].restored \in Nat
    BY <1>1 DEF IInv, Typed, Plan, Sound, SaleRow
  <1>5. logged' <= points'
    BY <1>1, <1>4
  <1>6. HistoryExplains'
    <2>1. SUFFICES ASSUME ~raced, \A s \in Sales : sale'[s].restored <= 1
                   PROVE  points' = logged'
      BY <1>1 DEF HistoryExplains
    <2>2. \A s \in Sales : sale[s].restored <= 1
      <3>. SUFFICES ASSUME NEW s \in Sales PROVE sale[s].restored <= 1
        OBVIOUS
      <3>1. sale[s].restored <= sale'[s].restored /\ sale'[s].restored <= 1
        BY <1>2, <2>1 DEF Grown
      <3>2. sale[s].restored \in Nat /\ sale'[s].restored \in Nat
        BY <1>1 DEF Typed, SaleRow
      <3>. QED
        BY <3>1, <3>2
    <2>3. points = logged
      BY <2>1, <2>2 DEF IInv, HistoryExplains
    <2>4. p.log = p.delta
      <3>1. SUFFICES ASSUME p.op = "reverse", sale[p.id].restored >= 1 PROVE FALSE
        BY <1>1 DEF Sound
      <3>2. sale'[p.id].restored = sale[p.id].restored + 1
        BY <1>1, <1>4, <3>1, BecameIs DEF Books
      <3>. QED
        BY <1>4, <2>1, <3>1, <3>2
    <2>. QED
      BY <1>1, <2>3, <2>4
  <1>7. ASSUME ~raced'
        PROVE  /\ ~raced /\ Apart' /\ PageCurrent' /\ (points = Held)'
               /\ \/ Unmoved
                  \/ \A v \in Workers : ~Draws(tx[v]) \/ tx'[v] = NoPlan
    <2>1. ~raced /\ Calm /\ Exact(p)
      BY <1>1, <1>7 DEF IInv, Calm, p
    <2>2. ~Draws(NoPlan)
      BY <1>1, NoPlanSound
    <2>3. Apart'
      BY <1>1, <2>1, <2>2 DEF Calm, Apart, Draws
    <2>4. (points = Held)'
      <3>1. batch' = Settled(p) \o p.add
        BY DEF Commit, p
      <3>2. Held' = Held + p.delta
        BY <1>1, <2>1, <3>1, HeldCommits
      <3>. QED
        BY <1>1, <2>1, <3>2 DEF Calm
    <2>5. CASE Draws(p)
      <3>1. DOMAIN cron.page = {} /\ \A v \in Workers \ {w} : ~Draws(tx[v])
        BY <2>1, <2>5 DEF Calm, Apart, p
      <3>2. PageCurrent'
        BY <1>1, <3>1 DEF PageCurrent
      <3>. QED
        BY <1>1, <2>1, <2>3, <2>4, <3>1, <3>2
    <2>6. CASE ~Draws(p)
      <3>1. DOMAIN p.take = {} /\ p.drop = {}
        BY <1>1, <2>6 DEF Draws, Sound
      <3>2. \A i \in Ids : /\ batch'[i].left = batch[i].left
                           /\ batch'[i].state = batch[i].state
                           /\ batch'[i].expires = batch[i].expires
        BY <1>1, <3>1 DEF Applied
      <3>3. Unmoved
        BY <3>2 DEF Unmoved
      <3>4. PageCurrent'
        BY <1>1, <2>1, <3>2 DEF Calm, PageCurrent, Typed
      <3>. QED
        BY <2>1, <2>3, <2>4, <3>3, <3>4
    <2>. QED
      BY <2>5, <2>6
  <1>. QED
    BY <1>1, <1>2, <1>3, <1>5, <1>6, <1>7, Preserved

(***************************************************************************)
(* The theorems                                                            *)
(***************************************************************************)
LEMMA InitIInv ==
  ASSUME Init
  PROVE  IInv
  <1>1. /\ mix \in Mixes /\ batch \in Seq(Batch) /\ points = Held /\ logged = Held
        /\ sale = [s \in Sales |-> [state |-> "unrung", earned |-> 0, redeemed |-> 0,
                                    restored |-> 0, undone |-> {}]]
        /\ tx = [w \in Workers |-> NoPlan] /\ cron = Asleep /\ raced = FALSE
    BY PointsAssumption DEF Init
  <1>2. Held \in Nat
    <2> DEFINE g == [i \in Ids |-> IF i \in Live THEN Left[i] ELSE 0]
    <2>1. Len(batch) \in Nat /\ Ids = 1..Len(batch) /\ Len(batch) \in 0..Len(batch)
      BY <1>1 DEF Ids
    <2>2. \A i \in Ids : batch[i] \in Batch
      BY <1>1, <2>1
    <2>3. \A i \in Ids : Left[i] \in Nat
      BY <2>2 DEF Batch, Left
    <2>4. \A i \in 1..Len(batch) : g[i] \in Nat
      BY <2>1, <2>3
    <2> HIDE DEF g
    <2>5. Sum(g, Len(batch)) \in Nat
      BY <2>1, <2>4, SumNat
    <2>. QED
      BY <2>5 DEF Held, Total, g
  <1>3. Typed
    <2>1. sale \in [Sales -> SaleRow]
      BY <1>1 DEF SaleRow, States
    <2>2. tx \in [Workers -> Plan]
      BY <1>1, NoPlanIs
    <2>3. cron \in Cron /\ cron.due = {} /\ DOMAIN cron.page = {}
      BY <1>1, SleepIs
    <2>4. points \in Int /\ logged \in Int
      BY <1>1, <1>2
    <2>5. raced \in BOOLEAN /\ cron.due \subseteq Ids /\ DOMAIN cron.page \subseteq Ids
      BY <1>1, <2>3
    <2>. QED
      BY <1>1, <2>1, <2>2, <2>3, <2>4, <2>5 DEF Typed
  <1>4. /\ Sound(NoPlan) /\ Exact(NoPlan) /\ ~Draws(NoPlan)
        /\ \A w \in Workers : tx[w] = NoPlan
    BY <1>1, <1>3, NoPlanSound
  <1>5. \A w \in Workers : Sound(tx[w]) /\ Exact(tx[w]) /\ ~Draws(tx[w])
    BY <1>4
  <1>6. \A s \in Sales : SaleOK(s)
    BY <1>1 DEF SaleOK
  <1>7. Calm
    BY <1>1, <1>5, SleepIs DEF Calm, Apart, PageCurrent
  <1>8. logged <= points /\ HistoryExplains
    BY <1>1, <1>2 DEF HistoryExplains
  <1>. QED
    BY <1>3, <1>5, <1>6, <1>7, <1>8 DEF IInv

LEMMA StutterStep ==
  ASSUME IInv, UNCHANGED vars
  PROVE  IInv'
  <1>1. UNCHANGED <<mix, batch, points, logged, sale, tx>> /\ cron' = cron /\ raced' = raced
    BY DEF vars
  <1>2. /\ cron' \in Cron /\ cron'.due \subseteq Ids /\ DOMAIN cron'.page \subseteq Ids
        /\ raced' \in BOOLEAN
    BY <1>1 DEF IInv, Typed
  <1>3. ASSUME ~raced', DOMAIN cron'.page # {}
        PROVE  /\ \A v \in Workers : ~Draws(tx[v])
               /\ \A i \in DOMAIN cron'.page : /\ batch[i].state = "live"
                                               /\ batch[i].left = cron'.page[i]
    BY <1>1, <1>3 DEF IInv, Calm, Apart, PageCurrent
  <1>. QED
    BY <1>1, <1>2, <1>3, CronStep

LEMMA NextIInv ==
  ASSUME IInv, [Next]_vars
  PROVE  IInv'
  <1>1. ASSUME NEW w \in Workers, NEW s \in Sales, NEW n \in Amounts \cup {0},
               NEW e \in {0, Earn[s]}, NEW owing \in BOOLEAN, Sell(w, s, n, e, owing)
        PROVE  IInv'
    BY <1>1, SellStep
  <1>2. ASSUME NEW w \in Workers, NEW s \in Sales, NEW e \in {0, Earn[s]}, Pay(w, s, e)
        PROVE  IInv'
    BY <1>2, PayStep
  <1>3. ASSUME NEW w \in Workers, NEW s \in Sales, ReverseLoyalty(w, s) PROVE IInv'
    BY <1>3, ReverseStep
  <1>4. ASSUME NEW w \in Workers, NEW n \in Amounts,
               EarnPoints(w, n) \/ RedeemPoints(w, n) \/ AdjustUp(w, n) \/ AdjustDown(w, n)
        PROVE  IInv'
    BY <1>4, GiftStep, DrawStep
  <1>5. ASSUME NEW w \in Workers, Commit(w) \/ Abort(w) PROVE IInv'
    BY <1>5, CommitStep, AbortStep
  <1>6. ASSUME NEW s \in Sales, Reopen(s) PROVE IInv'
    BY <1>6, ReopenStep
  <1>7. ASSUME NEW i \in Ids, ComesDue(i) PROVE IInv'
    BY <1>7, ComesDueStep
  <1>8. ASSUME Wake \/ ReadPage \/ ExpirePage \/ Die PROVE IInv'
    BY <1>8, WakeStep, ReadPageStep, ExpirePageStep
  <1>9. CASE UNCHANGED vars
    BY <1>9, StutterStep
  <1>. QED
    BY <1>1, <1>2, <1>3, <1>4, <1>5, <1>6, <1>7, <1>8, <1>9 DEF Next

LEMMA Invariance == Spec => []IInv
  BY InitIInv, NextIInv, PTL DEF Spec

LEMMA IInvGives ==
  ASSUME IInv
  PROVE  /\ TypeOK /\ PointsMatchBatches /\ HistoryExplains /\ NeverBelowHistory
         /\ RestoredOnce /\ SnapshotsCurrent
  <1>1. Typed /\ \A w \in Workers : Sound(tx[w]) /\ tx[w] \in Plan
    BY DEF IInv, Typed
  <1>2. TypeOK
    <2>1. ASSUME NEW w \in Workers, NEW i \in DOMAIN tx[w].take
          PROVE  tx[w].seen[i] \in Nat /\ tx[w].take[i] \in 0..tx[w].seen[i]
      <3>1. tx[w].take \in Picks /\ tx[w].seen \in Picks /\ i \in DOMAIN tx[w].seen
            /\ tx[w].take[i] <= tx[w].seen[i]
        BY <1>1 DEF Plan, Sound
      <3>2. tx[w].take[i] \in Nat /\ tx[w].seen[i] \in Nat
        BY <3>1, PicksGive
      <3>. QED
        BY <3>1, <3>2
    <2>2. ASSUME NEW w \in Workers
          PROVE  /\ tx[w].op \in mix \cup {"idle"} /\ tx[w].id \in Sales /\ tx[w].to \in States
                 /\ tx[w].earned \in Nat /\ tx[w].redeemed \in Nat
                 /\ DOMAIN tx[w].take = DOMAIN tx[w].seen /\ DOMAIN tx[w].take \subseteq Ids
                 /\ tx[w].drop \subseteq Ids /\ tx[w].add \in Seq(Batch)
                 /\ tx[w].undo \subseteq {"earn", "redeem"}
                 /\ tx[w].delta \in Int /\ tx[w].log \in Int
      BY <1>1 DEF Plan, Sound
    <2>3. /\ cron.phase \in {"asleep", "awake"} /\ cron.due \subseteq Ids
          /\ cron.cursor \in Nat /\ cron.page \in Picks /\ DOMAIN cron.page \subseteq Ids
      BY <1>1 DEF Typed, Cron
    <2>4. \A i \in DOMAIN cron.page : cron.page[i] \in Nat
      BY <2>3, PicksGive
    <2>. QED
      BY <1>1, <2>1, <2>2, <2>3, <2>4 DEF TypeOK, Typed
  <1>3. PointsMatchBatches /\ HistoryExplains
    BY DEF IInv, Calm, PointsMatchBatches
  <1>4. NeverBelowHistory
    BY <1>1 DEF IInv, Typed, NeverBelowHistory
  <1>5. RestoredOnce
    BY DEF IInv, SaleOK, RestoredOnce
  <1>6. SnapshotsCurrent
    BY DEF IInv, Calm, Exact, Current, SnapshotsCurrent
  <1>. QED
    BY <1>2, <1>3, <1>4, <1>5, <1>6

\* Every request plans writes of the right type, to batches that exist.
THEOREM TypeCorrect == Spec => []TypeOK
  BY Invariance, IInvGives, PTL

\* However sales, payments, reversals, adjustments and the nightly expiry
\* follow one another, the account shows what its batches hold, unless two
\* requests that draw from batches overlapped (processLoyaltyForSale,
\* reverseLoyaltyForSale, the loyalty service and the expiry cron).
THEOREM BatchesAccount == Spec => []PointsMatchBatches
  BY Invariance, IInvGives, PTL

\* ... and then, while no sale was reversed twice, so does the history of
\* loyalty transactions.
THEOREM HistoryAccounts == Spec => []HistoryExplains
  BY Invariance, IInvGives, PTL

\* Whatever overlaps, an account never has less than its history shows: the
\* GREATEST of the expiry and the transactions that a second reversal leaves
\* out only ever err to the side of the member.
THEOREM NeverBelow == Spec => []NeverBelowHistory
  BY Invariance, IInvGives, PTL

\* A sale paid at the counter is reversed, and its points restored, once.
THEOREM ReversedOnce == Spec => []RestoredOnce
  BY Invariance, IInvGives, PTL

\* The absolute writes of a request are computed from what the batches hold
\* as it commits, unless drawing requests overlapped.
THEOREM SnapshotsStayCurrent == Spec => []SnapshotsCurrent
  BY Invariance, IInvGives, PTL

LEMMA InOrder ==
  ASSUME IInv, [Next]_vars
  PROVE  [DrawsInOrder]_vars
  <1>. SUFFICES ASSUME NEW w \in Workers, ~raced, tx[w].op # "reverse", tx[w] # tx'[w],
                       batch' # batch, NEW i \in Ids, NEW j \in Ids, i < j,
                       j \in Dated => i \in Dated,
                       batch[i].state = "live", batch'[j].left < batch[j].left
                PROVE  batch'[i].left = 0
    BY DEF DrawsInOrder
  <1>1. Commit(w)
    <2>1. PICK v \in Workers : Commit(v)
      <3>1. ASSUME NEW v \in Workers, NEW q, Begin(v, q) PROVE FALSE
        BY <3>1 DEF Begin
      <3>2. ASSUME NEW v \in Workers, NEW s \in Sales PROVE ~ReverseLoyalty(v, s)
        BY <3>1 DEF ReverseLoyalty
      <3>3. ASSUME NEW v \in Workers, NEW s \in Sales, NEW e PROVE ~Pay(v, s, e)
        BY <3>1 DEF Pay
      <3>4. ASSUME NEW v \in Workers, NEW s \in Sales, NEW n, NEW e, NEW owing
            PROVE  ~Sell(v, s, n, e, owing)
        BY <3>1 DEF Sell
      <3>5. ASSUME NEW v \in Workers, NEW n
            PROVE  /\ ~EarnPoints(v, n) /\ ~RedeemPoints(v, n)
                   /\ ~AdjustUp(v, n) /\ ~AdjustDown(v, n)
        BY <3>1 DEF EarnPoints, RedeemPoints, AdjustUp, AdjustDown
      <3>6. ASSUME NEW v \in Workers PROVE ~Abort(v)
        BY DEF Abort
      <3>7. \A s \in Sales : ~Reopen(s)
        BY DEF Reopen
      <3>8. \A k \in Ids : ~ComesDue(k)
        BY DEF ComesDue
      <3>9. ~Wake /\ ~ReadPage /\ ~ExpirePage /\ ~Die /\ ~UNCHANGED vars
        BY DEF Wake, ReadPage, ExpirePage, Die, vars
      <3>. QED
        BY <3>2, <3>3, <3>4, <3>5, <3>6, <3>7, <3>8, <3>9 DEF Next
    <2>2. \A u \in Workers \ {v} : tx'[u] = tx[u]
      BY <2>1, CommitIs
    <2>. QED
      BY <2>1, <2>2
  <1> DEFINE p == tx[w]
  <1> HIDE DEF p
  <1>2. p \in Plan /\ Sound(p) /\ Applied(p, batch') /\ Typed
    BY <1>1, CommitIs DEF p
  <1>3. Current(p) /\ Ordered(p) /\ p.op # "reverse"
    BY DEF IInv, Calm, Exact, p
  <1>4. \A k \in Ids : batch[k].left \in Nat
    BY <1>2, IdsAre
  <1>5. \A k \in DOMAIN p.take : p.take[k] \in Nat /\ p.seen[k] \in Nat /\ p.take[k] <= p.seen[k]
    BY <1>2, PicksGive DEF Plan, Sound
  <1>6. j \in DOMAIN p.take
    BY <1>2, <1>4 DEF Applied
  <1>7. batch'[i].left = IF i \in DOMAIN p.take THEN p.seen[i] - p.take[i] ELSE batch[i].left
    BY <1>2 DEF Applied
  <1>8. CASE batch[i].left > 0
    <2>1. i \in Live
      BY <1>8 DEF Live
    <2>2. i \in DOMAIN p.take /\ p.take[i] = p.seen[i]
      BY <1>3, <1>6, <2>1 DEF Ordered
    <2>. QED
      BY <1>5, <1>7, <2>2
  <1>9. CASE ~(batch[i].left > 0)
    <2>1. batch[i].left = 0
      BY <1>4, <1>9
    <2>2. i \in DOMAIN p.take => p.seen[i] = 0
      BY <1>3, <2>1 DEF Current
    <2>. QED
      BY <1>5, <1>7, <2>1, <2>2
  <1>. QED
    BY <1>8, <1>9

\* First in first out by expiry (consumePointsFifo and its two copies): a step
\* that takes points from a batch leaves none in one that expires sooner.
THEOREM SoonestDrawnFirst == Spec => SoonestFirst
  BY Invariance, InOrder, PTL DEF Spec, SoonestFirst

\* Account, batches and history tell one balance, unless requests that draw
\* from batches overlapped.
THEOREM BooksStayTrue == Spec => []BooksAgree
  BY BatchesAccount, HistoryAccounts, PTL DEF BooksAgree

(***************************************************************************)
(* Replayed writes (WriteReplay), for every set of keys and servers and    *)
(* every retention that satisfies its assumption: guarded writes are       *)
(* recorded once and truthfully answered under every fault and overlap,    *)
(* and refine RecordedOnce; plain writes are applied once when retries     *)
(* follow their attempts and the retention covers the replay window.       *)
(* WriteReplay and PointsLedger share nothing: their proofs share a file.  *)
(***************************************************************************)

LEMMA NoRequestTyped == NoRequest \in Request
  <1>1. (CHOOSE k \in Keys : TRUE) \in Keys
    BY ReplayAssumption
  <1>. QED
    BY <1>1 DEF NoRequest, Request, Phases

LEMMA NoRecordTyped == NoRecord \in [outcome: Outcomes \cup {"none"}, at: Nat]
  BY DEF NoRecord, Outcomes

(***************************************************************************)
(* Typing.                                                                 *)
(***************************************************************************)

LEMMA TypeInit == ReplayInit => ReplayTypeOK
  BY NoRequestTyped, NoRecordTyped, ReplayAssumption DEF ReplayInit, ReplayTypeOK, NotQueued, Answers

LEMMA GotoTyped ==
  ASSUME ReplayTypeOK, NEW w \in Servers, NEW phase \in Phases,
         NEW res \in {"plain", "intercepted"},
         NEW outcome \in Outcomes \cup {"none"}, Goto(w, phase, res, outcome)
  PROVE  req' \in [Servers -> Request]
  BY DEF ReplayTypeOK, Goto, Request

LEMMA ReplyStored ==
  ASSUME ReplayTypeOK, NEW w \in Servers, req[w].phase = "reply",
         req[w].outcome # "none", BeginStore(w)
  PROVE  pending' \subseteq [key: Keys, outcome: Outcomes]
  BY DEF ReplayTypeOK, BeginStore, Request, Outcomes

(* A reply has an outcome and so has a stored response: what ReplayTypeOK leaves   *)
(* open and typing needs.                                                    *)
ReplyInv ==
    /\ \A w \in Servers : req[w].phase = "reply" => req[w].outcome # "none"
    /\ \A w \in Servers : req[w].phase # "reply" => req[w].outcome = "none"
    /\ \A k \in Keys : records[k] # NoRecord => records[k].outcome # "none"

ReplayTyped == ReplayTypeOK /\ ReplyInv

LEMMA TypedInit == ReplayInit => ReplayTyped
  <1>1. NoRequest.phase = "idle" /\ NoRequest.outcome = "none"
    BY DEF NoRequest
  <1>2. ReplayInit => ReplyInv
    BY <1>1 DEF ReplayInit, ReplyInv
  <1>. QED
    BY <1>2, TypeInit DEF ReplayTyped

LEMMA TypedSend ==
  ASSUME ReplayTyped, NEW w \in Servers, NEW k \in Keys, Send(w, k)
  PROVE  ReplayTyped'
  <1>1. now' = now /\ queuedAt' \in [Keys -> Nat \cup {NotQueued}]
    BY DEF ReplayTyped, ReplayTypeOK, Send
  <1>2. req' \in [Servers -> Request]
    BY DEF ReplayTyped, ReplayTypeOK, Send, Request, Phases
  <1>3. ReplayTypeOK'
    BY <1>1, <1>2 DEF ReplayTyped, ReplayTypeOK, Send
  <1>4. ReplyInv'
    BY DEF ReplayTyped, ReplayTypeOK, ReplyInv, Send
  <1>. QED
    BY <1>3, <1>4 DEF ReplayTyped

LEMMA GotoReplyInv ==
  ASSUME ReplayTyped, NEW w \in Servers, NEW phase, NEW res, NEW outcome,
         Goto(w, phase, res, outcome), UNCHANGED records,
         phase = "reply" => outcome # "none",
         phase # "reply" => outcome = "none"
  PROVE  ReplyInv'
  BY DEF ReplayTyped, ReplayTypeOK, ReplyInv, Goto

LEMMA TypedLookup ==
  ASSUME ReplayTyped, NEW w \in Servers, Lookup(w)
  PROVE  ReplayTyped'
  <1> DEFINE k == req[w].key
  <1>0. k \in Keys /\ Handler(k) \in Phases /\ Handler(k) # "reply"
        /\ records[k].outcome \in Outcomes \cup {"none"}
    BY DEF ReplayTyped, ReplayTypeOK, Request, Handler, Phases
  <1>1. CASE records[k] # NoRecord /\ Goto(w, "reply", "plain", records[k].outcome)
    <2>1. records[k].outcome # "none"
      BY <1>0, <1>1 DEF ReplayTyped, ReplyInv
    <2>2. req' \in [Servers -> Request]
      BY <1>0, <1>1, GotoTyped DEF ReplayTyped, Phases
    <2>3. ReplyInv'
      BY <2>1, <1>1, GotoReplyInv DEF Lookup
    <2>. QED
      BY <2>2, <2>3 DEF ReplayTyped, ReplayTypeOK, Lookup
  <1>2. ASSUME NEW res \in {"plain", "intercepted"}, Goto(w, Handler(k), res, "none")
        PROVE  ReplayTyped'
    <2>2. req' \in [Servers -> Request]
      BY <1>0, <1>2, GotoTyped DEF ReplayTyped
    <2>3. ReplyInv'
      BY <1>0, <1>2, GotoReplyInv DEF Lookup
    <2>. QED
      BY <2>2, <2>3 DEF ReplayTyped, ReplayTypeOK, Lookup
  <1>. QED
    BY <1>1, <1>2 DEF Lookup

(* The steps of the handler: each moves the request on and leaves records.  *)
LEMMA TypedHandler ==
  ASSUME ReplayTyped, NEW w \in Servers, CheckRef(w) \/ Execute(w) \/ Reject(w) \/ Fail(w)
  PROVE  ReplayTyped'
  <1>0. req[w].res \in {"plain", "intercepted"} /\ req[w].key \in Keys
    BY DEF ReplayTyped, ReplayTypeOK, Request
  <1>1. CASE CheckRef(w)
    <2>1. CASE Goto(w, "reply", req[w].res, "recorded")
      <3>1. req' \in [Servers -> Request] /\ ReplyInv'
        BY <1>0, <1>1, <2>1, GotoTyped, GotoReplyInv DEF ReplayTyped, Phases, Outcomes, CheckRef
      <3>. QED
        BY <1>1, <3>1 DEF ReplayTyped, ReplayTypeOK, CheckRef
    <2>2. CASE Goto(w, "run", req[w].res, "none")
      <3>1. req' \in [Servers -> Request] /\ ReplyInv'
        BY <1>0, <1>1, <2>2, GotoTyped, GotoReplyInv DEF ReplayTyped, Phases, CheckRef
      <3>. QED
        BY <1>1, <3>1 DEF ReplayTyped, ReplayTypeOK, CheckRef
    <2>. QED
      BY <1>1, <2>1, <2>2 DEF CheckRef
  <1>2. CASE Execute(w)
    <2>1. applied' \in [Keys -> Nat]
      BY <1>0, <1>2 DEF ReplayTyped, ReplayTypeOK, Execute
    <2>2. req' \in [Servers -> Request] /\ ReplyInv'
      BY <1>0, <1>2, GotoTyped, GotoReplyInv DEF ReplayTyped, Phases, Outcomes, Execute
    <2>. QED
      BY <1>2, <2>1, <2>2 DEF ReplayTyped, ReplayTypeOK, Execute
  <1>3. CASE Reject(w)
    <2>2. req' \in [Servers -> Request] /\ ReplyInv'
      BY <1>0, <1>3, GotoTyped, GotoReplyInv DEF ReplayTyped, Phases, Outcomes, Reject
    <2>. QED
      BY <1>3, <2>2 DEF ReplayTyped, ReplayTypeOK, Reject
  <1>4. CASE Fail(w)
    <2>2. req' \in [Servers -> Request] /\ ReplyInv'
      BY <1>0, <1>4, GotoTyped, GotoReplyInv DEF ReplayTyped, Phases, Outcomes, Fail
    <2>. QED
      BY <1>4, <2>2 DEF ReplayTyped, ReplayTypeOK, Fail
  <1>. QED
    BY <1>1, <1>2, <1>3, <1>4

LEMMA TypedReply ==
  ASSUME ReplayTyped, NEW w \in Servers, Answer(w) \/ LoseReply(w)
  PROVE  ReplayTyped'
  <1>1. pending' \subseteq [key: Keys, outcome: Outcomes]
    BY ReplyStored DEF ReplayTyped, ReplyInv, Answer, LoseReply
  <1>2. req' \in [Servers -> Request] /\ req' = [req EXCEPT ![w] = NoRequest]
    BY NoRequestTyped DEF ReplayTyped, ReplayTypeOK, Answer, LoseReply
  <1>3. answer' \in [Keys -> Answers]
    BY DEF ReplayTyped, ReplayTypeOK, Answer, LoseReply, Request
  <1>4. ReplayTypeOK'
    BY <1>1, <1>2, <1>3 DEF ReplayTyped, ReplayTypeOK, Answer, LoseReply
  <1>5. ReplyInv'
    BY <1>2 DEF ReplayTyped, ReplayTypeOK, ReplyInv, Answer, LoseReply, NoRequest
  <1>. QED
    BY <1>4, <1>5 DEF ReplayTyped

LEMMA TypedStore ==
  ASSUME ReplayTyped, NEW p \in pending, Store(p) \/ StoreFails(p)
  PROVE  ReplayTyped'
  <1>1. p.key \in Keys /\ p.outcome \in Outcomes /\ pending' \subseteq pending
    BY DEF ReplayTyped, ReplayTypeOK, Store, StoreFails
  <1>2. [outcome |-> p.outcome, at |-> now] \in [outcome: Outcomes \cup {"none"}, at: Nat]
    BY <1>1 DEF ReplayTyped, ReplayTypeOK
  <1>3. records' \in [Keys -> [outcome: Outcomes \cup {"none"}, at: Nat]]
    BY <1>1, <1>2 DEF ReplayTyped, ReplayTypeOK, Store, StoreFails
  <1>4. ReplyInv'
    BY <1>1 DEF ReplayTyped, ReplayTypeOK, ReplyInv, Store, StoreFails, Outcomes
  <1>. QED
    BY <1>1, <1>3, <1>4 DEF ReplayTyped, ReplayTypeOK, Store, StoreFails

LEMMA TypedRest ==
  ASSUME ReplayTyped, Crash \/ Purge \/ Tick \/ UNCHANGED replayVars
  PROVE  ReplayTyped'
  <1>1. CASE Crash
    BY <1>1, NoRequestTyped DEF ReplayTyped, ReplayTypeOK, ReplyInv, Crash, NoRequest
  <1>2. CASE Purge
    <2>1. records' \in [Keys -> [outcome: Outcomes \cup {"none"}, at: Nat]]
      BY <1>2, NoRecordTyped DEF ReplayTyped, ReplayTypeOK, Purge
    <2>2. \A k \in Keys : records'[k] # NoRecord => records'[k].outcome # "none"
      BY <1>2 DEF ReplayTyped, ReplayTypeOK, ReplyInv, Purge
    <2>. QED
      BY <1>2, <2>1, <2>2 DEF ReplayTyped, ReplayTypeOK, ReplyInv, Purge
  <1>3. CASE Tick
    BY <1>3 DEF ReplayTyped, ReplayTypeOK, ReplyInv, Tick
  <1>4. CASE UNCHANGED replayVars
    BY <1>4 DEF ReplayTyped, ReplayTypeOK, ReplyInv, replayVars
  <1>. QED
    BY <1>1, <1>2, <1>3, <1>4

LEMMA TypedStep == ReplayTyped /\ [ReplayNext]_replayVars => ReplayTyped'
  BY TypedSend, TypedLookup, TypedHandler, TypedReply, TypedStore, TypedRest
     DEF ReplayNext, Serve

LEMMA AlwaysTyped == ReplaySpec => []ReplayTyped
  BY TypedInit, TypedStep, PTL DEF ReplaySpec

(* Every reachable state of the replay machinery is well typed.             *)
THEOREM ReplayTypeCorrect == ReplaySpec => []ReplayTypeOK
  <1>1. ReplayTyped => ReplayTypeOK
    BY DEF ReplayTyped
  <1>. QED
    BY <1>1, AlwaysTyped, PTL

(***************************************************************************)
(* Guarded writes: recorded once.                                          *)
(***************************************************************************)

(* What a step may do to the database: nothing, or one insert the clientRef *)
(* index let through.                                                       *)
LEMMA AppliedEffect ==
  ASSUME ReplayTyped, [ReplayNext]_replayVars
  PROVE  \/ applied' = applied
         \/ \E w \in Servers : /\ Execute(w) /\ ~RefConflict(req[w].key)
                               /\ applied' = [applied EXCEPT ![req[w].key] = @ + 1]
  <1>1. ASSUME NEW w \in Servers, NEW k \in Keys, Send(w, k)
        PROVE  applied' = applied
    BY <1>1 DEF Send
  <1>2. ASSUME NEW w \in Servers, Execute(w)
        PROVE  applied' = applied \/ (/\ ~RefConflict(req[w].key)
                                      /\ applied' = [applied EXCEPT ![req[w].key] = @ + 1])
    BY <1>2 DEF Execute
  <1>3. ASSUME NEW w \in Servers, Lookup(w) \/ CheckRef(w) \/ Reject(w) \/ Fail(w)
                                  \/ Answer(w) \/ LoseReply(w)
        PROVE  applied' = applied
    BY <1>3 DEF Lookup, CheckRef, Reject, Fail, Answer, LoseReply
  <1>4. ASSUME NEW p \in pending, Store(p) \/ StoreFails(p)
        PROVE  applied' = applied
    BY <1>4 DEF Store, StoreFails
  <1>5. CASE Crash \/ Purge \/ Tick \/ UNCHANGED replayVars
    BY <1>5 DEF Crash, Purge, Tick, replayVars
  <1>. QED
    BY <1>1, <1>2, <1>3, <1>4, <1>5 DEF ReplayNext, Serve

LEMMA AppliedGrows ==
  ASSUME ReplayTyped, [ReplayNext]_replayVars, NEW k \in Keys
  PROVE  applied[k] \in Nat /\ applied'[k] \in Nat /\ applied'[k] >= applied[k]
  <1>1. applied \in [Keys -> Nat] /\ \A w \in Servers : req[w].key \in Keys
    BY DEF ReplayTyped, ReplayTypeOK, Request
  <1>. QED
    BY <1>1, AppliedEffect

LEMMA GuardedStep == ReplayTyped /\ GuardedOnce /\ [ReplayNext]_replayVars => GuardedOnce'
  <1> SUFFICES ASSUME ReplayTyped, GuardedOnce, [ReplayNext]_replayVars, NEW k \in Guarded
               PROVE  applied'[k] <= 1
    BY DEF GuardedOnce
  <1>1. applied \in [Keys -> Nat] /\ k \in Keys
        /\ \A w \in Servers : req[w].key \in Keys
    BY ReplayAssumption DEF ReplayTyped, ReplayTypeOK, Request
  <1>2. CASE applied' = applied
    BY <1>2 DEF GuardedOnce
  <1>3. ASSUME NEW w \in Servers, ~RefConflict(req[w].key),
               applied' = [applied EXCEPT ![req[w].key] = @ + 1]
        PROVE  applied'[k] <= 1
    BY <1>1, <1>3 DEF RefConflict, GuardedOnce
  <1>. QED
    BY <1>2, <1>3, AppliedEffect

(* However attempts overlap, crash, are lost or forgotten, a checkout or     *)
(* payment is in the database at most once.                                  *)
THEOREM GuardedRecordedOnce == ReplaySpec => []GuardedOnce
  <1>1. ReplayInit => GuardedOnce
    <2>1. Guarded \subseteq Keys
      BY ReplayAssumption
    <2>2. ReplayInit => \A k \in Guarded : applied[k] = 0
      BY <2>1 DEF ReplayInit
    <2>. QED
      BY <2>2 DEF GuardedOnce
  <1>. QED
    BY <1>1, GuardedStep, AlwaysTyped, PTL DEF ReplaySpec

(***************************************************************************)
(* Answers are true.                                                       *)
(***************************************************************************)

LEMMA AnswersInit == ReplayInit => AnswersTrue
  <1>1. NoRequest.outcome = "none" /\ NoRecord.outcome = "none"
    BY DEF NoRequest, NoRecord
  <1>. QED
    BY <1>1 DEF ReplayInit, AnswersTrue

(* A write in the database after a step was there before or was inserted by  *)
(* it: the four places where "recorded" may be said, one step at a time.     *)
LEMMA AnswersStep == ReplayTyped /\ AnswersTrue /\ [ReplayNext]_replayVars => AnswersTrue'
  <1> SUFFICES ASSUME ReplayTyped, AnswersTrue, [ReplayNext]_replayVars,
                      NEW k \in Keys, applied'[k] = 0
               PROVE  /\ answer'[k] # "recorded" /\ records'[k].outcome # "recorded"
                      /\ \A p \in pending' : p # [key |-> k, outcome |-> "recorded"]
                      /\ \A w \in Servers : req'[w].key = k => req'[w].outcome # "recorded"
    BY DEF AnswersTrue
  <1> DEFINE True == /\ answer'[k] # "recorded" /\ records'[k].outcome # "recorded"
                     /\ \A p \in pending' : p # [key |-> k, outcome |-> "recorded"]
                     /\ \A w \in Servers : req'[w].key = k => req'[w].outcome # "recorded"
  <1>0. applied[k] = 0
    BY AppliedGrows
  <1>t. ReplayTypeOK
    BY DEF ReplayTyped
  <1>h. /\ answer[k] # "recorded" /\ records[k].outcome # "recorded"
        /\ \A p \in pending : p # [key |-> k, outcome |-> "recorded"]
        /\ \A w \in Servers : req[w].key = k => req[w].outcome # "recorded"
    BY <1>0 DEF AnswersTrue
  <1>n. NoRequest.outcome = "none" /\ NoRecord.outcome = "none"
    BY DEF NoRequest, NoRecord
  <1>1. ASSUME NEW w \in Servers, NEW j \in Keys, Send(w, j)
        PROVE  True
    BY <1>1, <1>t, <1>h DEF Send, ReplayTypeOK
  <1>2. ASSUME NEW w \in Servers, NEW phase, NEW res, NEW outcome,
               Goto(w, phase, res, outcome),
               req[w].key = k => outcome # "recorded",
               UNCHANGED <<answer, records, pending>>
        PROVE  True
    BY <1>2, <1>t, <1>h DEF Goto, ReplayTypeOK
  <1>3. ASSUME NEW w \in Servers, Serve(w)
        PROVE  True
    <2>1. CASE Lookup(w)
      BY <2>1, <1>2, <1>h DEF Lookup
    <2>2. CASE CheckRef(w)
      BY <2>2, <1>2, <1>0 DEF CheckRef
    <2>3. CASE Execute(w)
      <3>1. req[w].key # k
        <4>1. applied \in [Keys -> Nat] /\ req[w].key \in Keys
          BY <1>t DEF ReplayTypeOK, Request
        <4>. QED
          BY <4>1, <2>3, <1>0 DEF Execute, RefConflict
      <3>. QED
        BY <2>3, <3>1, <1>2 DEF Execute
    <2>4. CASE Reject(w) \/ Fail(w)
      BY <2>4, <1>2 DEF Reject, Fail
    <2>. QED
      BY <1>3, <2>1, <2>2, <2>3, <2>4 DEF Serve
  <1>4. ASSUME NEW w \in Servers, Answer(w) \/ LoseReply(w)
        PROVE  True
    <2>1. \A p \in pending' : p # [key |-> k, outcome |-> "recorded"]
      BY <1>4, <1>h DEF Answer, LoseReply, BeginStore
    <2>2. answer'[k] # "recorded"
      BY <1>4, <1>h, <1>t DEF Answer, LoseReply, ReplayTypeOK
    <2>3. req' = [req EXCEPT ![w] = NoRequest] /\ records' = records
      BY <1>4 DEF Answer, LoseReply
    <2>4. \A u \in Servers : req'[u].key = k => req'[u].outcome # "recorded"
      BY <2>3, <1>h, <1>n, <1>t DEF ReplayTypeOK
    <2>. QED
      BY <2>1, <2>2, <2>3, <2>4, <1>h
  <1>5. ASSUME NEW p \in pending, Store(p) \/ StoreFails(p)
        PROVE  True
    <2>1. p.key \in Keys /\ p = [key |-> p.key, outcome |-> p.outcome]
      BY <1>t DEF ReplayTypeOK
    <2>2. p.key = k => p.outcome # "recorded"
      BY <2>1, <1>h
    <2>3. records'[k] = records[k]
          \/ (p.key = k /\ records'[k] = [outcome |-> p.outcome, at |-> now])
      BY <1>5, <2>1, <1>t DEF Store, StoreFails, ReplayTypeOK
    <2>4. records'[k].outcome # "recorded"
      BY <2>2, <2>3, <1>h
    <2>. QED
      BY <1>5, <2>4, <1>h DEF Store, StoreFails
  <1>6. CASE Crash
    BY <1>6, <1>h, <1>n DEF Crash
  <1>7. CASE Purge
    <2>1. records'[k] = records[k] \/ records'[k] = NoRecord
      BY <1>7 DEF Purge
    <2>. QED
      BY <1>7, <2>1, <1>h, <1>n DEF Purge
  <1>8. CASE Tick \/ UNCHANGED replayVars
    BY <1>8, <1>h DEF Tick, replayVars
  <1>. QED
    BY <1>1, <1>3, <1>4, <1>5, <1>6, <1>7, <1>8 DEF ReplayNext

(* No till, stored response or response on its way ever says "recorded" of a *)
(* write that is not in the database, whatever fails and however old.        *)
THEOREM AnswersAreTrue == ReplaySpec => []AnswersTrue
  BY AnswersInit, AnswersStep, AlwaysTyped, PTL DEF ReplaySpec

(***************************************************************************)
(* Refinement of RecordedOnce.                                             *)
(***************************************************************************)

LEMMA RefinesInit == ReplayInit => Once!Init
  BY ReplayAssumption DEF ReplayInit, Once!Init

(* Only an insert the index lets through records, and only an answer that is *)
(* final tells.                                                              *)
LEMMA RefinesStep ==
  ASSUME ReplayTyped, GuardedOnce, AnswersTrue, [ReplayNext]_replayVars
  PROVE  [Once!Next]_<<[k \in Guarded |-> applied[k]], [k \in Guarded |-> answer[k]]>>
  <1> DEFINE aa == [k \in Guarded |-> applied[k]]
             bb == [k \in Guarded |-> answer[k]]
  <1>t. /\ applied \in [Keys -> Nat] /\ answer \in [Keys -> Answers]
        /\ \A w \in Servers : req[w].key \in Keys
    BY DEF ReplayTyped, ReplayTypeOK, Request
  <1>g. Guarded \subseteq Keys
    BY ReplayAssumption
  <1>1. CASE answer' = answer
    <2>1. CASE applied' = applied
      BY <1>1, <2>1
    <2>2. ASSUME NEW w \in Servers, ~RefConflict(req[w].key),
                 applied' = [applied EXCEPT ![req[w].key] = @ + 1]
          PROVE  [Once!Next]_<<aa, bb>>
      <3>1. CASE req[w].key \in Guarded
        <4>1. applied[req[w].key] = 0
          BY <2>2, <3>1, <1>t DEF RefConflict
        <4>2. Once!Record(req[w].key)
          BY <1>1, <1>t, <1>g, <2>2, <3>1, <4>1 DEF Once!Record
        <4>. QED
          BY <4>2, <3>1 DEF Once!Next, Once!Record, Once!Tell
      <3>2. CASE req[w].key \notin Guarded
        <4>1. aa' = aa /\ bb' = bb
          BY <1>1, <1>t, <1>g, <2>2, <3>2
        <4>. QED
          BY <4>1
      <3>. QED
        BY <3>1, <3>2
    <2>. QED
      BY <2>1, <2>2, AppliedEffect
  <1>2. ASSUME NEW w \in Servers, Answer(w)
        PROVE  [Once!Next]_<<aa, bb>>
    <2> DEFINE k == req[w].key
    <2>1. applied' = applied
      BY <1>2 DEF Answer
    <2>2. CASE answer[k] = "none" /\ req[w].outcome \in Answers /\ k \in Guarded
      <3>1. req[w].outcome \in {"recorded", "rejected"}
        BY <1>2, <2>2 DEF Answer, Answers, ReplayTyped, ReplyInv
      <3>2. answer' = [answer EXCEPT ![k] = req[w].outcome]
        BY <1>2, <2>2 DEF Answer
      <3>3. req[w].outcome = "recorded" => applied[k] = 1
        BY <2>2, <1>t, <1>g DEF AnswersTrue, GuardedOnce
      <3>4. bb' = [bb EXCEPT ![k] = req[w].outcome] /\ bb[k] = "none" /\ aa' = aa
            /\ aa[k] = applied[k]
        BY <3>2, <2>1, <2>2, <1>t, <1>g
      <3>5. Once!Tell(k)
        BY <3>1, <3>3, <3>4 DEF Once!Tell
      <3>. QED
        BY <3>5, <2>2 DEF Once!Next, Once!Record, Once!Tell
    <2>3. CASE ~(answer[k] = "none" /\ req[w].outcome \in Answers)
      <3>1. answer' = answer
        BY <1>2, <2>3 DEF Answer
      <3>. QED
        BY <1>1, <3>1
    <2>4. CASE k \notin Guarded
      <3>1. bb' = bb /\ aa' = aa
        BY <1>2, <2>1, <2>4, <1>t, <1>g DEF Answer
      <3>. QED
        BY <3>1
    <2>. QED
      BY <2>2, <2>3, <2>4
  <1>3. answer' = answer \/ \E w \in Servers : Answer(w)
    BY DEF ReplayNext, Serve, Send, Lookup, CheckRef, Execute, Reject, Fail, LoseReply,
           Store, StoreFails, Crash, Purge, Tick, replayVars
  <1>. QED
    BY <1>1, <1>2, <1>3

(* The replay machinery implements RecordedOnce for checkouts and payments.  *)
THEOREM ImplementsRecordedOnce == ReplaySpec => RecordsOnce
  BY RefinesInit, RefinesStep, AlwaysTyped, GuardedRecordedOnce, AnswersAreTrue, PTL
     DEF ReplaySpec, RecordsOnce, Once!Spec
(***************************************************************************)
(* Writes without a clientRef.                                             *)
(***************************************************************************)

(* What the till and the cron must guarantee for idempotency_record alone to *)
(* dedupe: retries follow their attempts, nothing fails, and the retention   *)
(* covers the replay window.                                                 *)
Serial == ~Overlap /\ Window <= Retention

LEMMA SerialInit == ReplayInit => SerialCore
  <1> SUFFICES ASSUME ReplayInit, NEW k \in Keys PROVE Alone(k) /\ Remembered(k)
    BY DEF SerialCore
  <1>1. NoRequest.phase = "idle"
    BY DEF NoRequest
  <1>2. \A w \in Servers : ~Busy(w, k)
    BY <1>1 DEF ReplayInit, Busy
  <1>3. Alone(k)
    BY <1>2 DEF Alone
  <1>4. applied[k] = 0 /\ now = 0 /\ queuedAt[k] = -1 /\ records[k] = NoRecord
        /\ pending = {}
    BY DEF ReplayInit, NotQueued
  <1>5. Remembered(k)
    BY <1>4 DEF Remembered
  <1>. QED
    BY <1>3, <1>5

(* A step that leaves a key's data and requests alone keeps what is said     *)
(* of the key.                                                               *)
LEMMA OtherKey ==
  ASSUME NEW k \in Keys, Alone(k), Remembered(k), now' = now,
         queuedAt'[k] = queuedAt[k], answer'[k] = answer[k],
         applied'[k] = applied[k], records'[k] = records[k],
         \A p \in pending : p.key = k => p \in pending',
         \A p \in pending' : p.key = k => p \in pending,
         \A u \in Servers : Busy(u, k)' => Busy(u, k),
         \A u \in Servers : Busy(u, k) => Busy(u, k)' /\ req'[u] = req[u]
  PROVE  Alone(k)' /\ Remembered(k)'
  <1>1. Known(k) => Known(k)'
    BY DEF Known
  <1>2. Alone(k)'
    BY DEF Alone
  <1>3. Remembered(k)'
    BY <1>1 DEF Remembered
  <1>. QED
    BY <1>2, <1>3

(* Facts of typing the leaves below need.                                    *)
LEMMA Shapes ==
  ASSUME ReplayTyped
  PROVE  /\ now \in Nat /\ queuedAt \in [Keys -> Nat \cup {NotQueued}]
         /\ answer \in [Keys -> Answers] /\ applied \in [Keys -> Nat]
         /\ DOMAIN req = Servers /\ req = [u \in Servers |-> req[u]]
         /\ \A u \in Servers : req[u].key \in Keys
         /\ \A r \in Keys : records[r] # NoRecord => records[r].at \in Nat
         /\ records = [r \in Keys |-> records[r]]
         /\ \A p \in pending : p.key \in Keys /\ p.outcome \in Outcomes
         /\ NotQueued = -1 /\ Window \in Nat /\ Retention \in Nat
  BY ReplayAssumption DEF ReplayTyped, ReplayTypeOK, NotQueued, Request

LEMMA SerialSend ==
  ASSUME ReplayTyped, SerialCore, Serial, NEW w \in Servers, NEW j \in Keys, Send(w, j),
         NEW k \in Keys
  PROVE  Alone(k)' /\ Remembered(k)'
  <1>0. Alone(k) /\ Remembered(k)
    BY DEF SerialCore
  <1>1. Quiet(j)
    BY DEF Send, Serial
  <1>2. CASE k # j
    <2>1. \A u \in Servers : Busy(u, k)' => Busy(u, k)
      BY <1>2, Shapes DEF Send, Busy
    <2>2. \A u \in Servers : Busy(u, k) => Busy(u, k)' /\ req'[u] = req[u]
      BY <1>2, Shapes DEF Send, Busy
    <2>3. queuedAt'[k] = queuedAt[k]
      BY <1>2, Shapes DEF Send
    <2>. QED
      BY <1>0, <2>1, <2>2, <2>3, OtherKey DEF Send
  <1>3. CASE k = j
    <2>1. \A u \in Servers : ~Busy(u, k)
      BY <1>1, <1>3 DEF Quiet, Busy
    <2>2. \A u \in Servers : Busy(u, k)' => u = w
      BY <2>1, Shapes DEF Send, Busy
    <2>3. req'[w].phase = "lookup" /\ req'[w].outcome = "none"
      BY Shapes DEF Send
    <2>4. /\ queuedAt'[k] # NotQueued /\ queuedAt'[k] <= now
          /\ queuedAt[k] # NotQueued => queuedAt'[k] = queuedAt[k]
          /\ queuedAt[k] = NotQueued => queuedAt'[k] = now
      BY <1>0, <1>3, Shapes DEF Send, Remembered
    <2>5. k \in Guarded \/ now - queuedAt'[k] <= Window
      BY <2>4, <1>3, Shapes DEF Send, MayReplay
    <2>6. Alone(k)'
      BY <1>1, <1>3, <2>2, <2>3, <2>4, <2>5 DEF Alone, Send, Quiet
    <2>7. records[k] # NoRecord => queuedAt'[k] <= records[k].at 
      BY <1>0, <2>4 DEF Remembered
    <2>8. Known(k) => Known(k)'
      BY <2>1 DEF Known, Send
    <2>9. Remembered(k)'
      BY <1>0, <2>2, <2>3, <2>4, <2>5, <2>7, <2>8 DEF Remembered, Send
    <2>. QED
      BY <2>6, <2>9
  <1>. QED
    BY <1>2, <1>3

(* One step of the request for j, seen from another key.                     *)
LEMMA GotoOther ==
  ASSUME ReplayTyped, NEW w \in Servers, NEW k \in Keys, k # req[w].key,
         NEW phase, NEW res, NEW outcome, Goto(w, phase, res, outcome)
  PROVE  /\ \A u \in Servers : Busy(u, k)' => Busy(u, k)
         /\ \A u \in Servers : Busy(u, k) => Busy(u, k)' /\ req'[u] = req[u]
  BY Shapes DEF Goto, Busy

(* ... and from its own key: it is still the only one.                       *)
LEMMA GotoOwn ==
  ASSUME ReplayTyped, NEW w \in Servers, Alone(req[w].key), req[w].phase # "idle",
         NEW phase, NEW res, NEW outcome, Goto(w, phase, res, outcome)
  PROVE  /\ \A u \in Servers : Busy(u, req[w].key)' => u = w
         /\ \A u \in Servers : Busy(u, req[w].key) => u = w
         /\ req'[w] = [phase |-> phase, key |-> req[w].key, res |-> res,
                       outcome |-> outcome]
         /\ phase # "idle" => Busy(w, req[w].key)'
  <1>1. Busy(w, req[w].key)
    BY DEF Busy
  <1>2. \A u \in Servers : Busy(u, req[w].key) => u = w
    BY <1>1 DEF Alone
  <1>. QED
    BY <1>2, Shapes DEF Goto, Busy

LEMMA SerialServe ==
  ASSUME ReplayTyped, SerialCore, Serial, NEW w \in Servers, Serve(w), NEW k \in Keys
  PROVE  Alone(k)' /\ Remembered(k)'
  <1>0. Alone(k) /\ Remembered(k)
    BY DEF SerialCore
  <1>f. ~Faults
    BY DEF Serial, Overlap, Faults
  <1>i. req[w].phase # "idle"
    BY DEF Serve, Lookup, CheckRef, Execute, Reject, Fail
  <1>1. CASE k # req[w].key
    <2>1. UNCHANGED <<now, queuedAt, answer, records, pending>> /\ applied'[k] = applied[k]
      BY <1>1, Shapes DEF Serve, Lookup, CheckRef, Execute, Reject, Fail
    <2>2. PICK phase, res, outcome : Goto(w, phase, res, outcome)
      BY DEF Serve, Lookup, CheckRef, Execute, Reject, Fail
    <2>. QED
      BY <1>0, <1>1, <2>1, <2>2, GotoOther, OtherKey
  <1>2. CASE k = req[w].key
    <2>0. Busy(w, k) /\ \A p \in pending : p.key # k
      BY <1>0, <1>2, <1>i DEF Busy, Alone
    <2>a. /\ answer[k] = "none" /\ queuedAt[k] # NotQueued
          /\ k \in Guarded \/ now - queuedAt[k] <= Window
      BY <1>0, <2>0 DEF Alone
    <2>1. CASE Lookup(w)
      <3>1. CASE records[k] # NoRecord /\ Goto(w, "reply", "plain", records[k].outcome)
        <4>1. /\ \A u \in Servers : Busy(u, k)' => u = w
              /\ req'[w] = [phase |-> "reply", key |-> k, res |-> "plain",
                            outcome |-> records[k].outcome]
          BY <1>0, <1>2, <1>i, <3>1, GotoOwn
        <4>2. Alone(k)'
          BY <2>0, <2>a, <2>1, <4>1 DEF Alone, Lookup
        <4>3. Known(k)'
          BY <2>1, <3>1 DEF Known, Lookup
        <4>4. Remembered(k)'
          BY <1>0, <2>1, <4>1, <4>3 DEF Remembered, Lookup
        <4>. QED
          BY <4>2, <4>4
      <3>2. CASE records[k] = NoRecord /\ Goto(w, Handler(k), "intercepted", "none")
        <4>1. /\ \A u \in Servers : Busy(u, k)' => u = w
              /\ \A u \in Servers : Busy(u, k) => u = w
              /\ req'[w] = [phase |-> Handler(k), key |-> k, res |-> "intercepted",
                            outcome |-> "none"]
          BY <1>0, <1>2, <1>i, <3>2, GotoOwn
        <4>2. ~Known(k)
          BY <2>0, <2>1, <3>2, <4>1 DEF Known, Lookup
        <4>3. k \notin Guarded => applied[k] = 0
          BY <1>0, <2>a, <4>2, Shapes DEF Remembered
        <4>4. Handler(k) \in {"check", "run"} /\ (Handler(k) = "run" => k \notin Guarded)
          BY DEF Handler
        <4>5. Alone(k)'
          BY <2>0, <2>a, <2>1, <3>2, <4>1, <4>3, <4>4 DEF Alone, Lookup
        <4>6. Remembered(k)'
          BY <1>0, <2>1, <3>2, <4>1, <4>3, Shapes DEF Remembered, Lookup
        <4>. QED
          BY <4>5, <4>6
      <3>. QED
        BY <1>2, <1>f, <2>1, <3>1, <3>2 DEF Lookup
    <2>2. CASE CheckRef(w)
      <3>0. records[k] = NoRecord /\ req[w].res = "intercepted"
        BY <1>0, <2>0, <2>2 DEF Alone, CheckRef
      <3>1. CASE applied[k] > 0 /\ Goto(w, "reply", req[w].res, "recorded")
        <4>1. /\ \A u \in Servers : Busy(u, k)' => u = w
              /\ Busy(w, k)'
              /\ req'[w] = [phase |-> "reply", key |-> k, res |-> req[w].res,
                            outcome |-> "recorded"]
          BY <1>0, <1>2, <1>i, <3>1, GotoOwn
        <4>2. Alone(k)'
          BY <2>0, <2>a, <2>2, <4>1 DEF Alone, CheckRef
        <4>3. Known(k)'
          BY <3>0, <4>1 DEF Known, Storable
        <4>4. Remembered(k)'
          BY <1>0, <2>2, <4>1, <4>3 DEF Remembered, CheckRef
        <4>. QED
          BY <4>2, <4>4
      <3>2. CASE ~(applied[k] > 0) /\ Goto(w, "run", req[w].res, "none")
        <4>1. /\ \A u \in Servers : Busy(u, k)' => u = w
              /\ req'[w] = [phase |-> "run", key |-> k, res |-> req[w].res,
                            outcome |-> "none"]
          BY <1>0, <1>2, <1>i, <3>2, GotoOwn
        <4>2. applied[k] = 0
          BY <3>2, Shapes
        <4>3. Alone(k)'
          BY <2>0, <2>a, <2>2, <3>0, <4>1, <4>2 DEF Alone, CheckRef
        <4>4. Remembered(k)'
          BY <1>0, <2>2, <4>2 DEF Remembered, CheckRef
        <4>. QED
          BY <4>3, <4>4
      <3>. QED
        BY <1>2, <2>2, <3>1, <3>2 DEF CheckRef
    <2>3. CASE Execute(w)
      <3>0. records[k] = NoRecord /\ req[w].res = "intercepted" /\ applied[k] = 0
        BY <1>0, <2>0, <2>3 DEF Alone, Execute
      <3>1. applied'[k] = 1 /\ Goto(w, "reply", req[w].res, "recorded")
        BY <1>2, <1>f, <2>3, <3>0, Shapes DEF Execute, RefConflict
      <3>2. /\ \A u \in Servers : Busy(u, k)' => u = w
            /\ Busy(w, k)'
            /\ req'[w] = [phase |-> "reply", key |-> k, res |-> req[w].res,
                          outcome |-> "recorded"]
        BY <1>0, <1>2, <1>i, <3>1, GotoOwn
      <3>3. Alone(k)'
        BY <2>0, <2>a, <2>3, <3>2 DEF Alone, Execute
      <3>4. Known(k)'
        BY <3>0, <3>2 DEF Known, Storable
      <3>5. NoRecord.outcome # "rejected"
        BY DEF NoRecord
      <3>6. Remembered(k)'
        BY <1>0, <2>0, <2>a, <2>3, <3>0, <3>1, <3>2, <3>4, <3>5 DEF Remembered, Execute
      <3>. QED
        BY <3>3, <3>6
    <2>4. CASE Reject(w)
      <3>0. applied[k] = 0
        BY <1>0, <2>0, <2>4 DEF Alone, Reject
      <3>1. PICK outcome : Goto(w, "reply", req[w].res, outcome)
        BY <2>4 DEF Reject
      <3>2. /\ \A u \in Servers : Busy(u, k)' => u = w
            /\ req'[w] = [phase |-> "reply", key |-> k, res |-> req[w].res,
                          outcome |-> outcome]
        BY <1>0, <1>2, <1>i, <3>1, GotoOwn
      <3>3. Alone(k)'
        BY <2>0, <2>a, <2>4, <3>2 DEF Alone, Reject
      <3>4. Remembered(k)'
        BY <1>0, <2>4, <3>0 DEF Remembered, Reject
      <3>. QED
        BY <3>3, <3>4
    <2>. QED
      BY <1>f, <2>1, <2>2, <2>3, <2>4 DEF Serve, Fail
  <1>. QED
    BY <1>1, <1>2

LEMMA SerialReply ==
  ASSUME ReplayTyped, SerialCore, Serial, NEW w \in Servers, Answer(w) \/ LoseReply(w),
         NEW k \in Keys
  PROVE  Alone(k)' /\ Remembered(k)'
  <1>0. Alone(k) /\ Remembered(k) /\ NoRequest.phase = "idle"
    BY DEF SerialCore, NoRequest
  <1>a. /\ UNCHANGED <<now, queuedAt, applied, records>>
        /\ req' = [req EXCEPT ![w] = NoRequest] /\ req[w].phase = "reply"
        /\ pending' = pending \/ pending' = pending \cup
               {[key |-> req[w].key, outcome |-> req[w].outcome]}
        /\ req[w].res = "intercepted" /\ Storable(req[w].outcome) =>
               [key |-> req[w].key, outcome |-> req[w].outcome] \in pending'
    BY DEF Answer, LoseReply, BeginStore
  <1>b. answer' = answer \/ answer' = [answer EXCEPT ![req[w].key] = req[w].outcome]
    BY DEF Answer, LoseReply
  <1>c. \A u \in Servers : Busy(u, k)' => Busy(u, k) /\ u # w /\ req'[u] = req[u]
    BY <1>0, <1>a, Shapes DEF Busy
  <1>1. CASE k # req[w].key
    <2>1. \A u \in Servers : Busy(u, k) => Busy(u, k)' /\ req'[u] = req[u]
      BY <1>1, <1>a, Shapes DEF Busy
    <2>2. answer'[k] = answer[k]
      BY <1>1, <1>b, Shapes
    <2>3. \A p \in pending' : p.key = k => p \in pending
      BY <1>1, <1>a
    <2>. QED
      BY <1>0, <1>a, <1>c, <2>1, <2>2, <2>3, OtherKey
  <1>2. CASE k = req[w].key
    <2>1. Busy(w, k)
      BY <1>2, <1>a DEF Busy
    <2>2. \A u \in Servers : ~Busy(u, k)'
      BY <1>0, <1>c, <2>1 DEF Alone
    <2>3. Alone(k)'
      BY <2>2 DEF Alone
    <2>4. Known(k) => Known(k)'
      <3>1. ASSUME NEW u \in Servers, Busy(u, k), req[u].phase = "reply",
                   req[u].res = "intercepted", Storable(req[u].outcome)
            PROVE  Known(k)'
        <4>1. u = w
          BY <1>0, <2>1, <3>1 DEF Alone
        <4>2. PICK p \in pending' : p = [key |-> k, outcome |-> req[w].outcome]
          BY <1>2, <1>a, <3>1, <4>1
        <4>. QED
          BY <4>2 DEF Known
      <3>. QED
        BY <1>a, <3>1 DEF Known
    <2>5. applied[k] > 0 => req[w].outcome # "rejected"
      BY <1>0, <2>1 DEF Remembered
    <2>6. applied[k] > 0 => answer'[k] # "rejected"
      BY <1>0, <1>b, <1>2, <2>5, Shapes DEF Remembered
    <2>7. applied[k] > 0 => \A p \in pending' : p.key = k => p.outcome # "rejected"
      BY <1>0, <1>a, <1>2, <2>5 DEF Remembered
    <2>8. queuedAt[k] # NotQueued
      BY <1>0, <2>1 DEF Alone
    <2>9. Remembered(k)'
      BY <1>0, <1>a, <2>2, <2>4, <2>6, <2>7, <2>8 DEF Remembered
    <2>. QED
      BY <2>3, <2>9
  <1>. QED
    BY <1>1, <1>2

LEMMA SerialStore ==
  ASSUME ReplayTyped, SerialCore, Serial, NEW p \in pending, Store(p), NEW k \in Keys
  PROVE  Alone(k)' /\ Remembered(k)'
  <1>0. Alone(k) /\ Remembered(k)
    BY DEF SerialCore
  <1>1. CASE k # p.key
    <2>1. \A q \in pending : q.key = k => q \in pending'
      BY <1>1 DEF Store
    <2>2. records'[k] = records[k]
      BY <1>1, Shapes DEF Store
    <2>3. UNCHANGED <<now, queuedAt, answer, applied, req>> /\ pending' \subseteq pending
      BY DEF Store
    <2>4. \A u \in Servers : Busy(u, k)' <=> Busy(u, k)
      BY <2>3 DEF Busy
    <2>. QED
      BY <1>0, <2>1, <2>2, <2>3, <2>4, OtherKey
  <1>2. CASE k = p.key
    <2>1. UNCHANGED <<now, queuedAt, answer, applied, req>> /\ pending' \subseteq pending
      BY DEF Store
    <2>2. \A u \in Servers : ~Busy(u, k)
      BY <1>0, <1>2 DEF Alone
    <2>3. \A u \in Servers : ~Busy(u, k)'
      BY <2>1, <2>2 DEF Busy
    <2>4. Alone(k)'
      BY <2>3 DEF Alone
    <2>5. \/ records'[k] = records[k] /\ records[k] # NoRecord
          \/ records'[k] = [outcome |-> p.outcome, at |-> now]
      BY <1>2, Shapes DEF Store
    <2>6. records'[k] # NoRecord
      BY <2>5, Shapes DEF NoRecord, Outcomes
    <2>7. Known(k)'
      BY <2>6 DEF Known
    <2>8. applied[k] > 0 => p.outcome # "rejected"
      BY <1>0, <1>2 DEF Remembered
    <2>9. applied[k] > 0 => records'[k].outcome # "rejected"
      BY <1>0, <2>5, <2>8 DEF Remembered
    <2>10. queuedAt[k] # NotQueued /\ queuedAt[k] <= records'[k].at
      BY <1>0, <1>2, <2>5 DEF Remembered
    <2>11. Remembered(k)'
      BY <1>0, <2>1, <2>3, <2>7, <2>9, <2>10 DEF Remembered
    <2>. QED
      BY <2>4, <2>11
  <1>. QED
    BY <1>1, <1>2

(* An expired record is of a write that is too old to replay.                *)
LEMMA SerialPurge ==
  ASSUME ReplayTyped, SerialCore, Serial, Purge, NEW k \in Keys
  PROVE  Alone(k)' /\ Remembered(k)'
  <1>0. Alone(k) /\ Remembered(k)
    BY DEF SerialCore
  <1>1. UNCHANGED <<now, queuedAt, answer, applied, pending, req>>
    BY DEF Purge
  <1>2. \A u \in Servers : Busy(u, k)' <=> Busy(u, k)
    BY <1>1 DEF Busy
  <1>3. CASE Expired(records[k])
    <2>1. records'[k] = NoRecord
      BY <1>3 DEF Purge
    <2>2. now - queuedAt[k] > Window
      BY <1>0, <1>3, Shapes DEF Expired, Remembered, Serial
    <2>3. NoRecord.outcome # "rejected"
      BY DEF NoRecord
    <2>4. Alone(k)'
      BY <1>0, <1>1, <1>2, <2>1 DEF Alone
    <2>5. Remembered(k)'
      BY <1>0, <1>1, <1>2, <2>1, <2>2, <2>3 DEF Remembered
    <2>. QED
      BY <2>4, <2>5
  <1>4. CASE ~Expired(records[k])
    <2>1. records'[k] = records[k]
      BY <1>4 DEF Purge
    <2>. QED
      BY <1>0, <1>1, <1>2, <2>1, OtherKey
  <1>. QED
    BY <1>3, <1>4

LEMMA SerialTick ==
  ASSUME ReplayTyped, SerialCore, Serial, Tick, NEW k \in Keys
  PROVE  Alone(k)' /\ Remembered(k)'
  <1>0. Alone(k) /\ Remembered(k)
    BY DEF SerialCore
  <1>1. UNCHANGED <<queuedAt, answer, applied, records, pending, req>> /\ now' = now + 1
    BY DEF Tick
  <1>2. \A u \in Servers : ~Busy(u, k)
    BY DEF Tick, Serial, Busy
  <1>3. \A u \in Servers : ~Busy(u, k)'
    BY <1>1, <1>2 DEF Busy
  <1>4. Known(k) => Known(k)'
    BY <1>1, <1>2 DEF Known
  <1>5. now' >= now /\ queuedAt[k] <= now' /\ (now - queuedAt[k] > Window => now' - queuedAt[k] > Window)
    BY <1>0, <1>1, Shapes DEF Remembered
  <1>6. Alone(k)'
    BY <1>3 DEF Alone
  <1>7. Remembered(k)'
    BY <1>0, <1>1, <1>3, <1>4, <1>5 DEF Remembered
  <1>. QED
    BY <1>6, <1>7

LEMMA SerialStep ==
  ASSUME ReplayTyped, SerialCore, Serial, [ReplayNext]_replayVars
  PROVE  SerialCore'
  <1> SUFFICES ASSUME NEW k \in Keys PROVE Alone(k)' /\ Remembered(k)'
    BY DEF SerialCore
  <1>1. CASE UNCHANGED replayVars
    <2>1. Alone(k) /\ Remembered(k)
      BY DEF SerialCore
    <2>. QED
      BY <1>1, <2>1, OtherKey DEF replayVars, Busy
  <1>2. ~Crash /\ \A p \in pending : ~StoreFails(p)
    BY DEF Crash, StoreFails, Serial, Overlap, Faults
  <1>. QED
    BY <1>1, <1>2, SerialSend, SerialServe, SerialReply, SerialStore, SerialPurge,
       SerialTick DEF ReplayNext

\* A behaviour keeps its regime.
LEMMA RegimeStays == ASSUME [ReplayNext]_replayVars PROVE regime' = regime
  BY DEF ReplayNext, replayVars, Send, Serve, Lookup, CheckRef, Execute, Reject, Fail, Answer,
         LoseReply, Store, StoreFails, Crash, Purge, Tick

LEMMA AlwaysSerial == ASSUME Window <= Retention PROVE ReplaySpec => []SerialInv
  <1>1. ReplayInit => SerialInv
    BY SerialInit DEF SerialInv
  <1>2. SerialInv /\ ReplayTyped /\ [ReplayNext]_replayVars => SerialInv'
    BY SerialStep, RegimeStays DEF SerialInv, Serial, Overlap
  <1>. QED
    BY <1>1, <1>2, AlwaysTyped, PTL DEF ReplaySpec

\* When retries follow their attempts, nothing fails and the retention covers
\* the replay window, the records alone let every write be applied once.
THEOREM PlainAppliedOnce == ASSUME Window <= Retention PROVE ReplaySpec => []PlainOnce
  <1>1. SerialInv => PlainOnce
    BY DEF SerialInv, SerialCore, Remembered, PlainOnce
  <1>. QED
    BY <1>1, AlwaysSerial, PTL

\* Under the same assumption a till that was told "rejected" may key the
\* write in again: it is not in the database.
THEOREM RejectionsHold == ASSUME Window <= Retention PROVE ReplaySpec => []RejectedNotApplied
  <1>1. ReplayTyped /\ SerialInv => RejectedNotApplied
    <2> SUFFICES ASSUME ReplayTyped, SerialInv, ~Overlap, NEW k \in Keys, answer[k] = "rejected"
                 PROVE  applied[k] = 0
      BY DEF RejectedNotApplied
    <2>. QED
      BY Shapes DEF SerialInv, SerialCore, Remembered
  <1>. QED
    BY <1>1, AlwaysSerial, AlwaysTyped, PTL

\* When the retention covers the replay window, answers are true, and retries
\* that follow their attempts neither double a write nor contradict a refusal.
THEOREM AnswersStayTrue == ASSUME Window <= Retention PROVE ReplaySpec => []AnswersHold
  BY AnswersAreTrue, PlainAppliedOnce, RejectionsHold, PTL DEF AnswersHold
=============================================================================
