-------------------------- MODULE HeldValueProofs --------------------------
(***************************************************************************)
(* Proofs about HeldValue, for any number of sales, subscriptions and      *)
(* workers: types; that a quota is conserved and never overdrawn, that     *)
(* what is left of it can be used and that usage rows explain the rest;    *)
(* that a voucher is spent once; that what is shut past its end, or        *)
(* cancelled, stays so; that milestone vouchers are within the spend.      *)
(* From there on, proofs about Tenancy, which use none of these: trials,   *)
(* payments, that nothing is lost, that the databases agree, and charges.  *)
(***************************************************************************)
EXTENDS HeldValueInvariants, TenancyInvariants, SumLemmas

LEMMA NoPlanMade ==
    /\ NoPlan \in Plan /\ NoPlan.op = "idle" /\ NoPlan.voucher = 0 /\ NoPlan.pack = "none"
    /\ NoPlan.turns = "same" /\ NoPlan.becomes = "same"
    /\ DOMAIN NoPlan = {"op", "sale", "voucher", "becomes", "pack", "qty", "seen", "turns"}
<1>1. (CHOOSE s \in Sales : TRUE) \in Sales
  BY HeldAssumption
<1>2. QED
  BY <1>1 DEF NoPlan, Plan

LEMMA SellPlanned ==
    ASSUME TypeOK, NEW w \in Workers, NEW s \in Sales, NEW i \in Ids \cup {0},
           NEW k \in Packs \cup {"none"}, NEW n \in Units, Sell(w, s, i, k, n)
    PROVE  \E p : Begin(w, p) /\ Planned(p)
<1> DEFINE becomes == IF i = 0 THEN "same" ELSE "REDEEMED"
           p == [NoPlan EXCEPT !.op = "sell", !.sale = s, !.voucher = i, !.becomes = becomes]
<1>0. i \in Nat /\ becomes \in {"same", "REDEEMED"}
  BY DEF TypeOK, Ids
<1>1. p \in Plan /\ p.op = "sell" /\ p.voucher = i /\ p.becomes = becomes /\ p.pack = "none"
  BY NoPlanMade, <1>0 DEF Plan, Ops
<1>2. CASE k = "none"
  <2>1. Begin(w, p)
    BY <1>2 DEF Sell
  <2>2. Planned(p)
    BY <1>1 DEF Planned, Formed, UsesPack, RestoresPack, UsesVoucher, Requests
  <2>3. QED
    BY <2>1, <2>2
<1>3. CASE k # "none"
  <2> DEFINE c == Covered(k, n)
             q == Using(p, k, c)
  <2>1. k \in Packs /\ Begin(w, q) /\ Usable(k) /\ c > 0
    BY <1>3 DEF Sell
  <2>2. c \in Nat /\ c >= 1 /\ (k \in Usage => c <= pack[k].left)
    BY <2>1, HeldAssumption DEF Covered, Lesser, TypeOK, PackRow
  <2>3. pack[k].version \in Nat
    BY <2>1 DEF TypeOK, PackRow
  <2>4. Exhausted(k, c) \in {"same", "EXPIRED"}
    BY DEF Exhausted
  <2> HIDE DEF p, c
  <2>5. /\ q \in Plan /\ q.op = "sell" /\ q.voucher = i /\ q.becomes = p.becomes
        /\ q.pack = k /\ q.qty = c /\ q.seen = pack[k].version /\ q.turns = Exhausted(k, c)
    BY <1>1, <2>1, <2>2, <2>3, <2>4 DEF Using, Plan
  <2>6. Planned(q)
    BY <1>1, <2>1, <2>2, <2>5 DEF Planned, Formed, UsesPack, RestoresPack, UsesVoucher, Requests
  <2>7. QED
    BY <2>1, <2>6
<1>4. QED
  BY <1>2, <1>3

LEMMA ReversePlanned ==
    ASSUME TypeOK, NEW w \in Workers, NEW s \in Sales, Reverse(w, s)
    PROVE  \E p : Begin(w, p) /\ Planned(p)
<1> DEFINE k == sale[s].pack
           n == Returned(s, k)
           t == Reactivated(k)
           p == [NoPlan EXCEPT !.op = "reverse", !.sale = s]
           q == IF k \in Usage THEN [p EXCEPT !.pack = k, !.qty = n, !.turns = t] ELSE p
<1>1. p \in Plan /\ p.op = "reverse" /\ p.sale = s /\ p.voucher = 0 /\ p.pack = "none"
  BY NoPlanMade DEF Plan, Ops
<1>2. k \in Packs \cup {"none"} /\ (k \in Usage => k \in Packs /\ n \in Nat)
  BY HeldAssumption DEF TypeOK, SaleRow, Returned, UsageRow
<1>3. t \in {"same", "ACTIVE"}
  BY DEF Reactivated
<1> HIDE DEF p, n, t
<1>4. /\ q \in Plan /\ q.op = "reverse" /\ q.sale = s /\ q.voucher = 0
      /\ q.pack # "none" => q.pack \in Usage /\ q.pack = k /\ q.qty = n /\ q.turns = t
  <2>1. CASE k \in Usage
    BY <2>1, <1>1, <1>2, <1>3 DEF Plan
  <2>2. CASE k \notin Usage
    BY <2>2, <1>1
  <2>3. QED
    BY <2>1, <2>2
<1> HIDE DEF q
<1>5. CASE Restorable(s) = {} /\ Begin(w, q)
  <2>1. Planned(q)
    BY <1>4, <1>5 DEF Planned, Formed, UsesPack, RestoresPack, UsesVoucher, Requests, Reverse, n, t
  <2>2. QED
    BY <1>5, <2>1
<1>6. ASSUME NEW i \in Restorable(s),
             Begin(w, [q EXCEPT !.voucher = i, !.becomes = IF voucher[i].ends = "later"
                                                       THEN "ACTIVE" ELSE "EXPIRED"])
      PROVE  \E r : Begin(w, r) /\ Planned(r)
  <2> DEFINE b == IF voucher[i].ends = "later" THEN "ACTIVE" ELSE "EXPIRED"
             r == [q EXCEPT !.voucher = i, !.becomes = b]
  <2>1. i \in Ids /\ i \in Nat /\ i # 0
    BY DEF Restorable, Ids, TypeOK
  <2>2. b \in {"ACTIVE", "EXPIRED"}
    OBVIOUS
  <2>3. Begin(w, r)
    BY <1>6
  <2> HIDE DEF b
  <2>4. /\ r \in Plan /\ r.op = "reverse" /\ r.sale = s /\ r.voucher = i /\ r.becomes = b
        /\ r.pack = q.pack /\ r.qty = q.qty /\ r.turns = q.turns
    BY <1>4, <2>1, <2>2 DEF Plan
  <2> HIDE DEF r
  <2>5. Planned(r)
    BY <1>4, <2>1, <2>2, <2>4 DEF Planned, Formed, UsesPack, RestoresPack, UsesVoucher, Requests, Reverse, n, t
  <2>6. QED
    BY <2>3, <2>5
<1>7. QED
  BY <1>5, <1>6 DEF Reverse, q, p, n, t

LEMMA ManualPlanned ==
    ASSUME TypeOK, NEW w \in Workers, NEW k \in Packs
    PROVE  /\ Subscribe(w, k) => \E p : Begin(w, p) /\ Planned(p)
           /\ Cancel(w, k) => \E p : Begin(w, p) /\ Planned(p)
           /\ \A s \in Sales, n \in Units : RecordUsage(w, s, k, n) => \E p : Begin(w, p) /\ Planned(p)
<1>0. k # "none"
  BY HeldAssumption
<1>1. ASSUME Subscribe(w, k) PROVE \E p : Begin(w, p) /\ Planned(p)
  <2> DEFINE p == [NoPlan EXCEPT !.op = "subscribe", !.pack = k]
  <2>1. p \in Plan /\ p.op = "subscribe" /\ p.pack = k /\ p.voucher = 0 /\ p.turns = "same"
    BY NoPlanMade DEF Plan, Ops
  <2>2. Planned(p)
    BY <1>1, <2>1 DEF Planned, Formed, UsesPack, RestoresPack, UsesVoucher, Requests, Subscribe
  <2>3. QED
    BY <1>1, <2>2 DEF Subscribe
<1>2. ASSUME Cancel(w, k) PROVE \E p : Begin(w, p) /\ Planned(p)
  <2> DEFINE p == [NoPlan EXCEPT !.op = "cancel", !.pack = k, !.turns = "CANCELLED"]
  <2>1. p \in Plan /\ p.op = "cancel" /\ p.pack = k /\ p.voucher = 0 /\ p.turns = "CANCELLED"
    BY NoPlanMade DEF Plan, Ops
  <2>2. Planned(p)
    BY <1>2, <2>1 DEF Planned, Formed, UsesPack, RestoresPack, UsesVoucher, Requests, Cancel
  <2>3. QED
    BY <1>2, <2>2 DEF Cancel
<1>3. ASSUME NEW s \in Sales, NEW n \in Units, RecordUsage(w, s, k, n)
      PROVE  \E p : Begin(w, p) /\ Planned(p)
  <2> DEFINE p == [NoPlan EXCEPT !.op = "record", !.sale = s]
             q == Using(p, k, n)
  <2>1. p \in Plan /\ p.op = "record" /\ p.voucher = 0 /\ p.sale = s
    BY NoPlanMade DEF Plan, Ops
  <2>2. Begin(w, q) /\ Usable(k) /\ n \in Nat /\ n >= 1 /\ (k \in Usage => n <= pack[k].left)
    BY <1>3, HeldAssumption DEF RecordUsage, TypeOK, PackRow
  <2>3. pack[k].version \in Nat /\ Exhausted(k, n) \in {"same", "EXPIRED"}
    BY DEF TypeOK, PackRow, Exhausted
  <2> HIDE DEF p
  <2>4. /\ q \in Plan /\ q.op = "record" /\ q.sale = s /\ q.voucher = 0 /\ q.pack = k /\ q.qty = n
        /\ q.seen = pack[k].version /\ q.turns = Exhausted(k, n)
    BY <2>1, <2>2, <2>3 DEF Using, Plan
  <2>5. Planned(q)
    BY <1>0, <1>3, <2>2, <2>4 DEF Planned, Formed, UsesPack, RestoresPack, UsesVoucher, Requests,
                                  RecordUsage
  <2>6. QED
    BY <2>2, <2>5
<1>4. QED
  BY <1>1, <1>2, <1>3

LEMMA StepCases ==
    ASSUME TypeOK, [Next]_vars
    PROVE  \/ \E w \in Workers : \E p : Begin(w, p) /\ Planned(p)
           \/ \E w \in Workers : Commit(w)
           \/ Shelved \/ Dated \/ Granted \/ Aside
           \/ \E s \in Sales : Reopen(s)
           \/ \E i \in Ids : Lapse(i)
           \/ UNCHANGED vars
<1>1. ASSUME NEW w \in Workers, NEW s \in Sales,
             \/ \E i \in Ids \cup {0}, k \in Packs \cup {"none"}, n \in Units : Sell(w, s, i, k, n)
             \/ Reverse(w, s)
             \/ \E k \in Packs, n \in Units : RecordUsage(w, s, k, n)
      PROVE  \E p : Begin(w, p) /\ Planned(p)
  BY <1>1, SellPlanned, ReversePlanned, ManualPlanned
<1>2. ASSUME NEW w \in Workers, NEW k \in Packs, Subscribe(w, k) \/ Cancel(w, k)
      PROVE  \E p : Begin(w, p) /\ Planned(p)
  BY <1>2, ManualPlanned
<1>3. CASE Next
  BY <1>1, <1>2, <1>3 DEF Next, Shelved, Dated, Granted, Aside
<1>4. QED
  BY <1>3

----------------------------------------------------------------------------

LEMMA VoucherRow ==
    ASSUME TypeOK, NEW i \in Ids
    PROVE  voucher[i] \in Voucher
<1>1. voucher \in Seq(Voucher) /\ i \in DOMAIN voucher
  BY DEF TypeOK, Ids
<1> HIDE DEF Voucher
<1>2. QED
  BY <1>1

LEMMA TypedInit == Init => Typed
<1> SUFFICES ASSUME Init PROVE Typed
  OBVIOUS
<1>1. \A w \in Workers : NoCheck \in Check
  BY DEF NoCheck, Check
<1>2. /\ pack \in [Packs -> PackRow] /\ usage \in [Sales -> [Packs -> UsageRow]]
      /\ sale \in [Sales -> SaleRow] /\ \A s \in Sales : sale[s].voucher = 0
  BY DEF Init, PackRow, UsageRow, SaleRow
<1>3. tx \in [Workers -> Plan] /\ \A w \in Workers : tx[w].voucher = 0
  BY NoPlanMade DEF Init
<1>4. voucher \in Seq(Voucher) /\ check \in [Workers -> Check]
  BY <1>1 DEF Init
<1>5. mix \in Mixes /\ spend = 0 /\ due = 0 /\ peak = 0 /\ raced = {} /\ doubled \in BOOLEAN
  BY DEF Init
<1>5a. TypeOK
  BY <1>2, <1>3, <1>4, <1>5 DEF TypeOK
<1>6. Means
  BY <1>3 DEF Means
<1>7. QED
  BY <1>5a, <1>6 DEF Typed

LEMMA TypedBegin ==
    ASSUME Typed, NEW w \in Workers, NEW p, Begin(w, p), Planned(p)
    PROVE  Typed'
<1>1. /\ p \in Plan /\ p.voucher \in Ids \cup {0}
      /\ p.voucher # 0 => p.becomes # "same"
  BY DEF Planned, Formed, UsesVoucher, Requests
<1>2. tx' \in [Workers -> Plan]
  BY <1>1 DEF Begin, Typed, TypeOK
<1>3. \A v \in Workers : tx'[v] = tx[v] \/ tx'[v] = p
  BY DEF Begin, Typed, TypeOK
<1>4. raced' \subseteq Packs
  BY DEF Begin, Typed, TypeOK
<1>5. UNCHANGED <<mix, voucher, pack, usage, sale, spend, due, check, peak, doubled>>
  BY DEF Begin, counters
<1>6. TypeOK'
  BY <1>1, <1>2, <1>3, <1>4, <1>5 DEF Typed, TypeOK, Ids
<1>7. Means'
  BY <1>1, <1>3 DEF Typed, Means
<1>8. QED
  BY <1>6, <1>7 DEF Typed

\* What a commit does to the rows it names.
LEMMA TurnedType ==
    ASSUME Typed, NEW p \in Plan, p.pack \in Packs
    PROVE  /\ Turned(pack[p.pack], p) \in PackRow
           /\ Taken(p) \in Int
<1>1. Taken(p) \in Int
  BY DEF Plan, Taken
<1>2. Fresh(p.pack) \in PackRow
  BY HeldAssumption DEF Fresh, PackRow
<1>3. pack[p.pack] \in PackRow
  BY DEF Typed, TypeOK
<1> DEFINE l == IF p.pack \in Usage THEN pack[p.pack].left - Taken(p) ELSE pack[p.pack].left
           u == pack[p.pack].used + Taken(p)
           v == IF Taken(p) > 0 THEN pack[p.pack].version + 1 ELSE pack[p.pack].version
           t == IF p.turns = "same" THEN pack[p.pack].status ELSE p.turns
<1>4. /\ l \in Int /\ u \in Int /\ v \in Nat
      /\ t \in {"none", "ACTIVE", "EXPIRED", "CANCELLED"}
  BY <1>1, <1>3 DEF PackRow, Plan
<1>5. Turned(pack[p.pack], p) = IF p.op = "subscribe" THEN Fresh(p.pack)
        ELSE [pack[p.pack] EXCEPT !.left = l, !.used = u, !.version = v, !.status = t]
  BY DEF Turned
<1> HIDE DEF l, u, v, t
<1>6. [pack[p.pack] EXCEPT !.left = l, !.used = u, !.version = v, !.status = t] \in PackRow
  BY <1>3, <1>4 DEF PackRow
<1>7. QED
  BY <1>1, <1>2, <1>5, <1>6

LEMMA TypedCommit ==
    ASSUME Typed, NEW w \in Workers, Commit(w)
    PROVE  Typed'
<1>0. PICK p : p = tx[w]
  OBVIOUS
<1>1. /\ p \in Plan /\ p.voucher \in Ids \cup {0} /\ p.sale \in Sales /\ p.op # "idle"
      /\ p.voucher # 0 => p.becomes # "same"
  BY <1>0 DEF Typed, TypeOK, Means, Plan, Commit
<1>2. voucher' \in Seq(Voucher) /\ Ids' = Ids
  <2>1. CASE p.voucher = 0
    BY <1>0, <2>1 DEF Commit, Typed, TypeOK, Ids
  <2>2. CASE p.voucher # 0
    <3>1. Redeemed(voucher[p.voucher], p) \in Voucher
      <4>1. voucher[p.voucher] \in Voucher
        BY <1>1, <2>2, VoucherRow DEF Typed
      <4>2. p.becomes \in {"ACTIVE", "REDEEMED", "EXPIRED"}
        BY <1>1, <2>2 DEF Plan
      <4>3. QED
        BY <1>1, <4>1, <4>2 DEF Redeemed, Voucher
    <3>2. QED
      BY <1>0, <1>1, <2>2, <3>1 DEF Commit, Typed, TypeOK, Ids
  <2>3. QED
    BY <2>1, <2>2
<1>3. pack' \in [Packs -> PackRow]
  <2>1. p.pack # "none" => p.pack \in Packs
    BY <1>1 DEF Plan
  <2>2. p.pack # "none" => Turned(pack[p.pack], p) \in PackRow
    BY <1>1, <2>1, TurnedType
  <2>3. QED
    BY <1>0, <2>1, <2>2 DEF Commit, Typed, TypeOK
<1>4. usage' \in [Sales -> [Packs -> UsageRow]]
  <2>1. p.pack # "none" => p.pack \in Packs
    BY <1>1 DEF Plan
  <2>2. \A row \in UsageRow : RowOf(row, p) \in UsageRow
    BY <1>1 DEF RowOf, UsageRow, Plan
  <2>3. QED
    BY <1>0, <1>1, <2>1, <2>2 DEF Commit, Typed, TypeOK
<1>5. /\ sale' \in [Sales -> SaleRow]
      /\ \A s \in Sales : sale'[s].voucher \in Ids \cup {0}
  <2>1. \A row \in SaleRow : /\ Became(row, p) \in SaleRow
                             /\ Became(row, p).voucher \in {row.voucher, p.voucher}
    <3>1. p.voucher \in Nat /\ p.pack \in Packs \cup {"none"}
      BY <1>1 DEF Plan
    <3> SUFFICES ASSUME NEW row \in SaleRow
                 PROVE  /\ Became(row, p) \in SaleRow
                        /\ Became(row, p).voucher \in {row.voucher, p.voucher}
      OBVIOUS
    <3>2. CASE p.op = "sell"
      <4>1. Became(row, p) = [row EXCEPT !.state = "completed", !.voucher = p.voucher,
                                         !.pack = p.pack]
        BY <3>2 DEF Became
      <4>2. QED
        BY <3>1, <4>1 DEF SaleRow
    <3>3. CASE p.op # "sell"
      <4> DEFINE n == row.reversals + 1
      <4>1. Became(row, p) = [row EXCEPT !.state = "reversed", !.reversals = n] /\ n \in Nat
        BY <3>3 DEF Became, SaleRow
      <4> HIDE DEF n
      <4>2. QED
        BY <4>1 DEF SaleRow
    <3>4. QED
      BY <3>2, <3>3
  <2>2. QED
    BY <1>0, <1>1, <2>1 DEF Commit, Typed, TypeOK
<1>6. spend' \in Int /\ peak' \in Int /\ due' \in Nat
  BY DEF Commit, Typed, TypeOK, Spent, More
<1>7. /\ tx' \in [Workers -> Plan]
      /\ \A v \in Workers : tx'[v] = tx[v] \/ tx'[v] = NoPlan
  BY NoPlanMade DEF Commit, Typed, TypeOK
<1>8. TypeOK'
  BY <1>2, <1>3, <1>4, <1>5, <1>6, <1>7, NoPlanMade DEF Commit, Typed, TypeOK
<1>9. Means'
  BY <1>7, NoPlanMade DEF Typed, Means
<1>10. QED
  BY <1>8, <1>9 DEF Typed

LEMMA IssuedType == ASSUME NEW by \in {"hand", "rule"} PROVE Issued(by) \in Voucher
BY DEF Issued, Voucher

LEMMA CountType == ASSUME TypeOK PROVE Cardinality(Counted) \in Nat
<1>1. Ids = 1..Len(voucher) /\ Len(voucher) \in Nat
  BY DEF TypeOK, Ids
<1>2. IsFiniteSet(Ids)
  BY <1>1, FS_Interval
<1>3. Counted \subseteq Ids
  BY DEF Counted, By
<1>4. QED
  BY <1>2, <1>3, FS_Subset, FS_CardinalityType

LEMMA TypedStep == Typed /\ [Next]_vars => Typed'
<1> SUFFICES ASSUME Typed, [Next]_vars PROVE Typed'
  OBVIOUS
<1> USE DEF Typed
<1>1. CASE \E w \in Workers : \E p : Begin(w, p) /\ Planned(p)
  BY <1>1, TypedBegin
<1>2. CASE \E w \in Workers : Commit(w)
  BY <1>2, TypedCommit
<1>3. CASE Shelved
  <2>1. /\ tx' \in [Workers -> Plan] /\ check' \in [Workers -> Check] /\ due' \in Nat
        /\ \A v \in Workers : tx'[v] = tx[v] \/ tx'[v] = NoPlan
    BY <1>3, NoPlanMade DEF Shelved, Restart, Abort, counters, TypeOK, NoCheck, Check
  <2>2. UNCHANGED <<mix, voucher, pack, usage, sale, spend, peak, raced, doubled>>
    BY <1>3 DEF Shelved, Restart, Abort, counters
  <2>3. QED
    BY <2>1, <2>2, NoPlanMade DEF TypeOK, Means, Ids
<1>4. CASE Dated
  <2>1. pack' \in [Packs -> PackRow]
    <3>1. pack \in [Packs -> PackRow]
      BY DEF TypeOK
    <3>2. CASE Expire
      BY <3>1, <3>2 DEF Expire, PackRow
    <3>3. ASSUME NEW k \in Packs, Ends(k) PROVE pack' \in [Packs -> PackRow]
      BY <3>1, <3>3 DEF Ends, PackRow
    <3>4. QED
      BY <1>4, <3>2, <3>3 DEF Dated
  <2>2. UNCHANGED <<mix, voucher, usage, sale, spend, due, check, tx, peak, raced, doubled>>
    BY <1>4 DEF Dated, Ends, Expire, counters
  <2>3. QED
    BY <2>1, <2>2 DEF TypeOK, Means, Ids
<1>5. CASE Granted
  <2>1. voucher' \in Seq(Voucher) /\ Ids \subseteq Ids'
    <3>1. voucher \in Seq(Voucher) /\ Issued("hand") \in Voucher /\ Issued("rule") \in Voucher
      BY IssuedType DEF TypeOK
    <3>2. \/ voucher' = voucher \/ voucher' = Append(voucher, Issued("hand"))
          \/ voucher' = Append(voucher, Issued("rule"))
      BY <1>5 DEF Granted, IssueVoucher, InsertVoucher
    <3> HIDE DEF Voucher, Issued
    <3>3. QED
      BY <3>1, <3>2 DEF Ids
  <2>2. check' \in [Workers -> Check]
    <3>1. check \in [Workers -> Check] /\ NoCheck \in Check
      BY DEF TypeOK, NoCheck, Check
    <3>2. ASSUME NEW w \in Workers, InsertVoucher(w) PROVE check' \in [Workers -> Check]
      <4>1. PICK c \in Check : c = check[w]
        BY <3>1
      <4> DEFINE n == c.slot + 1
      <4>2. [c EXCEPT !.phase = "counting", !.slot = n] \in Check
        <5>1. n \in Nat
          BY DEF Check
        <5> HIDE DEF n
        <5>2. QED
          BY <5>1 DEF Check
      <4>3. QED
        BY <3>1, <3>2, <4>1, <4>2 DEF InsertVoucher
    <3>3. QED
      BY <1>5, <3>1, <3>2 DEF Granted, IssueVoucher, counters
  <2>3. UNCHANGED <<mix, pack, usage, sale, spend, due, tx, peak, raced, doubled>>
    BY <1>5 DEF Granted, IssueVoucher, InsertVoucher, counters
  <2>4. QED
    BY <2>1, <2>2, <2>3 DEF TypeOK, Means
<1>6. CASE Aside
  <2>1. check' \in [Workers -> Check] /\ due' \in Nat /\ doubled' \in BOOLEAN
    <3>1. /\ check \in [Workers -> Check] /\ spend \in Int /\ due \in Nat /\ doubled \in BOOLEAN
          /\ Cardinality(Counted) \in Nat
      BY CountType DEF TypeOK
    <3>2. ASSUME NEW w \in Workers, StartCheck(w)
          PROVE  check' \in [Workers -> Check] /\ due' \in Nat /\ doubled' \in BOOLEAN
      <4> DEFINE c == [NoCheck EXCEPT !.spend = spend,
                          !.phase = IF Expected(spend) > 0 THEN "counting" ELSE "idle"]
      <4>1. c \in Check
        BY <3>1 DEF Check, NoCheck
      <4>2. doubled' \in BOOLEAN
        BY <3>2 DEF StartCheck
      <4> HIDE DEF c
      <4>3. check' = [check EXCEPT ![w] = c] /\ due > 0 /\ due' = due - 1
        BY <3>2 DEF StartCheck, c
      <4>4. QED
        BY <3>1, <4>1, <4>2, <4>3
    <3>3. ASSUME NEW w \in Workers, CountVouchers(w)
          PROVE  check' \in [Workers -> Check] /\ due' \in Nat /\ doubled' \in BOOLEAN
      BY <3>1, <3>3 DEF CountVouchers, Check
    <3>4. QED
      BY <1>6, <3>2, <3>3 DEF Aside
  <2>2. UNCHANGED <<mix, voucher, pack, usage, sale, spend, tx, peak, raced>>
    BY <1>6 DEF Aside, StartCheck, CountVouchers
  <2>3. QED
    BY <2>1, <2>2 DEF TypeOK, Means, Ids
<1>7. CASE \E s \in Sales : Reopen(s)
  <2>1. /\ sale' \in [Sales -> SaleRow] /\ \A s \in Sales : sale'[s].voucher = sale[s].voucher
        /\ UNCHANGED <<mix, voucher, pack, usage, spend, due, check, tx, peak, raced, doubled>>
    <3>1. PICK s \in Sales : Reopen(s)
      BY <1>7
    <3>2. sale \in [Sales -> SaleRow]
      BY DEF TypeOK
    <3>3. QED
      BY <3>1, <3>2 DEF Reopen, counters, SaleRow
  <2>2. QED
    BY <2>1 DEF TypeOK, Means, Ids
<1>8. CASE \E i \in Ids : Lapse(i)
  <2>1. /\ voucher' \in Seq(Voucher) /\ Ids' = Ids
        /\ UNCHANGED <<mix, pack, usage, sale, spend, due, check, tx, peak, raced, doubled>>
    <3>1. PICK i \in Ids : Lapse(i)
      BY <1>8
    <3>2. voucher \in Seq(Voucher) /\ [voucher[i] EXCEPT !.ends = "past"] \in Voucher
      BY VoucherRow DEF TypeOK, Voucher
    <3>3. QED
      BY <3>1, <3>2 DEF Lapse, counters, Ids
  <2>2. QED
    BY <2>1 DEF TypeOK, Means
<1>9. CASE UNCHANGED vars
  BY <1>9 DEF vars, TypeOK, Means, Ids
<1>10. QED
  BY <1>1, <1>2, <1>3, <1>4, <1>5, <1>6, <1>7, <1>8, <1>9, StepCases

(* Vouchers, subscriptions, usage, sales, plans and milestone checks keep    *)
(* their types.                                                              *)
THEOREM TypeCorrect == Spec => []TypeOK
<1>1. Spec => []Typed
  BY TypedInit, TypedStep, PTL DEF Spec
<1>2. Typed => TypeOK
  BY DEF Typed
<1>3. QED
  BY <1>1, <1>2, PTL

----------------------------------------------------------------------------
(* Quota.  A plan to take uses fits what is left for as long as the version  *)
(* it read stands: restorations leave the version alone, but only add.       *)

LEMMA QuotaInit == Init => QuotaInv
<1> SUFFICES ASSUME Init PROVE QuotaInv
  OBVIOUS
<1>1. Counts /\ Bought
  BY DEF Init, Counts, Bought
<1>2. Kept
  BY HeldAssumption DEF Init, Kept
<1>3. AllFit
  BY NoPlanMade DEF Init, AllFit, Fits
<1>4. QED
  BY <1>1, <1>2, <1>3 DEF QuotaInv

LEMMA PlannedFits ==
    ASSUME TypeOK, QuotaInv, NEW p, Planned(p)
    PROVE  Fits(p)
<1> SUFFICES ASSUME p.op # "idle", p.pack # "none" PROVE Fits(p)
  BY DEF Fits
<1>1. p.pack \in Packs /\ p.op \in Requests /\ p \in Plan /\ p.sale \in Sales
  BY DEF Planned, Formed, Plan
<1>2. pack[p.pack] \in PackRow
  BY <1>1 DEF TypeOK
<1>3. CASE p.op \in {"sell", "record"}
  <2>1. /\ Usable(p.pack) /\ p.seen = pack[p.pack].version /\ p.qty >= 1
        /\ p.turns = Exhausted(p.pack, p.qty)
        /\ p.pack \in Usage => p.qty <= pack[p.pack].left
    BY <1>3 DEF Planned, UsesPack
  <2>2. p.qty \in Nat
    BY <1>1 DEF Plan
  <2>3. QED
    BY <1>1, <1>2, <1>3, <2>1, <2>2 DEF Fits, FitsRow, Usable, Exhausted, PackRow
<1>4. CASE p.op = "reverse"
  <2>1. p.pack \in Usage /\ p.pack = sale[p.sale].pack /\ p.qty = Returned(p.sale, p.pack)
    BY <1>4 DEF Planned, RestoresPack
  <2>2. p.qty >= 1
    BY <1>1, <2>1 DEF Returned, QuotaInv, Counts
  <2>3. pack[p.pack].status # "none"
    BY <1>1, <2>1 DEF QuotaInv, Bought
  <2>4. QED
    BY <1>1, <1>4, <2>1, <2>2, <2>3 DEF Fits, FitsRow
<1>5. CASE p.op \in {"cancel", "subscribe"}
  BY <1>1, <1>5 DEF Fits, FitsRow, Planned, UsesPack
<1>6. QED
  BY <1>1, <1>3, <1>4, <1>5 DEF Requests

\* What a commit does to the subscription it names: it is bought, what it
\* must keep it keeps, and every plan that fitted it still fits.
LEMMA RowStep ==
    ASSUME Typed, QuotaInv, NEW p \in Plan, p.pack \in Packs, p.op # "idle", Fits(p), Holds(p),
           NEW row, row = Turned(pack[p.pack], p)
    PROVE  /\ row.status # "none"
           /\ p.pack \in Usage => Sound(row)
           /\ pack[p.pack].status # "none" =>
                /\ row.version >= pack[p.pack].version
                /\ p.pack \in Usage /\ row.version = pack[p.pack].version =>
                      row.left >= pack[p.pack].left
<1> DEFINE k == p.pack
           n == Taken(p)
<1>0. k # "none" /\ p.op \in Requests /\ FitsRow(p, pack[k])
  BY HeldAssumption DEF Fits
<1>1. /\ pack[k].left \in Int /\ pack[k].used \in Int /\ pack[k].version \in Nat
      /\ pack[k].status \in {"none", "ACTIVE", "EXPIRED", "CANCELLED"}
      /\ p.turns \in {"same", "ACTIVE", "EXPIRED", "CANCELLED"} /\ p.qty \in Nat
      /\ pack[k] \in PackRow
  BY DEF Typed, TypeOK, PackRow, Plan
<1>2. CASE p.op = "subscribe"
  <2>1. row = Fresh(k) /\ pack[k].status = "none"
    BY <1>2 DEF Turned, Holds
  <2>2. QED
    BY <2>1, HeldAssumption DEF Fresh, Sound
<1>3. CASE p.op # "subscribe"
  <2>1. pack[k].status # "none" /\ (k \in Usage => Sound(pack[k]))
    BY <1>0, <1>3 DEF FitsRow, QuotaInv, Kept
  <2>2. n \in Int
    BY <1>1 DEF Taken
  <2>3. /\ row.left = IF k \in Usage THEN pack[k].left - n ELSE pack[k].left
        /\ row.used = pack[k].used + n
        /\ row.version = IF n > 0 THEN pack[k].version + 1 ELSE pack[k].version
        /\ row.status = IF p.turns = "same" THEN pack[k].status ELSE p.turns
    BY <1>1, <1>3 DEF Turned, PackRow
  <2>4. CASE p.op \in {"sell", "record"} /\ (p.op = "sell" \/ VersionHeld(p))
    <3>1. n = p.qty /\ n >= 1
      BY <1>0, <2>4 DEF Taken, FitsRow
    <3>2. k \in Usage => p.seen = pack[k].version
      BY <2>4 DEF Holds, VersionHeld
    <3>3. k \in Usage => n <= pack[k].left /\ (p.turns = "same" => n < pack[k].left)
      BY <1>0, <2>4, <3>1, <3>2 DEF FitsRow
    <3>4. p.turns \in {"same", "EXPIRED"}
      BY <1>0, <2>4 DEF FitsRow
    <3> HIDE DEF n
    <3>5. QED
      BY <1>1, <2>1, <2>2, <2>3, <3>1, <3>3, <3>4, HeldAssumption DEF Sound
  <2>5. CASE p.op = "record" /\ ~VersionHeld(p)
    <3>1. n = 0 /\ p.turns \in {"same", "EXPIRED"}
      BY <1>0, <2>5 DEF Taken, FitsRow
    <3> HIDE DEF n
    <3>2. QED
      BY <1>1, <2>1, <2>3, <3>1, HeldAssumption DEF Sound
  <2>6. CASE p.op = "reverse"
    <3>1. k \in Usage /\ n = -p.qty /\ n <= -1
      BY <1>0, <1>1, <2>6 DEF Taken, FitsRow
    <3> HIDE DEF n
    <3>2. QED
      BY <1>1, <2>1, <2>2, <2>3, <3>1, HeldAssumption DEF Sound
  <2>7. CASE p.op = "cancel"
    <3>1. n = 0 /\ p.turns = "CANCELLED"
      BY <1>0, <2>7 DEF Taken, FitsRow
    <3> HIDE DEF n
    <3>2. QED
      BY <1>1, <2>1, <2>3, <3>1, HeldAssumption DEF Sound
  <2>8. QED
    BY <1>0, <1>3, <2>4, <2>5, <2>6, <2>7 DEF Requests
<1>4. QED
  BY <1>2, <1>3

LEMMA QuotaCommit ==
    ASSUME Typed, QuotaInv, NEW w \in Workers, Commit(w)
    PROVE  QuotaInv'
<1>0. PICK p : p = tx[w]
  OBVIOUS
<1>1. /\ p \in Plan /\ p.sale \in Sales /\ p.qty \in Nat /\ p.op # "idle"
      /\ p.pack \in Packs \cup {"none"} /\ Fits(p) /\ Holds(p)
  BY <1>0 DEF Typed, TypeOK, Plan, Commit, QuotaInv, AllFit
<1> DEFINE row == Turned(pack[p.pack], p)
<1>2. /\ pack' = IF p.pack = "none" THEN pack ELSE [pack EXCEPT ![p.pack] = row]
      /\ DOMAIN pack = Packs /\ DOMAIN usage = Sales /\ DOMAIN sale = Sales
      /\ \A s \in Sales : DOMAIN usage[s] = Packs
  BY <1>0 DEF Commit, Typed, TypeOK
<1>3. p.pack # "none" =>
        /\ row.status # "none"
        /\ p.pack \in Usage => Sound(row)
        /\ pack[p.pack].status # "none" =>
             /\ row.version >= pack[p.pack].version
             /\ p.pack \in Usage /\ row.version = pack[p.pack].version =>
                   row.left >= pack[p.pack].left
  BY <1>1, RowStep
<1> HIDE DEF row
<1>4. \A k \in Packs : pack'[k] = IF k = p.pack THEN row ELSE pack[k]
  BY <1>1, <1>2, HeldAssumption
<1>5. Counts'
  <2> SUFFICES ASSUME NEW s \in Sales, NEW k \in Packs, usage'[s][k].state = "live"
               PROVE  usage'[s][k].qty >= 1
    BY DEF Counts
  <2>1. usage' = IF p.pack = "none" THEN usage
                 ELSE [usage EXCEPT ![p.sale][p.pack] = RowOf(@, p)]
    BY <1>0 DEF Commit
  <2>2. usage'[s][k] = usage[s][k] \/ (p.pack # "none" /\ usage'[s][k] = RowOf(usage[s][k], p))
    BY <1>1, <1>2, <2>1
  <2>3. usage[s][k] \in UsageRow /\ (usage[s][k].state = "live" => usage[s][k].qty >= 1)
    BY DEF Typed, TypeOK, QuotaInv, Counts
  <2>4. p.op \in {"sell", "record"} /\ p.pack # "none" => p.qty >= 1
    BY <1>1 DEF Fits, FitsRow
  <2>5. QED
    BY <2>2, <2>3, <2>4 DEF RowOf, UsageRow
<1>6. Bought'
  <2> SUFFICES ASSUME NEW s \in Sales, sale'[s].pack # "none"
               PROVE  pack'[sale'[s].pack].status # "none"
    BY DEF Bought
  <2>1. sale' = IF p.op \in {"sell", "reverse"} THEN [sale EXCEPT ![p.sale] = Became(@, p)] ELSE sale
    BY <1>0 DEF Commit
  <2>2. sale[s] \in SaleRow
    BY DEF Typed, TypeOK
  <2>3. sale'[s].pack = sale[s].pack \/ sale'[s].pack = p.pack
    BY <1>1, <1>2, <2>1, <2>2 DEF Became, SaleRow
  <2>4. sale[s].pack \in Packs \cup {"none"}
    BY <2>2 DEF SaleRow
  <2>5. QED
    BY <1>1, <1>3, <1>4, <2>3, <2>4 DEF QuotaInv, Bought
<1>7. Kept'
  BY <1>3, <1>4, HeldAssumption DEF QuotaInv, Kept
<1>8. AllFit'
  <2> SUFFICES ASSUME NEW v \in Workers PROVE Fits(tx[v])'
    BY DEF AllFit
  <2>1. PICK q : q = tx'[v]
    OBVIOUS
  <2>2. q = NoPlan \/ (q = tx[v] /\ q \in Plan /\ Fits(q))
    BY <1>0, <2>1 DEF Commit, Typed, TypeOK, QuotaInv, AllFit
  <2>3. q.op # "idle" /\ q.pack # "none" =>
          q.op \in Requests /\ FitsRow(q, pack[q.pack]) /\ q \in Plan /\ q.pack \in Packs
    BY <2>2, NoPlanMade DEF Fits, Plan
  <2>4. ASSUME q.op # "idle", q.pack # "none" PROVE FitsRow(q, pack'[q.pack])
    <3>1. CASE q.pack # p.pack
      BY <1>4, <2>3, <2>4, <3>1
    <3>2. CASE q.pack = p.pack
      <4>1. pack'[q.pack] = row /\ p.pack # "none" /\ row.status # "none"
        BY <1>3, <1>4, <2>3, <2>4, <3>2
      <4>2. /\ q.seen \in Nat /\ q.qty \in Nat
            /\ pack[p.pack].version \in Nat /\ pack[p.pack].left \in Int
            /\ row.version \in Nat /\ row.left \in Int
        BY <1>1, <2>3, <2>4, <3>2, TurnedType DEF Plan, Typed, TypeOK, PackRow, row
      <4>3. FitsRow(q, pack[p.pack])
        BY <2>3, <2>4, <3>2
      <4>4. QED
        BY <1>3, <3>2, <4>1, <4>2, <4>3 DEF FitsRow
    <3>3. QED
      BY <3>1, <3>2
  <2>5. QED
    BY <2>1, <2>3, <2>4 DEF Fits
<1>9. QED
  BY <1>5, <1>6, <1>7, <1>8 DEF QuotaInv

LEMMA QuotaStep == Typed /\ QuotaInv /\ [Next]_vars => QuotaInv'
<1> SUFFICES ASSUME Typed, QuotaInv, [Next]_vars PROVE QuotaInv'
  OBVIOUS
<1>t. TypeOK
  BY DEF Typed
<1>1. ASSUME NEW w \in Workers, NEW p, Begin(w, p), Planned(p)
      PROVE  QuotaInv'
  <2>1. UNCHANGED <<pack, usage, sale>> /\ (\A v \in Workers : tx'[v] = tx[v] \/ tx'[v] = p)
    BY <1>1, <1>t DEF Begin, TypeOK
  <2>2. Fits(p)
    BY <1>1, <1>t, PlannedFits
  <2>3. \A v \in Workers : Fits(tx[v])'
    BY <2>1, <2>2 DEF Fits, QuotaInv, AllFit
  <2>4. QED
    BY <2>1, <2>3 DEF QuotaInv, Counts, Bought, Kept, AllFit
<1>2. ASSUME NEW w \in Workers, Commit(w) PROVE QuotaInv'
  BY <1>2, QuotaCommit
<1>3. ASSUME UNCHANGED <<pack, usage, sale>>, \A v \in Workers : tx'[v] = tx[v] \/ tx'[v] = NoPlan
      PROVE  QuotaInv'
  <2>1. \A v \in Workers : Fits(tx[v])'
    BY <1>3, NoPlanMade DEF Fits, QuotaInv, AllFit
  <2>2. QED
    BY <1>3, <2>1 DEF QuotaInv, Counts, Bought, Kept, AllFit
<1>4. CASE Shelved
  BY <1>3, <1>4, <1>t DEF Shelved, Restart, Abort, TypeOK
<1>5. CASE Dated
  <2>1. UNCHANGED <<usage, sale, tx>> /\ DOMAIN pack' = DOMAIN pack
    BY <1>5, <1>t DEF Dated, Ends, Expire, TypeOK
  <2>2. \A k \in Packs : pack[k] \in PackRow
    BY <1>t DEF TypeOK
  <2>3. \A k \in Packs :
          /\ pack'[k].left = pack[k].left /\ pack'[k].used = pack[k].used
          /\ pack'[k].version = pack[k].version
          /\ pack'[k].status = pack[k].status
             \/ (pack[k].status = "ACTIVE" /\ pack'[k].status = "EXPIRED")
    <3>1. CASE Expire
      BY <2>2, <3>1 DEF Expire, PastEnd, PackRow
    <3>2. ASSUME NEW k \in Packs, Ends(k)
          PROVE  \A j \in Packs :
                   /\ pack'[j].left = pack[j].left /\ pack'[j].used = pack[j].used
                   /\ pack'[j].version = pack[j].version /\ pack'[j].status = pack[j].status
      BY <2>2, <3>2, <1>t DEF Ends, PackRow, TypeOK
    <3>3. QED
      BY <1>5, <3>1, <3>2 DEF Dated
  <2>4. \A w \in Workers : tx[w].pack \in Packs \cup {"none"}
    BY <1>t DEF TypeOK, Plan
  <2>5. AllFit'
    <3> SUFFICES ASSUME NEW v \in Workers PROVE Fits(tx[v])'
      BY DEF AllFit
    <3>1. PICK q : q = tx[v]
      OBVIOUS
    <3>2. Fits(q) /\ tx'[v] = q /\ q.pack \in Packs \cup {"none"}
      BY <2>1, <2>4, <3>1 DEF QuotaInv, AllFit
    <3>3. q.pack # "none" /\ FitsRow(q, pack[q.pack]) => FitsRow(q, pack'[q.pack])
      BY <2>3, <3>2 DEF FitsRow
    <3>4. QED
      BY <3>2, <3>3 DEF Fits
  <2>6. Kept'
    BY <2>3, HeldAssumption DEF QuotaInv, Kept, Sound
  <2>7. Bought'
    <3>1. \A s \in Sales : sale[s].pack \in Packs \cup {"none"}
      BY <1>t DEF TypeOK, SaleRow
    <3>2. QED
      BY <2>1, <2>3, <3>1 DEF QuotaInv, Bought
  <2>8. QED
    BY <2>1, <2>5, <2>6, <2>7 DEF QuotaInv, Counts
<1>6. CASE Granted \/ Aside \/ \E i \in Ids : Lapse(i)
  BY <1>3, <1>6 DEF Granted, IssueVoucher, InsertVoucher, Aside, StartCheck, CountVouchers, Lapse, counters
<1>7. CASE \E s \in Sales : Reopen(s)
  <2>1. UNCHANGED <<pack, usage, tx>> /\ \A s \in Sales : sale'[s].pack = sale[s].pack
    BY <1>7, <1>t DEF Reopen, TypeOK, SaleRow
  <2>2. \A v \in Workers : Fits(tx[v])'
    BY <2>1 DEF Fits, QuotaInv, AllFit
  <2>3. QED
    BY <2>1, <2>2 DEF QuotaInv, Counts, Bought, Kept, AllFit
<1>8. CASE UNCHANGED vars
  BY <1>3, <1>8 DEF vars
<1>9. QED
  BY <1>t, <1>1, <1>2, <1>4, <1>5, <1>6, <1>7, <1>8, StepCases

LEMMA AlwaysSound == Spec => [](Typed /\ QuotaInv)
<1>1. Typed /\ QuotaInv /\ [Next]_vars => (Typed /\ QuotaInv)'
  BY TypedStep, QuotaStep
<1>2. QED
  BY <1>1, TypedInit, QuotaInit, PTL DEF Spec

(* Uses left and uses taken are the quota, whichever checkouts, recorded     *)
(* uses, reversals and cancellations overlap, and no quota is overdrawn.     *)
THEOREM QuotaIsConserved == Spec => []QuotaConserved
<1>1. QuotaInv => QuotaConserved
  BY DEF QuotaInv, Kept, Sound, QuotaConserved
<1>2. QED
  BY <1>1, AlwaysSound, PTL

----------------------------------------------------------------------------
(* Vouchers.  While no sale was reopened, a voucher and the standing sale it *)
(* was redeemed in name each other, and a reversal under way the voucher of  *)
(* its sale.                                                                 *)

LEMMA VoucherInit == Init => VoucherInv
<1> SUFFICES ASSUME Init PROVE VoucherInv
  OBVIOUS
<1>1. Reversed /\ Reverses /\ Names /\ Aimed
  BY NoPlanMade DEF Init, Reversed, Reverses, Names, Aimed
<1>2. Backed
  BY DEF Init, Backed, Ids, Carries
<1>3. QED
  BY <1>1, <1>2 DEF VoucherInv

LEMMA VoucherBegin ==
    ASSUME TypeOK, VoucherInv, NEW w \in Workers, NEW p, Begin(w, p), Planned(p)
    PROVE  VoucherInv'
<1>1. UNCHANGED <<voucher, sale>> /\ \A v \in Workers : tx'[v] = tx[v] \/ tx'[v] = p
  BY DEF Begin, TypeOK
<1>2. p \in Plan /\ p.sale \in Sales /\ p.voucher \in Ids \cup {0} /\ p.op \in Requests
  BY DEF Planned, Formed, Plan
<1>3. /\ p.op = "reverse" => sale[p.sale].state = "completed"
      /\ p.voucher # 0 => p.op \in {"sell", "reverse"}
      /\ p.op = "sell" /\ p.voucher # 0 => p.becomes = "REDEEMED"
      /\ p.op = "reverse" /\ p.voucher # 0 => p.becomes \in {"ACTIVE", "EXPIRED"}
  BY <1>2 DEF Planned, Formed, UsesVoucher, Requests
<1>4. ASSUME NeverReopened, p.op = "reverse" PROVE p.voucher = sale[p.sale].voucher
  <2>1. Backed /\ sale[p.sale].voucher \in Ids \cup {0}
    BY <1>2, <1>4 DEF VoucherInv, TypeOK
  <2>2. CASE p.voucher # 0
    <3>1. p.voucher \in Ids /\ RedeemedIn(p.voucher, p.sale)
      BY <1>2, <1>4, <2>2 DEF Planned, UsesVoucher, Restorable, RedeemedIn
    <3>2. QED
      BY <2>1, <3>1 DEF Backed, RedeemedIn, Carries
  <2>3. CASE p.voucher = 0
    <3>1. Restorable(p.sale) = {}
      BY <1>4, <2>3 DEF Planned, UsesVoucher
    <3>2. sale[p.sale].voucher # 0 => sale[p.sale].voucher \in Restorable(p.sale)
      BY <1>2, <1>3, <1>4, <2>1 DEF Backed, Carries, RedeemedIn, Restorable
    <3>3. QED
      BY <2>3, <3>1, <3>2
  <2>4. QED
    BY <2>2, <2>3
<1>5. Reversed' /\ Reverses' /\ Names'
  BY <1>1, <1>3 DEF VoucherInv, Reversed, Reverses, Names
<1>6. NeverReopened' => Backed' /\ Aimed'
  BY <1>1, <1>4 DEF VoucherInv, NeverReopened, Backed, Aimed, Carries, RedeemedIn, Ids
<1>7. QED
  BY <1>5, <1>6 DEF VoucherInv

LEMMA VoucherCommit ==
    ASSUME Typed, VoucherInv, NEW w \in Workers, Commit(w)
    PROVE  VoucherInv'
<1>0. PICK p : p = tx[w]
  OBVIOUS
<1> DEFINE s == p.sale
           i == p.voucher
<1>1. /\ p \in Plan /\ s \in Sales /\ i \in Ids \cup {0} /\ p.op # "idle" /\ Holds(p)
      /\ i # 0 => p.op \in {"sell", "reverse"} /\ i \in Ids
      /\ p.op = "sell" /\ i # 0 => p.becomes = "REDEEMED"
      /\ p.op = "reverse" /\ i # 0 => p.becomes \in {"ACTIVE", "EXPIRED"}
  BY <1>0 DEF Typed, TypeOK, Plan, Commit, VoucherInv, Names
<1>2. /\ \A v \in Workers : tx'[v] = tx[v] \/ tx'[v] = NoPlan
      /\ \A v \in Workers : tx[v].sale \in Sales
      /\ DOMAIN sale = Sales /\ \A r \in Sales : sale[r] \in SaleRow
  BY DEF Commit, Typed, TypeOK, Plan
<1>3. Ids' = Ids /\ \A j \in Ids : voucher'[j] = IF j = i THEN Redeemed(voucher[j], p) ELSE voucher[j]
  <2>1. voucher' = IF i = 0 THEN voucher ELSE [voucher EXCEPT ![i] = Redeemed(@, p)]
    BY <1>0 DEF Commit
  <2>2. Ids = DOMAIN voucher /\ 0 \notin Ids
    BY DEF Ids, Typed, TypeOK
  <2>3. QED
    BY <1>1, <2>1, <2>2 DEF Ids
<1>4. \A j \in Ids : voucher[j] \in Voucher
  BY VoucherRow DEF Typed
<1>5. \A r \in Sales : sale'[r] = IF r = s /\ p.op \in {"sell", "reverse"}
                                  THEN Became(sale[r], p) ELSE sale[r]
  BY <1>0, <1>1, <1>2 DEF Commit
<1> HIDE DEF s, i
<1>6. CASE p.op = "sell"
  <2>1. /\ sale[s].state = "unrung" /\ (i # 0 => voucher[i].status = "ACTIVE")
        /\ \A r \in Sales \ {s} : sale'[r] = sale[r]
        /\ sale'[s].state = "completed" /\ sale'[s].voucher = i
        /\ sale'[s].reversals = sale[s].reversals
    BY <1>1, <1>2, <1>5, <1>6 DEF Holds, Became, SaleRow, s, i
  <2>2. /\ i # 0 => voucher'[i].status = "REDEEMED" /\ voucher'[i].sale = s
        /\ \A j \in Ids \ {i} : voucher'[j] = voucher[j]
    BY <1>1, <1>3, <1>4, <1>6 DEF Redeemed, Voucher, s, i
  <2>3. Reversed' /\ Names' /\ Reverses'
    BY <1>1, <1>2, <2>1, NoPlanMade DEF VoucherInv, Reversed, Names, Reverses
  <2>4. ASSUME NeverReopened' PROVE Backed' /\ Aimed'
    <3>1. NeverReopened
      BY <1>1, <1>2, <2>1, <2>4 DEF NeverReopened
    <3>2. Aimed'
      BY <1>2, <2>1, <3>1, NoPlanMade DEF VoucherInv, Aimed, Reverses
    <3>3. Backed
      BY <3>1 DEF VoucherInv
    <3>4. \A j \in Ids : j # 0
      BY DEF Typed, TypeOK, Ids
    <3>5. \A j \in Ids : voucher'[j].status = "REDEEMED" =>
                           voucher'[j].sale \in Sales /\ Carries(voucher[j].sale, j)'
      <4>1. SUFFICES ASSUME NEW j \in Ids, voucher'[j].status = "REDEEMED"
                     PROVE  voucher'[j].sale \in Sales /\ Carries(voucher[j].sale, j)'
        OBVIOUS
      <4>2. CASE j = i
        BY <1>1, <2>1, <2>2, <3>4, <4>2 DEF Carries
      <4>3. CASE j # i
        BY <2>1, <2>2, <3>3, <4>1, <4>3 DEF Backed, Carries
      <4>4. QED
        BY <4>2, <4>3
    <3>6. \A r \in Sales, j \in Ids : Carries(r, j)' => RedeemedIn(j, r)'
      BY <1>1, <2>1, <2>2, <3>3, <3>4 DEF Backed, Carries, RedeemedIn
    <3>7. QED
      BY <1>3, <3>2, <3>5, <3>6 DEF Backed
  <2>5. QED
    BY <2>3, <2>4 DEF VoucherInv
<1>7. CASE p.op = "reverse"
  <2>1. /\ sale[s].state = "completed"
        /\ \A r \in Sales \ {s} : sale'[r] = sale[r]
        /\ sale'[s].state = "reversed" /\ sale'[s].voucher = sale[s].voucher
        /\ sale'[s].reversals = sale[s].reversals + 1
    BY <1>1, <1>2, <1>5, <1>7 DEF Holds, Became, SaleRow, s
  <2>2. /\ i # 0 => voucher'[i].status \in {"ACTIVE", "EXPIRED"}
        /\ \A j \in Ids \ {i} : voucher'[j] = voucher[j]
    BY <1>1, <1>3, <1>4, <1>7 DEF Redeemed, Voucher, s, i
  <2>3. \A r \in Sales : sale[r].reversals \in Nat
    BY <1>2 DEF SaleRow
  <2>4. Reversed' /\ Names' /\ Reverses'
    BY <1>1, <1>2, <2>1, <2>3, NoPlanMade DEF VoucherInv, Reversed, Names, Reverses
  <2>5. ASSUME NeverReopened' PROVE Backed' /\ Aimed'
    <3>1. NeverReopened
      BY <1>1, <2>1, <2>3, <2>5 DEF NeverReopened
    <3>2. Backed /\ i = sale[s].voucher
      BY <1>0, <1>7, <3>1 DEF VoucherInv, Aimed, s, i
    <3>3. \A j \in Ids : j # 0
      BY DEF Typed, TypeOK, Ids
    <3>4. Aimed'
      BY <1>1, <1>2, <2>1, <3>1, NoPlanMade DEF VoucherInv, Aimed
    <3>5. \A j \in Ids : voucher'[j].status = "REDEEMED" =>
                           voucher'[j].sale \in Sales /\ Carries(voucher[j].sale, j)'
      <4>1. SUFFICES ASSUME NEW j \in Ids, voucher'[j].status = "REDEEMED"
                     PROVE  voucher'[j].sale \in Sales /\ Carries(voucher[j].sale, j)'
        OBVIOUS
      <4>2. j # i
        BY <2>2, <3>3, <4>1
      <4>3. voucher'[j] = voucher[j] /\ Carries(voucher[j].sale, j) /\ voucher[j].sale \in Sales
        BY <2>2, <3>2, <4>1, <4>2 DEF Backed
      <4>4. voucher[j].sale # s
        BY <3>2, <4>2, <4>3 DEF Carries
      <4>5. QED
        BY <2>1, <4>3, <4>4 DEF Carries
    <3>6. \A r \in Sales, j \in Ids : Carries(r, j)' => RedeemedIn(j, r)'
      BY <1>1, <2>1, <2>2, <3>2 DEF Backed, Carries, RedeemedIn
    <3>7. QED
      BY <1>3, <3>4, <3>5, <3>6 DEF Backed
  <2>6. QED
    BY <2>4, <2>5 DEF VoucherInv
<1>8. CASE p.op \notin {"sell", "reverse"}
  <2>1. /\ \A j \in Ids : voucher'[j] = voucher[j]
        /\ \A r \in Sales : sale'[r] = sale[r]
    <3>1. i = 0 /\ 0 \notin Ids
      BY <1>1, <1>8 DEF Typed, TypeOK, Ids
    <3>2. QED
      BY <1>3, <1>5, <1>8, <3>1
  <2>2. Reversed' /\ Names' /\ Reverses'
    BY <1>2, <2>1, NoPlanMade DEF VoucherInv, Reversed, Names, Reverses
  <2>3. NeverReopened' => Backed' /\ Aimed'
    BY <1>2, <1>3, <2>1, NoPlanMade DEF VoucherInv, NeverReopened, Backed, Aimed, Carries, RedeemedIn
  <2>4. QED
    BY <2>2, <2>3 DEF VoucherInv
<1>9. QED
  BY <1>6, <1>7, <1>8

LEMMA VoucherStep == Typed /\ VoucherInv /\ [Next]_vars => VoucherInv'
<1> SUFFICES ASSUME Typed, VoucherInv, [Next]_vars PROVE VoucherInv'
  OBVIOUS
<1>t. TypeOK
  BY DEF Typed
<1>1. ASSUME NEW w \in Workers, NEW p, Begin(w, p), Planned(p)
      PROVE  VoucherInv'
  BY <1>t, <1>1, VoucherBegin
<1>2. ASSUME NEW w \in Workers, Commit(w) PROVE VoucherInv'
  BY <1>2, VoucherCommit
<1>3. ASSUME UNCHANGED <<voucher, sale>>, \A v \in Workers : tx'[v] = tx[v] \/ tx'[v] = NoPlan
      PROVE  VoucherInv'
  <2>1. Reversed' /\ Reverses' /\ Names'
    BY <1>3, NoPlanMade DEF VoucherInv, Reversed, Reverses, Names
  <2>2. NeverReopened' => Backed' /\ Aimed'
    BY <1>3, NoPlanMade DEF VoucherInv, NeverReopened, Backed, Aimed, Carries, RedeemedIn, Ids
  <2>3. QED
    BY <2>1, <2>2 DEF VoucherInv
<1>4. CASE Shelved \/ Dated \/ Aside \/ UNCHANGED vars
  BY <1>3, <1>4, <1>t DEF Shelved, Restart, Abort, Dated, Ends, Expire, Aside, StartCheck,
                          CountVouchers, vars, TypeOK
<1>5. CASE Granted
  <2>1. PICK by \in {"hand", "rule"} : voucher' = voucher \/ voucher' = Append(voucher, Issued(by))
    BY <1>5 DEF Granted, IssueVoucher, InsertVoucher
  <2>2. UNCHANGED <<sale, tx>>
    BY <1>5 DEF Granted, IssueVoucher, InsertVoucher
  <2>3. CASE voucher' = Append(voucher, Issued(by))
    <3>1. /\ Ids' = Ids \cup {Len(voucher) + 1} /\ Len(voucher) + 1 \notin Ids
          /\ Len(voucher) + 1 # 0
          /\ \A j \in Ids : voucher'[j] = voucher[j]
          /\ voucher'[Len(voucher) + 1] = Issued(by)
      BY <1>t, <2>3 DEF TypeOK, Ids
    <3>2. \A s \in Sales : sale[s].voucher # Len(voucher) + 1
      BY <1>t, <3>1 DEF TypeOK
    <3>3. Issued(by).status = "ACTIVE"
      BY DEF Issued
    <3>4. NeverReopened' => Backed' /\ Aimed'
      BY <2>2, <3>1, <3>2, <3>3 DEF VoucherInv, NeverReopened, Backed, Aimed, Carries, RedeemedIn
    <3>5. QED
      BY <2>2, <3>4 DEF VoucherInv, Reversed, Reverses, Names
  <2>4. CASE voucher' = voucher
    BY <1>3, <2>2, <2>4
  <2>5. QED
    BY <2>1, <2>3, <2>4
<1>6. ASSUME NEW i \in Ids, Lapse(i) PROVE VoucherInv'
  <2>1. /\ UNCHANGED <<sale, tx>> /\ Ids' = Ids
        /\ \A j \in Ids : voucher'[j].status = voucher[j].status /\ voucher'[j].sale = voucher[j].sale
    <3>1. voucher \in Seq(Voucher) /\ \A j \in Ids : voucher[j] \in Voucher
      BY <1>t, VoucherRow DEF TypeOK
    <3>2. QED
      BY <1>6, <3>1 DEF Lapse, Ids, Voucher
  <2>2. NeverReopened' => Backed' /\ Aimed'
    BY <2>1 DEF VoucherInv, NeverReopened, Backed, Aimed, Carries, RedeemedIn
  <2>3. QED
    BY <2>1, <2>2 DEF VoucherInv, Reversed, Reverses, Names
<1>7. ASSUME NEW s \in Sales, Reopen(s) PROVE VoucherInv'
  <2>1. /\ UNCHANGED <<voucher, tx>> /\ sale[s].state = "reversed" /\ sale[s].reversals \in Nat
        /\ \A r \in Sales \ {s} : sale'[r] = sale[r]
        /\ sale'[s].state = "completed" /\ sale'[s].reversals = sale[s].reversals
    BY <1>7, <1>t DEF Reopen, TypeOK, SaleRow
  <2>2. ~NeverReopened'
    BY <2>1 DEF VoucherInv, Reversed, NeverReopened
  <2>3. \A v \in Workers : tx[v].sale \in Sales
    BY <1>t DEF TypeOK, Plan
  <2>4. Reversed' /\ Reverses' /\ Names'
    BY <2>1, <2>3 DEF VoucherInv, Reversed, Reverses, Names
  <2>5. QED
    BY <2>2, <2>4 DEF VoucherInv
<1>8. QED
  BY <1>t, <1>1, <1>2, <1>4, <1>5, <1>6, <1>7, StepCases

(* While no sale was reopened a voucher is spent in one standing sale, the   *)
(* one it names, whichever checkouts and reversals overlap.                  *)
THEOREM VouchersSpentOnce == Spec => []VoucherSpentOnce
<1>1. Typed /\ VoucherInv => VoucherSpentOnce
  <2> SUFFICES ASSUME Typed, VoucherInv, NeverReopened, NEW i \in Ids
               PROVE  {s \in Sales : sale[s].state = "completed" /\ sale[s].voucher = i}
                        = IF voucher[i].status = "REDEEMED" THEN {voucher[i].sale} ELSE {}
    BY DEF VoucherSpentOnce
  <2>1. Backed
    BY DEF VoucherInv
  <2>2. QED
    BY <2>1 DEF Backed, Carries, RedeemedIn
<1>2. QED
  BY <1>1, TypedInit, TypedStep, VoucherInit, VoucherStep, PTL DEF Spec
----------------------------------------------------------------------------
(* Ends.  A subscription that is not sold yet has no end to have passed. *)

LEMMA PastCommit ==
    ASSUME Typed, QuotaInv, Dates, NEW w \in Workers, Commit(w)
    PROVE  Dates' /\ \A k \in Packs : StaysPast(k)
<1>0. PICK p : p = tx[w]
  OBVIOUS
<1> DEFINE row == Turned(pack[p.pack], p)
<1>1. /\ p \in Plan /\ p.op # "idle" /\ p.pack \in Packs \cup {"none"} /\ Fits(p) /\ Holds(p)
      /\ \A v \in Workers : tx'[v] = tx[v] \/ tx'[v] = NoPlan
  BY <1>0 DEF Typed, TypeOK, Plan, Commit, QuotaInv, AllFit
<1>2. \A k \in Packs : pack'[k] = IF k = p.pack THEN row ELSE pack[k]
  BY <1>0, <1>1, HeldAssumption DEF Commit, Typed, TypeOK
<1>3. p.pack # "none" => row.status # "none"
  BY <1>1, RowStep
<1>4. \A k \in Packs : pack[k] \in PackRow
  BY DEF Typed, TypeOK
<1>5. p.pack # "none" /\ p.op # "subscribe" =>
        row.status = IF p.turns = "same" THEN pack[p.pack].status ELSE p.turns
  BY <1>1, <1>4 DEF Turned, PackRow
<1>6. p.pack # "none" /\ p.op = "subscribe" => pack[p.pack].status = "none"
  BY <1>1 DEF Holds
<1> HIDE DEF row
<1>7. Dates'
  BY <1>1, <1>2, <1>3, HeldAssumption DEF Dates
<1>8. ASSUME NEW k \in Packs, pack[k].ends = "past", pack[k].status # "ACTIVE", ~MayOpen(k, tx)
      PROVE  pack'[k].status # "ACTIVE" /\ ~MayOpen(k, tx')
  <2>1. ~MayOpen(k, tx')
    BY <1>1, <1>8, NoPlanMade DEF MayOpen
  <2>2. k = p.pack => p.op # "subscribe" /\ p.turns # "ACTIVE"
    BY <1>0, <1>6, <1>8, HeldAssumption DEF Dates, MayOpen
  <2>3. QED
    BY <1>2, <1>5, <1>8, <2>1, <2>2, HeldAssumption
<1>9. QED
  BY <1>7, <1>8 DEF StaysPast

LEMMA PastStep ==
    Typed /\ QuotaInv /\ Dates /\ [Next]_vars => Dates' /\ \A k \in Packs : StaysPast(k)
<1> SUFFICES ASSUME Typed, QuotaInv, Dates, [Next]_vars
             PROVE  Dates' /\ \A k \in Packs : StaysPast(k)
  OBVIOUS
<1>t. TypeOK /\ \A k \in Packs : pack[k] \in PackRow
  BY DEF Typed, TypeOK
<1>1. ASSUME NEW w \in Workers, NEW p, Begin(w, p), Planned(p)
      PROVE  Dates' /\ \A k \in Packs : StaysPast(k)
  <2>1. pack' = pack /\ (\A v \in Workers : tx'[v] = tx[v] \/ tx'[v] = p)
    BY <1>1, <1>t DEF Begin, TypeOK
  <2>2. p.turns = "ACTIVE" /\ p.pack \in Packs => pack[p.pack].ends # "past"
    BY <1>1, HeldAssumption DEF Planned, Formed, UsesPack, RestoresPack, Requests,
                                Exhausted, Reactivated
  <2>3. QED
    BY <2>1, <2>2 DEF Dates, StaysPast, MayOpen
<1>2. ASSUME NEW w \in Workers, Commit(w) PROVE Dates' /\ \A k \in Packs : StaysPast(k)
  BY <1>2, PastCommit
<1>3. ASSUME pack' = pack, \A v \in Workers : tx'[v] = tx[v] \/ tx'[v] = NoPlan
      PROVE  Dates' /\ \A k \in Packs : StaysPast(k)
  BY <1>3, NoPlanMade DEF Dates, StaysPast, MayOpen
<1>4. CASE Shelved
  BY <1>3, <1>4, <1>t DEF Shelved, Restart, Abort, TypeOK
<1>5. CASE Dated
  <2>1. CASE Expire
    <3>1. tx' = tx /\ \A k \in Packs :
             /\ pack'[k].ends = pack[k].ends
             /\ pack'[k].status \in {pack[k].status, "EXPIRED"}
      BY <2>1, <1>t DEF Expire, PackRow
    <3>2. QED
      BY <3>1 DEF Dates, StaysPast, MayOpen
  <2>2. ASSUME NEW k \in Packs, Ends(k) PROVE Dates' /\ \A j \in Packs : StaysPast(j)
    <3>1. /\ tx' = tx /\ pack[k].ends = "later"
          /\ \A j \in Packs : /\ pack'[j].status = pack[j].status
                              /\ j # k => pack'[j].ends = pack[j].ends
      BY <2>2, <1>t DEF Ends, PackRow, TypeOK
    <3>2. QED
      BY <3>1 DEF Dates, StaysPast, MayOpen
  <2>3. QED
    BY <1>5, <2>1, <2>2 DEF Dated
<1>6. CASE Granted \/ Aside \/ (\E i \in Ids : Lapse(i)) \/ \E s \in Sales : Reopen(s)
  BY <1>3, <1>6 DEF Granted, IssueVoucher, InsertVoucher, Aside, StartCheck, CountVouchers,
                    Lapse, Reopen, counters
<1>7. CASE UNCHANGED vars
  BY <1>3, <1>7 DEF vars
<1>8. QED
  BY <1>t, <1>1, <1>2, <1>4, <1>5, <1>6, <1>7, StepCases

(* No request opens a subscription again whose end has passed, but for a     *)
(* reversal that read it before.                                             *)
THEOREM PastStays == Spec => PastStaysShut
<1>1. Init => Dates
  BY DEF Init, Dates
<1>2. Typed /\ QuotaInv /\ Dates /\ [Next]_vars => Dates'
  BY PastStep
<1>3. Typed /\ QuotaInv /\ Dates /\ [Next]_vars =>
        [\A k \in Packs : pack[k].ends = "past" /\ pack[k].status # "ACTIVE" /\ ~MayOpen(k, tx)
            => pack'[k].status # "ACTIVE" /\ ~MayOpen(k, tx')]_vars
  BY PastStep DEF StaysPast
<1>4. QED
  BY <1>1, <1>2, <1>3, AlwaysSound, PTL DEF Spec, PastStaysShut
----------------------------------------------------------------------------
(* Cancellation.  While no two requests overlapped on a subscription it has  *)
(* one request at most, and that one does not open what is cancelled.        *)

LEMMA CancelBegin ==
    ASSUME Typed, CancelInv, NEW w \in Workers, NEW p, Begin(w, p), Planned(p)
    PROVE  CancelInv' /\ AllStay
<1>1. /\ pack' = pack /\ tx'[w] = p /\ (\A v \in Workers \ {w} : tx'[v] = tx[v])
      /\ raced' = raced \cup {k \in Packs : p.pack = k /\ \E v \in Workers : tx[v].pack = k}
  BY DEF Begin, Typed, TypeOK
<1>2. p.pack \in Packs /\ pack[p.pack].status = "CANCELLED" => Respects(p)
  BY HeldAssumption DEF Planned, Formed, UsesPack, RestoresPack, Requests, Usable, Reactivated, Respects
<1>3. p.pack \in Packs \ raced' => \A v \in Workers : tx[v].pack # p.pack
  BY <1>1
<1>4. Alone'
  BY <1>1, <1>3 DEF CancelInv, Alone
<1>5. QED
  BY <1>1, <1>2, <1>4 DEF CancelInv, AllStay, StaysCancelled

LEMMA CancelCommit ==
    ASSUME Typed, QuotaInv, CancelInv, NEW w \in Workers, Commit(w)
    PROVE  CancelInv' /\ AllStay
<1>0. PICK p : p = tx[w]
  OBVIOUS
<1> DEFINE row == Turned(pack[p.pack], p)
<1>1. /\ p \in Plan /\ p.op # "idle" /\ p.pack \in Packs \cup {"none"} /\ Fits(p) /\ Holds(p)
      /\ tx'[w] = NoPlan /\ (\A v \in Workers \ {w} : tx'[v] = tx[v]) /\ raced' = raced
  BY <1>0 DEF Typed, TypeOK, Plan, Commit, QuotaInv, AllFit
<1>2. \A k \in Packs : pack'[k] = IF k = p.pack THEN row ELSE pack[k]
  BY <1>0, <1>1, HeldAssumption DEF Commit, Typed, TypeOK
<1>3. p.pack # "none" /\ p.op # "subscribe" =>
        row.status = IF p.turns = "same" THEN pack[p.pack].status ELSE p.turns
  BY <1>1 DEF Turned, Typed, TypeOK, PackRow
<1> HIDE DEF row
<1>4. NoPlan.pack = "none" /\ "none" \notin Packs
  BY NoPlanMade, HeldAssumption
<1>5. \A v \in Workers : tx'[v].pack \in Packs \ raced => v # w /\ tx'[v] = tx[v] /\ tx[v].pack # p.pack
  BY <1>0, <1>1, <1>4 DEF CancelInv, Alone
<1>6. CancelInv'
  BY <1>1, <1>2, <1>5 DEF CancelInv, Alone
<1>7. AllStay
  <2> SUFFICES ASSUME NEW k \in Packs \ raced', pack[k].status = "CANCELLED"
               PROVE  pack'[k].status = "CANCELLED"
    BY DEF AllStay, StaysCancelled
  <2>1. k = p.pack => Respects(p)
    BY <1>0, <1>1 DEF CancelInv
  <2>2. QED
    BY <1>2, <1>3, <1>4, <2>1 DEF Respects
<1>8. QED
  BY <1>6, <1>7

LEMMA CancelStep == Typed /\ QuotaInv /\ CancelInv /\ [Next]_vars => CancelInv' /\ AllStay
<1> SUFFICES ASSUME Typed, QuotaInv, CancelInv, [Next]_vars PROVE CancelInv' /\ AllStay
  OBVIOUS
<1>t. TypeOK /\ \A k \in Packs : pack[k] \in PackRow
  BY DEF Typed, TypeOK
<1>1. ASSUME NEW w \in Workers, NEW p, Begin(w, p), Planned(p) PROVE CancelInv' /\ AllStay
  BY <1>1, CancelBegin
<1>2. ASSUME NEW w \in Workers, Commit(w) PROVE CancelInv' /\ AllStay
  BY <1>2, CancelCommit
<1>3. ASSUME raced' = raced, \A v \in Workers : tx'[v] = tx[v] \/ tx'[v] = NoPlan,
             \A k \in Packs : \/ pack'[k].status = pack[k].status
                              \/ pack[k].status = "ACTIVE" /\ pack'[k].status = "EXPIRED"
      PROVE  CancelInv' /\ AllStay
  <2>1. NoPlan.pack = "none" /\ "none" \notin Packs
    BY NoPlanMade, HeldAssumption
  <2>2. Alone'
    BY <1>3, <2>1 DEF CancelInv, Alone
  <2>3. QED
    BY <1>3, <2>1, <2>2 DEF CancelInv, AllStay, StaysCancelled
<1>4. CASE Shelved
  BY <1>3, <1>4, <1>t DEF Shelved, Restart, Abort, TypeOK
<1>5. CASE Dated
  <2>1. raced' = raced /\ tx' = tx
    BY <1>5 DEF Dated, Expire, Ends
  <2>2. CASE Expire
    BY <1>3, <1>t, <2>1, <2>2 DEF Expire, PastEnd, PackRow
  <2>3. ASSUME NEW k \in Packs, Ends(k) PROVE CancelInv' /\ AllStay
    <3>1. \A j \in Packs : pack'[j].status = pack[j].status
      BY <2>3, <1>t DEF Ends, PackRow, TypeOK
    <3>2. QED
      BY <1>3, <2>1, <3>1
  <2>4. QED
    BY <1>5, <2>2, <2>3 DEF Dated
<1>6. CASE Granted \/ Aside \/ (\E i \in Ids : Lapse(i)) \/ \E s \in Sales : Reopen(s)
  BY <1>3, <1>6 DEF Granted, IssueVoucher, InsertVoucher, Aside, StartCheck, CountVouchers,
                    Lapse, Reopen, counters
<1>7. CASE UNCHANGED vars
  BY <1>3, <1>7 DEF vars
<1>8. QED
  BY <1>t, <1>1, <1>2, <1>4, <1>5, <1>6, <1>7, StepCases

(* A cancelled subscription stays cancelled, as long as no two requests      *)
(* overlapped on it.                                                         *)
THEOREM CancelledStaysCancelled == Spec => CancelledStays
<1>1. Init => CancelInv
  BY NoPlanMade, HeldAssumption DEF Init, CancelInv, Alone
<1>2. Typed /\ QuotaInv /\ CancelInv /\ [Next]_vars => CancelInv'
  BY CancelStep
<1>3. Typed /\ QuotaInv /\ CancelInv /\ [Next]_vars =>
        [\A k \in Packs \ raced' : pack[k].status = "CANCELLED" => pack'[k].status = "CANCELLED"]_vars
  BY CancelStep DEF AllStay, StaysCancelled
<1>4. QED
  BY <1>1, <1>2, <1>3, AlwaysSound, PTL DEF Spec, CancelledStays

\* Whichever checkouts, reversals and jobs overlap, no voucher and no use of a
\* package pays for two sales.
THEOREM NeverPaidTwice == Spec => []PaidForOnce
  BY VouchersSpentOnce, QuotaIsConserved, PTL DEF PaidForOnce

\* A subscription that was cancelled stays cancelled, and one shut at its end
\* stays shut, but for the requests that overlapped on it.
THEOREM ShutStaysShut == Spec => ShutStays
  BY PastStays, CancelledStaysCancelled DEF ShutStays
----------------------------------------------------------------------------
(* Uses that are left are usable.  While requests did not overlap on a       *)
(* subscription its one plan still reads it as it is: a use that ends it     *)
(* leaves nothing, and a restoration opens it if it is shut.                 *)

LEMMA TurnedRow ==
    ASSUME Typed, NEW p \in Plan, p.pack \in Packs, p.op # "subscribe",
           NEW row, row = Turned(pack[p.pack], p)
    PROVE  /\ row.left = IF p.pack \in Usage THEN pack[p.pack].left - Taken(p) ELSE pack[p.pack].left
           /\ row.used = pack[p.pack].used + Taken(p)
           /\ row.version = IF Taken(p) > 0 THEN pack[p.pack].version + 1 ELSE pack[p.pack].version
           /\ row.status = IF p.turns = "same" THEN pack[p.pack].status ELSE p.turns
           /\ row.ends = pack[p.pack].ends
  BY DEF Turned, Typed, TypeOK, PackRow

LEMMA UsableInit == Init => UsableInv
<1> SUFFICES ASSUME Init PROVE UsableInv
  OBVIOUS
<1>1. ReadsNow
  BY NoPlanMade, HeldAssumption DEF Init, ReadsNow
<1>2. \A k \in Packs : pack[k].left = 0 /\ pack[k].used = 0
  BY DEF Init
<1>3. Unspent /\ AllOpen
  BY <1>2, HeldAssumption DEF Unspent, AllOpen, Open
<1>4. QED
  BY <1>1, <1>3 DEF UsableInv

LEMMA UsableBegin ==
    ASSUME Typed, QuotaInv, UsableInv, NEW w \in Workers, NEW p, Begin(w, p), Planned(p)
    PROVE  UsableInv'
<1>1. /\ pack' = pack /\ tx'[w] = p /\ (\A v \in Workers \ {w} : tx'[v] = tx[v])
      /\ raced \subseteq raced'
  BY DEF Begin, Typed, TypeOK
<1>2. ASSUME p.pack \in Packs PROVE Current(p, pack[p.pack])
  <2>1. p.pack # "none" /\ p \in Plan /\ p.sale \in Sales /\ pack[p.pack] \in PackRow
    BY <1>2, HeldAssumption DEF Planned, Formed, Plan, Typed, TypeOK
  <2>2. CASE p.op \in {"sell", "record"}
    BY <2>1, <2>2 DEF Planned, UsesPack, Exhausted, Current
  <2>3. CASE p.op = "reverse"
    <3>1. p.turns = Reactivated(p.pack) /\ p.pack = sale[p.sale].pack
      BY <2>1, <2>3 DEF Planned, RestoresPack
    <3>2. pack[p.pack].status # "none"
      BY <2>1, <3>1 DEF QuotaInv, Bought
    <3>3. QED
      BY <2>1, <2>3, <3>1, <3>2 DEF Reactivated, Current, PackRow
  <2>4. CASE p.op \notin {"sell", "record", "reverse"}
    BY <2>4 DEF Current
  <2>5. QED
    BY <2>2, <2>3, <2>4
<1>3. ReadsNow'
  BY <1>1, <1>2 DEF UsableInv, ReadsNow
<1>4. QED
  BY <1>1, <1>3 DEF UsableInv, Unspent, AllOpen

LEMMA UsableCommit ==
    ASSUME Typed, QuotaInv, CancelInv, UsableInv, NEW w \in Workers, Commit(w)
    PROVE  UsableInv'
<1>0. PICK p : p = tx[w]
  OBVIOUS
<1> DEFINE row == Turned(pack[p.pack], p)
<1>1. /\ p \in Plan /\ p.op # "idle" /\ p.pack \in Packs \cup {"none"} /\ Fits(p) /\ Holds(p)
      /\ tx'[w] = NoPlan /\ (\A v \in Workers \ {w} : tx'[v] = tx[v]) /\ raced' = raced
  BY <1>0 DEF Typed, TypeOK, Plan, Commit, QuotaInv, AllFit
<1>2. \A k \in Packs : pack'[k] = IF k = p.pack THEN row ELSE pack[k]
  BY <1>0, <1>1, HeldAssumption DEF Commit, Typed, TypeOK
<1>3. p.pack \in Packs => row.status # "none"
  BY <1>1, RowStep
<1>4. ASSUME p.pack \in Usage \ raced PROVE Open(row)
  <2>0. p.pack \in Packs /\ p.pack # "none" /\ p.qty \in Nat /\ pack[p.pack] \in PackRow
    BY <1>1, <1>4, HeldAssumption DEF Typed, TypeOK, Plan
  <2>1. p.op \in Requests /\ FitsRow(p, pack[p.pack]) /\ Current(p, pack[p.pack]) /\ Open(pack[p.pack])
    BY <1>0, <1>1, <1>4, <2>0 DEF Fits, UsableInv, ReadsNow, AllOpen
  <2>2. CASE p.op = "subscribe"
    BY <2>2 DEF Turned, Fresh, Open
  <2>3. CASE p.op # "subscribe"
    <3>1. /\ row.left = pack[p.pack].left - Taken(p)
          /\ row.status = IF p.turns = "same" THEN pack[p.pack].status ELSE p.turns
          /\ row.ends = pack[p.pack].ends /\ pack[p.pack].left \in Int
      BY <1>1, <1>4, <2>0, <2>3, TurnedRow DEF PackRow
    <3> HIDE DEF row
    <3>2. CASE p.op \in {"sell", "record"}
      <4>1. Taken(p) = p.qty /\ p.qty >= 1
        BY <2>1, <3>2 DEF Taken, Current, VersionHeld, FitsRow
      <4>2. p.turns = IF pack[p.pack].left - p.qty <= 0 THEN "EXPIRED" ELSE "same"
        BY <1>4, <2>1, <3>2 DEF Current
      <4>3. QED
        BY <2>0, <2>1, <3>1, <4>1, <4>2 DEF Open
    <3>3. CASE p.op = "reverse"
      <4>1. /\ p.turns \in {"same", "ACTIVE"}
            /\ \/ p.turns = "ACTIVE" \/ pack[p.pack].ends = "past"
               \/ pack[p.pack].status \in {"ACTIVE", "CANCELLED"}
        BY <2>1, <3>3 DEF Current
      <4>2. QED
        BY <3>1, <4>1 DEF Open
    <3>4. CASE p.op = "cancel"
      <4>1. p.turns = "CANCELLED"
        BY <2>1, <3>4 DEF FitsRow
      <4>2. QED
        BY <3>1, <4>1 DEF Open
    <3>5. QED
      BY <2>1, <2>3, <3>2, <3>3, <3>4 DEF Requests
  <2>4. QED
    BY <2>2, <2>3
<1> HIDE DEF row
<1>5. ReadsNow'
  <2> SUFFICES ASSUME NEW v \in Workers, NEW k \in Packs \ raced, tx'[v].pack = k
               PROVE  Current(tx'[v], pack'[k])
    BY <1>1 DEF ReadsNow
  <2>1. v # w
    BY <1>1, NoPlanMade, HeldAssumption
  <2>2. k # p.pack
    BY <1>0, <1>1, <2>1 DEF CancelInv, Alone
  <2>3. QED
    BY <1>1, <1>2, <2>1, <2>2 DEF UsableInv, ReadsNow
<1>6. Unspent'
  BY <1>2, <1>3 DEF UsableInv, Unspent
<1>7. AllOpen'
  BY <1>1, <1>2, <1>4, HeldAssumption DEF UsableInv, AllOpen
<1>8. QED
  BY <1>5, <1>6, <1>7 DEF UsableInv

LEMMA UsableStep == Typed /\ QuotaInv /\ CancelInv /\ UsableInv /\ [Next]_vars => UsableInv'
<1> SUFFICES ASSUME Typed, QuotaInv, CancelInv, UsableInv, [Next]_vars PROVE UsableInv'
  OBVIOUS
<1>t. TypeOK /\ \A k \in Packs : pack[k] \in PackRow
  BY DEF Typed, TypeOK
<1>1. ASSUME NEW w \in Workers, NEW p, Begin(w, p), Planned(p) PROVE UsableInv'
  BY <1>1, UsableBegin
<1>2. ASSUME NEW w \in Workers, Commit(w) PROVE UsableInv'
  BY <1>2, UsableCommit
<1>3. ASSUME raced' = raced, \A v \in Workers : tx'[v] = tx[v] \/ tx'[v] = NoPlan,
             \A k \in Packs :
               /\ pack'[k].left = pack[k].left /\ pack'[k].used = pack[k].used
               /\ pack'[k].version = pack[k].version
               /\ pack'[k].ends = pack[k].ends \/ pack'[k].ends = "past"
               /\ \/ pack'[k].status = pack[k].status
                  \/ /\ pack[k].status = "ACTIVE" /\ pack'[k].status = "EXPIRED"
                     /\ pack'[k].ends = "past"
      PROVE  UsableInv'
  <2>1. NoPlan.pack = "none" /\ "none" \notin Packs /\ Usage \subseteq Packs
    BY NoPlanMade, HeldAssumption
  <2>2. ReadsNow'
    <3> SUFFICES ASSUME NEW v \in Workers, NEW k \in Packs \ raced, tx'[v].pack = k
                 PROVE  Current(tx'[v], pack'[k])
      BY <1>3 DEF ReadsNow
    <3>1. tx'[v] = tx[v]
      BY <1>3, <2>1
    <3>2. Current(tx[v], pack[k])
      BY <3>1 DEF UsableInv, ReadsNow
    <3>3. QED
      BY <1>3, <3>1, <3>2 DEF Current
  <2>3. Unspent'
    BY <1>3 DEF UsableInv, Unspent
  <2>4. AllOpen'
    BY <1>3, <2>1 DEF UsableInv, AllOpen, Open
  <2>5. QED
    BY <2>2, <2>3, <2>4 DEF UsableInv
<1>4. CASE Shelved
  BY <1>3, <1>4, <1>t DEF Shelved, Restart, Abort, TypeOK
<1>5. CASE Dated
  <2>1. raced' = raced /\ tx' = tx
    BY <1>5 DEF Dated, Expire, Ends
  <2>2. CASE Expire
    BY <1>3, <1>t, <2>1, <2>2 DEF Expire, PastEnd, PackRow
  <2>3. ASSUME NEW k \in Packs, Ends(k) PROVE UsableInv'
    <3>1. \A j \in Packs : /\ pack'[j].status = pack[j].status /\ pack'[j].left = pack[j].left
                           /\ pack'[j].used = pack[j].used /\ pack'[j].version = pack[j].version
                           /\ pack'[j].ends = pack[j].ends \/ pack'[j].ends = "past"
      BY <2>3, <1>t DEF Ends, PackRow, TypeOK
    <3>2. QED
      BY <1>3, <2>1, <3>1
  <2>4. QED
    BY <1>5, <2>2, <2>3 DEF Dated
<1>6. CASE Granted \/ Aside \/ (\E i \in Ids : Lapse(i)) \/ \E s \in Sales : Reopen(s)
  BY <1>3, <1>6 DEF Granted, IssueVoucher, InsertVoucher, Aside, StartCheck, CountVouchers,
                    Lapse, Reopen, counters
<1>7. CASE UNCHANGED vars
  BY <1>3, <1>7 DEF vars
<1>8. QED
  BY <1>t, <1>1, <1>2, <1>4, <1>5, <1>6, <1>7, StepCases

----------------------------------------------------------------------------
(* The usage rows explain what was used.  A row of a sale stands until the   *)
(* sale is first reversed, and the reversal gives back what the row says;    *)
(* where uses are recorded by hand no one overlapped, so the version that    *)
(* was read is the one that is written.                                      *)

LEMMA UsesType ==
    ASSUME Typed, NEW k \in Packs
    PROVE  IsFiniteSet(Sales) /\ \A s \in Sales : Uses(k)[s] \in Int
<1>1. \A s \in Sales : usage[s][k].qty \in Nat
  BY DEF Typed, TypeOK, UsageRow
<1>2. QED
  BY <1>1, HeldAssumption DEF Uses

LEMMA UsageInit == Init => UsageInv
<1> SUFFICES ASSUME Init PROVE UsageInv
  OBVIOUS
<1>1. RungFirst /\ RowsStand /\ RestoresRow
  BY NoPlanMade DEF Init, RungFirst, RowsStand, RestoresRow, GivesBack
<1>2. ASSUME NEW k \in Packs PROVE SumOver(Uses(k), Sales) = 0
  <2>1. \A s \in Sales : Uses(k)[s] = 0
    BY DEF Init, Uses
  <2>2. QED
    BY <2>1, HeldAssumption, SumOverZero
<1>3. UsageExplains
  BY <1>2 DEF Init, UsageExplains
<1>4. QED
  BY <1>1, <1>3 DEF UsageInv

LEMMA UsageBegin ==
    ASSUME Typed, QuotaInv, UsageInv, NEW w \in Workers, NEW p, Begin(w, p), Planned(p)
    PROVE  UsageInv'
<1>1. /\ UNCHANGED <<mix, pack, usage, sale>> /\ raced \subseteq raced'
      /\ tx'[w] = p /\ (\A v \in Workers \ {w} : tx'[v] = tx[v]) /\ p.op \in mix
  BY DEF Begin, counters, Typed, TypeOK
<1>2. p \in Plan /\ p.sale \in Sales
  BY DEF Planned, Formed, Plan
<1>3. p.op = "reverse" => Rung(p.sale)
  BY DEF Planned, UsesVoucher, Rung
<1>4. p.op = "record" => Rung(p.sale)
  BY DEF Planned, UsesPack, Rung
<1>5. GivesBack(p)
  <2> SUFFICES ASSUME p.op = "reverse", p.pack # "none"
               PROVE  /\ p.pack \in Usage /\ sale[p.sale].pack = p.pack
                      /\ sale[p.sale].reversals = 0 => p.qty = usage[p.sale][p.pack].qty
    BY DEF GivesBack
  <2>1. p.pack \in Usage /\ sale[p.sale].pack = p.pack /\ p.qty = Returned(p.sale, p.pack)
    BY DEF Planned, RestoresPack
  <2>2. sale[p.sale].reversals = 0 => usage[p.sale][p.pack].state = "live"
    BY <1>2, <2>1 DEF UsageInv, RowsStand
  <2>3. QED
    BY <2>1, <2>2 DEF Returned
<1>6. RungFirst'
  BY <1>1, <1>2, <1>3, <1>4 DEF UsageInv, RungFirst, Rung
<1>7. RowsStand' /\ RestoresRow'
  BY <1>1, <1>5 DEF UsageInv, RowsStand, RestoresRow, GivesBack
<1>8. UsageExplains'
  BY <1>1 DEF UsageInv, UsageExplains, Uses
<1>9. QED
  BY <1>6, <1>7, <1>8 DEF UsageInv

\* What a commit does to the rows: the sale it rings or reverses, the usage
\* row of its subscription, and the balance of what was used.
LEMMA UsageRows ==
    ASSUME Typed, NEW w \in Workers, Commit(w), NEW p, p = tx[w]
    PROVE  /\ p \in Plan /\ p.sale \in Sales /\ p.pack \in Packs \cup {"none"} /\ p.qty \in Nat
           /\ Holds(p) /\ p.op # "idle" /\ mix' = mix /\ raced' = raced
           /\ tx'[w] = NoPlan /\ (\A v \in Workers \ {w} : tx'[v] = tx[v])
           /\ \A s \in Sales : sale'[s] = IF s = p.sale /\ p.op \in {"sell", "reverse"}
                                          THEN Became(sale[s], p) ELSE sale[s]
           /\ \A s \in Sales, k \in Packs :
                usage'[s][k] = IF s = p.sale /\ k = p.pack THEN RowOf(usage[s][k], p) ELSE usage[s][k]
           /\ \A k \in Packs : pack'[k] = IF k = p.pack THEN Turned(pack[k], p) ELSE pack[k]
<1>1. /\ p \in Plan /\ p.sale \in Sales /\ p.pack \in Packs \cup {"none"} /\ p.qty \in Nat
      /\ Holds(p) /\ p.op # "idle" /\ mix' = mix /\ raced' = raced
  BY DEF Typed, TypeOK, Plan, Commit
<1>2. tx'[w] = NoPlan /\ \A v \in Workers \ {w} : tx'[v] = tx[v]
  BY DEF Typed, TypeOK, Commit
<1>3. \A s \in Sales : sale'[s] = IF s = p.sale /\ p.op \in {"sell", "reverse"}
                                  THEN Became(sale[s], p) ELSE sale[s]
  BY <1>1 DEF Typed, TypeOK, Commit
<1>4. "none" \notin Packs
  BY HeldAssumption
<1>5. \A s \in Sales, k \in Packs :
        usage'[s][k] = IF s = p.sale /\ k = p.pack THEN RowOf(usage[s][k], p) ELSE usage[s][k]
  <2>1. usage \in [Sales -> [Packs -> UsageRow]]
        /\ usage' = IF p.pack = "none" THEN usage
                    ELSE [usage EXCEPT ![p.sale][p.pack] = RowOf(@, p)]
    BY DEF Typed, TypeOK, Commit
  <2>2. QED
    BY <1>1, <1>4, <2>1
<1>6. \A k \in Packs : pack'[k] = IF k = p.pack THEN Turned(pack[k], p) ELSE pack[k]
  BY <1>1, <1>4 DEF Typed, TypeOK, Commit
<1>7. QED
  BY <1>1, <1>2, <1>3, <1>5, <1>6

\* The fields of the rows it writes.
LEMMA BecameFields ==
    ASSUME NEW p, NEW row \in SaleRow
    PROVE  /\ Became(row, p).state = IF p.op = "sell" THEN "completed" ELSE "reversed"
           /\ Became(row, p).pack = IF p.op = "sell" THEN p.pack ELSE row.pack
           /\ Became(row, p).reversals = IF p.op = "sell" THEN row.reversals ELSE row.reversals + 1
  BY DEF Became, SaleRow

LEMMA RowOfFields ==
    ASSUME NEW p, NEW row \in UsageRow
    PROVE  /\ RowOf(row, p).qty = IF p.op \in {"sell", "record"} THEN p.qty ELSE row.qty
           /\ RowOf(row, p).state = IF p.op \in {"sell", "record"} THEN "live"
                ELSE IF p.op = "reverse" /\ p.pack \in Usage /\ row.state = "live" THEN "deleted"
                ELSE row.state
  BY DEF RowOf, UsageRow

LEMMA UsageCommit ==
    ASSUME Typed, QuotaInv, UsableInv, UsageInv, NEW w \in Workers, Commit(w)
    PROVE  UsageInv'
<1>0. PICK p : p = tx[w]
  OBVIOUS
<1>1. /\ p \in Plan /\ p.sale \in Sales /\ p.pack \in Packs \cup {"none"} /\ p.qty \in Nat
      /\ Holds(p) /\ p.op # "idle" /\ mix' = mix /\ raced' = raced
      /\ tx'[w] = NoPlan /\ (\A v \in Workers \ {w} : tx'[v] = tx[v])
  BY <1>0, UsageRows
<1>2. \A s \in Sales :
        /\ sale[s] \in SaleRow
        /\ sale'[s] = IF s = p.sale /\ p.op \in {"sell", "reverse"} THEN Became(sale[s], p) ELSE sale[s]
  BY <1>0, UsageRows DEF Typed, TypeOK
<1>3. \A s \in Sales, k \in Packs :
        /\ usage[s][k] \in UsageRow
        /\ usage'[s][k] = IF s = p.sale /\ k = p.pack THEN RowOf(usage[s][k], p) ELSE usage[s][k]
  BY <1>0, UsageRows DEF Typed, TypeOK
<1>4. \A k \in Packs : pack'[k] = IF k = p.pack THEN Turned(pack[k], p) ELSE pack[k]
  BY <1>0, UsageRows
<1>5. p.op \in mix /\ (p.op \in {"reverse", "record"} => Rung(p.sale)) /\ GivesBack(p)
      /\ (p.pack # "none" => p.op \in Requests)
  BY <1>0, <1>1 DEF UsageInv, RungFirst, RestoresRow, QuotaInv, AllFit, Fits
<1>6. p.op = "sell" => sale[p.sale].state = "unrung"
  BY <1>1 DEF Holds
<1>7. p.op = "reverse" => sale[p.sale].state = "completed"
  BY <1>1 DEF Holds
<1>8. \A s \in Sales : /\ Rung(s) => Rung(s)' /\ sale'[s].pack = sale[s].pack
                       /\ sale[s].reversals \in Nat /\ sale'[s].reversals \in Nat
                       /\ sale[s].reversals <= sale'[s].reversals
  BY <1>2, <1>6, BecameFields DEF Rung, SaleRow
<1>9. p.op = "sell" => /\ Rung(p.sale)' /\ sale'[p.sale].pack = p.pack
                       /\ \A k \in Packs : usage[p.sale][k].state = "none"
  BY <1>1, <1>2, <1>6, BecameFields DEF Rung, UsageInv, RungFirst
<1>10. p.op = "reverse" => sale'[p.sale].reversals = sale[p.sale].reversals + 1
  BY <1>1, <1>2, BecameFields
<1>11. \A k \in Packs : pack[k].status # "none" \/ k = p.pack => pack'[k].status # "none"
  <2>1. p.pack \in Packs => Turned(pack[p.pack], p).status # "none"
    BY <1>0, <1>1, RowStep DEF QuotaInv, AllFit
  <2>2. QED
    BY <1>4, <2>1
<1>12. RungFirst'
  <2>1. ASSUME NEW s \in Sales, NEW k \in Packs, usage'[s][k].state # "none"
        PROVE  Rung(s)' /\ pack'[k].status # "none"
    <3>1. CASE s = p.sale /\ k = p.pack
      <4>1. p.op \in {"sell", "record"} \/ usage[s][k].state # "none"
        BY <1>3, <2>1, <3>1, RowOfFields
      <4>2. QED
        BY <1>5, <1>8, <1>9, <1>11, <3>1, <4>1 DEF UsageInv, RungFirst
    <3>2. CASE ~(s = p.sale /\ k = p.pack)
      <4>1. usage'[s][k] = usage[s][k]
        BY <1>3, <3>2
      <4>2. QED
        BY <1>8, <1>11, <2>1, <4>1 DEF UsageInv, RungFirst
    <3>3. QED
      BY <3>1, <3>2
  <2>2. ASSUME NEW s \in Sales, sale'[s].pack # "none" PROVE Rung(s)'
    <3>1. CASE s = p.sale /\ p.op \in {"sell", "reverse"}
      BY <1>5, <1>8, <1>9, <3>1
    <3>2. CASE ~(s = p.sale /\ p.op \in {"sell", "reverse"})
      BY <1>2, <1>8, <2>2, <3>2 DEF UsageInv, RungFirst
    <3>3. QED
      BY <3>1, <3>2
  <2>3. ASSUME NEW v \in Workers, tx'[v].op # "idle"
        PROVE  tx'[v].op \in mix' /\ (tx'[v].op \in {"reverse", "record"} => Rung(tx[v].sale)')
    <3>1. tx'[v] = tx[v]
      BY <1>1, <2>3, NoPlanMade
    <3>2. tx[v].sale \in Sales
      BY DEF Typed, TypeOK, Plan
    <3>3. tx[v].op \in mix /\ (tx[v].op \in {"reverse", "record"} => Rung(tx[v].sale))
      BY <2>3, <3>1 DEF UsageInv, RungFirst
    <3>4. Rung(tx[v].sale) => sale'[tx[v].sale].state # "unrung"
      BY <1>8, <3>2 DEF Rung
    <3>5. QED
      BY <1>1, <3>1, <3>3, <3>4 DEF Rung
  <2>4. QED
    BY <2>1, <2>2, <2>3 DEF RungFirst
<1>13. RowsStand'
  <2> SUFFICES ASSUME NEW s \in Sales, NEW k, k = sale'[s].pack, k # "none", sale'[s].reversals = 0
               PROVE  usage'[s][k].state = "live"
    BY DEF RowsStand
  <2>1. CASE s = p.sale /\ p.op = "sell"
    BY <1>1, <1>3, <1>9, <2>1, RowOfFields
  <2>2. CASE ~(s = p.sale /\ p.op = "sell")
    <3>1. ~(s = p.sale /\ p.op = "reverse")
      BY <1>8, <1>10
    <3>2. sale'[s] = sale[s]
      BY <1>2, <2>2, <3>1
    <3>3. k \in Packs /\ usage[s][k].state = "live"
      BY <1>2, <3>2 DEF UsageInv, RowsStand, SaleRow
    <3>4. QED
      BY <1>3, <2>2, <3>1, <3>3, RowOfFields
  <2>3. QED
    BY <2>1, <2>2
<1>14. RestoresRow'
  <2> SUFFICES ASSUME NEW v \in Workers, tx'[v].op = "reverse", tx'[v].pack # "none"
               PROVE  GivesBack(tx[v])'
    BY DEF RestoresRow, GivesBack
  <2>1. PICK q : q = tx[v]
    OBVIOUS
  <2>2. v # w /\ tx'[v] = q /\ q.op = "reverse" /\ q.pack # "none"
    BY <1>1, <2>1, NoPlanMade
  <2>3. q.sale \in Sales /\ Rung(q.sale) /\ GivesBack(q)
    BY <2>1, <2>2 DEF Typed, TypeOK, Plan, UsageInv, RungFirst, RestoresRow
  <2>4. q.pack \in Usage /\ q.pack \in Packs /\ sale[q.sale].pack = q.pack /\ sale'[q.sale].pack = q.pack
    BY <1>8, <2>2, <2>3, HeldAssumption DEF GivesBack
  <2>5. ASSUME sale'[q.sale].reversals = 0 PROVE q.qty = usage'[q.sale][q.pack].qty
    <3>1. sale[q.sale].reversals = 0
      BY <1>8, <2>3, <2>5
    <3>2. q.qty = usage[q.sale][q.pack].qty /\ usage[q.sale][q.pack].state = "live"
      BY <2>2, <2>3, <2>4, <3>1 DEF GivesBack, UsageInv, RowsStand
    <3>3. ~(q.sale = p.sale /\ q.pack = p.pack /\ p.op \in {"sell", "record"})
      BY <1>1, <1>6, <2>3, <3>2 DEF Rung, Holds
    <3>4. QED
      BY <1>3, <2>3, <2>4, <3>2, <3>3, RowOfFields
  <2>6. QED
    BY <2>2, <2>4, <2>5 DEF GivesBack
<1>15. UsageExplains'
  <2> SUFFICES ASSUME NEW k \in Packs, Tallied(k)'
               PROVE  pack'[k].used = SumOver(Uses(k)', Sales)
    BY DEF UsageExplains, Tallied
  <2>1. pack[k].used = SumOver(Uses(k), Sales) /\ Tallied(k)
    <3>1. Tallied(k)
      BY <1>1, <1>8 DEF Tallied
    <3>2. QED
      BY <3>1 DEF UsageInv, UsageExplains, Tallied
  <2>2. IsFiniteSet(Sales) /\ \A s \in Sales : Uses(k)[s] \in Int
    BY UsesType
  <2>3. \A s \in Sales : s # p.sale \/ k # p.pack => Uses(k)'[s] = Uses(k)[s]
    BY <1>3 DEF Uses
  <2>4. PICK f, g : f = Uses(k) /\ g = Uses(k)'
    OBVIOUS
  <2>5. CASE k # p.pack
    <3>1. \A s \in Sales : f[s] \in Int /\ f[s] = g[s]
      BY <2>2, <2>3, <2>4, <2>5
    <3>2. SumOver(f, Sales) = SumOver(g, Sales)
      BY <2>2, <3>1, SumOverSame
    <3>3. QED
      BY <1>4, <2>1, <2>4, <2>5, <3>2
  <2>6. CASE k = p.pack
    <3>1. PICK r : r = usage[p.sale][k]
      OBVIOUS
    <3>2. /\ r \in UsageRow /\ r.qty \in Nat
          /\ f[p.sale] = IF r.state = "live" THEN r.qty ELSE 0
          /\ g[p.sale] = IF RowOf(r, p).state = "live" THEN RowOf(r, p).qty ELSE 0
      BY <1>1, <1>3, <2>4, <2>6, <3>1 DEF Uses, UsageRow
    <3>3. pack[k].used \in Int /\ k # "none"
      BY HeldAssumption DEF Typed, TypeOK, PackRow
    <3>4. pack'[k].used = pack[k].used + (g[p.sale] - f[p.sale]) /\ g[p.sale] \in Int
      <4>1. CASE p.op = "subscribe"
        <5>1. pack[k].used = 0 /\ pack'[k].used = 0
          BY <1>1, <1>4, <2>6, <4>1 DEF Holds, UsableInv, Unspent, Turned, Fresh
        <5>2. g[p.sale] = f[p.sale]
          BY <3>2, <4>1, RowOfFields
        <5>3. QED
          BY <3>2, <5>1, <5>2
      <4>2. CASE p.op # "subscribe"
        <5>1. pack'[k].used = pack[k].used + Taken(p)
          BY <1>1, <1>4, <2>6, <4>2, TurnedRow
        <5>2. CASE p.op = "sell"
          BY <1>1, <1>9, <2>6, <3>1, <3>2, <5>1, <5>2, RowOfFields DEF Taken
        <5>3. CASE p.op = "record"
          <6>1. k \notin raced
            BY <1>5, <2>1, <5>3 DEF Tallied
          <6>2. VersionHeld(p)
            BY <1>0, <2>6, <5>3, <6>1 DEF UsableInv, ReadsNow, Current, VersionHeld
          <6>3. r.state = "none"
            BY <1>1, <2>6, <3>1, <5>3 DEF Holds
          <6>4. QED
            BY <1>1, <3>2, <5>1, <5>3, <6>2, <6>3, RowOfFields DEF Taken
        <5>4. CASE p.op = "reverse"
          <6>1. p.pack \in Usage /\ sale[p.sale].pack = k
            BY <1>5, <2>6, <3>3, <5>4 DEF GivesBack
          <6>2. sale[p.sale].reversals = 0
            BY <1>1, <1>8, <1>10, <5>4 DEF Tallied
          <6>3. p.qty = r.qty /\ r.state = "live"
            BY <1>1, <1>5, <2>6, <3>1, <3>3, <5>4, <6>1, <6>2 DEF GivesBack, UsageInv, RowsStand
          <6>4. Taken(p) = -r.qty
            BY <5>4, <6>1, <6>3 DEF Taken
          <6>5. QED
            BY <3>2, <3>3, <5>1, <5>4, <6>1, <6>3, <6>4, RowOfFields
        <5>5. CASE p.op = "cancel"
          BY <3>2, <3>3, <5>1, <5>5, RowOfFields DEF Taken
        <5>6. QED
          BY <1>5, <2>6, <3>3, <4>2, <5>2, <5>3, <5>4, <5>5 DEF Requests
      <4>3. QED
        BY <4>1, <4>2
    <3>5. (\A s \in Sales : f[s] \in Int) /\ \A s \in Sales \ {p.sale} : g[s] = f[s]
      BY <2>2, <2>3, <2>4
    <3>6. SumOver(g, Sales) = SumOver(f, Sales) + (g[p.sale] - f[p.sale])
      <4>1. PICK s \in Sales : s = p.sale
        BY <1>1
      <4>2. IsFiniteSet(Sales) /\ g[s] \in Int /\ \A x \in Sales \ {s} : g[x] = f[x]
        BY <2>2, <3>4, <3>5, <4>1
      <4>3. SumOver(g, Sales) = SumOver(f, Sales) + (g[s] - f[s])
        BY <3>5, <4>2, SumOverChange
      <4>4. QED
        BY <4>1, <4>3
    <3>7. QED
      BY <2>1, <2>4, <3>4, <3>6
  <2>7. QED
    BY <2>5, <2>6
<1>16. QED
  BY <1>12, <1>13, <1>14, <1>15 DEF UsageInv

LEMMA UsageStep == Typed /\ QuotaInv /\ UsableInv /\ UsageInv /\ [Next]_vars => UsageInv'
<1> SUFFICES ASSUME Typed, QuotaInv, UsableInv, UsageInv, [Next]_vars PROVE UsageInv'
  OBVIOUS
<1>t. TypeOK /\ (\A k \in Packs : pack[k] \in PackRow) /\ \A s \in Sales : sale[s] \in SaleRow
  BY DEF Typed, TypeOK
<1>1. ASSUME NEW w \in Workers, NEW p, Begin(w, p), Planned(p) PROVE UsageInv'
  BY <1>1, UsageBegin
<1>2. ASSUME NEW w \in Workers, Commit(w) PROVE UsageInv'
  BY <1>2, UsageCommit
<1>3. ASSUME UNCHANGED <<mix, usage, raced>>, \A v \in Workers : tx'[v] = tx[v] \/ tx'[v] = NoPlan,
             \A s \in Sales : /\ sale'[s].pack = sale[s].pack
                              /\ sale'[s].reversals = sale[s].reversals
                              /\ Rung(s) => Rung(s)'
                              /\ Rung(s)' => Rung(s),
             \A k \in Packs : /\ pack'[k].used = pack[k].used
                              /\ pack[k].status # "none" => pack'[k].status # "none"
      PROVE  UsageInv'
  <2>1. NoPlan.op = "idle" /\ \A v \in Workers : tx[v].sale \in Sales
    BY NoPlanMade DEF Typed, TypeOK, Plan
  <2>2. RungFirst'
    <3>1. ASSUME NEW v \in Workers, tx'[v].op # "idle"
          PROVE  tx'[v].op \in mix' /\ (tx'[v].op \in {"reverse", "record"} => Rung(tx[v].sale)')
      <4>1. tx'[v] = tx[v]
        BY <1>3, <2>1, <3>1
      <4>2. tx[v].op \in mix /\ (tx[v].op \in {"reverse", "record"} => Rung(tx[v].sale))
        BY <3>1, <4>1 DEF UsageInv, RungFirst
      <4>3. Rung(tx[v].sale) => sale'[tx[v].sale].state # "unrung"
        BY <1>3, <2>1 DEF Rung
      <4>4. QED
        BY <1>3, <4>1, <4>2, <4>3 DEF Rung
    <3>2. \A s \in Sales, k \in Packs :
            usage'[s][k].state # "none" => Rung(s)' /\ pack'[k].status # "none"
      BY <1>3 DEF UsageInv, RungFirst
    <3>3. \A s \in Sales : sale'[s].pack # "none" => Rung(s)'
      BY <1>3 DEF UsageInv, RungFirst
    <3>4. QED
      BY <3>1, <3>2, <3>3 DEF RungFirst
  <2>3. RowsStand'
    BY <1>3 DEF UsageInv, RowsStand
  <2>4. RestoresRow'
    <3> SUFFICES ASSUME NEW v \in Workers, tx'[v].op = "reverse" PROVE GivesBack(tx[v])'
      BY DEF RestoresRow, GivesBack
    <3>1. tx'[v] = tx[v] /\ tx[v].sale \in Sales /\ GivesBack(tx[v])
      BY <1>3, <2>1 DEF UsageInv, RestoresRow
    <3>2. QED
      BY <1>3, <3>1 DEF GivesBack
  <2>5. UsageExplains'
    BY <1>3 DEF UsageInv, UsageExplains, Uses
  <2>6. QED
    BY <2>2, <2>3, <2>4, <2>5 DEF UsageInv
<1>4. CASE Shelved
  BY <1>3, <1>4, <1>t DEF Shelved, Restart, Abort, TypeOK, counters, Rung
<1>5. CASE Dated
  <2>1. UNCHANGED <<mix, usage, sale, tx, raced>>
    BY <1>5 DEF Dated, Expire, Ends
  <2>2. CASE Expire
    BY <1>3, <1>t, <2>1, <2>2 DEF Expire, PastEnd, PackRow, Rung
  <2>3. ASSUME NEW k \in Packs, Ends(k) PROVE UsageInv'
    <3>1. \A j \in Packs : pack'[j].status = pack[j].status /\ pack'[j].used = pack[j].used
      BY <2>3, <1>t DEF Ends, PackRow, TypeOK
    <3>2. QED
      BY <1>3, <2>1, <3>1 DEF Rung
  <2>4. QED
    BY <1>5, <2>2, <2>3 DEF Dated
<1>6. CASE Granted \/ Aside \/ \E i \in Ids : Lapse(i)
  BY <1>3, <1>6 DEF Granted, IssueVoucher, InsertVoucher, Aside, StartCheck, CountVouchers,
                    Lapse, counters, Rung
<1>7. ASSUME NEW s \in Sales, Reopen(s) PROVE UsageInv'
  <2>1. UNCHANGED <<mix, pack, usage, tx, raced>>
    BY <1>7 DEF Reopen
  <2>2. \A r \in Sales : /\ sale'[r].pack = sale[r].pack /\ sale'[r].reversals = sale[r].reversals
                         /\ (sale'[r].state # "unrung") = (sale[r].state # "unrung")
    BY <1>7, <1>t DEF Reopen, SaleRow, TypeOK
  <2>3. QED
    BY <1>3, <2>1, <2>2 DEF Rung
<1>8. CASE UNCHANGED vars
  BY <1>3, <1>8 DEF vars, Rung
<1>9. QED
  BY <1>t, <1>1, <1>2, <1>4, <1>5, <1>6, <1>7, <1>8, StepCases

(* Uses that are left can be used, and the usage rows explain those that     *)
(* were taken: with any number of checkouts, reversals, recorded uses,       *)
(* cancellations and expiry runs, for requests that do not overlap where the *)
(* property says so.                                                         *)
THEOREM QuotaIsExplained == Spec => []QuotaExplained
<1>1. Init => CancelInv
  BY NoPlanMade, HeldAssumption DEF Init, CancelInv, Alone
<1>2. Typed /\ QuotaInv /\ CancelInv /\ [Next]_vars => CancelInv'
  BY CancelStep
<1>3. UsableInv /\ UsageInv => QuotaExplained
  BY DEF UsableInv, UsageInv, AllOpen, Open, QuotaUsable, QuotaExplained
<1>4. QED
  BY <1>1, <1>2, <1>3, AlwaysSound, UsableInit, UsableStep, UsageInit, UsageStep,
     PTL DEF Spec

----------------------------------------------------------------------------
(* Milestones.  While no two checks overlapped there is one check at most,   *)
(* it counts what there is when it inserts, and the slot it is after is      *)
(* worth no more than the most that was ever spent.                          *)

LEMMA DivGrows ==
    ASSUME NEW t \in Nat \ {0}, NEW a \in Nat, NEW b \in Nat, a <= b
    PROVE  a \div t <= b \div t /\ a \div t \in Nat /\ (a >= t => a \div t >= 1)
<1>1. /\ a \div t \in Int /\ b \div t \in Int
      /\ t * (a \div t) <= a /\ a < t * (a \div t) + t
      /\ t * (b \div t) <= b /\ b < t * (b \div t) + t
  OBVIOUS
<1>2. ASSUME NEW q \in Int, NEW r \in Int, t * q <= b, b < t * r + t PROVE q <= r
  <2>1. t * q < t * r + t
    BY <1>2
  <2>2. t * q < t * (r + 1)
    BY <2>1
  <2>3. q < r + 1
    BY <2>2
  <2>4. QED
    BY <2>3
<1>3. QED
  BY <1>1

\* A larger spend is worth no fewer vouchers.
LEMMA ExpectedGrows ==
    ASSUME NEW a \in Int, NEW b \in Int, a <= b
    PROVE  Expected(a) \in Nat /\ Expected(a) <= Expected(b)
<1>0. Threshold \in Nat \ {0}
  BY HeldAssumption
<1>1. CASE a < Threshold
  <2>1. Expected(a) = 0
    BY <1>1 DEF Expected
  <2>2. b >= Threshold => Expected(b) = 1 \/ Expected(b) = b \div Threshold
    BY <1>0 DEF Expected
  <2>3. b < Threshold => Expected(b) = 0
    BY DEF Expected
  <2>4. b >= Threshold => b \div Threshold \in Nat
    BY <1>0, DivGrows
  <2>5. QED
    BY <1>0, <2>1, <2>2, <2>3, <2>4
<1>2. CASE a >= Threshold
  <2>1. a \in Nat /\ b \in Nat /\ b >= Threshold
    BY <1>0, <1>2
  <2>2. a \div Threshold <= b \div Threshold /\ a \div Threshold \in Nat
    BY <1>0, <2>1, DivGrows
  <2>3. CASE "repeatable" \in mix
    BY <1>0, <1>2, <2>1, <2>2, <2>3 DEF Expected
  <2>4. CASE "repeatable" \notin mix
    BY <1>0, <1>2, <2>1, <2>4 DEF Expected
  <2>5. QED
    BY <2>3, <2>4
<1>3. QED
  BY <1>0, <1>1, <1>2

LEMMA RuleVouchers ==
    ASSUME TypeOK
    PROVE  IsFiniteSet(Ids) /\ IsFiniteSet(By("rule")) /\ Cardinality(By("rule")) \in Nat
<1>1. IsFiniteSet(Ids)
  <2>1. Ids = 1..Len(voucher) /\ Len(voucher) \in Nat
    BY DEF TypeOK, Ids
  <2>2. QED
    BY <2>1, FS_Interval
<1>2. IsFiniteSet(By("rule"))
  BY <1>1, FS_Subset DEF By
<1>3. QED
  BY <1>1, <1>2, FS_CardinalityType

LEMMA MilestoneInit == Init => MilestoneInv
<1> SUFFICES ASSUME Init PROVE MilestoneInv
  OBVIOUS
<1>1. By("rule") = {}
  BY DEF Init, By, Ids
<1>2. Cardinality(By("rule")) = 0 /\ Expected(0) \in Nat
  BY <1>1, FS_EmptySet, ExpectedGrows
<1>3. \A w \in Workers : check[w].phase = "idle"
  BY DEF Init, NoCheck
<1>4. QED
  BY <1>2, <1>3 DEF Init, MilestoneInv, MilestonesWithin, Checks, CheckSound

\* A step that starts, moves and issues none: the most that was spent may
\* grow, checks may be forgotten.
LEMMA MilestoneKept ==
    ASSUME Typed, Typed', MilestoneInv, spend' <= peak', peak <= peak', mix' = mix,
           By("rule")' = By("rule"), doubled' = doubled,
           \A w \in Workers : check'[w] = check[w] \/ check'[w] = NoCheck
    PROVE  MilestoneInv'
<1>0. peak \in Int /\ peak' \in Int /\ NoCheck.phase = "idle"
      /\ (\A n \in Int : Expected(n)' = Expected(n))
  BY DEF Typed, TypeOK, NoCheck, Expected
<1>1. \A w \in Workers : check[w].spend \in Int /\ check[w].phase \in {"idle", "counting", "inserting"}
  BY DEF Typed, TypeOK, Check
<1>2. Cardinality(By("rule")) \in Nat /\ Cardinality(By("rule"))' = Cardinality(By("rule"))
  BY RuleVouchers DEF Typed
<1>3. Expected(peak) \in Nat /\ Expected(peak') \in Nat /\ Expected(peak) <= Expected(peak')
      /\ Expected(peak)' = Expected(peak')
  BY <1>0, ExpectedGrows
<1>4. MilestonesWithin'
  BY <1>2, <1>3 DEF MilestoneInv, MilestonesWithin
<1>5. ~doubled' => \A v, w \in Checks' : v = w
  BY <1>0 DEF MilestoneInv, Checks
<1>6. ASSUME NEW w \in Workers PROVE CheckSound(check[w])'
  <2>1. CASE check'[w] = NoCheck
    BY <1>0, <2>1 DEF CheckSound
  <2>2. CASE check'[w] = check[w]
    <3>1. CheckSound(check[w])
      BY DEF MilestoneInv
    <3>2. QED
      BY <1>0, <1>1, <1>2, <2>2, <3>1 DEF CheckSound, Expected
  <2>3. QED
    BY <2>1, <2>2
<1>7. QED
  BY <1>4, <1>5, <1>6 DEF MilestoneInv

LEMMA MilestoneChecks ==
    ASSUME Typed, Typed', MilestoneInv, NEW w \in Workers, StartCheck(w) \/ CountVouchers(w)
    PROVE  MilestoneInv'
<1>0. /\ UNCHANGED <<mix, voucher, spend, peak>> /\ By("rule")' = By("rule")
      /\ spend \in Int /\ peak \in Int /\ check \in [Workers -> Check] /\ check' \in [Workers -> Check]
      /\ \A v \in Workers \ {w} : check'[v] = check[v]
  BY DEF StartCheck, CountVouchers, By, Ids, Typed, TypeOK
<1>1. PICK c : c = check'[w]
  OBVIOUS
<1>2. doubled \in BOOLEAN /\ (doubled' = doubled \/ doubled' = TRUE)
  BY DEF StartCheck, CountVouchers, Typed, TypeOK
<1>3. CASE StartCheck(w)
  <2> DEFINE phase == IF Expected(spend) > 0 THEN "counting" ELSE "idle"
  <2>0. c = [NoCheck EXCEPT !.spend = spend, !.phase = phase]
    BY <1>0, <1>1, <1>3 DEF StartCheck
  <2>1. ~doubled' => ~doubled /\ \A v \in Workers : check[v].phase = "idle"
    BY <1>3 DEF StartCheck
  <2>2. /\ c.spend = spend /\ c.slot = 1
        /\ c.phase = IF Expected(spend) > 0 THEN "counting" ELSE "idle"
    BY <2>0 DEF NoCheck
  <2>3. Expected(spend) \in Nat /\ (c.phase # "idle" => 1 <= Expected(spend)) /\ c.phase # "inserting"
    BY <1>0, <2>2, ExpectedGrows
  <2>4. MilestonesWithin'
    BY <1>0, <1>2 DEF MilestoneInv, MilestonesWithin, Expected
  <2>5. ~doubled' => \A v, u \in Checks' : v = u
    BY <1>0, <2>1 DEF Checks
  <2>6. CheckSound(check[w])'
    BY <1>0, <1>1, <2>2, <2>3 DEF MilestoneInv, CheckSound, Expected
  <2>7. ASSUME NEW v \in Workers \ {w} PROVE CheckSound(check[v])'
    BY <1>0, <1>2, <2>7 DEF MilestoneInv, CheckSound, Expected
  <2>8. QED
    BY <1>0, <2>4, <2>5, <2>6, <2>7 DEF MilestoneInv
<1>4. CASE CountVouchers(w)
  <2>1. /\ check[w].phase = "counting" /\ doubled' = doubled
        /\ check' = [check EXCEPT ![w].phase = "inserting", ![w].count = Cardinality(Counted)]
    BY <1>4 DEF CountVouchers
  <2>2. /\ c.phase = "inserting" /\ c.count = Cardinality(By("rule"))
        /\ c.spend = check[w].spend /\ c.slot = check[w].slot
    BY <1>0, <1>1, <2>1 DEF Check, Counted
  <2>3. CheckSound(check[w])
    BY DEF MilestoneInv
  <2>4. CheckSound(check[w])'
    BY <1>0, <1>1, <2>1, <2>2, <2>3 DEF CheckSound, Expected
  <2>5. ASSUME NEW v \in Workers \ {w} PROVE CheckSound(check[v])'
    BY <1>0, <2>1, <2>5 DEF MilestoneInv, CheckSound, Expected
  <2>6. MilestonesWithin'
    BY <1>0, <2>1 DEF MilestoneInv, MilestonesWithin, Expected
  <2>7. ~doubled' => \A v, u \in Checks' : v = u
    BY <1>0, <2>1 DEF MilestoneInv, Checks
  <2>8. QED
    BY <1>0, <2>4, <2>5, <2>6, <2>7 DEF MilestoneInv
<1>5. QED
  BY <1>3, <1>4

LEMMA MilestoneInsert ==
    ASSUME Typed, Typed', MilestoneInv, NEW w \in Workers, InsertVoucher(w)
    PROVE  MilestoneInv'
<1>0. /\ UNCHANGED <<mix, spend, peak, doubled>> /\ check[w].phase = "inserting"
      /\ spend \in Int /\ peak \in Int /\ check \in [Workers -> Check]
      /\ \A v \in Workers \ {w} : check'[v] = check[v]
      /\ voucher' = IF check[w].count < check[w].slot THEN Append(voucher, Issued("rule")) ELSE voucher
  BY DEF InsertVoucher, Typed, TypeOK
<1>1. PICK c : c = check[w]
  OBVIOUS
<1>2. /\ c \in Check /\ c.phase = "inserting" /\ c.spend \in Int /\ c.slot \in Nat
      /\ c.spend <= peak /\ c.slot >= 1 /\ c.slot <= Expected(c.spend)
      /\ ~doubled => c.count = Cardinality(By("rule"))
  BY <1>0, <1>1 DEF MilestoneInv, CheckSound, Check
<1>3. Expected(c.spend) \in Nat /\ Expected(peak) \in Nat /\ Expected(c.spend) <= Expected(peak)
  <2>1. peak \in Int /\ peak <= peak /\ c.spend \in Int /\ c.spend <= peak
    BY <1>0, <1>2
  <2>2. Expected(c.spend) \in Nat /\ Expected(c.spend) <= Expected(peak)
    BY <2>1, ExpectedGrows
  <2>3. Expected(peak) \in Nat
    BY <2>1, ExpectedGrows
  <2>4. QED
    BY <2>2, <2>3
<1>4. PICK d : d = check'[w]
  OBVIOUS
<1>5. \/ d = NoCheck
      \/ /\ c.slot < Expected(c.spend)
         /\ d.phase = "counting" /\ d.spend = c.spend /\ d.slot = c.slot + 1
  BY <1>0, <1>1, <1>2, <1>4 DEF InsertVoucher, GoesOn, Check
<1>6. CheckSound(check[w])'
  BY <1>0, <1>2, <1>3, <1>4, <1>5 DEF CheckSound, Expected, NoCheck
<1>7. ~doubled => \A v \in Workers \ {w} : check[v].phase = "idle"
  BY <1>0, <1>1, <1>2 DEF MilestoneInv, Checks
<1>8. ASSUME NEW v \in Workers \ {w} PROVE CheckSound(check[v])'
  BY <1>0, <1>7, <1>8 DEF MilestoneInv, CheckSound, Expected
<1>9. ~doubled' => \A v, u \in Checks' : v = u
  BY <1>0, <1>7 DEF Checks
<1>10. MilestonesWithin'
  <2> SUFFICES ASSUME ~doubled PROVE Cardinality(By("rule")') <= Expected(peak)
    BY <1>0 DEF MilestonesWithin, Expected
  <2>1. IsFiniteSet(By("rule")) /\ Cardinality(By("rule")) \in Nat
    BY RuleVouchers DEF Typed
  <2>2. CASE ~(c.count < c.slot)
    BY <1>0, <1>1, <2>2 DEF MilestoneInv, MilestonesWithin, By, Ids
  <2>3. CASE c.count < c.slot
    <3> DEFINE n == Len(voucher) + 1
    <3>1. voucher' = Append(voucher, Issued("rule")) /\ voucher \in Seq(Voucher)
      BY <1>0, <1>1, <2>3 DEF Typed, TypeOK
    <3>2. /\ DOMAIN voucher' = Ids \cup {n} /\ n \notin Ids
          /\ \A i \in Ids : voucher'[i] = voucher[i]
          /\ voucher'[n] = Issued("rule")
      BY <3>1 DEF Ids
    <3>3. By("rule")' = By("rule") \cup {n} /\ n \notin By("rule")
      BY <3>2 DEF By, Ids, Issued
    <3>4. Cardinality(By("rule") \cup {n}) = Cardinality(By("rule")) + 1
      BY <2>1, <3>3, FS_AddElement
    <3>5. Cardinality(By("rule")) + 1 <= c.slot
      BY <1>2, <2>1, <2>3
    <3>6. Cardinality(By("rule")') = Cardinality(By("rule")) + 1
      BY <3>3, <3>4
    <3>7. Cardinality(By("rule")) + 1 <= Expected(c.spend)
      BY <1>2, <1>3, <2>1, <3>5
    <3>8. QED
      BY <1>3, <2>1, <3>6, <3>7
  <2>4. QED
    BY <2>2, <2>3
<1>11. QED
  BY <1>0, <1>6, <1>8, <1>9, <1>10 DEF MilestoneInv

LEMMA MilestoneStep == Typed /\ MilestoneInv /\ [Next]_vars => MilestoneInv'
<1> SUFFICES ASSUME Typed, MilestoneInv, [Next]_vars PROVE MilestoneInv'
  OBVIOUS
<1>t. TypeOK /\ Typed' /\ spend \in Int /\ peak \in Int /\ spend <= peak
  BY TypedStep DEF Typed, TypeOK, MilestoneInv
<1>1. ASSUME UNCHANGED <<mix, voucher, spend, peak, doubled>>,
             \A w \in Workers : check'[w] = check[w] \/ check'[w] = NoCheck
      PROVE  MilestoneInv'
  <2>1. By("rule")' = By("rule")
    BY <1>1 DEF By, Ids
  <2>2. QED
    BY <1>t, <1>1, <2>1, MilestoneKept
<1>2. ASSUME NEW w \in Workers, Commit(w) PROVE MilestoneInv'
  <2>1. PICK p : p = tx[w]
    OBVIOUS
  <2>2. /\ UNCHANGED <<mix, check, doubled>> /\ spend' \in Int
        /\ peak' = More(peak, spend')
        /\ voucher' = IF p.voucher = 0 THEN voucher ELSE [voucher EXCEPT ![p.voucher] = Redeemed(@, p)]
    BY <1>2, <1>t, <2>1 DEF Commit, Typed, TypeOK
  <2>3. spend' <= peak' /\ peak <= peak'
    BY <1>t, <2>2 DEF More
  <2>4. Ids' = Ids /\ \A i \in Ids : voucher'[i].by = voucher[i].by
    <3>1. voucher \in Seq(Voucher) /\ \A i \in Ids : voucher[i] \in Voucher
      BY <1>t, VoucherRow DEF TypeOK
    <3>2. \A v \in Voucher : Redeemed(v, p).by = v.by
      BY DEF Redeemed, Voucher
    <3>3. QED
      BY <2>2, <3>1, <3>2 DEF Ids
  <2>5. By("rule")' = By("rule")
    BY <2>4 DEF By
  <2>6. QED
    BY <1>t, <2>2, <2>3, <2>5, MilestoneKept
<1>3. ASSUME NEW w \in Workers, NEW p, Begin(w, p) PROVE MilestoneInv'
  BY <1>1, <1>3 DEF Begin, counters
<1>4. CASE Shelved
  BY <1>1, <1>4, <1>t DEF Shelved, Restart, Abort, counters, TypeOK
<1>5. CASE Dated \/ (\E s \in Sales : Reopen(s)) \/ UNCHANGED vars
  BY <1>1, <1>5 DEF Dated, Expire, Ends, Reopen, counters, vars
<1>6. CASE Granted
  <2>1. CASE IssueVoucher
    <3> DEFINE n == Len(voucher) + 1
    <3>1. /\ voucher' = Append(voucher, Issued("hand")) /\ voucher \in Seq(Voucher)
          /\ UNCHANGED <<mix, spend, peak, check, doubled>>
      BY <2>1, <1>t DEF IssueVoucher, counters, TypeOK
    <3>2. /\ DOMAIN voucher' = Ids \cup {n} /\ n \notin Ids
          /\ \A i \in Ids : voucher'[i] = voucher[i]
          /\ voucher'[n] = Issued("hand")
      BY <3>1 DEF Ids
    <3>3. By("rule")' = By("rule")
      BY <3>2 DEF By, Ids, Issued
    <3>4. QED
      BY <1>t, <3>1, <3>3, MilestoneKept
  <2>2. QED
    BY <1>6, <1>t, <2>1, MilestoneInsert DEF Granted
<1>7. CASE Aside
  BY <1>7, <1>t, MilestoneChecks DEF Aside
<1>8. ASSUME NEW i \in Ids, Lapse(i) PROVE MilestoneInv'
  <2>1. /\ UNCHANGED <<mix, spend, peak, check, doubled>>
        /\ voucher' = [voucher EXCEPT ![i].ends = "past"] /\ voucher \in Seq(Voucher)
    BY <1>8, <1>t DEF Lapse, counters, TypeOK
  <2>2. Ids' = Ids /\ \A j \in Ids : voucher'[j].by = voucher[j].by
    BY <2>1, <1>t, VoucherRow DEF Ids, Voucher
  <2>3. By("rule")' = By("rule")
    BY <2>2 DEF By
  <2>4. QED
    BY <1>t, <2>1, <2>3, MilestoneKept
<1>9. QED
  BY <1>t, <1>2, <1>3, <1>4, <1>5, <1>6, <1>7, <1>8, StepCases

(* No more milestone vouchers are issued than the most that was ever spent   *)
(* is worth, whatever is reversed, restarted or issued by hand in between,   *)
(* as long as no two checks overlapped.                                      *)
THEOREM MilestonesStayWithin == Spec => []MilestonesWithin
<1>1. MilestoneInv => MilestonesWithin
  BY DEF MilestoneInv
<1>2. QED
  BY <1>1, TypedInit, TypedStep, MilestoneInit, MilestoneStep, PTL DEF Spec

(***************************************************************************)
(* The administration of a tenant (module Tenancy).                        *)
(***************************************************************************)
LEMMA NoTaskMade ==
  /\ NoTask \in Task /\ NoTask.op = "pay" /\ NoTask.step = "idle" /\ NoTask.n = 0 /\ NoTask.found = FALSE
  /\ DOMAIN NoTask = {"op", "step", "login", "outlet", "warehouse", "plan", "n", "todo", "saw", "found",
                      "held", "seq", "month", "over"}
  /\ NoSub \in SubRow /\ NoLogin \in LoginRow
<1>1. NoSub \in SubRow /\ NoLogin \in LoginRow
  BY TenancyAssumption DEF NoSub, SubRow, NoLogin, LoginRow, Plans, Lives
<1>. QED
  BY <1>1 DEF NoTask, Task, Chores, PlanOps, Steps, Plans

LEMMA Onward ==
  ASSUME NEW p \in Task, NEW s \in Steps, NEW q, q = [p EXCEPT !.step = s]
  PROVE  /\ q \in Task /\ q.step = s /\ q.op = p.op /\ q.login = p.login /\ q.outlet = p.outlet
         /\ q.warehouse = p.warehouse /\ q.plan = p.plan /\ q.n = p.n /\ q.todo = p.todo /\ q.saw = p.saw
         /\ q.found = p.found /\ q.held = p.held /\ q.seq = p.seq /\ q.month = p.month /\ q.over = p.over
  BY DEF Task

LEMMA PreparedOnward ==
  ASSUME NEW p, Prepared(p), p.step # "idle", NEW s \in Steps \ {"idle"}, p.op = "addOutlet" => s # "half"
  PROVE  Prepared([p EXCEPT !.step = s])
<1>1. PICK q : q = [p EXCEPT !.step = s]
  OBVIOUS
<1>. QED
  BY <1>1, Onward DEF Prepared, In

LEMMA NothingPrepared == Prepared(NoTask)
  BY NoTaskMade DEF Prepared, In

LEMMA AllPrepared ==
  ASSUME TenancyTypes, NEW w \in Admins, NEW q, Prepared(q), task' = [task EXCEPT ![w] = q], duty' = duty
  PROVE  /\ task' \in [Admins -> Task] /\ \A u \in Admins : Prepared(task[u])'
         /\ task'[w] = q /\ \A u \in Admins \ {w} : task'[u] = task[u]
<1>1. task'[w] = q /\ \A u \in Admins \ {w} : task'[u] = task[u]
  BY DEF TenancyTypes, TenantTypeOK
<1>2. q \in Task
  BY DEF Prepared
<1>3. task' \in [Admins -> Task]
  BY <1>2 DEF TenancyTypes, TenantTypeOK
<1>4. ASSUME NEW u \in Admins PROVE Prepared(task[u])'
  <2>1. PICK r : r = task'[u]
    OBVIOUS
  <2>2. Prepared(r)
    BY <1>1, <2>1 DEF TenancyTypes
  <2>. QED
    BY <2>1, <2>2 DEF Prepared
<1>. QED
  BY <1>1, <1>3, <1>4

LEMMA LifeSet ==
  ASSUME NEW f \in [Logins -> LoginRow], NEW n \in Logins, NEW x \in Lives
  PROVE  [f EXCEPT ![n].life = x] \in [Logins -> LoginRow]
<1>1. [f[n] EXCEPT !.life = x] \in LoginRow
  BY DEF LoginRow
<1>. QED
  BY <1>1

LEMMA WordSet ==
  ASSUME NEW f \in [Logins -> LoginRow], NEW n \in Logins, NEW x \in 0..MaxRequests
  PROVE  [f EXCEPT ![n].word = x] \in [Logins -> LoginRow]
<1>1. [f[n] EXCEPT !.word = x] \in LoginRow
  BY DEF LoginRow
<1>. QED
  BY <1>1

LEMMA RowSet ==
  ASSUME NEW f \in [Logins -> LoginRow], NEW n \in Logins, NEW x \in Lives, NEW k \in 0..MaxRequests
  PROVE  /\ [f EXCEPT ![n] = [life |-> x, word |-> k]] \in [Logins -> LoginRow]
         /\ [f EXCEPT ![n] = NoLogin] \in [Logins -> LoginRow]
  BY NoTaskMade DEF LoginRow

LEMMA LoginsTyped ==
  ASSUME TenancyTypes, NEW w \in Admins, NEW n \in Logins,
         \/ MakeTenant(w) \/ SetUpUser(w) \/ UndoSignUp(w) \/ MakeLogin(w, n) \/ MakeUser(w, n) \/ UndoAddLogin(w, n)
         \/ CloseLogin(w, n) \/ CloseUser(w, n) \/ UndoDropLogin(w, n) \/ SetPassword(w, n) \/ CopyPassword(w, n)
  PROVE  login' \in [Logins -> LoginRow] /\ user' \in [Logins -> LoginRow]
<1>1. login \in [Logins -> LoginRow] /\ user \in [Logins -> LoginRow] /\ Owner \in Logins
  BY TenancyAssumption DEF TenancyTypes, TenantTypeOK
<1>2. task[w].op \in {"addLogin", "password"} => task[w].n \in 0..MaxRequests
  BY DEF TenancyTypes, Prepared
<1>3. {"live", "closed"} \subseteq Lives
  BY DEF Lives
<1>4. CASE MakeTenant(w) \/ SetUpUser(w) \/ CloseLogin(w, n)
  BY <1>1, <1>3, <1>4, LifeSet DEF MakeTenant, SetUpUser, CloseLogin, logins
<1>5. CASE UndoSignUp(w)
  <2>1. login' = [login EXCEPT ![Owner] = NoLogin] /\ user' = user
    BY <1>5 DEF UndoSignUp, logins
  <2>. QED
    BY <1>1, <1>3, <2>1, NoTaskMade
<1>6. CASE MakeLogin(w, n) \/ MakeUser(w, n)
  BY <1>1, <1>2, <1>3, <1>6, RowSet DEF MakeLogin, MakeUser, At
<1>7. CASE UndoAddLogin(w, n)
  BY <1>1, <1>2, <1>3, <1>7, RowSet DEF UndoAddLogin
<1>8. CASE CloseUser(w, n) \/ UndoDropLogin(w, n)
  BY <1>1, <1>3, <1>8, LifeSet DEF CloseUser, UndoDropLogin
<1>9. CASE SetPassword(w, n) \/ CopyPassword(w, n)
  BY <1>1, <1>2, <1>9, WordSet DEF SetPassword, CopyPassword, At
<1>. QED
  BY <1>4, <1>5, <1>6, <1>7, <1>8, <1>9

LEMMA SubSet ==
  ASSUME NEW f \in [Outlets -> SubRow], NEW o \in Outlets
  PROVE  /\ \A plan \in Plans, status \in Status, price \in Customs \cup {NoPrice} :
              [f EXCEPT ![o].plan = plan, ![o].price = price, ![o].status = status] \in [Outlets -> SubRow]
         /\ \A until \in Int, status \in Status :
              [f EXCEPT ![o].until = until, ![o].status = status] \in [Outlets -> SubRow]
         /\ \A price \in Customs \cup {NoPrice} : [f EXCEPT ![o].price = price] \in [Outlets -> SubRow]
         /\ \A status \in Status : [f EXCEPT ![o].status = status] \in [Outlets -> SubRow]
         /\ \A plan \in Plans, status \in Status, until \in Int :
              [f EXCEPT ![o] = [NoSub EXCEPT !.plan = plan, !.status = status, !.until = until]]
                \in [Outlets -> SubRow]
<1>1. f[o] \in SubRow /\ NoSub \in SubRow
  BY NoTaskMade
<1>2. ASSUME NEW r \in SubRow
      PROVE  /\ \A plan \in Plans : [r EXCEPT !.plan = plan] \in SubRow
             /\ \A status \in Status : [r EXCEPT !.status = status] \in SubRow
             /\ \A until \in Int : [r EXCEPT !.until = until] \in SubRow
             /\ \A price \in Customs \cup {NoPrice} : [r EXCEPT !.price = price] \in SubRow
  BY DEF SubRow, Status
<1>. QED
  BY <1>1, <1>2

LEMMA FewestOutlet ==
  ASSUME NEW O \in SUBSET Outlets, O # {}
  PROVE  Min(O) \in O /\ \A o \in O : Min(O) <= o
<1>1. O \subseteq Nat
  BY TenancyAssumption
<1>2. \E x \in O : \A y \in O : x <= y
  BY <1>1, LeastNat
<1>. QED
  BY <1>2 DEF Min

LEMMA CountsTyped ==
  /\ \A K \in SUBSET Warehouses : IsFiniteSet(K) /\ Cardinality(K) \in Nat /\ Billable(K) \in Nat
  /\ \A O \in SUBSET Outlets : IsFiniteSet(O) /\ Cardinality(O) \in Nat
  /\ IsFiniteSet(Active) /\ Cardinality(Active) \in Nat
<1>1. ASSUME NEW K \in SUBSET Warehouses PROVE IsFiniteSet(K) /\ Cardinality(K) \in Nat /\ Billable(K) \in Nat
  <2>1. IsFiniteSet(K) /\ Cardinality(K) \in Nat
    BY TenancyAssumption, FS_Subset, FS_CardinalityType
  <2>2. K # {} => Cardinality(K) # 0
    BY <2>1, FS_EmptySet
  <2>. QED
    BY <2>1, <2>2 DEF Billable
<1>2. ASSUME NEW O \in SUBSET Outlets PROVE IsFiniteSet(O) /\ Cardinality(O) \in Nat
  BY TenancyAssumption, FS_Subset, FS_CardinalityType
<1>3. IsFiniteSet(Active) /\ Cardinality(Active) \in Nat
  BY TenancyAssumption, FS_Subset, FS_CardinalityType DEF Active
<1>. QED
  BY <1>1, <1>2, <1>3

LEMMA OverTyped ==
  ASSUME NEW O \in SUBSET Outlets, NEW subs, \A o \in O : subs[o].plan \in Plans
  PROVE  Included(O, subs) \in Nat /\ Over(O, subs) \in Nat
<1> DEFINE f == [o \in O |-> Seats[subs[o].plan]]
<1>1. \A o \in O : f[o] \in Nat
  BY TenancyAssumption
<1> HIDE DEF f
<1>2. SumOver(f, O) \in Nat
  BY <1>1, SumOverNat, CountsTyped
<1>. QED
  BY <1>2, CountsTyped DEF Included, Over, f

LEMMA TaskTyped ==
  ASSUME TenancyTypes, NEW w \in Admins
  PROVE  /\ task[w] \in Task /\ task[w].plan \in Plans /\ task[w].over \in Nat /\ task[w].seq \in Nat
         /\ task[w].month \in Nat /\ task[w].outlet \in Outlets \cup {0} /\ task[w].held \in SUBSET Warehouses
         /\ task[w].todo \in SUBSET Outlets /\ task[w].saw \in [Outlets -> SubRow] /\ task[w].n \in Int
         /\ task[w].found \in BOOLEAN /\ 1 \in Outlets
         /\ \A o \in Outlets : /\ task[w].saw[o].plan \in Plans /\ task[w].saw[o].until \in Int
                               /\ sub[o].plan \in Plans /\ sub[o].until \in Int
                               /\ sub[o].status \in Status
<1>1. task[w] \in Task /\ 1 \in Outlets
  BY TenancyAssumption DEF TenancyTypes, TenantTypeOK
<1>2. /\ task[w].plan \in Plans /\ task[w].over \in Nat /\ task[w].seq \in Nat
      /\ task[w].month \in Nat /\ task[w].outlet \in Outlets \cup {0} /\ task[w].held \in SUBSET Warehouses
      /\ task[w].todo \in SUBSET Outlets /\ task[w].saw \in [Outlets -> SubRow] /\ task[w].n \in Int
      /\ task[w].found \in BOOLEAN
  BY <1>1 DEF Task
<1>3. sub \in [Outlets -> SubRow]
  BY DEF TenancyTypes, TenantTypeOK
<1>. QED
  BY <1>1, <1>2, <1>3 DEF SubRow, Status

LEMMA SubTyped ==
  ASSUME TenancyTypes, NEW w \in Admins, NEW o \in Outlets,
         \/ MakeTenant(w) \/ UndoSignUp(w) \/ OpenOutlet(w) \/ CloseOutlet(w, o) \/ MoveSubscription(w)
         \/ Pay(w, o) \/ SetPrice(w, o)
  PROVE  sub' \in [Outlets -> SubRow]
<1>1. sub \in [Outlets -> SubRow] /\ now \in Nat /\ Month \in Nat
  BY TenancyAssumption DEF TenancyTypes, TenantTypeOK
<1>2. NoPrice \in Customs \cup {NoPrice} /\ now + Month \in Int
  BY <1>1 DEF NoPrice
<1>3. CASE MakeTenant(w)
  <2>1. PICK status : status = IF task[w].found THEN "trial" ELSE "Active"
    OBVIOUS
  <2>2. sub' = [sub EXCEPT ![1] = [NoSub EXCEPT !.plan = task[w].plan, !.status = status, !.until = now + Month]]
    BY <1>3, <2>1 DEF MakeTenant, NoSub
  <2>3. status \in Status /\ 1 \in Outlets /\ task[w].plan \in Plans
    BY <2>1, TaskTyped DEF Status
  <2>. QED
    BY <1>1, <1>2, <2>2, <2>3, SubSet
<1>4. CASE UndoSignUp(w)
  BY <1>1, <1>2, <1>4, TaskTyped, NoTaskMade DEF UndoSignUp
<1>5. CASE OpenOutlet(w)
  <2>1. task[w].outlet \in Outlets
    BY <1>5 DEF OpenOutlet, At, TenancyTypes, Prepared, In
  <2>2. PICK seen : seen = task[w].saw[1]
    OBVIOUS
  <2>3. PICK status : status = IF JoinsTrial(seen) THEN "trial" ELSE "Active"
    OBVIOUS
  <2>4. PICK until : until = IF JoinsTrial(seen) THEN seen.until ELSE now + Month
    OBVIOUS
  <2>5. sub' = [sub EXCEPT ![task[w].outlet] = [NoSub EXCEPT !.plan = seen.plan, !.status = status, !.until = until]]
    BY <1>5, <2>2, <2>3, <2>4 DEF OpenOutlet
  <2>6. seen.plan \in Plans /\ until \in Int
    BY <1>2, <2>2, <2>4, TaskTyped
  <2>7. status \in Status
    BY <2>3 DEF Status
  <2>. QED
    BY <1>1, <2>1, <2>5, <2>6, <2>7, SubSet
<1>6. CASE CloseOutlet(w, o)
  <2>1. PICK status : status = IF sub[o].status \in Paying THEN "expired" ELSE sub[o].status
    OBVIOUS
  <2>2. sub' = [sub EXCEPT ![o].status = status]
    BY <1>6, <2>1 DEF CloseOutlet
  <2>3. status \in Status
    BY <2>1, TaskTyped DEF Status
  <2>. QED
    BY <1>1, <2>2, <2>3, SubSet
<1>7. CASE MoveSubscription(w)
  <2>1. PICK p : p = Min(task[w].todo)
    OBVIOUS
  <2>2. p \in Outlets
    BY <1>7, <2>1, FewestOutlet, TaskTyped DEF MoveSubscription
  <2>3. PICK status : status = IF EndsTrial(task[w].saw[p], task[w].plan) THEN "Active" ELSE sub[p].status
    OBVIOUS
  <2>4. sub' = [sub EXCEPT ![p].plan = task[w].plan, ![p].price = NoPrice, ![p].status = status]
    BY <1>1, <1>7, <2>1, <2>2, <2>3 DEF MoveSubscription
  <2>5. status \in Status /\ task[w].plan \in Plans
    BY <2>2, <2>3, TaskTyped DEF Status
  <2>. QED
    BY <1>1, <1>2, <2>2, <2>4, <2>5, SubSet
<1>8. CASE Pay(w, o)
  <2>1. PICK until \in Int : until = task[w].saw[o].until
    BY TaskTyped
  <2>2. sub' = sub \/ sub' = [sub EXCEPT ![o].until = until, ![o].status = "Active"]
    BY <1>8, <2>1 DEF Pay
  <2>3. "Active" \in Status
    BY DEF Status
  <2>4. [sub EXCEPT ![o].until = until, ![o].status = "Active"] \in [Outlets -> SubRow]
    BY <1>1, <2>3, SubSet
  <2>. QED
    BY <1>1, <2>2, <2>4
<1>9. CASE SetPrice(w, o)
  <2>1. task[w].n \in Customs \cup {NoPrice}
    BY <1>9 DEF SetPrice, At, TenancyTypes, Prepared
  <2>2. sub' = [sub EXCEPT ![o].price = task[w].n]
    BY <1>9 DEF SetPrice
  <2>. QED
    BY <1>1, <2>1, <2>2, SubSet
<1>. QED
  BY <1>3, <1>4, <1>5, <1>6, <1>7, <1>8, <1>9

LEMMA GoingOn ==
  ASSUME TenancyTypes, NEW w \in Admins, NEW s \in Steps \ {"idle"}, Goto(w, s),
         task[w].step # "idle", task[w].op = "addOutlet" => s # "half"
  PROVE  \E q : Advance(w, q)
<1>1. PICK p : p = task[w]
  OBVIOUS
<1>2. Prepared(p) /\ p \in Task
  BY <1>1 DEF TenancyTypes, Prepared
<1>3. PICK q : q = [p EXCEPT !.step = s]
  OBVIOUS
<1>4. Prepared(q)
  BY <1>1, <1>2, <1>3, PreparedOnward
<1>5. q.op = p.op /\ q.step = s
  BY <1>2, <1>3, Onward
<1>. QED
  BY <1>1, <1>3, <1>4, <1>5 DEF Advance, Goto, Goes

LEMMA Finishing ==
  ASSUME TenancyTypes, NEW w \in Admins, Done(w), task[w].step # "idle"
  PROVE  Advance(w, NoTask)
  BY NothingPrepared DEF Done, Goes, Advance

LEMMA SignUpAdvances ==
  ASSUME TenancyTypes, NEW w \in Admins,
         \/ MakeTenant(w) \/ SetUpUser(w) \/ SetUpShop(w) \/ SetUpDepot(w) \/ SetUpMain(w) \/ EndSignUp(w)
         \/ UndoSignUp(w)
  PROVE  \E q : Advance(w, q)
<1>1. task[w].step # "idle" /\ task[w].op # "addOutlet"
  BY DEF MakeTenant, SetUpUser, SetUpShop, SetUpDepot, SetUpMain, EndSignUp, UndoSignUp, At
<1>2. Done(w) \/ \E s \in {"made", "both", "placed", "half"} : Goto(w, s)
  BY DEF MakeTenant, SetUpUser, SetUpShop, SetUpDepot, SetUpMain, EndSignUp, UndoSignUp
<1>. QED
  BY <1>1, <1>2, GoingOn, Finishing DEF Steps

LEMMA LoginAdvances ==
  ASSUME TenancyTypes, NEW w \in Admins, NEW n \in Logins, NEW o \in Outlets,
         \/ MakeLogin(w, n) \/ MakeUser(w, n) \/ PlaceLogin(w, n) \/ UndoAddLogin(w, n)
         \/ CloseLogin(w, n) \/ CloseUser(w, n) \/ UndoDropLogin(w, n) \/ SetPassword(w, n) \/ CopyPassword(w, n)
         \/ Assign(w, n, o) \/ Unassign(w, n, o) \/ BillLogins(w)
  PROVE  \E q : Advance(w, q)
<1>1. task[w].step # "idle" /\ task[w].op # "addOutlet"
  BY DEF MakeLogin, MakeUser, PlaceLogin, UndoAddLogin, CloseLogin, CloseUser, UndoDropLogin, SetPassword,
         CopyPassword, Assign, Unassign, BillLogins, At
<1>2. Done(w) \/ \E s \in {"made", "both", "placed"} : Goto(w, s)
  BY DEF MakeLogin, MakeUser, PlaceLogin, UndoAddLogin, CloseLogin, CloseUser, UndoDropLogin, SetPassword,
         CopyPassword, Assign, Unassign, BillLogins
<1>. QED
  BY <1>1, <1>2, GoingOn, Finishing DEF Steps

LEMMA WarehouseAdvances ==
  ASSUME TenancyTypes, NEW w \in Admins, NEW k \in Warehouses,
         \/ OpenWarehouse(w, k) \/ OpenDepot(w, k) \/ CloseWarehouse(w, k) \/ CloseDepot(w, k)
         \/ StockIn(w, k) \/ StockOut(w, k)
  PROVE  \E q : Advance(w, q)
<1>1. task[w].step # "idle" /\ task[w].op # "addOutlet"
  BY DEF OpenWarehouse, OpenDepot, CloseWarehouse, CloseDepot, StockIn, StockOut, At
<1>2. Done(w) \/ Goto(w, "half")
  BY DEF OpenWarehouse, OpenDepot, CloseWarehouse, CloseDepot, StockIn, StockOut
<1>. QED
  BY <1>1, <1>2, GoingOn, Finishing DEF Steps

LEMMA OutletAdvances ==
  ASSUME TenancyTypes, NEW w \in Admins, NEW o \in Outlets,
         \/ OpenOutlet(w) \/ CloseShop(w, o) \/ CloseOutlet(w, o) \/ Pay(w, o) \/ LogPrice(w, o) \/ SetPrice(w, o)
  PROVE  \E q : Advance(w, q)
<1>1. task[w].step # "idle"
  BY DEF OpenOutlet, CloseShop, CloseOutlet, Pay, LogPrice, SetPrice, At
<1>2. Done(w) \/ (task[w].op # "addOutlet" /\ \E s \in {"half", "made"} : Goto(w, s))
  BY DEF OpenOutlet, CloseShop, CloseOutlet, Pay, LogPrice, SetPrice, At
<1>. QED
  BY <1>1, <1>2, GoingOn, Finishing DEF Steps

LEMMA PlanAdvances ==
  ASSUME TenancyTypes, NEW w \in Admins,
         \/ CloseWarehouses(w) \/ CloseDepots(w) \/ OpenMain(w) \/ OpenMainDepot(w) \/ Sideways(w)
         \/ BillSeats(w) \/ LoyaltyOn(w) \/ LoyaltyOff(w)
  PROVE  \E q : Advance(w, q)
<1>1. task[w].step # "idle" /\ task[w].op # "addOutlet"
  BY DEF CloseWarehouses, CloseDepots, OpenMain, OpenMainDepot, Sideways, BillSeats, LoyaltyOn, LoyaltyOff, At
<1>2. Done(w) \/ \E s \in {"half", "subs"} : Goto(w, s)
  BY DEF CloseWarehouses, CloseDepots, OpenMain, OpenMainDepot, Sideways, BillSeats, LoyaltyOn, LoyaltyOff
<1>. QED
  BY <1>1, <1>2, GoingOn, Finishing DEF Steps

\* The steps that also note what they have read.
LEMMA Noted ==
  ASSUME TenancyTypes, NEW w \in Admins, NEW q \in Task, Goes(w, q), task[w].step # "idle",
         q.op = task[w].op, q.step # "idle", q.n = task[w].n,
         In(q, "addOutlet", {"half"}) => q.outlet \in Outlets
  PROVE  Advance(w, q)
<1>1. Prepared(task[w])
  BY DEF TenancyTypes
<1>2. Prepared(q)
  BY <1>1 DEF Prepared, In
<1>. QED
  BY <1>2 DEF Goes, Advance

LEMMA CountLoginsAdvances ==
  ASSUME TenancyTypes, NEW w \in Admins, CountLogins(w)
  PROVE  \E q : /\ Advance(w, q) /\ q.step = "counted" /\ q.op = task[w].op /\ q.login = task[w].login
                /\ q.found = task[w].found /\ q.n = task[w].n /\ q.over = Over(Charged(sub), sub)
<1>1. PICK p \in Task : p = task[w]
  BY TaskTyped
<1>2. PICK m \in Nat : m = Over(Charged(sub), sub)
  BY OverTyped, TaskTyped DEF Charged
<1>3. PICK q : q = [p EXCEPT !.step = "counted", !.over = m]
  OBVIOUS
<1>4. /\ q \in Task /\ q.op = p.op /\ q.step = "counted" /\ q.n = p.n /\ q.login = p.login /\ q.over = m
      /\ q.found = p.found
  BY <1>3 DEF Task, Steps
<1>5. Goes(w, q) /\ p.step # "idle" /\ p.op # "addOutlet"
  BY <1>1, <1>2, <1>3 DEF CountLogins, At
<1>. QED
  BY <1>1, <1>2, <1>4, <1>5, Noted DEF In

LEMMA FindWarehouseAdvances ==
  ASSUME TenancyTypes, NEW w \in Admins, NEW k \in Warehouses, FindWarehouse(w, k)
  PROVE  \E q : /\ Advance(w, q) /\ q.step = "open" /\ q.op = "addWarehouse" /\ q.warehouse = k
                /\ q.held = LiveDepots /\ q.found = (depot[k] = "closed")
<1>1. PICK p \in Task : p = task[w]
  BY TaskTyped
<1>2. PICK K \in SUBSET Warehouses : K = LiveDepots
  BY DEF LiveDepots
<1>3. PICK found \in BOOLEAN : found = (depot[k] = "closed")
  OBVIOUS
<1>4. PICK q : q = [p EXCEPT !.step = "open", !.held = K, !.found = found]
  OBVIOUS
<1>5. /\ q \in Task /\ q.op = p.op /\ q.step = "open" /\ q.n = p.n /\ q.warehouse = p.warehouse /\ q.held = K
      /\ q.found = found
  BY <1>4 DEF Task, Steps
<1>6. Goes(w, q) /\ p.step # "idle" /\ p.op = "addWarehouse" /\ p.warehouse = k
  BY <1>1, <1>2, <1>3, <1>4 DEF FindWarehouse, At
<1>. QED
  BY <1>1, <1>2, <1>3, <1>5, <1>6, Noted DEF In

LEMMA CheckWarehouseAdvances ==
  ASSUME TenancyTypes, NEW w \in Admins, NEW k \in Warehouses, CheckWarehouse(w, k)
  PROVE  \E q : /\ Advance(w, q) /\ q.step = "open" /\ q.op = "dropWarehouse" /\ q.warehouse = k
                /\ q.held = LiveDepots
<1>1. PICK p \in Task : p = task[w]
  BY TaskTyped
<1>2. PICK K \in SUBSET Warehouses : K = LiveDepots
  BY DEF LiveDepots
<1>3. PICK q : q = [p EXCEPT !.step = "open", !.held = K]
  OBVIOUS
<1>4. q \in Task /\ q.op = p.op /\ q.step = "open" /\ q.n = p.n /\ q.warehouse = p.warehouse /\ q.held = K
  BY <1>3 DEF Task, Steps
<1>5. Goes(w, q) /\ p.step # "idle" /\ p.op = "dropWarehouse" /\ p.warehouse = k
  BY <1>1, <1>2, <1>3 DEF CheckWarehouse, At
<1>. QED
  BY <1>1, <1>2, <1>4, <1>5, Noted DEF In

LEMMA OpenShopAdvances ==
  ASSUME TenancyTypes, NEW w \in Admins, OpenShop(w)
  PROVE  \E q, o : /\ Advance(w, q) /\ q.step = "half" /\ q.op = "addOutlet" /\ q.outlet = o /\ q.saw = task[w].saw
                   /\ o \in NextOutlet /\ o \in Outlets /\ shop' = [shop EXCEPT ![o] = "live"]
                   /\ task[w].op = "addOutlet" /\ task[w].step = "asked"
<1>1. PICK p \in Task : p = task[w]
  BY TaskTyped
<1>2. PICK o : o = Min(NextOutlet)
  OBVIOUS
<1>3. o \in NextOutlet /\ o \in Outlets
  BY <1>2, FewestOutlet DEF OpenShop, NextOutlet
<1>4. PICK q : q = [p EXCEPT !.step = "half", !.outlet = o]
  OBVIOUS
<1>5. q \in Task /\ q.op = p.op /\ q.step = "half" /\ q.n = p.n /\ q.outlet = o /\ q.saw = p.saw
  BY <1>3, <1>4 DEF Task, Steps
<1>6. Goes(w, q) /\ p.step = "asked" /\ p.op = "addOutlet" /\ shop' = [shop EXCEPT ![o] = "live"]
  BY <1>1, <1>2, <1>4 DEF OpenShop, At
<1>. QED
  BY <1>1, <1>3, <1>5, <1>6, Noted DEF In

LEMMA MoveSubscriptionAdvances ==
  ASSUME TenancyTypes, NEW w \in Admins, MoveSubscription(w)
  PROVE  \E q, o : /\ Advance(w, q) /\ q.step = "subs" /\ q.op = "changePlan" /\ q.saw = task[w].saw
                   /\ q.plan = task[w].plan /\ q.todo = task[w].todo \ {o} /\ o \in task[w].todo /\ o \in Outlets
                   /\ o = Min(task[w].todo)
<1>1. PICK p \in Task : p = task[w]
  BY TaskTyped
<1>2. PICK o : o = Min(p.todo)
  OBVIOUS
<1>3. o \in p.todo /\ o \in Outlets /\ p.todo \subseteq Outlets
  BY <1>1, <1>2, FewestOutlet, TaskTyped DEF MoveSubscription
<1>4. PICK q : q = [p EXCEPT !.todo = p.todo \ {o}]
  OBVIOUS
<1>5. /\ q \in Task /\ q.op = p.op /\ q.step = p.step /\ q.n = p.n /\ q.outlet = p.outlet /\ q.saw = p.saw
      /\ q.plan = p.plan /\ q.todo = p.todo \ {o}
  BY <1>3, <1>4 DEF Task
<1>6. Goes(w, q) /\ p.step = "subs" /\ p.op = "changePlan"
  BY <1>1, <1>2, <1>4 DEF MoveSubscription, At
<1>. QED
  BY <1>1, <1>2, <1>3, <1>5, <1>6, Noted DEF In

LEMMA CountSeatsAdvances ==
  ASSUME TenancyTypes, NEW w \in Admins, CountSeats(w)
  PROVE  \E q : /\ Advance(w, q) /\ q.step = "seats" /\ q.op = "changePlan" /\ q.saw = task[w].saw
                /\ q.plan = task[w].plan /\ q.todo = task[w].todo
                /\ q.over = Over(Read(task[w].saw), [o \in Outlets |-> [plan |-> task[w].plan]])
<1>1. PICK p \in Task : p = task[w]
  BY TaskTyped
<1>2. Read(p.saw) \in SUBSET Outlets /\ p.plan \in Plans
  BY <1>1, TaskTyped DEF Read
<1>3. PICK m \in Nat : m = Over(Read(p.saw), [o \in Outlets |-> [plan |-> p.plan]])
  <2> DEFINE f == [o \in Outlets |-> [plan |-> p.plan]]
  <2>1. \A o \in Outlets : f[o].plan \in Plans
    BY <1>2
  <2> HIDE DEF f
  <2>2. Over(Read(p.saw), f) \in Nat
    BY <1>2, <2>1, OverTyped
  <2>. QED
    BY <2>2 DEF f
<1>4. PICK q : q = [p EXCEPT !.step = "seats", !.over = m]
  OBVIOUS
<1>5. /\ q \in Task /\ q.op = p.op /\ q.step = "seats" /\ q.n = p.n /\ q.saw = p.saw
      /\ q.plan = p.plan /\ q.todo = p.todo /\ q.over = m
  BY <1>3, <1>4 DEF Task, Steps
<1>6. Goes(w, q) /\ p.step = "subs" /\ p.op = "changePlan"
  BY <1>1, <1>3, <1>4 DEF CountSeats, At
<1>. QED
  BY <1>1, <1>3, <1>5, <1>6, Noted DEF In

LEMMA InMonth ==
  ASSUME TenancyTypes
  PROVE  /\ now \div Month \in 0..(Horizon \div Month) /\ now \div Month \in Nat
         /\ invoices[now \div Month] \in Nat
<1>1. now \in Nat /\ Horizon \in Nat /\ now <= Horizon /\ Month \in Nat \ {0}
  BY TenancyAssumption DEF TenancyTypes, TenantTypeOK
<1>2. now \div Month \in Nat /\ Horizon \div Month \in Nat /\ now \div Month <= Horizon \div Month
  BY <1>1
<1>. QED
  BY <1>2 DEF TenancyTypes, TenantTypeOK

LEMMA MonthsTyped == Month \in Nat /\ \A n \in Nat : n * Month \in Nat
<1>1. Month \in Nat
  BY TenancyAssumption
<1>2. PICK m \in Nat : m = Month
  BY <1>1
<1>3. \A n \in Nat : n * m \in Nat
  OBVIOUS
<1>. QED
  BY <1>2, <1>3

LEMMA ReadPaidAdvances ==
  ASSUME TenancyTypes, NEW w \in Admins, NEW o \in Outlets, ReadPaid(w, o)
  PROVE  \E q : /\ Advance(w, q) /\ q.step = "open" /\ q.op = "pay" /\ q.outlet = o
                /\ q.n = task[w].n /\ q.n \in Nat /\ sub[o].status # "none"
                /\ q.month = now \div Month /\ q.seq = invoices[now \div Month] + 1
                /\ q.saw[o].until = (IF q.n > 0 /\ PaidUp(sub[o].until) = "Expired" THEN now ELSE sub[o].until)
                                      + q.n * Month
<1>1. PICK p \in Task : p = task[w]
  BY TaskTyped
<1>2. /\ p.step = "asked" /\ p.op = "pay" /\ p.outlet = o /\ p.n \in Nat /\ sub[o].status # "none"
      /\ p.saw \in [Outlets -> SubRow]
  BY <1>1, TaskTyped DEF ReadPaid, At, TenancyTypes, Prepared
<1>3. PICK from : from = IF p.n > 0 /\ PaidUp(sub[o].until) = "Expired" THEN now ELSE sub[o].until
  OBVIOUS
<1>4. from \in Int /\ sub[o] \in SubRow /\ Month \in Nat
  <2>1. from = now \/ from = sub[o].until
    BY <1>3
  <2>2. now \in Int /\ now \in 0..Horizon /\ sub[o] \in SubRow
    BY DEF TenancyTypes, TenantTypeOK
  <2>3. sub[o].until \in Int /\ Month \in Nat
    BY TaskTyped, MonthsTyped
  <2>. QED
    BY <2>1, <2>2, <2>3
<1>5. PICK until \in Int : until = from + p.n * Month
  <2>1. PICK bought \in Nat : bought = p.n * Month
    BY <1>2, MonthsTyped
  <2>. QED
    BY <1>4, <2>1
<1>6. PICK r : r = [sub[o] EXCEPT !.until = until]
  OBVIOUS
<1>7. r \in SubRow /\ r.until = until
  BY <1>4, <1>5, <1>6 DEF SubRow
<1>8. PICK saw : saw = [p.saw EXCEPT ![o] = r]
  OBVIOUS
<1>9. saw \in [Outlets -> SubRow] /\ saw[o] = r
  BY <1>2, <1>7, <1>8
<1>10. PICK month \in Nat, seq \in Nat : month = now \div Month /\ seq = invoices[now \div Month] + 1
  BY InMonth
<1>11. PICK q : q = [p EXCEPT !.step = "open", !.month = month, !.seq = seq, !.saw = saw]
  OBVIOUS
<1>12. /\ q \in Task /\ q.op = p.op /\ q.step = "open" /\ q.n = p.n /\ q.outlet = p.outlet /\ q.saw = saw
       /\ q.month = month /\ q.seq = seq
  BY <1>9, <1>11 DEF Task, Steps
<1>13. q = [p EXCEPT !.step = "open", !.month = month, !.seq = seq, !.saw[o] = r]
  BY <1>8, <1>11
<1>14. Goes(w, q)
  BY <1>1, <1>2, <1>3, <1>5, <1>6, <1>10, <1>13 DEF ReadPaid
<1>15. Advance(w, q)
  BY <1>1, <1>2, <1>12, <1>14, Noted DEF In
<1>. QED
  BY <1>1, <1>2, <1>3, <1>5, <1>7, <1>9, <1>10, <1>12, <1>15

LEMMA TakenOn ==
  ASSUME NEW w \in Admins, NEW q \in Task, Accept(w, q), q.step = "asked",
         q.op \in {"addLogin", "password"} => q.n \in 0..MaxRequests,
         q.op = "customPrice" => q.n \in Customs \cup {NoPrice},
         q.op = "pay" => q.n \in Nat
  PROVE  Admitted(w, q)
  BY DEF Admitted, Prepared, In, Accept

LEMMA WorkKnown ==
  /\ "asked" \in Steps
  /\ \A op \in {"signUp", "addLogin", "dropLogin", "password", "addWarehouse", "dropWarehouse", "stockIn", "stockOut",
                "addOutlet", "dropOutlet", "assign", "unassign", "changePlan", "pay", "customPrice", "loyaltyOn",
                "loyaltyOff"} : op \in Chores
  BY DEF Steps, Chores, LoginOps, WarehouseOps, OutletOps, PlanOps

LEMMA SignUpAsked ==
  ASSUME TenancyTypes, NEW w \in Admins, NEW plan \in Plans, NEW trial \in BOOLEAN, AskSignUp(w, plan, trial)
  PROVE  \E q : Admitted(w, q) /\ q.op = "signUp" /\ q.plan = plan /\ q.found = trial /\ (trial => plan = "Pro")
<1>1. PICK q : q = [NoTask EXCEPT !.op = "signUp", !.step = "asked", !.plan = plan, !.found = trial]
  OBVIOUS
<1>2. q \in Task /\ q.step = "asked" /\ q.op = "signUp" /\ q.plan = plan /\ q.found = trial
  BY <1>1, NoTaskMade, WorkKnown, TenancyAssumption DEF Task, Plans
<1>3. Accept(w, q) /\ (trial => plan = "Pro")
  BY <1>1 DEF AskSignUp
<1>. QED
  BY <1>2, <1>3, TakenOn, TenancyAssumption

LEMMA AddLoginAsked ==
  ASSUME TenancyTypes, NEW w \in Admins, NEW n \in Logins, AskLogin(w, n)
  PROVE  \E q : Admitted(w, q) /\ q.op = "addLogin" /\ q.login = n /\ q.n = begun + 1 /\ login[n].life = "absent"
<1>1. begun < MaxRequests /\ begun \in 0..MaxRequests /\ MaxRequests \in Nat
  BY TenancyAssumption, Zenon DEF AskLogin, Accept, TenancyTypes, TenantTypeOK
<1>2. PICK m \in 0..MaxRequests : m = begun + 1
  BY <1>1
<1>3. PICK q : q = [NoTask EXCEPT !.op = "addLogin", !.step = "asked", !.login = n, !.n = m]
  OBVIOUS
<1>4. m \in Int
  OBVIOUS
<1>5. q \in Task /\ q.step = "asked" /\ q.op = "addLogin" /\ q.login = n /\ q.n = m
  BY <1>3, <1>4, NoTaskMade, WorkKnown DEF Task
<1>6. Accept(w, q) /\ login[n].life = "absent"
  BY <1>2, <1>3 DEF AskLogin
<1>. QED
  BY <1>2, <1>5, <1>6, TakenOn

LEMMA DropLoginAsked ==
  ASSUME TenancyTypes, NEW w \in Admins, NEW n \in Logins, AskDropLogin(w, n)
  PROVE  \E q : Admitted(w, q) /\ q.op = "dropLogin" /\ q.login = n /\ q.found = (user[n].life # "absent") /\ login[n].life = "live"
<1>0. PICK found \in BOOLEAN : found = (user[n].life # "absent")
  OBVIOUS
<1>1. PICK q : q = [NoTask EXCEPT !.op = "dropLogin", !.step = "asked", !.login = n, !.found = found]
  OBVIOUS
<1>2. q \in Task /\ q.step = "asked" /\ q.op = "dropLogin" /\ q.login = n /\ q.found = found
  BY <1>1, NoTaskMade, WorkKnown DEF Task
<1>3. Accept(w, q) /\ login[n].life = "live"
  BY <1>0, <1>1 DEF AskDropLogin
<1>. QED
  BY <1>0, <1>2, <1>3, TakenOn

LEMMA PasswordAsked ==
  ASSUME TenancyTypes, NEW w \in Admins, NEW n \in Logins, AskPassword(w, n)
  PROVE  \E q : Admitted(w, q) /\ q.op = "password" /\ q.login = n /\ q.n = begun + 1
<1>1. begun < MaxRequests /\ begun \in 0..MaxRequests /\ MaxRequests \in Nat
  BY TenancyAssumption, Zenon DEF AskPassword, Accept, TenancyTypes, TenantTypeOK
<1>2. PICK m \in 0..MaxRequests : m = begun + 1
  BY <1>1
<1>3. PICK q : q = [NoTask EXCEPT !.op = "password", !.step = "asked", !.login = n, !.n = m]
  OBVIOUS
<1>4. m \in Int
  OBVIOUS
<1>5. q \in Task /\ q.step = "asked" /\ q.op = "password" /\ q.login = n /\ q.n = m
  BY <1>3, <1>4, NoTaskMade, WorkKnown DEF Task
<1>6. Accept(w, q) /\ TRUE
  BY <1>2, <1>3 DEF AskPassword
<1>. QED
  BY <1>2, <1>5, <1>6, TakenOn

LEMMA AddWarehouseAsked ==
  ASSUME TenancyTypes, NEW w \in Admins, NEW k \in Warehouses, AskWarehouse(w, k)
  PROVE  \E q : Admitted(w, q) /\ q.op = "addWarehouse" /\ q.warehouse = k
<1>1. PICK q : q = [NoTask EXCEPT !.op = "addWarehouse", !.step = "asked", !.warehouse = k]
  OBVIOUS
<1>2. q \in Task /\ q.step = "asked" /\ q.op = "addWarehouse" /\ q.warehouse = k
  BY <1>1, NoTaskMade, WorkKnown, TenancyAssumption DEF Task, Plans
<1>3. Accept(w, q)
  BY <1>1 DEF AskWarehouse
<1>. QED
  BY <1>2, <1>3, TakenOn, TenancyAssumption

LEMMA DropWarehouseAsked ==
  ASSUME TenancyTypes, NEW w \in Admins, NEW k \in Warehouses, AskDropWarehouse(w, k)
  PROVE  \E q : Admitted(w, q) /\ q.op = "dropWarehouse" /\ q.warehouse = k
<1>1. PICK q : q = [NoTask EXCEPT !.op = "dropWarehouse", !.step = "asked", !.warehouse = k]
  OBVIOUS
<1>2. q \in Task /\ q.step = "asked" /\ q.op = "dropWarehouse" /\ q.warehouse = k
  BY <1>1, NoTaskMade, WorkKnown, TenancyAssumption DEF Task, Plans
<1>3. Accept(w, q)
  BY <1>1 DEF AskDropWarehouse
<1>. QED
  BY <1>2, <1>3, TakenOn, TenancyAssumption

LEMMA DropOutletAsked ==
  ASSUME TenancyTypes, NEW w \in Admins, NEW o \in Outlets, AskDropOutlet(w, o)
  PROVE  \E q : Admitted(w, q) /\ q.op = "dropOutlet" /\ q.outlet = o /\ Cardinality(LiveOutlets) > 1 /\ outlet[o] # "absent"
<1>1. PICK q : q = [NoTask EXCEPT !.op = "dropOutlet", !.step = "asked", !.outlet = o]
  OBVIOUS
<1>2. q \in Task /\ q.step = "asked" /\ q.op = "dropOutlet" /\ q.outlet = o
  BY <1>1, NoTaskMade, WorkKnown, TenancyAssumption DEF Task, Plans
<1>3. Accept(w, q) /\ Cardinality(LiveOutlets) > 1 /\ outlet[o] # "absent"
  BY <1>1 DEF AskDropOutlet
<1>. QED
  BY <1>2, <1>3, TakenOn, TenancyAssumption

LEMMA PayAsked ==
  ASSUME TenancyTypes, NEW w \in Admins, NEW o \in Outlets, NEW m \in 0..MaxMonths, AskPay(w, o, m)
  PROVE  \E q : Admitted(w, q) /\ q.op = "pay" /\ q.outlet = o /\ q.n = m
<1>1. PICK i \in Nat : i = m
  BY TenancyAssumption
<1>2. PICK q : q = [NoTask EXCEPT !.op = "pay", !.step = "asked", !.outlet = o, !.n = i]
  OBVIOUS
<1>3. "pay" \in Chores /\ "asked" \in Steps /\ i \in Int
  BY DEF Chores, PlanOps, Steps
<1>4. q \in Task /\ q.step = "asked" /\ q.op = "pay" /\ q.outlet = o /\ q.n = i
  BY <1>2, <1>3, NoTaskMade DEF Task
<1>5. Accept(w, q)
  BY <1>1, <1>2 DEF AskPay
<1>. QED
  BY <1>1, <1>4, <1>5, TakenOn

LEMMA PriceAsked ==
  ASSUME TenancyTypes, NEW w \in Admins, NEW o \in Outlets, NEW c \in Customs \cup {NoPrice}, AskPrice(w, o, c)
  PROVE  \E q : Admitted(w, q) /\ q.op = "customPrice" /\ q.outlet = o /\ q.n = c /\ sub[o].status \in Paying
<1>0. c \in Int
  BY TenancyAssumption DEF NoPrice
<1>1. PICK q : q = [NoTask EXCEPT !.op = "customPrice", !.step = "asked", !.outlet = o, !.n = c]
  OBVIOUS
<1>2. q \in Task /\ q.step = "asked" /\ q.op = "customPrice" /\ q.outlet = o /\ q.n = c
  BY <1>0, <1>1, NoTaskMade, WorkKnown DEF Task
<1>3. Accept(w, q) /\ sub[o].status \in Paying
  BY <1>1 DEF AskPrice
<1>. QED
  BY <1>0, <1>2, <1>3, TakenOn

LEMMA AssignAsked ==
  ASSUME TenancyTypes, NEW w \in Admins, NEW n \in Logins, NEW o \in Outlets, AskAssign(w, n, o)
  PROVE  \E q : Admitted(w, q) /\ q.op \in {"assign", "unassign"}
<1>1. PICK op \in {"assign", "unassign"} :
        Accept(w, [NoTask EXCEPT !.op = op, !.step = "asked", !.login = n, !.outlet = o])
  BY DEF AskAssign
<1>2. PICK q : q = [NoTask EXCEPT !.op = op, !.step = "asked", !.login = n, !.outlet = o]
  OBVIOUS
<1>3. q \in Task /\ q.step = "asked" /\ q.op = op
  BY <1>1, <1>2, NoTaskMade, WorkKnown DEF Task
<1>. QED
  BY <1>1, <1>2, <1>3, TakenOn

LEMMA StockAsked ==
  ASSUME TenancyTypes, NEW w \in Admins, NEW k \in Warehouses, AskStock(w, k)
  PROVE  \E q : Admitted(w, q) /\ q.warehouse = k /\ (q.op = "stockOut" \/ (q.op = "stockIn" /\ warehouse[k] = "live"))
<1>1. PICK op \in {"stockIn", "stockOut"} :
        /\ Accept(w, [NoTask EXCEPT !.op = op, !.step = "asked", !.warehouse = k])
        /\ op = "stockIn" => warehouse[k] = "live"
  BY DEF AskStock
<1>2. PICK q : q = [NoTask EXCEPT !.op = op, !.step = "asked", !.warehouse = k]
  OBVIOUS
<1>3. q \in Task /\ q.step = "asked" /\ q.op = op /\ q.warehouse = k
  BY <1>1, <1>2, NoTaskMade, WorkKnown DEF Task
<1>. QED
  BY <1>1, <1>2, <1>3, TakenOn

LEMMA LoyaltyAsked ==
  ASSUME TenancyTypes, NEW w \in Admins, AskLoyalty(w)
  PROVE  \E q : Admitted(w, q) /\ (q.op = "loyaltyOff" \/ (q.op = "loyaltyOn" /\ HasPrimary /\ Primary.plan = "Pro"))
<1>1. PICK op \in {"loyaltyOn", "loyaltyOff"} :
        /\ Accept(w, [NoTask EXCEPT !.op = op, !.step = "asked"])
        /\ op = "loyaltyOn" => HasPrimary /\ Primary.plan = "Pro"
  BY DEF AskLoyalty
<1>2. PICK q : q = [NoTask EXCEPT !.op = op, !.step = "asked"]
  OBVIOUS
<1>3. q \in Task /\ q.step = "asked" /\ q.op = op
  BY <1>1, <1>2, NoTaskMade, WorkKnown DEF Task
<1>. QED
  BY <1>1, <1>2, <1>3, TakenOn

LEMMA PrimaryIs ==
  ASSUME TenancyTypes, HasPrimary
  PROVE  \E o \in Charged(sub) : Primary = sub[o] /\ o \in Outlets /\ sub[o] \in SubRow
  BY FewestOutlet DEF HasPrimary, Primary, Charged, TenancyTypes, TenantTypeOK

LEMMA AddOutletAsked ==
  ASSUME TenancyTypes, NEW w \in Admins, AskOutlet(w)
  PROVE  \E q : Admitted(w, q) /\ q.op = "addOutlet" /\ q.saw[1] = Primary /\ HasPrimary
<1>1. PICK r : r = Primary
  OBVIOUS
<1>2. r \in SubRow
  BY <1>1, PrimaryIs DEF AskOutlet
<1>3. PICK saw : saw = [NoTask.saw EXCEPT ![1] = r]
  OBVIOUS
<1>4. saw \in [Outlets -> SubRow] /\ saw[1] = r
  <2>1. NoTask.saw \in [Outlets -> SubRow] /\ 1 \in Outlets
    BY NoTaskMade, TenancyAssumption DEF Task
  <2>. QED
    BY <1>2, <1>3, <2>1
<1>5. PICK q : q = [NoTask EXCEPT !.op = "addOutlet", !.step = "asked", !.saw = saw]
  OBVIOUS
<1>6. q = [NoTask EXCEPT !.op = "addOutlet", !.step = "asked", !.saw[1] = r]
  BY <1>3, <1>5
<1>7. q \in Task /\ q.step = "asked" /\ q.op = "addOutlet" /\ q.saw = saw
  BY <1>4, <1>5, NoTaskMade, WorkKnown DEF Task
<1>8. Accept(w, q) /\ HasPrimary
  BY <1>1, <1>6 DEF AskOutlet
<1>. QED
  BY <1>1, <1>4, <1>7, <1>8, TakenOn

LEMMA PlanAsked ==
  ASSUME TenancyTypes, NEW w \in Admins, NEW plan \in Plans, AskPlan(w, plan)
  PROVE  \E q : /\ Admitted(w, q) /\ q.op = "changePlan" /\ q.plan = plan /\ q.todo = Charged(sub)
                /\ q.saw = [o \in Outlets |-> IF o \in Charged(sub) THEN sub[o] ELSE NoSub]
                /\ HasPrimary /\ Primary.plan # plan
<1>1. PICK saw : saw = [o \in Outlets |-> IF o \in Charged(sub) THEN sub[o] ELSE NoSub]
  OBVIOUS
<1>2. saw \in [Outlets -> SubRow]
  BY <1>1, NoTaskMade DEF TenancyTypes, TenantTypeOK
<1>3. PICK O \in SUBSET Outlets : O = Charged(sub)
  BY DEF Charged
<1>4. PICK q : q = [NoTask EXCEPT !.op = "changePlan", !.step = "asked", !.plan = plan, !.saw = saw, !.todo = O]
  OBVIOUS
<1>5. /\ q \in Task /\ q.step = "asked" /\ q.op = "changePlan" /\ q.plan = plan /\ q.saw = saw /\ q.todo = O
  BY <1>2, <1>4, NoTaskMade, WorkKnown DEF Task
<1>6. Accept(w, q) /\ HasPrimary /\ Primary.plan # plan
  BY <1>1, <1>3, <1>4 DEF AskPlan
<1>. QED
  BY <1>1, <1>3, <1>5, <1>6, TakenOn

LEMMA SignUpSteps ==
  ASSUME TenancyTypes, NEW w \in Admins, SignUp(w)
  PROVE  (\E q : Admitted(w, q)) \/ \E q : Advance(w, q)
  BY SignUpAdvances, SignUpAsked DEF SignUp

LEMMA LoginSteps ==
  ASSUME TenancyTypes, NEW w \in Admins, AnyLogin(w)
  PROVE  (\E q : Admitted(w, q)) \/ \E q : Advance(w, q)
<1>1. CASE CountLogins(w) \/ BillLogins(w)
  BY <1>1, CountLoginsAdvances, LoginAdvances, TenancyAssumption
<1>2. ASSUME NEW n \in Logins, AddLogin(w, n) \/ DropLogin(w, n) \/ Password(w, n)
      PROVE  (\E q : Admitted(w, q)) \/ \E q : Advance(w, q)
  BY <1>2, TenancyAssumption, AddLoginAsked, DropLoginAsked, PasswordAsked, LoginAdvances
     DEF AddLogin, DropLogin, Password
<1>3. ASSUME NEW n \in Logins, NEW o \in Outlets, AskAssign(w, n, o) \/ Assign(w, n, o) \/ Unassign(w, n, o)
      PROVE  (\E q : Admitted(w, q)) \/ \E q : Advance(w, q)
  BY <1>3, AssignAsked, LoginAdvances
<1>. QED
  BY <1>1, <1>2, <1>3 DEF AnyLogin

LEMMA WarehouseSteps ==
  ASSUME TenancyTypes, NEW w \in Admins, AnyWarehouse(w)
  PROVE  (\E q : Admitted(w, q)) \/ \E q : Advance(w, q)
<1>1. PICK k \in Warehouses : AddWarehouse(w, k) \/ DropWarehouse(w, k) \/ AskStock(w, k) \/ StockIn(w, k) \/ StockOut(w, k)
  BY DEF AnyWarehouse
<1>. QED
  BY <1>1, AddWarehouseAsked, DropWarehouseAsked, StockAsked, WarehouseAdvances, FindWarehouseAdvances,
     CheckWarehouseAdvances DEF AddWarehouse, DropWarehouse

LEMMA OutletSteps ==
  ASSUME TenancyTypes, NEW w \in Admins, AnyOutlet(w)
  PROVE  (\E q : Admitted(w, q)) \/ \E q : Advance(w, q)
<1>1. CASE AddOutlet(w)
  BY <1>1, AddOutletAsked, OpenShopAdvances, OutletAdvances, TenancyAssumption DEF AddOutlet
<1>2. ASSUME NEW o \in Outlets, DropOutlet(w, o) \/ RecordPayment(w, o) \/ CustomPrice(w, o)
      PROVE  (\E q : Admitted(w, q)) \/ \E q : Advance(w, q)
  BY <1>2, DropOutletAsked, PayAsked, PriceAsked, ReadPaidAdvances, OutletAdvances
     DEF DropOutlet, RecordPayment, CustomPrice
<1>. QED
  BY <1>1, <1>2 DEF AnyOutlet

LEMMA PlanSteps ==
  ASSUME TenancyTypes, NEW w \in Admins, AnyPlan(w)
  PROVE  (\E q : Admitted(w, q)) \/ \E q : Advance(w, q)
  BY PlanAsked, LoyaltyAsked, MoveSubscriptionAdvances, CountSeatsAdvances, PlanAdvances DEF AnyPlan, ChangePlan

\* What a step does to the requests.
LEMMA EveryStep ==
  ASSUME TenancyTypes, [TenantNext]_tenantVars
  PROVE  UNCHANGED tenantVars \/ Tick
         \/ \E w \in Admins : Fail(w) \/ (\E q : Admitted(w, q)) \/ (\E q : Advance(w, q))
  BY SignUpSteps, LoginSteps, WarehouseSteps, OutletSteps, PlanSteps, Zenon DEF TenantNext

LEMMA TasksTyped ==
  ASSUME TenancyTypes, [TenantNext]_tenantVars
  PROVE  task' \in [Admins -> Task] /\ \A u \in Admins : Prepared(task[u])'
<1>1. CASE UNCHANGED tenantVars \/ Tick
  <2>1. task' = task /\ duty' = duty
    BY <1>1 DEF tenantVars, Tick
  <2>. QED
    BY <2>1 DEF TenancyTypes, TenantTypeOK, Prepared
<1>2. ASSUME NEW w \in Admins, NEW q, (Fail(w) /\ q = NoTask) \/ Admitted(w, q) \/ Advance(w, q)
      PROVE  task' \in [Admins -> Task] /\ \A u \in Admins : Prepared(task[u])'
  <2>1. task' = [task EXCEPT ![w] = q] /\ duty' = duty /\ Prepared(q)
    BY <1>2, NothingPrepared DEF Fail, Admitted, Accept, Advance
  <2>. QED
    BY <2>1, AllPrepared
<1>. QED
  BY <1>1, <1>2, EveryStep

LEMMA ZeroedTyped ==
  ASSUME NEW f \in [{"user", "warehouse", "loyalty"} -> Nat]
  PROVE  [f EXCEPT !["warehouse"] = 0, !["loyalty"] = 0] \in [{"user", "warehouse", "loyalty"} -> Nat]
  OBVIOUS

LEMMA AddOnTyped ==
  ASSUME TenancyTypes, NEW w \in Admins, NEW k \in Warehouses,
         OpenDepot(w, k) \/ CloseDepot(w, k) \/ BillLogins(w) \/ BillSeats(w)
  PROVE  addOn' \in [{"user", "warehouse", "loyalty"} -> Nat]
<1>1. addOn \in [{"user", "warehouse", "loyalty"} -> Nat] /\ addOn["user"] \in Nat
  BY DEF TenancyTypes, TenantTypeOK
<1>2. \E m \in Nat : addOn' = addOn \/ addOn' = [addOn EXCEPT !["user"] = m] \/ addOn' = [addOn EXCEPT !["warehouse"] = m]
  <2>1. CASE OpenDepot(w, k)
    BY <2>1, TaskTyped, CountsTyped DEF OpenDepot
  <2>2. CASE CloseDepot(w, k)
    BY <2>2, TaskTyped, CountsTyped DEF CloseDepot
  <2>3. CASE BillLogins(w)
    <3>1. LoginsBilled(task[w].op, task[w].over, addOn["user"]) \in Nat
      BY <1>1, TaskTyped DEF LoginsBilled
    <3>. QED
      BY <2>3, <3>1 DEF BillLogins
  <2>4. CASE BillSeats(w)
    BY <2>4, TaskTyped DEF BillSeats
  <2>. QED
    BY <2>1, <2>2, <2>3, <2>4
<1>. QED
  BY <1>1, <1>2

LEMMA MembersTyped ==
  ASSUME TenancyTypes, NEW w \in Admins, NEW n \in Logins, PlaceLogin(w, n)
  PROVE  member' \in [Logins -> [Outlets -> Lives]]
<1>1. member \in [Logins -> [Outlets -> Lives]] /\ "live" \in Lives
  BY DEF TenancyTypes, TenantTypeOK, Lives
<1>2. PICK o : o = Min({x \in Outlets : shop[x] = "live"})
  OBVIOUS
<1>3. {x \in Outlets : shop[x] = "live"} # {} => o \in Outlets
  BY <1>2, FewestOutlet
<1>4. member' = member \/ (o \in Outlets /\ member' = [member EXCEPT ![n][o] = "live"])
  BY <1>2, <1>3 DEF PlaceLogin, Placed
<1>. QED
  BY <1>1, <1>4

LEMMA InvoicesTyped ==
  ASSUME TenancyTypes, NEW w \in Admins, NEW o \in Outlets, Pay(w, o)
  PROVE  invoices' \in [0..(Horizon \div Month) -> Nat]
  BY TaskTyped DEF Pay, TenancyTypes, TenantTypeOK

LEMMA SignUpRows ==
  ASSUME TenancyTypes, NEW w \in Admins,
         MakeTenant(w) \/ SetUpUser(w) \/ SetUpShop(w) \/ SetUpDepot(w) \/ SetUpMain(w) \/ EndSignUp(w) \/ UndoSignUp(w)
  PROVE  RowsTyped'
<1>1. CASE MakeTenant(w)
  <2>1. login' \in [Logins -> LoginRow] /\ user' \in [Logins -> LoginRow]
    BY <1>1, LoginsTyped, TenancyAssumption
  <2>2. sub' \in [Outlets -> SubRow]
    BY <1>1, SubTyped, TenancyAssumption
  <2>. QED
    BY <1>1, <2>1, <2>2, TenancyAssumption DEF TenancyTypes, TenantTypeOK, RowsTyped, MakeTenant, Goto, Goes, Done, logins, places, bills, Lives
<1>2. CASE SetUpUser(w)
  <2>1. login' \in [Logins -> LoginRow] /\ user' \in [Logins -> LoginRow]
    BY <1>2, LoginsTyped, TenancyAssumption
  <2>. QED
    BY <1>2, <2>1, TenancyAssumption DEF TenancyTypes, TenantTypeOK, RowsTyped, SetUpUser, Goto, Goes, Done, logins, places, bills, Lives
<1>3. CASE SetUpShop(w)
  BY <1>3, TenancyAssumption DEF TenancyTypes, TenantTypeOK, RowsTyped, SetUpShop, Goto, Goes, Done, logins, places, bills, Lives
<1>4. CASE SetUpDepot(w)
  BY <1>4, TenancyAssumption DEF TenancyTypes, TenantTypeOK, RowsTyped, SetUpDepot, Goto, Goes, Done, logins, places, bills, Lives
<1>5. CASE SetUpMain(w)
  BY <1>5, TenancyAssumption DEF TenancyTypes, TenantTypeOK, RowsTyped, SetUpMain, Goto, Goes, Done, logins, places, bills, Lives
<1>6. CASE EndSignUp(w)
  BY <1>6, TenancyAssumption DEF TenancyTypes, TenantTypeOK, RowsTyped, EndSignUp, Goto, Goes, Done, logins, places, bills, Lives
<1>7. CASE UndoSignUp(w)
  <2>1. login' \in [Logins -> LoginRow] /\ user' \in [Logins -> LoginRow]
    BY <1>7, LoginsTyped, TenancyAssumption
  <2>2. sub' \in [Outlets -> SubRow]
    BY <1>7, SubTyped, TenancyAssumption
  <2>. QED
    BY <1>7, <2>1, <2>2, TenancyAssumption DEF TenancyTypes, TenantTypeOK, RowsTyped, UndoSignUp, Goto, Goes, Done, logins, places, bills, Lives
<1>. QED
  BY <1>1, <1>2, <1>3, <1>4, <1>5, <1>6, <1>7

LEMMA AddLoginRows ==
  ASSUME TenancyTypes, NEW w \in Admins, NEW n \in Logins,
         MakeLogin(w, n) \/ MakeUser(w, n) \/ PlaceLogin(w, n) \/ UndoAddLogin(w, n)
  PROVE  RowsTyped'
<1>1. CASE MakeLogin(w, n)
  <2>1. login' \in [Logins -> LoginRow] /\ user' \in [Logins -> LoginRow]
    BY <1>1, LoginsTyped, TenancyAssumption
  <2>. QED
    BY <1>1, <2>1, TenancyAssumption DEF TenancyTypes, TenantTypeOK, RowsTyped, MakeLogin, Goto, Goes, Done, logins, places, bills, Lives
<1>2. CASE MakeUser(w, n)
  <2>1. login' \in [Logins -> LoginRow] /\ user' \in [Logins -> LoginRow]
    BY <1>2, LoginsTyped, TenancyAssumption
  <2>. QED
    BY <1>2, <2>1, TenancyAssumption DEF TenancyTypes, TenantTypeOK, RowsTyped, MakeUser, Goto, Goes, Done, logins, places, bills, Lives
<1>3. CASE PlaceLogin(w, n)
  <2>1. member' \in [Logins -> [Outlets -> Lives]]
    BY <1>3, MembersTyped
  <2>. QED
    BY <1>3, <2>1, TenancyAssumption DEF TenancyTypes, TenantTypeOK, RowsTyped, PlaceLogin, Goto, Goes, Done, logins, places, bills, Lives
<1>4. CASE UndoAddLogin(w, n)
  <2>1. login' \in [Logins -> LoginRow] /\ user' \in [Logins -> LoginRow]
    BY <1>4, LoginsTyped, TenancyAssumption
  <2>. QED
    BY <1>4, <2>1, TenancyAssumption DEF TenancyTypes, TenantTypeOK, RowsTyped, UndoAddLogin, Goto, Goes, Done, logins, places, bills, Lives
<1>. QED
  BY <1>1, <1>2, <1>3, <1>4

LEMMA DropLoginRows ==
  ASSUME TenancyTypes, NEW w \in Admins, NEW n \in Logins,
         CloseLogin(w, n) \/ CloseUser(w, n) \/ UndoDropLogin(w, n)
  PROVE  RowsTyped'
<1>1. CASE CloseLogin(w, n)
  <2>1. login' \in [Logins -> LoginRow] /\ user' \in [Logins -> LoginRow]
    BY <1>1, LoginsTyped, TenancyAssumption
  <2>. QED
    BY <1>1, <2>1, TenancyAssumption DEF TenancyTypes, TenantTypeOK, RowsTyped, CloseLogin, Goto, Goes, Done, logins, places, bills, Lives
<1>2. CASE CloseUser(w, n)
  <2>1. login' \in [Logins -> LoginRow] /\ user' \in [Logins -> LoginRow]
    BY <1>2, LoginsTyped, TenancyAssumption
  <2>. QED
    BY <1>2, <2>1, TenancyAssumption DEF TenancyTypes, TenantTypeOK, RowsTyped, CloseUser, Goto, Goes, Done, logins, places, bills, Lives
<1>3. CASE UndoDropLogin(w, n)
  <2>1. login' \in [Logins -> LoginRow] /\ user' \in [Logins -> LoginRow]
    BY <1>3, LoginsTyped, TenancyAssumption
  <2>. QED
    BY <1>3, <2>1, TenancyAssumption DEF TenancyTypes, TenantTypeOK, RowsTyped, UndoDropLogin, Goto, Goes, Done, logins, places, bills, Lives
<1>. QED
  BY <1>1, <1>2, <1>3

LEMMA PasswordRows ==
  ASSUME TenancyTypes, NEW w \in Admins, NEW n \in Logins,
         SetPassword(w, n) \/ CopyPassword(w, n)
  PROVE  RowsTyped'
<1>1. CASE SetPassword(w, n)
  <2>1. login' \in [Logins -> LoginRow] /\ user' \in [Logins -> LoginRow]
    BY <1>1, LoginsTyped, TenancyAssumption
  <2>. QED
    BY <1>1, <2>1, TenancyAssumption DEF TenancyTypes, TenantTypeOK, RowsTyped, SetPassword, Goto, Goes, Done, logins, places, bills, Lives
<1>2. CASE CopyPassword(w, n)
  <2>1. login' \in [Logins -> LoginRow] /\ user' \in [Logins -> LoginRow]
    BY <1>2, LoginsTyped, TenancyAssumption
  <2>. QED
    BY <1>2, <2>1, TenancyAssumption DEF TenancyTypes, TenantTypeOK, RowsTyped, CopyPassword, Goto, Goes, Done, logins, places, bills, Lives
<1>. QED
  BY <1>1, <1>2

LEMMA AssignRows ==
  ASSUME TenancyTypes, NEW w \in Admins, NEW n \in Logins, NEW o \in Outlets,
         Assign(w, n, o) \/ Unassign(w, n, o)
  PROVE  RowsTyped'
<1>1. CASE Assign(w, n, o)
  <2>1. member' \in [Logins -> [Outlets -> Lives]]
    BY <1>1, TaskTyped DEF Assign, TenancyTypes, TenantTypeOK, Lives
  <2>. QED
    BY <1>1, <2>1, TenancyAssumption DEF TenancyTypes, TenantTypeOK, RowsTyped, Assign, Goto, Goes, Done, logins, places, bills, Lives
<1>2. CASE Unassign(w, n, o)
  <2>1. member' \in [Logins -> [Outlets -> Lives]]
    BY <1>2, TaskTyped DEF Unassign, TenancyTypes, TenantTypeOK, Lives
  <2>. QED
    BY <1>2, <2>1, TenancyAssumption DEF TenancyTypes, TenantTypeOK, RowsTyped, Unassign, Goto, Goes, Done, logins, places, bills, Lives
<1>. QED
  BY <1>1, <1>2

LEMMA BillRows ==
  ASSUME TenancyTypes, NEW w \in Admins,
         CountLogins(w) \/ BillLogins(w)
  PROVE  RowsTyped'
<1>1. CASE CountLogins(w)
  BY <1>1, TenancyAssumption DEF TenancyTypes, TenantTypeOK, RowsTyped, CountLogins, Goto, Goes, Done, logins, places, bills, Lives
<1>2. CASE BillLogins(w)
  <2>1. addOn' \in [{"user", "warehouse", "loyalty"} -> Nat]
    BY <1>2, AddOnTyped, TenancyAssumption
  <2>. QED
    BY <1>2, <2>1, TenancyAssumption DEF TenancyTypes, TenantTypeOK, RowsTyped, BillLogins, Goto, Goes, Done, logins, places, bills, Lives
<1>. QED
  BY <1>1, <1>2

LEMMA AddWarehouseRows ==
  ASSUME TenancyTypes, NEW w \in Admins, NEW k \in Warehouses,
         FindWarehouse(w, k) \/ OpenWarehouse(w, k) \/ OpenDepot(w, k)
  PROVE  RowsTyped'
<1>1. CASE FindWarehouse(w, k)
  BY <1>1, TenancyAssumption DEF TenancyTypes, TenantTypeOK, RowsTyped, FindWarehouse, Goto, Goes, Done, logins, places, bills, Lives
<1>2. CASE OpenWarehouse(w, k)
  BY <1>2, TenancyAssumption DEF TenancyTypes, TenantTypeOK, RowsTyped, OpenWarehouse, Goto, Goes, Done, logins, places, bills, Lives
<1>3. CASE OpenDepot(w, k)
  <2>1. addOn' \in [{"user", "warehouse", "loyalty"} -> Nat]
    BY <1>3, AddOnTyped, TenancyAssumption
  <2>. QED
    BY <1>3, <2>1, TenancyAssumption DEF TenancyTypes, TenantTypeOK, RowsTyped, OpenDepot, Goto, Goes, Done, logins, places, bills, Lives
<1>. QED
  BY <1>1, <1>2, <1>3

LEMMA DropWarehouseRows ==
  ASSUME TenancyTypes, NEW w \in Admins, NEW k \in Warehouses,
         CheckWarehouse(w, k) \/ CloseWarehouse(w, k) \/ CloseDepot(w, k)
  PROVE  RowsTyped'
<1>1. CASE CheckWarehouse(w, k)
  BY <1>1, TenancyAssumption DEF TenancyTypes, TenantTypeOK, RowsTyped, CheckWarehouse, Goto, Goes, Done, logins, places, bills, Lives
<1>2. CASE CloseWarehouse(w, k)
  BY <1>2, TenancyAssumption DEF TenancyTypes, TenantTypeOK, RowsTyped, CloseWarehouse, Goto, Goes, Done, logins, places, bills, Lives
<1>3. CASE CloseDepot(w, k)
  <2>1. addOn' \in [{"user", "warehouse", "loyalty"} -> Nat]
    BY <1>3, AddOnTyped, TenancyAssumption
  <2>. QED
    BY <1>3, <2>1, TenancyAssumption DEF TenancyTypes, TenantTypeOK, RowsTyped, CloseDepot, Goto, Goes, Done, logins, places, bills, Lives
<1>. QED
  BY <1>1, <1>2, <1>3

LEMMA StockRows ==
  ASSUME TenancyTypes, NEW w \in Admins, NEW k \in Warehouses,
         StockIn(w, k) \/ StockOut(w, k)
  PROVE  RowsTyped'
<1>1. CASE StockIn(w, k)
  <2>1. UNCHANGED <<duty, vertical, now, begun, overlapped, cut, rolled, tenant, login, user, member, outlet, shop, depot,
                    warehouse, sub, logged, addOn, invoices, stale>>
    BY <1>1 DEF StockIn, Done, Goes, logins, bills
  <2>2. stock' \subseteq Warehouses
    BY <1>1 DEF StockIn, TenancyTypes, TenantTypeOK
  <2>. QED
    BY <2>1, <2>2 DEF TenancyTypes, TenantTypeOK, RowsTyped
<1>2. CASE StockOut(w, k)
  <2>1. UNCHANGED <<duty, vertical, now, begun, overlapped, cut, rolled, tenant, login, user, member, outlet, shop, depot,
                    warehouse, sub, logged, addOn, invoices, stale>>
    BY <1>2 DEF StockOut, Done, Goes, logins, bills
  <2>2. stock' \subseteq Warehouses
    BY <1>2 DEF StockOut, TenancyTypes, TenantTypeOK
  <2>. QED
    BY <2>1, <2>2 DEF TenancyTypes, TenantTypeOK, RowsTyped
<1>. QED
  BY <1>1, <1>2

LEMMA OutletRows ==
  ASSUME TenancyTypes, NEW w \in Admins, NEW o \in Outlets,
         CloseShop(w, o) \/ CloseOutlet(w, o) \/ ReadPaid(w, o) \/ Pay(w, o) \/ LogPrice(w, o) \/ SetPrice(w, o)
  PROVE  RowsTyped'
<1>1. CASE CloseShop(w, o)
  BY <1>1, TenancyAssumption DEF TenancyTypes, TenantTypeOK, RowsTyped, CloseShop, Goto, Goes, Done, logins, places, bills, Lives
<1>2. CASE CloseOutlet(w, o)
  <2>1. sub' \in [Outlets -> SubRow]
    BY <1>2, SubTyped, TenancyAssumption
  <2>. QED
    BY <1>2, <2>1, TenancyAssumption DEF TenancyTypes, TenantTypeOK, RowsTyped, CloseOutlet, Goto, Goes, Done, logins, places, bills, Lives
<1>3. CASE ReadPaid(w, o)
  BY <1>3, TenancyAssumption DEF TenancyTypes, TenantTypeOK, RowsTyped, ReadPaid, Goto, Goes, Done, logins, places, bills, Lives
<1>4. CASE Pay(w, o)
  <2>1. sub' \in [Outlets -> SubRow]
    BY <1>4, SubTyped, TenancyAssumption
  <2>2. invoices' \in [0..(Horizon \div Month) -> Nat]
    BY <1>4, InvoicesTyped
  <2>. QED
    BY <1>4, <2>1, <2>2, TenancyAssumption DEF TenancyTypes, TenantTypeOK, RowsTyped, Pay, Goto, Goes, Done, logins, places, bills, Lives
<1>5. CASE LogPrice(w, o)
  BY <1>5, TenancyAssumption DEF TenancyTypes, TenantTypeOK, RowsTyped, Prepared, At, LogPrice, Goto, Goes, Done, logins, places, bills
<1>6. CASE SetPrice(w, o)
  <2>1. sub' \in [Outlets -> SubRow]
    BY <1>6, SubTyped, TenancyAssumption
  <2>. QED
    BY <1>6, <2>1, TenancyAssumption DEF TenancyTypes, TenantTypeOK, RowsTyped, Prepared, At, SetPrice, Goto, Goes, Done, logins, places, bills
<1>. QED
  BY <1>1, <1>2, <1>3, <1>4, <1>5, <1>6

LEMMA NewOutletRows ==
  ASSUME TenancyTypes, NEW w \in Admins,
         OpenShop(w) \/ OpenOutlet(w)
  PROVE  RowsTyped'
<1>1. CASE OpenShop(w)
  <2>1. shop' \in [Outlets -> Lives]
    BY <1>1, OpenShopAdvances DEF TenancyTypes, TenantTypeOK, Lives
  <2>. QED
    BY <1>1, <2>1, TenancyAssumption DEF TenancyTypes, TenantTypeOK, RowsTyped, OpenShop, Goto, Goes, Done, logins, places, bills, Lives
<1>2. CASE OpenOutlet(w)
  <2>1. sub' \in [Outlets -> SubRow]
    BY <1>2, SubTyped, TenancyAssumption
  <2>. QED
    BY <1>2, <2>1, TenancyAssumption DEF TenancyTypes, TenantTypeOK, RowsTyped, OpenOutlet, Goto, Goes, Done, logins, places, bills, Lives
<1>. QED
  BY <1>1, <1>2

LEMMA PlanRows ==
  ASSUME TenancyTypes, NEW w \in Admins,
         CloseWarehouses(w) \/ CloseDepots(w) \/ OpenMain(w) \/ OpenMainDepot(w) \/ Sideways(w) \/ MoveSubscription(w) \/ CountSeats(w) \/ BillSeats(w) \/ LoyaltyOn(w) \/ LoyaltyOff(w)
  PROVE  RowsTyped'
<1>1. CASE CloseWarehouses(w)
  <2>1. UNCHANGED <<duty, vertical, now, begun, overlapped, cut, rolled, tenant, login, user, member, outlet, shop, depot,
                    sub, logged, addOn, invoices, stale>>
    BY <1>1 DEF CloseWarehouses, Goto, Goes, logins, bills
  <2>2. stock' \subseteq Warehouses /\ warehouse' \in [Warehouses -> Lives]
    BY <1>1 DEF CloseWarehouses, TenancyTypes, TenantTypeOK, Lives
  <2>. QED
    BY <2>1, <2>2 DEF TenancyTypes, TenantTypeOK, RowsTyped
<1>2. CASE CloseDepots(w)
  <2>1. addOn' \in [{"user", "warehouse", "loyalty"} -> Nat]
    BY <1>2, TaskTyped, ZeroedTyped DEF CloseDepots, TenancyTypes, TenantTypeOK
  <2>2. depot' \in [Warehouses -> Lives] /\ stale' \subseteq {"user", "warehouse"}
    BY <1>2, TaskTyped DEF CloseDepots, TenancyTypes, TenantTypeOK, Lives
  <2>. QED
    BY <1>2, <2>1, <2>2, TenancyAssumption, Zenon DEF TenancyTypes, TenantTypeOK, RowsTyped, CloseDepots, Goto, Goes, Done, logins, places, bills, Lives
<1>3. CASE OpenMain(w)
  BY <1>3, TenancyAssumption DEF TenancyTypes, TenantTypeOK, RowsTyped, OpenMain, Goto, Goes, Done, logins, places, bills, Lives
<1>4. CASE OpenMainDepot(w)
  BY <1>4, TenancyAssumption DEF TenancyTypes, TenantTypeOK, RowsTyped, OpenMainDepot, Goto, Goes, Done, logins, places, bills, Lives
<1>5. CASE Sideways(w)
  BY <1>5, TenancyAssumption DEF TenancyTypes, TenantTypeOK, RowsTyped, Sideways, Goto, Goes, Done, logins, places, bills, Lives
<1>6. CASE MoveSubscription(w)
  <2>1. sub' \in [Outlets -> SubRow]
    BY <1>6, SubTyped, TenancyAssumption
  <2>. QED
    BY <1>6, <2>1, TenancyAssumption DEF TenancyTypes, TenantTypeOK, RowsTyped, MoveSubscription, Goto, Goes, Done, logins, places, bills, Lives
<1>7. CASE CountSeats(w)
  BY <1>7, TenancyAssumption DEF TenancyTypes, TenantTypeOK, RowsTyped, CountSeats, Goto, Goes, Done, logins, places, bills, Lives
<1>8. CASE BillSeats(w)
  <2>1. addOn' \in [{"user", "warehouse", "loyalty"} -> Nat]
    BY <1>8, AddOnTyped, TenancyAssumption
  <2>. QED
    BY <1>8, <2>1, TenancyAssumption DEF TenancyTypes, TenantTypeOK, RowsTyped, BillSeats, Goto, Goes, Done, logins, places, bills, Lives
<1>9. CASE LoyaltyOn(w)
  BY <1>9, TenancyAssumption DEF TenancyTypes, TenantTypeOK, RowsTyped, LoyaltyOn, Goto, Goes, Done, logins, places, bills, Lives
<1>10. CASE LoyaltyOff(w)
  BY <1>10, TenancyAssumption DEF TenancyTypes, TenantTypeOK, RowsTyped, LoyaltyOff, Goto, Goes, Done, logins, places, bills, Lives
<1>. QED
  BY <1>1, <1>2, <1>3, <1>4, <1>5, <1>6, <1>7, <1>8, <1>9, <1>10

LEMMA RowsStayTyped ==
  ASSUME TenancyTypes, [TenantNext]_tenantVars
  PROVE  RowsTyped'
<1>1. CASE UNCHANGED tenantVars
  BY <1>1 DEF TenancyTypes, TenantTypeOK, RowsTyped, tenantVars, logins, places, bills, ghosts
<1>2. CASE Tick
  <2>1. rolled' \in BOOLEAN /\ now' \in 0..Horizon
    <3>1. now \in Nat /\ Horizon \in Nat /\ now < Horizon /\ now' = now + 1
      BY <1>2, TenancyAssumption DEF TenancyTypes, TenantTypeOK, Tick
    <3>2. rolled' \in BOOLEAN
      BY <1>2, Zenon DEF Tick
    <3>. QED
      BY <3>1, <3>2
  <2>. QED
    BY <1>2, <2>1, Zenon DEF TenancyTypes, TenantTypeOK, RowsTyped, Tick, logins, places, bills
<1>3. ASSUME NEW w \in Admins, NEW q, Admitted(w, q) PROVE RowsTyped'
  <2>1. Accept(w, q)
    BY <1>3 DEF Admitted
  <2>2. overlapped' \in BOOLEAN /\ begun' \in 0..MaxRequests
    <3>1. begun \in 0..MaxRequests /\ begun < MaxRequests /\ begun' = begun + 1 /\ MaxRequests \in Nat
      BY <2>1, TenancyAssumption, Zenon DEF Accept, TenancyTypes, TenantTypeOK
    <3>2. overlapped' \in BOOLEAN
      BY <2>1, Zenon DEF Accept
    <3>. QED
      BY <3>1, <3>2
  <2>. QED
    BY <2>1, <2>2, Zenon DEF Accept, TenancyTypes, TenantTypeOK, RowsTyped, logins, places, bills, ghosts
<1>4. ASSUME NEW w \in Admins, Fail(w) PROVE RowsTyped'
  BY <1>4 DEF Fail, TenancyTypes, TenantTypeOK, RowsTyped, logins, places, bills, ghosts
<1>5. ASSUME NEW w \in Admins, SignUp(w) PROVE RowsTyped'
  BY <1>3, <1>5, SignUpAsked, SignUpRows DEF SignUp
<1>6. ASSUME NEW w \in Admins, AnyLogin(w) PROVE RowsTyped'
  <2>1. CASE CountLogins(w) \/ BillLogins(w)
    BY <2>1, BillRows
  <2>2. ASSUME NEW n \in Logins, AddLogin(w, n) \/ DropLogin(w, n) \/ Password(w, n) PROVE RowsTyped'
    BY <1>3, <2>2, AddLoginAsked, DropLoginAsked, PasswordAsked, AddLoginRows, DropLoginRows, PasswordRows
       DEF AddLogin, DropLogin, Password
  <2>3. ASSUME NEW n \in Logins, NEW o \in Outlets, AskAssign(w, n, o) \/ Assign(w, n, o) \/ Unassign(w, n, o)
        PROVE  RowsTyped'
    BY <1>3, <2>3, AssignAsked, AssignRows
  <2>. QED
    BY <1>6, <2>1, <2>2, <2>3 DEF AnyLogin
<1>7. ASSUME NEW w \in Admins, AnyWarehouse(w) PROVE RowsTyped'
  <2>1. PICK k \in Warehouses : AddWarehouse(w, k) \/ DropWarehouse(w, k) \/ AskStock(w, k) \/ StockIn(w, k) \/ StockOut(w, k)
    BY <1>7 DEF AnyWarehouse
  <2>. QED
    BY <1>3, <2>1, AddWarehouseAsked, DropWarehouseAsked, StockAsked, AddWarehouseRows, DropWarehouseRows, StockRows
       DEF AddWarehouse, DropWarehouse
<1>8. ASSUME NEW w \in Admins, AnyOutlet(w) PROVE RowsTyped'
  <2>1. CASE AddOutlet(w)
    BY <1>3, <2>1, AddOutletAsked, NewOutletRows DEF AddOutlet
  <2>2. ASSUME NEW o \in Outlets, DropOutlet(w, o) \/ RecordPayment(w, o) \/ CustomPrice(w, o) PROVE RowsTyped'
    BY <1>3, <2>2, DropOutletAsked, PayAsked, PriceAsked, OutletRows DEF DropOutlet, RecordPayment, CustomPrice
  <2>. QED
    BY <1>8, <2>1, <2>2 DEF AnyOutlet
<1>9. ASSUME NEW w \in Admins, AnyPlan(w) PROVE RowsTyped'
  BY <1>3, <1>9, PlanAsked, LoyaltyAsked, PlanRows DEF AnyPlan, ChangePlan
<1>. QED
  BY <1>1, <1>2, <1>4, <1>5, <1>6, <1>7, <1>8, <1>9, Zenon DEF TenantNext

LEMMA TypesStart == TenantInit => TenancyTypes
<1> SUFFICES ASSUME TenantInit PROVE TenancyTypes
  OBVIOUS
<1>1. task = [w \in Admins |-> NoTask] /\ \A w \in Admins : Prepared(task[w])
  BY NothingPrepared DEF TenantInit
<1>2. PICK start \in Starts, offer \in [Outlets -> Offers \cup {NoOffer}] :
        /\ vertical = start.vertical
        /\ IF "signUp" \in duty THEN Empty
           ELSE Stands(IF duty \cap {"addOutlet", "dropLogin"} # {} THEN {1} ELSE Outlets,
                       start.plan, start.status, offer)
  BY DEF TenantInit
<1>3. start.vertical \in {"Retail", "Laundry"} /\ start.plan \in Plans /\ start.status \in {"Active", "trial"}
  BY TenancyAssumption
<1>4. {"absent", "live"} \subseteq Lives /\ 0 \in 0..MaxRequests /\ Month \in Int
  BY TenancyAssumption DEF Lives
<1>5. /\ tenant \in BOOLEAN /\ login \in [Logins -> LoginRow] /\ user \in [Logins -> LoginRow]
      /\ member \in [Logins -> [Outlets -> Lives]]
      /\ outlet \in [Outlets -> Lives] /\ shop \in [Outlets -> Lives] /\ sub \in [Outlets -> SubRow]
      /\ depot \in [Warehouses -> Lives] /\ warehouse \in [Warehouses -> Lives]
  <2>1. CASE "signUp" \in duty
    <3>1. Empty
      BY <1>2, <2>1
    <3>2. /\ tenant \in BOOLEAN /\ outlet \in [Outlets -> Lives] /\ shop \in [Outlets -> Lives]
          /\ depot \in [Warehouses -> Lives] /\ warehouse \in [Warehouses -> Lives]
          /\ member \in [Logins -> [Outlets -> Lives]]
      BY <1>4, <3>1 DEF Empty
    <3>3. login \in [Logins -> LoginRow] /\ user \in [Logins -> LoginRow] /\ sub \in [Outlets -> SubRow]
      BY <3>1, NoTaskMade DEF Empty
    <3>. QED
      BY <3>2, <3>3
  <2>2. CASE "signUp" \notin duty
    <3>1. PICK O : Stands(O, start.plan, start.status, offer)
      BY <1>2, <2>2
    <3>2. \A o \in Outlets : [NoSub EXCEPT !.plan = start.plan, !.status = start.status, !.until = Month,
                                           !.offer = offer[o]] \in SubRow
      BY <1>3, <1>4, NoTaskMade DEF SubRow
    <3>3. sub \in [Outlets -> SubRow]
      BY <3>1, <3>2, NoTaskMade DEF Stands
    <3>4. /\ tenant \in BOOLEAN /\ outlet \in [Outlets -> Lives] /\ shop \in [Outlets -> Lives]
          /\ depot \in [Warehouses -> Lives] /\ warehouse \in [Warehouses -> Lives]
          /\ member \in [Logins -> [Outlets -> Lives]]
      BY <1>4, <3>1 DEF Stands
    <3>5. login \in [Logins -> LoginRow] /\ user \in [Logins -> LoginRow]
      BY <1>4, <3>1 DEF Stands, LoginRow
    <3>. QED
      BY <3>3, <3>4, <3>5
  <2>. QED
    BY <2>1, <2>2
<1>6. now = 0 /\ 0 \in 0..Horizon
  BY TenancyAssumption DEF TenantInit
<1>7. task \in [Admins -> Task]
  BY <1>1, NoTaskMade
<1>. QED
  BY <1>1, <1>2, <1>3, <1>4, <1>5, <1>6, <1>7, Zenon DEF TenancyTypes, TenantTypeOK, TenantInit

LEMMA TypesStep == TenancyTypes /\ [TenantNext]_tenantVars => TenancyTypes'
  BY RowsStayTyped, TasksTyped DEF TenancyTypes, TenantTypeOK, RowsTyped

(***************************************************************************)
(* Outlets and their subscriptions, whatever overlaps or fails.            *)
(***************************************************************************)
LEMMA NothingOfOutlets == OutletOf(NoTask) /\ OutletOf(NoTask)'
  BY NoTaskMade DEF OutletOf, Doing, In

LEMMA OthersOutlets ==
  ASSUME NEW p, OutletOf(p), Prepared(p), OutletsStay, In(p, "addOutlet", {"half"}) => outlet'[p.outlet] = "absent"
  PROVE  OutletOf(p)'
<1>1. p.todo \subseteq Outlets /\ (In(p, "addOutlet", {"half"}) => p.outlet \in Outlets)
  BY DEF Prepared, Task
<1>. QED
  BY <1>1 DEF OutletOf, OutletsStay, Doing, In

\* What a request that advances, or is taken on, has to show.
LEMMA OutletsGo ==
  ASSUME TenancyTypes, OutletsInv, NEW w \in Admins, NEW q, task' = [task EXCEPT ![w] = q], Prepared(q),
         Rows', OutletOf(q)', OutletsStay,
         \A v \in Admins \ {w} : In(task[v], "addOutlet", {"half"}) =>
            /\ outlet'[task[v].outlet] = "absent"
            /\ In(q, "addOutlet", {"half"}) => q.outlet # task[v].outlet
  PROVE  OutletsInv'
<1>1. task'[w] = q /\ \A u \in Admins \ {w} : task'[u] = task[u]
  BY DEF TenancyTypes, TenantTypeOK
<1>2. ASSUME NEW u \in Admins PROVE OutletOf(task[u])'
  <2>1. CASE u = w
    BY <1>1, <2>1 DEF OutletOf
  <2>2. CASE u # w
    <3>1. PICK p : p = task[u]
      OBVIOUS
    <3>2. OutletOf(p) /\ Prepared(p)
      BY <3>1 DEF OutletsInv, TenancyTypes
    <3>3. OutletOf(p)'
      BY <2>2, <3>1, <3>2, OthersOutlets
    <3>. QED
      BY <1>1, <2>2, <3>1, <3>3 DEF OutletOf
  <2>. QED
    BY <2>1, <2>2
<1>3. Apart'
  BY <1>1 DEF OutletsInv, Apart
<1>. QED
  BY <1>2, <1>3 DEF OutletsInv

LEMMA OutletsSame ==
  ASSUME TenancyTypes, OutletsInv, NEW w \in Admins, NEW q, task' = [task EXCEPT ![w] = q], Prepared(q),
         UNCHANGED <<outlet, shop, sub>>, OutletOf(q), ~In(q, "addOutlet", {"half"})
  PROVE  OutletsInv'
<1>1. Rows' /\ OutletOf(q)' /\ OutletsStay
  BY DEF OutletsInv, Rows, OutletOf, OutletsStay
<1>2. \A v \in Admins \ {w} : In(task[v], "addOutlet", {"half"}) => outlet'[task[v].outlet] = "absent"
  BY DEF OutletsInv, OutletOf
<1>. QED
  BY <1>1, <1>2, OutletsGo

LEMMA OtherOps ==
  ASSUME NEW q, q.op \in NotOfOutlets
  PROVE  OutletOf(q) /\ ~In(q, "addOutlet", {"half"})
  BY DEF NotOfOutlets, OutletOf, Doing, In

\* Requests that have nothing to do with outlets leave them alone.
LEMMA OtherSteps ==
  ASSUME TenancyTypes, NEW w \in Admins, AnyLogin(w) \/ AnyWarehouse(w) \/ AskLoyalty(w) \/ LoyaltyOn(w) \/ LoyaltyOff(w)
  PROVE  /\ UNCHANGED <<outlet, sub, logged, invoices>> /\ shop' = shop /\ tenant' = tenant
         /\ (\A q : task' = [task EXCEPT ![w] = q] => q = NoTask \/ q.op \in NotOfOutlets)
<1>1. CASE AnyWarehouse(w)
  <2>1. PICK k \in Warehouses : AddWarehouse(w, k) \/ DropWarehouse(w, k) \/ AskStock(w, k) \/ StockIn(w, k) \/ StockOut(w, k)
    BY <1>1 DEF AnyWarehouse
  <2>2. UNCHANGED <<outlet, sub, logged, invoices>> /\ shop' = shop /\ tenant' = tenant
    BY <2>1 DEF AddWarehouse, AskWarehouse, FindWarehouse, OpenWarehouse, OpenDepot, DropWarehouse, AskDropWarehouse,
      CheckWarehouse, CloseWarehouse, CloseDepot, AskStock, StockIn, StockOut, Accept, places, bills
  <2>3. ASSUME NEW q, task' = [task EXCEPT ![w] = q] PROVE q = NoTask \/ q.op \in NotOfOutlets
    <3>1. ASSUME NEW r, task' = [task EXCEPT ![w] = r] PROVE q = r
      BY <2>3, <3>1 DEF TenancyTypes, TenantTypeOK
    <3>2. ASSUME NEW r, Admitted(w, r), r.op \in NotOfOutlets PROVE q.op \in NotOfOutlets
      BY <3>1, <3>2 DEF Admitted, Accept
    <3>3. ASSUME NEW r, Advance(w, r), task[w].op \in NotOfOutlets PROVE q = NoTask \/ q.op \in NotOfOutlets
      BY <3>1, <3>3 DEF Advance
    <3>4. CASE AskWarehouse(w, k) \/ AskDropWarehouse(w, k) \/ AskStock(w, k)
      BY <3>2, <3>4, AddWarehouseAsked, DropWarehouseAsked, StockAsked DEF NotOfOutlets
    <3>5. CASE \/ FindWarehouse(w, k) \/ OpenWarehouse(w, k) \/ OpenDepot(w, k) \/ CheckWarehouse(w, k)
               \/ CloseWarehouse(w, k) \/ CloseDepot(w, k) \/ StockIn(w, k) \/ StockOut(w, k)
      <4>1. task[w].op \in NotOfOutlets
        BY <3>5 DEF FindWarehouse, OpenWarehouse, OpenDepot, CheckWarehouse, CloseWarehouse, CloseDepot, StockIn,
          StockOut, At, NotOfOutlets
      <4>2. \E r : Advance(w, r)
        BY <3>5, WarehouseAdvances, FindWarehouseAdvances, CheckWarehouseAdvances
      <4>. QED
        BY <3>3, <4>1, <4>2
    <3>. QED
      BY <2>1, <3>4, <3>5 DEF AddWarehouse, DropWarehouse
  <2>. QED
    BY <2>2, <2>3
<1>2. CASE AnyLogin(w)
  <2>1. UNCHANGED <<outlet, sub, logged, invoices>> /\ shop' = shop /\ tenant' = tenant
    <3> DEFINE Same == UNCHANGED <<outlet, sub, logged, invoices>> /\ shop' = shop /\ tenant' = tenant
    <3>1. ASSUME NEW n \in Logins, AddLogin(w, n) PROVE Same
      BY <3>1 DEF AddLogin, AskLogin, MakeLogin, MakeUser, PlaceLogin, UndoAddLogin, Accept, places, bills
    <3>2. ASSUME NEW n \in Logins, DropLogin(w, n) PROVE Same
      BY <3>2 DEF DropLogin, AskDropLogin, CloseLogin, CloseUser, UndoDropLogin, Accept, places, bills
    <3>3. ASSUME NEW n \in Logins, Password(w, n) PROVE Same
      BY <3>3 DEF Password, AskPassword, SetPassword, CopyPassword, Accept, places, bills
    <3>4. ASSUME NEW n \in Logins, NEW o \in Outlets, AskAssign(w, n, o) \/ Assign(w, n, o) \/ Unassign(w, n, o)
          PROVE  Same
      BY <3>4 DEF AskAssign, Assign, Unassign, Accept, places, bills
    <3>5. ASSUME CountLogins(w) \/ BillLogins(w) PROVE Same
      BY <3>5 DEF CountLogins, BillLogins, places, bills
    <3> HIDE DEF Same
    <3>6. Same
      BY <1>2, <3>1, <3>2, <3>3, <3>4, <3>5 DEF AnyLogin
    <3>. QED
      BY <3>6 DEF Same
  <2>2. ASSUME NEW q, task' = [task EXCEPT ![w] = q] PROVE q = NoTask \/ q.op \in NotOfOutlets
    <3>1. ASSUME NEW r, task' = [task EXCEPT ![w] = r] PROVE q = r
      BY <2>2, <3>1 DEF TenancyTypes, TenantTypeOK
    <3>2. ASSUME NEW r, Admitted(w, r), r.op \in NotOfOutlets PROVE q.op \in NotOfOutlets
      BY <3>1, <3>2 DEF Admitted, Accept
    <3>3. ASSUME NEW r, Advance(w, r), task[w].op \in NotOfOutlets PROVE q = NoTask \/ q.op \in NotOfOutlets
      BY <3>1, <3>3 DEF Advance
    <3>4. ASSUME NEW n \in Logins, NEW o \in Outlets,
                 AskLogin(w, n) \/ AskDropLogin(w, n) \/ AskPassword(w, n) \/ AskAssign(w, n, o)
          PROVE  q.op \in NotOfOutlets
      BY <3>2, <3>4, AddLoginAsked, DropLoginAsked, PasswordAsked, AssignAsked DEF NotOfOutlets
    <3>5. ASSUME NEW n \in Logins, NEW o \in Outlets,
               \/ MakeLogin(w, n) \/ MakeUser(w, n) \/ PlaceLogin(w, n) \/ UndoAddLogin(w, n)
               \/ CloseLogin(w, n) \/ CloseUser(w, n) \/ UndoDropLogin(w, n) \/ SetPassword(w, n) \/ CopyPassword(w, n)
               \/ Assign(w, n, o) \/ Unassign(w, n, o) \/ BillLogins(w) \/ CountLogins(w)
          PROVE  q = NoTask \/ q.op \in NotOfOutlets
      <4>1. task[w].op \in NotOfOutlets
        BY <3>5 DEF MakeLogin, MakeUser, PlaceLogin, UndoAddLogin, CloseLogin, CloseUser, UndoDropLogin, SetPassword,
          CopyPassword, Assign, Unassign, BillLogins, CountLogins, At, NotOfOutlets
      <4>2. \E r : Advance(w, r)
        BY <3>5, LoginAdvances, CountLoginsAdvances
      <4>. QED
        BY <3>3, <4>1, <4>2
    <3>6. CASE CountLogins(w) \/ BillLogins(w)
      BY <3>5, <3>6, TenancyAssumption
    <3>7. CASE \E n \in Logins : AddLogin(w, n) \/ DropLogin(w, n) \/ Password(w, n)
      BY <3>4, <3>5, <3>7, TenancyAssumption DEF AddLogin, DropLogin, Password
    <3>8. CASE \E n \in Logins, o \in Outlets : AskAssign(w, n, o) \/ Assign(w, n, o) \/ Unassign(w, n, o)
      BY <3>4, <3>5, <3>8
    <3>. QED
      BY <1>2, <3>6, <3>7, <3>8 DEF AnyLogin
  <2>. QED
    BY <2>1, <2>2
<1>3. CASE AskLoyalty(w) \/ LoyaltyOn(w) \/ LoyaltyOff(w)
  <2>1. UNCHANGED <<outlet, sub, logged, invoices>> /\ shop' = shop /\ tenant' = tenant
    BY <1>3 DEF AskLoyalty, LoyaltyOn, LoyaltyOff, Accept, places, bills
  <2>2. ASSUME NEW q, task' = [task EXCEPT ![w] = q] PROVE q = NoTask \/ q.op \in NotOfOutlets
    <3>1. ASSUME NEW r, task' = [task EXCEPT ![w] = r] PROVE q = r
      BY <2>2, <3>1 DEF TenancyTypes, TenantTypeOK
    <3>2. CASE AskLoyalty(w)
      BY <3>1, <3>2, LoyaltyAsked DEF Admitted, Accept, NotOfOutlets
    <3>3. CASE LoyaltyOn(w) \/ LoyaltyOff(w)
      BY <3>1, <3>3 DEF LoyaltyOn, LoyaltyOff, Done, Goes
    <3>. QED
      BY <1>3, <3>2, <3>3
  <2>. QED
    BY <2>1, <2>2
<1>. QED
  BY <1>1, <1>2, <1>3

\* While the tenant signs up nothing else is asked for.
LEMMA SignUpAlone ==
  ASSUME TenancyTypes
  PROVE  /\ "signUp" \in duty => \A u \in Admins : task[u] = NoTask \/ task[u].op = "signUp"
         /\ \A u \in Admins : Doing(task[u], "signUp") => "signUp" \in duty
         /\ \A u \in Admins : task[u].step # "idle" /\ task[u].op # "signUp" => "signUp" \notin duty
<1>1. "signUp" \in duty => duty = {"signUp"}
  BY TenancyAssumption DEF TenancyTypes, TenantTypeOK
<1>. QED
  BY <1>1 DEF TenancyTypes, Prepared, Doing

LEMMA SignUpOutlets ==
  ASSUME TenancyTypes, OutletsInv, NEW w \in Admins, NEW q, task' = [task EXCEPT ![w] = q], "signUp" \in duty, Rows',
         q = NoTask \/ (q.op = "signUp" /\ (q.found => q.plan = "Pro"))
  PROVE  OutletsInv'
<1>1. task'[w] = q /\ \A u \in Admins \ {w} : task'[u] = task[u]
  BY DEF TenancyTypes, TenantTypeOK
<1>2. \A u \in Admins : task'[u] = NoTask \/ (task'[u].op = "signUp" /\ (task'[u].step # "idle" /\ task'[u].found => task'[u].plan = "Pro"))
  BY <1>1, SignUpAlone DEF OutletsInv, OutletOf, Doing
<1>3. ASSUME NEW u \in Admins PROVE OutletOf(task[u])' /\ ~In(task'[u], "addOutlet", {"half"})
  <2>1. PICK p : p = task'[u]
    OBVIOUS
  <2>2. OutletOf(p)' /\ ~In(p, "addOutlet", {"half"})
    BY <1>2, <2>1, NothingOfOutlets, NoTaskMade DEF OutletOf, Doing, In
  <2>. QED
    BY <2>1, <2>2 DEF OutletOf
<1>. QED
  BY <1>3 DEF OutletsInv, Apart

LEMMA SignUpKeepsOutlets ==
  ASSUME TenancyTypes, OutletsInv, NEW w \in Admins, SignUp(w)
  PROVE  OutletsInv'
<1>1. ASSUME NEW plan \in Plans, NEW trial \in BOOLEAN, AskSignUp(w, plan, trial) PROVE OutletsInv'
  <2>1. PICK q : Admitted(w, q) /\ q.op = "signUp" /\ q.plan = plan /\ q.found = trial /\ (trial => plan = "Pro")
    BY <1>1, SignUpAsked
  <2>2. Rows' /\ task' = [task EXCEPT ![w] = q] /\ "signUp" \in duty
    BY <2>1 DEF Admitted, Accept, OutletsInv, Rows, places, bills
  <2>. QED
    BY <2>1, <2>2, SignUpOutlets
<1>2. CASE \/ MakeTenant(w) \/ SetUpUser(w) \/ SetUpShop(w) \/ SetUpDepot(w) \/ SetUpMain(w) \/ EndSignUp(w)
           \/ UndoSignUp(w)
  <2>1. PICK p \in Task : p = task[w]
    BY TaskTyped
  <2>2. p.op = "signUp" /\ p.step # "idle" /\ (p.found => p.plan = "Pro")
    BY <1>2, <2>1 DEF MakeTenant, SetUpUser, SetUpShop, SetUpDepot, SetUpMain, EndSignUp, UndoSignUp, At, OutletsInv,
      OutletOf, Doing
  <2>3. "signUp" \in duty
    BY <2>1, <2>2, SignUpAlone DEF Doing
  <2>4. Done(w) \/ \E s \in {"made", "both", "placed", "half"} : Goto(w, s)
    BY <1>2 DEF MakeTenant, SetUpUser, SetUpShop, SetUpDepot, SetUpMain, EndSignUp, UndoSignUp
  <2>5. \E q : task' = [task EXCEPT ![w] = q] /\ (q = NoTask \/ (q.op = "signUp" /\ (q.found => q.plan = "Pro")))
    <3>1. CASE Done(w)
      BY <3>1 DEF Done, Goes
    <3>2. ASSUME NEW s \in {"made", "both", "placed", "half"}, Goto(w, s)
          PROVE \E q : task' = [task EXCEPT ![w] = q] /\ (q = NoTask \/ (q.op = "signUp" /\ (q.found => q.plan = "Pro")))
      <4>1. PICK q : q = [p EXCEPT !.step = s]
        OBVIOUS
      <4>2. q.op = p.op /\ q.found = p.found /\ q.plan = p.plan
        BY <4>1, Onward DEF Steps
      <4>. QED
        BY <2>1, <2>2, <3>2, <4>1, <4>2 DEF Goto, Goes
    <3>. QED
      BY <2>4, <3>1, <3>2
  <2>6. Rows'
    <3>1. CASE MakeTenant(w)
      <4>1. PICK status : status = IF p.found THEN "trial" ELSE "Active"
        OBVIOUS
      <4>2. PICK r : r = [NoSub EXCEPT !.plan = p.plan, !.status = status, !.until = now + Month]
        OBVIOUS
      <4>3. r.plan = p.plan /\ r.status = status
        BY <4>2 DEF NoSub
      <4>4. sub' = [sub EXCEPT ![1] = r] /\ outlet' = [outlet EXCEPT ![1] = "live"]
        BY <2>1, <3>1, <4>1, <4>2 DEF MakeTenant, NoSub
      <4>5. sub'[1] = r /\ outlet'[1] = "live" /\ \A o \in Outlets \ {1} : sub'[o] = sub[o] /\ outlet'[o] = outlet[o]
        BY <4>4, TaskTyped DEF TenancyTypes, TenantTypeOK
      <4>6. r.status \in Paying /\ (r.status = "trial" => r.plan = "Pro")
        BY <2>2, <4>1, <4>3 DEF Paying
      <4>. QED
        BY <4>5, <4>6 DEF OutletsInv, Rows
    <3>2. CASE UndoSignUp(w)
      <4>1. sub' = [sub EXCEPT ![1] = NoSub] /\ outlet' = [outlet EXCEPT ![1] = "absent"]
        BY <3>2 DEF UndoSignUp
      <4>2. sub'[1] = NoSub /\ outlet'[1] = "absent" /\ \A o \in Outlets \ {1} : sub'[o] = sub[o] /\ outlet'[o] = outlet[o]
        BY <4>1, TaskTyped DEF TenancyTypes, TenantTypeOK
      <4>3. NoSub.status = "none"
        BY DEF NoSub
      <4>. QED
        BY <4>2, <4>3 DEF OutletsInv, Rows
    <3>3. CASE SetUpUser(w) \/ SetUpShop(w) \/ SetUpDepot(w) \/ SetUpMain(w) \/ EndSignUp(w)
      <4>1. UNCHANGED <<outlet, sub>>
        BY <3>3 DEF SetUpUser, SetUpShop, SetUpDepot, SetUpMain, EndSignUp, places, bills
      <4>. QED
        BY <4>1 DEF OutletsInv, Rows
    <3>. QED
      BY <1>2, <3>1, <3>2, <3>3
  <2>. QED
    BY <2>3, <2>5, <2>6, SignUpOutlets
<1>. QED
  BY <1>1, <1>2 DEF SignUp

\* A step of a request goes on with what it was asked for.
LEMMA StepsOn ==
  ASSUME TenancyTypes, OutletsInv, NEW w \in Admins, NEW s \in Steps \ {"idle"}, Goto(w, s), task[w].step # "idle",
         task[w].op = "addOutlet" => s # "half", task[w].op = "pay" => s # "open"
  PROVE  \E q : /\ Advance(w, q) /\ q.step = s /\ q.op = task[w].op /\ q.saw = task[w].saw /\ q.todo = task[w].todo
                /\ q.outlet = task[w].outlet /\ q.plan = task[w].plan /\ q.warehouse = task[w].warehouse
                /\ q.login = task[w].login /\ q.n = task[w].n /\ q.found = task[w].found /\ q.held = task[w].held
                /\ q.over = task[w].over /\ OutletOf(q) /\ ~In(q, "addOutlet", {"half"})
<1>1. PICK p \in Task : p = task[w]
  BY TaskTyped
<1>2. Prepared(p) /\ OutletOf(p)
  BY <1>1 DEF TenancyTypes, OutletsInv
<1>3. PICK q : q = [p EXCEPT !.step = s]
  OBVIOUS
<1>4. /\ q \in Task /\ q.step = s /\ q.op = p.op /\ q.login = p.login /\ q.outlet = p.outlet
      /\ q.warehouse = p.warehouse /\ q.plan = p.plan /\ q.n = p.n /\ q.todo = p.todo /\ q.saw = p.saw
      /\ q.found = p.found /\ q.held = p.held /\ q.over = p.over
  BY <1>3, Onward
<1>5. Prepared(q)
  BY <1>1, <1>2, <1>3, PreparedOnward
<1>6. Advance(w, q)
  BY <1>1, <1>3, <1>4, <1>5 DEF Advance, Goto, Goes
<1>7. OutletOf(q) /\ ~In(q, "addOutlet", {"half"})
  BY <1>1, <1>2, <1>4 DEF OutletOf, Doing, In
<1>. QED
  BY <1>1, <1>4, <1>6, <1>7

LEMMA PlanKeepsOutlets ==
  ASSUME TenancyTypes, OutletsInv, NEW w \in Admins, ChangePlan(w)
  PROVE  OutletsInv'
<1>1. ASSUME NEW plan \in Plans, AskPlan(w, plan) PROVE OutletsInv'
  <2>1. PICK q : /\ Admitted(w, q) /\ q.op = "changePlan" /\ q.todo = Charged(sub)
                 /\ q.saw = [o \in Outlets |-> IF o \in Charged(sub) THEN sub[o] ELSE NoSub]
    BY <1>1, PlanAsked
  <2>2. UNCHANGED <<outlet, shop, sub>> /\ task' = [task EXCEPT ![w] = q] /\ Prepared(q)
    BY <2>1 DEF Admitted, Accept, places, bills
  <2>3. OutletOf(q) /\ ~In(q, "addOutlet", {"half"})
    BY <2>1 DEF OutletOf, Doing, In, Charged
  <2>. QED
    BY <2>2, <2>3, OutletsSame
<1>2. CASE CloseWarehouses(w) \/ CloseDepots(w) \/ OpenMain(w) \/ OpenMainDepot(w) \/ Sideways(w)
  <2>1. task[w].op = "changePlan" /\ task[w].step # "idle" /\ UNCHANGED <<outlet, shop, sub>>
    BY <1>2 DEF CloseWarehouses, CloseDepots, OpenMain, OpenMainDepot, Sideways, At, places, bills
  <2>2. PICK s \in {"half", "subs"} : Goto(w, s)
    BY <1>2 DEF CloseWarehouses, CloseDepots, OpenMain, OpenMainDepot, Sideways
  <2>3. PICK q : Advance(w, q) /\ OutletOf(q) /\ ~In(q, "addOutlet", {"half"})
    BY <2>1, <2>2, StepsOn DEF Steps
  <2>. QED
    BY <2>1, <2>3, OutletsSame DEF Advance
<1>3. CASE MoveSubscription(w)
  <2>1. PICK q, o : /\ Advance(w, q) /\ q.step = "subs" /\ q.op = "changePlan" /\ q.saw = task[w].saw
                 /\ q.plan = task[w].plan /\ q.todo = task[w].todo \ {o} /\ o \in task[w].todo /\ o \in Outlets
                 /\ o = Min(task[w].todo)
    BY <1>3, MoveSubscriptionAdvances
  <2>2. PICK status : status = IF EndsTrial(q.saw[o], q.plan) THEN "Active" ELSE sub[o].status
    OBVIOUS
  <2>3. sub' = [sub EXCEPT ![o].plan = q.plan, ![o].price = NoPrice, ![o].status = status] /\ UNCHANGED <<outlet, shop>>
    BY <1>3, <2>1, <2>2, TaskTyped DEF MoveSubscription, places, TenancyTypes, TenantTypeOK
  <2>4. /\ sub'[o].plan = q.plan /\ sub'[o].status = status
        /\ \A x \in Outlets \ {o} : sub'[x] = sub[x]
    <3>1. sub \in [Outlets -> SubRow] /\ sub[o] \in SubRow
      BY <2>1 DEF TenancyTypes, TenantTypeOK
    <3>2. PICK r : r = [sub[o] EXCEPT !.plan = q.plan, !.price = NoPrice, !.status = status]
      OBVIOUS
    <3>3. r.plan = q.plan /\ r.status = status
      BY <3>1, <3>2 DEF SubRow
    <3>4. sub' = [sub EXCEPT ![o] = r]
      BY <2>1, <2>3, <3>1, <3>2
    <3>. QED
      BY <2>1, <3>1, <3>3, <3>4
  <2>5. OutletOf(task[w]) /\ task[w].op = "changePlan" /\ task[w].step # "idle"
    BY <1>3 DEF OutletsInv, MoveSubscription, At
  <2>6. outlet[o] # "absent" /\ (sub[o].status = "trial" => q.saw[o].status = "trial")
    BY <2>1, <2>5 DEF OutletOf, Doing
  <2>7. status = "trial" => q.plan = "Pro" /\ sub[o].status = "trial"
    BY <2>2, <2>6 DEF EndsTrial
  <2>8. sub[o].status \in Paying => status \in Paying
    BY <2>2 DEF Paying
  <2>9. Rows' /\ OutletsStay
    <3>1. Rows
      BY DEF OutletsInv
    <3>2. ASSUME NEW x \in Outlets
          PROVE  /\ outlet'[x] = "absent" => sub'[x] = NoSub
                 /\ outlet'[x] = "live" => sub'[x].status \in Paying
                 /\ sub'[x].status = "trial" => sub'[x].plan = "Pro" /\ sub[x].status = "trial"
      <4>1. CASE x = o
        BY <2>3, <2>4, <2>6, <2>7, <2>8, <3>1, <4>1 DEF Rows
      <4>2. CASE x # o
        <5>1. sub'[x] = sub[x] /\ outlet'[x] = outlet[x]
          BY <2>3, <2>4, <3>2, <4>2
        <5>. QED
          BY <3>1, <5>1 DEF Rows
      <4>. QED
        BY <4>1, <4>2
    <3>3. Rows'
      BY <3>2 DEF Rows
    <3>. QED
      BY <2>3, <3>2, <3>3 DEF OutletsStay
  <2>10. OutletOf(q)' /\ ~In(q, "addOutlet", {"half"})
    <3>1. \A x \in q.todo : x \in Outlets \ {o} /\ outlet[x] # "absent" /\ (sub[x].status = "trial" => q.saw[x].status = "trial")
      BY <2>1, <2>5, TaskTyped DEF OutletOf, Doing
    <3>. QED
      BY <2>1, <2>3, <2>4, <3>1 DEF OutletOf, Doing, In
  <2>11. \A v \in Admins \ {w} : In(task[v], "addOutlet", {"half"}) => outlet'[task[v].outlet] = "absent"
    BY <2>3 DEF OutletsInv, OutletOf
  <2>. QED
    BY <2>1, <2>9, <2>10, <2>11, OutletsGo DEF Advance
<1>4. CASE CountSeats(w)
  <2>1. PICK q : /\ Advance(w, q) /\ q.step = "seats" /\ q.op = "changePlan" /\ q.saw = task[w].saw
                 /\ q.todo = task[w].todo
    BY <1>4, CountSeatsAdvances
  <2>2. OutletOf(task[w]) /\ task[w].op = "changePlan" /\ task[w].step # "idle" /\ UNCHANGED <<outlet, shop, sub>>
    BY <1>4 DEF OutletsInv, CountSeats, At, places, bills
  <2>3. OutletOf(q) /\ ~In(q, "addOutlet", {"half"})
    BY <2>1, <2>2 DEF OutletOf, Doing, In
  <2>. QED
    BY <2>1, <2>2, <2>3, OutletsSame DEF Advance
<1>5. CASE BillSeats(w)
  <2>1. task' = [task EXCEPT ![w] = NoTask] /\ UNCHANGED <<outlet, shop, sub>>
    BY <1>5 DEF BillSeats, Done, Goes, places
  <2>. QED
    BY <2>1, OutletsSame, NothingOfOutlets, NothingPrepared, NoTaskMade DEF In
<1>. QED
  BY <1>1, <1>2, <1>3, <1>4, <1>5 DEF ChangePlan

LEMMA NewOutletKeepsOutlets ==
  ASSUME TenancyTypes, OutletsInv, NEW w \in Admins, AddOutlet(w)
  PROVE  OutletsInv'
<1>1. CASE AskOutlet(w)
  <2>1. PICK q : Admitted(w, q) /\ q.op = "addOutlet" /\ q.saw[1] = Primary /\ HasPrimary
    BY <1>1, AddOutletAsked
  <2>2. UNCHANGED <<outlet, shop, sub>> /\ task' = [task EXCEPT ![w] = q] /\ Prepared(q) /\ q.step = "asked"
    BY <2>1 DEF Admitted, Accept, places, bills
  <2>3. q.saw[1].status = "trial" => q.saw[1].plan = "Pro"
    BY <2>1, PrimaryIs DEF OutletsInv, Rows
  <2>4. OutletOf(q) /\ ~In(q, "addOutlet", {"half"})
    BY <2>1, <2>2, <2>3 DEF OutletOf, Doing, In
  <2>. QED
    BY <2>2, <2>4, OutletsSame
<1>2. CASE OpenShop(w)
  <2>1. PICK q, o : /\ Advance(w, q) /\ q.step = "half" /\ q.op = "addOutlet" /\ q.outlet = o /\ q.saw = task[w].saw
                    /\ o \in NextOutlet /\ o \in Outlets /\ shop' = [shop EXCEPT ![o] = "live"]
                    /\ task[w].op = "addOutlet" /\ task[w].step = "asked"
    BY <1>2, OpenShopAdvances
  <2>2. UNCHANGED <<outlet, sub>> /\ outlet[o] = "absent" /\ shop[o] = "absent"
    BY <1>2, <2>1 DEF OpenShop, bills, NextOutlet
  <2>3. shop'[o] = "live" /\ \A x \in Outlets \ {o} : shop'[x] = shop[x]
    BY <2>1 DEF TenancyTypes, TenantTypeOK
  <2>4. Rows' /\ OutletsStay
    BY <2>2, <2>3 DEF OutletsInv, Rows, OutletsStay
  <2>5. OutletOf(q)'
    BY <2>1, <2>2, <2>3 DEF OutletsInv, OutletOf, Doing, In
  <2>6. ASSUME NEW v \in Admins \ {w}, In(task[v], "addOutlet", {"half"})
        PROVE  outlet'[task[v].outlet] = "absent" /\ q.outlet # task[v].outlet
    BY <2>1, <2>2, <2>6 DEF OutletsInv, OutletOf
  <2>. QED
    BY <2>1, <2>4, <2>5, <2>6, OutletsGo DEF Advance
<1>3. CASE OpenOutlet(w)
  <2>1. PICK p \in Task : p = task[w]
    BY TaskTyped
  <2>2. PICK o : o = p.outlet
    OBVIOUS
  <2>3. /\ In(p, "addOutlet", {"half"}) /\ o \in Outlets /\ outlet[o] = "absent"
        /\ (p.saw[1].status = "trial" => p.saw[1].plan = "Pro")
    BY <1>3, <2>1, <2>2 DEF OpenOutlet, At, OutletsInv, OutletOf, In, Doing, TenancyTypes, Prepared
  <2>4. PICK r : r = [NoSub EXCEPT !.plan = p.saw[1].plan,
                   !.status = IF JoinsTrial(p.saw[1]) THEN "trial" ELSE "Active",
                   !.until = IF JoinsTrial(p.saw[1]) THEN p.saw[1].until ELSE now + Month]
    OBVIOUS
  <2>5. sub' = [sub EXCEPT ![o] = r] /\ outlet' = [outlet EXCEPT ![o] = "live"] /\ shop' = shop
    BY <1>3, <2>1, <2>2, <2>4 DEF OpenOutlet
  <2>6. r.status \in Paying /\ (r.status = "trial" => r.plan = "Pro")
    BY <2>3, <2>4 DEF NoSub, Paying, JoinsTrial
  <2>7. /\ sub'[o] = r /\ outlet'[o] = "live"
        /\ \A x \in Outlets \ {o} : sub'[x] = sub[x] /\ outlet'[x] = outlet[x]
    BY <2>3, <2>5 DEF TenancyTypes, TenantTypeOK
  <2>8. Rows' /\ OutletsStay
    BY <2>3, <2>5, <2>6, <2>7 DEF OutletsInv, Rows, OutletsStay
  <2>9. ASSUME NEW v \in Admins \ {w}, In(task[v], "addOutlet", {"half"})
        PROVE  outlet'[task[v].outlet] = "absent"
    <3>1. task[v].outlet # o /\ task[v].outlet \in Outlets /\ outlet[task[v].outlet] = "absent"
      BY <2>1, <2>2, <2>3, <2>9 DEF OutletsInv, Apart, OutletOf, TenancyTypes, Prepared
    <3>. QED
      BY <2>7, <3>1
  <2>10. task' = [task EXCEPT ![w] = NoTask]
    BY <1>3 DEF OpenOutlet, Done, Goes
  <2>. QED
    <3>1. OutletOf(NoTask)' /\ Prepared(NoTask) /\ ~In(NoTask, "addOutlet", {"half"})
      BY NothingOfOutlets, NothingPrepared, NoTaskMade DEF In
    <3>. QED
      BY <2>8, <2>9, <2>10, <3>1, OutletsGo
<1>. QED
  BY <1>1, <1>2, <1>3 DEF AddOutlet

\* What a write of one subscription, or of one outlet's life, leaves true.
LEMMA NothingAtOutlets == OutletOf(NoTask) /\ Prepared(NoTask) /\ ~In(NoTask, "addOutlet", {"half"})
  BY NothingOfOutlets, NothingPrepared, NoTaskMade DEF In

LEMMA OneOutlet ==
  ASSUME TenancyTypes, OutletsInv, NEW w \in Admins, NEW q, task' = [task EXCEPT ![w] = q], Prepared(q), OutletOf(q),
         ~In(q, "addOutlet", {"half"}), q = NoTask \/ q.op \in {"dropOutlet", "pay", "customPrice"},
         NEW o \in Outlets, outlet[o] # "absent",
         \A x \in Outlets \ {o} : outlet'[x] = outlet[x] /\ shop'[x] = shop[x] /\ sub'[x] = sub[x],
         outlet'[o] # "absent", shop[o] # "absent" => shop'[o] # "absent",
         sub'[o].status = "trial" => sub[o].status = "trial" /\ sub'[o].plan = sub[o].plan,
         outlet'[o] = "live" => outlet[o] = "live" /\ (sub[o].status \in Paying => sub'[o].status \in Paying)
  PROVE  OutletsInv'
<1>1. Rows' /\ OutletsStay
  BY DEF OutletsInv, Rows, OutletsStay
<1>2. OutletOf(q)'
  BY NothingOfOutlets DEF OutletOf, Doing, In
<1>3. ASSUME NEW v \in Admins \ {w}, In(task[v], "addOutlet", {"half"})
      PROVE  outlet'[task[v].outlet] = "absent"
  <2>1. task[v].outlet # o /\ task[v].outlet \in Outlets /\ outlet[task[v].outlet] = "absent"
    BY <1>3 DEF OutletsInv, OutletOf, TenancyTypes, Prepared
  <2>. QED
    BY <2>1
<1>. QED
  BY <1>1, <1>2, <1>3, OutletsGo

\* The subscription of one outlet, changed in part.
LEMMA RowChange ==
  ASSUME NEW r \in SubRow, NEW plan, NEW price, NEW status, NEW until
  PROVE  /\ LET s == [r EXCEPT !.until = until, !.status = status]
            IN  s.until = until /\ s.status = status /\ s.plan = r.plan /\ s.price = r.price
         /\ LET s == [r EXCEPT !.price = price]
            IN  s.price = price /\ s.status = r.status /\ s.plan = r.plan /\ s.until = r.until
         /\ LET s == [r EXCEPT !.status = status]
            IN  s.status = status /\ s.plan = r.plan /\ s.price = r.price /\ s.until = r.until
         /\ LET s == [r EXCEPT !.plan = plan, !.price = price, !.status = status]
            IN  s.status = status /\ s.plan = plan /\ s.price = price /\ s.until = r.until
  BY DEF SubRow

LEMMA RowPaid ==
  ASSUME TenancyTypes, NEW o \in Outlets, NEW until, NEW status,
         sub' = [sub EXCEPT ![o].until = until, ![o].status = status]
  PROVE  /\ sub'[o].until = until /\ sub'[o].status = status /\ sub'[o].plan = sub[o].plan
         /\ sub'[o].price = sub[o].price /\ \A x \in Outlets \ {o} : sub'[x] = sub[x]
<1>1. sub \in [Outlets -> SubRow] /\ sub[o] \in SubRow
  BY DEF TenancyTypes, TenantTypeOK
<1>2. sub'[o] = [sub[o] EXCEPT !.until = until, !.status = status] /\ \A x \in Outlets \ {o} : sub'[x] = sub[x]
  BY <1>1
<1>. QED
  BY <1>1, <1>2, RowChange

LEMMA RowPriced ==
  ASSUME TenancyTypes, NEW o \in Outlets, NEW price, sub' = [sub EXCEPT ![o].price = price]
  PROVE  /\ sub'[o].price = price /\ sub'[o].status = sub[o].status /\ sub'[o].plan = sub[o].plan
         /\ sub'[o].until = sub[o].until /\ \A x \in Outlets \ {o} : sub'[x] = sub[x]
<1>1. sub \in [Outlets -> SubRow] /\ sub[o] \in SubRow
  BY DEF TenancyTypes, TenantTypeOK
<1>2. sub'[o] = [sub[o] EXCEPT !.price = price] /\ \A x \in Outlets \ {o} : sub'[x] = sub[x]
  BY <1>1
<1>. QED
  BY <1>1, <1>2, RowChange

LEMMA RowClosed ==
  ASSUME TenancyTypes, NEW o \in Outlets, NEW status, sub' = [sub EXCEPT ![o].status = status]
  PROVE  /\ sub'[o].status = status /\ sub'[o].plan = sub[o].plan /\ sub'[o].price = sub[o].price
         /\ sub'[o].until = sub[o].until /\ \A x \in Outlets \ {o} : sub'[x] = sub[x]
<1>1. sub \in [Outlets -> SubRow] /\ sub[o] \in SubRow
  BY DEF TenancyTypes, TenantTypeOK
<1>2. sub'[o] = [sub[o] EXCEPT !.status = status] /\ \A x \in Outlets \ {o} : sub'[x] = sub[x]
  BY <1>1
<1>. QED
  BY <1>1, <1>2, RowChange

LEMMA RowMoved ==
  ASSUME TenancyTypes, NEW o \in Outlets, NEW plan, NEW price, NEW status,
         sub' = [sub EXCEPT ![o].plan = plan, ![o].price = price, ![o].status = status]
  PROVE  /\ sub'[o].status = status /\ sub'[o].plan = plan /\ sub'[o].price = price
         /\ sub'[o].until = sub[o].until /\ \A x \in Outlets \ {o} : sub'[x] = sub[x]
<1>1. sub \in [Outlets -> SubRow] /\ sub[o] \in SubRow
  BY DEF TenancyTypes, TenantTypeOK
<1>2. /\ sub'[o] = [sub[o] EXCEPT !.plan = plan, !.price = price, !.status = status]
      /\ \A x \in Outlets \ {o} : sub'[x] = sub[x]
  BY <1>1
<1>. QED
  BY <1>1, <1>2, RowChange

LEMMA OutletKeepsOutlets ==
  ASSUME TenancyTypes, OutletsInv, NEW w \in Admins, NEW o \in Outlets,
         DropOutlet(w, o) \/ RecordPayment(w, o) \/ CustomPrice(w, o)
  PROVE  OutletsInv'
<1>1. CASE AskDropOutlet(w, o)
  <2>1. PICK q : Admitted(w, q) /\ q.op = "dropOutlet" /\ q.outlet = o /\ outlet[o] # "absent"
    BY <1>1, DropOutletAsked
  <2>2. UNCHANGED <<outlet, shop, sub>> /\ task' = [task EXCEPT ![w] = q] /\ Prepared(q) /\ q.step = "asked"
    BY <2>1 DEF Admitted, Accept, places, bills
  <2>3. OutletOf(q) /\ ~In(q, "addOutlet", {"half"})
    BY <2>1, <2>2 DEF OutletOf, Doing, In
  <2>. QED
    BY <2>2, <2>3, OutletsSame
<1>2. ASSUME NEW m \in 0..MaxMonths, AskPay(w, o, m) PROVE OutletsInv'
  <2>1. PICK q : Admitted(w, q) /\ q.op = "pay"
    BY <1>2, PayAsked
  <2>2. UNCHANGED <<outlet, shop, sub>> /\ task' = [task EXCEPT ![w] = q] /\ Prepared(q) /\ q.step = "asked"
    BY <2>1 DEF Admitted, Accept, places, bills
  <2>3. OutletOf(q) /\ ~In(q, "addOutlet", {"half"})
    BY <2>1, <2>2 DEF OutletOf, Doing, In
  <2>. QED
    BY <2>2, <2>3, OutletsSame
<1>3. ASSUME NEW c \in Customs \cup {NoPrice}, AskPrice(w, o, c) PROVE OutletsInv'
  <2>1. PICK q : Admitted(w, q) /\ q.op = "customPrice" /\ q.outlet = o /\ sub[o].status \in Paying
    BY <1>3, PriceAsked
  <2>2. UNCHANGED <<outlet, shop, sub>> /\ task' = [task EXCEPT ![w] = q] /\ Prepared(q) /\ q.step = "asked"
    BY <2>1 DEF Admitted, Accept, places, bills
  <2>3. outlet[o] # "absent"
    BY <2>1 DEF OutletsInv, Rows, NoSub, Paying
  <2>4. OutletOf(q) /\ ~In(q, "addOutlet", {"half"})
    BY <2>1, <2>2, <2>3 DEF OutletOf, Doing, In
  <2>. QED
    BY <2>2, <2>4, OutletsSame
<1>4. CASE ReadPaid(w, o)
  <2>1. PICK q : Advance(w, q) /\ q.op = "pay" /\ q.outlet = o /\ sub[o].status # "none"
    BY <1>4, ReadPaidAdvances
  <2>2. UNCHANGED <<outlet, shop, sub>>
    BY <1>4 DEF ReadPaid, places, bills
  <2>3. outlet[o] # "absent"
    BY <2>1 DEF OutletsInv, Rows, NoSub
  <2>4. OutletOf(q) /\ ~In(q, "addOutlet", {"half"})
    BY <2>1, <2>3 DEF OutletOf, Doing, In
  <2>. QED
    BY <2>1, <2>2, <2>4, OutletsSame DEF Advance
<1>5. CASE CloseShop(w, o)
  <2>1. /\ task[w].op = "dropOutlet" /\ task[w].step = "asked" /\ task[w].outlet = o /\ Goto(w, "half")
        /\ shop' = [shop EXCEPT ![o] = "closed"] /\ UNCHANGED <<outlet, sub>>
    BY <1>5 DEF CloseShop, At, bills
  <2>2. PICK q : Advance(w, q) /\ q.op = "dropOutlet" /\ OutletOf(q) /\ ~In(q, "addOutlet", {"half"})
    BY <2>1, StepsOn DEF Steps
  <2>3. outlet[o] # "absent"
    BY <2>1 DEF OutletsInv, OutletOf, Doing
  <2>4. shop'[o] = "closed" /\ \A x \in Outlets \ {o} : shop'[x] = shop[x]
    BY <2>1 DEF TenancyTypes, TenantTypeOK
  <2>5. /\ task' = [task EXCEPT ![w] = q] /\ Prepared(q)
    BY <2>2 DEF Advance
  <2>. QED
    BY <2>1, <2>2, <2>3, <2>4, <2>5, OneOutlet
<1>6. CASE CloseOutlet(w, o)
  <2>1. PICK status : status = IF sub[o].status \in Paying THEN "expired" ELSE sub[o].status
    OBVIOUS
  <2>2. /\ task[w].op = "dropOutlet" /\ task[w].step = "half" /\ task[w].outlet = o /\ task' = [task EXCEPT ![w] = NoTask]
        /\ outlet' = [outlet EXCEPT ![o] = "closed"] /\ shop' = shop /\ sub' = [sub EXCEPT ![o].status = status]
    BY <1>6, <2>1 DEF CloseOutlet, At, Done, Goes
  <2>3. outlet[o] # "absent"
    BY <2>2 DEF OutletsInv, OutletOf, Doing
  <2>4. /\ outlet'[o] = "closed" /\ \A x \in Outlets \ {o} : outlet'[x] = outlet[x] /\ sub'[x] = sub[x]
        /\ sub'[o].status = status /\ sub'[o].plan = sub[o].plan
    BY <2>2, RowClosed DEF TenancyTypes, TenantTypeOK
  <2>5. status = "trial" => sub[o].status = "trial"
    BY <2>1
  <2>. QED
    BY <2>2, <2>3, <2>4, <2>5, OneOutlet, NothingAtOutlets
<1>7. CASE Pay(w, o)
  <2>1. PICK until : until = task[w].saw[o].until
    OBVIOUS
  <2>2. /\ task[w].op = "pay" /\ task[w].step = "open" /\ task[w].outlet = o /\ task' = [task EXCEPT ![w] = NoTask]
        /\ UNCHANGED <<outlet, shop>>
        /\ (sub' = sub \/ sub' = [sub EXCEPT ![o].until = until, ![o].status = "Active"])
    BY <1>7, <2>1 DEF Pay, At, Done, Goes, places
  <2>3. outlet[o] # "absent"
    BY <2>2 DEF OutletsInv, OutletOf, In
  <2>4. /\ \A x \in Outlets \ {o} : sub'[x] = sub[x]
        /\ sub' = sub \/ (sub'[o].status = "Active" /\ sub'[o].plan = sub[o].plan)
    BY <2>2, RowPaid
  <2>5. /\ sub'[o].status = "trial" => sub[o].status = "trial" /\ sub'[o].plan = sub[o].plan
        /\ sub[o].status \in Paying => sub'[o].status \in Paying
    BY <2>4 DEF Paying
  <2>. QED
    BY <2>2, <2>3, <2>4, <2>5, OneOutlet, NothingAtOutlets
<1>8. CASE LogPrice(w, o)
  <2>1. task[w].op = "customPrice" /\ task[w].step = "asked" /\ Goto(w, "made") /\ UNCHANGED <<outlet, shop, sub>>
    BY <1>8 DEF LogPrice, At, places
  <2>2. PICK q : Advance(w, q) /\ OutletOf(q) /\ ~In(q, "addOutlet", {"half"})
    BY <2>1, StepsOn DEF Steps
  <2>. QED
    BY <2>1, <2>2, OutletsSame DEF Advance
<1>9. CASE SetPrice(w, o)
  <2>1. /\ task[w].op = "customPrice" /\ task[w].step = "made" /\ task[w].outlet = o /\ task' = [task EXCEPT ![w] = NoTask]
        /\ UNCHANGED <<outlet, shop>> /\ sub' = [sub EXCEPT ![o].price = task[w].n]
    BY <1>9 DEF SetPrice, At, Done, Goes, places
  <2>2. outlet[o] # "absent"
    BY <2>1 DEF OutletsInv, OutletOf, Doing
  <2>3. /\ \A x \in Outlets \ {o} : sub'[x] = sub[x]
        /\ sub'[o].status = sub[o].status /\ sub'[o].plan = sub[o].plan
    BY <2>1, RowPriced
  <2>. QED
    BY <2>1, <2>2, <2>3, OneOutlet, NothingAtOutlets
<1>. QED
  BY <1>1, <1>2, <1>3, <1>4, <1>5, <1>6, <1>7, <1>8, <1>9 DEF DropOutlet, RecordPayment, CustomPrice

LEMMA OutletsStep ==
  ASSUME TenancyTypes, OutletsInv, [TenantNext]_tenantVars
  PROVE  OutletsInv'
<1>1. CASE UNCHANGED tenantVars \/ Tick
  <2>1. UNCHANGED <<outlet, shop, sub, task>>
    BY <1>1 DEF tenantVars, Tick, places, bills
  <2>. QED
    BY <2>1 DEF OutletsInv, Rows, Apart, OutletOf
<1>2. ASSUME NEW w \in Admins, Fail(w) PROVE OutletsInv'
  <2>1. task' = [task EXCEPT ![w] = NoTask] /\ UNCHANGED <<outlet, shop, sub>>
    BY <1>2 DEF Fail, places, bills
  <2>. QED
    BY <2>1, OutletsSame, NothingOfOutlets, NothingPrepared, NoTaskMade DEF In
<1>3. ASSUME NEW w \in Admins, AnyLogin(w) \/ AnyWarehouse(w) \/ AskLoyalty(w) \/ LoyaltyOn(w) \/ LoyaltyOff(w)
      PROVE  OutletsInv'
  <2>1. PICK q : task' = [task EXCEPT ![w] = q] /\ Prepared(q)
    <3>1. (\E q : Admitted(w, q)) \/ \E q : Advance(w, q)
      BY <1>3, LoginSteps, WarehouseSteps, PlanSteps DEF AnyPlan
    <3>. QED
      BY <3>1 DEF Admitted, Accept, Advance
  <2>2. UNCHANGED <<outlet, shop, sub>> /\ (q = NoTask \/ q.op \in NotOfOutlets)
    BY <1>3, <2>1, OtherSteps
  <2>3. OutletOf(q) /\ ~In(q, "addOutlet", {"half"})
    BY <2>2, OtherOps, NothingOfOutlets, NoTaskMade DEF In
  <2>. QED
    BY <2>1, <2>2, <2>3, OutletsSame
<1>4. ASSUME NEW w \in Admins, AnyOutlet(w) PROVE OutletsInv'
  BY <1>4, NewOutletKeepsOutlets, OutletKeepsOutlets DEF AnyOutlet
<1>5. ASSUME NEW w \in Admins, AnyPlan(w) PROVE OutletsInv'
  BY <1>3, <1>5, PlanKeepsOutlets DEF AnyPlan
<1>. QED
  BY <1>1, <1>2, <1>3, <1>4, <1>5, SignUpKeepsOutlets, Zenon DEF TenantNext

LEMMA OutletsStart == TenantInit => OutletsInv
<1> SUFFICES ASSUME TenantInit PROVE OutletsInv
  OBVIOUS
<1>1. PICK start \in Starts, offer \in [Outlets -> Offers \cup {NoOffer}] :
        IF "signUp" \in duty THEN Empty
        ELSE Stands(IF duty \cap {"addOutlet", "dropLogin"} # {} THEN {1} ELSE Outlets,
                    start.plan, start.status, offer)
  BY DEF TenantInit
<1>2. start.status \in Paying /\ (start.status = "trial" => start.plan = "Pro")
  BY TenancyAssumption DEF Paying
<1>3. Rows
  <2>1. CASE Empty
    BY <2>1 DEF Rows, Empty, NoSub
  <2>2. ASSUME NEW O, Stands(O, start.plan, start.status, offer) PROVE Rows
    <3>1. ASSUME NEW o \in Outlets
          PROVE  /\ outlet[o] = "absent" => sub[o] = NoSub
                 /\ outlet[o] = "live" => sub[o].status \in Paying
                 /\ sub[o].status = "trial" => sub[o].plan = "Pro"
      <4>1. CASE o \in O
        <5>1. PICK r : r = [NoSub EXCEPT !.plan = start.plan, !.status = start.status, !.until = Month, !.offer = offer[o]]
          OBVIOUS
        <5>2. r.plan = start.plan /\ r.status = start.status
          BY <5>1 DEF NoSub
        <5>3. sub[o] = r /\ outlet[o] = "live"
          BY <2>2, <4>1, <5>1 DEF Stands
        <5>. QED
          BY <1>2, <5>2, <5>3
      <4>2. CASE o \notin O
        BY <2>2, <4>2 DEF Stands, NoSub
      <4>. QED
        BY <4>1, <4>2
    <3>. QED
      BY <3>1 DEF Rows
  <2>. QED
    BY <1>1, <2>1, <2>2
<1>4. \A w \in Admins : task[w] = NoTask
  BY DEF TenantInit
<1>5. \A w \in Admins : OutletOf(task[w]) /\ ~In(task[w], "addOutlet", {"half"})
  BY <1>4, NothingOfOutlets, NoTaskMade DEF In
<1>. QED
  BY <1>3, <1>5 DEF OutletsInv, Apart

\* Nothing is on a trial but Pro, whatever overlaps, fails or is cut off: a
\* change of plan ends the trial by the subscription as it was read, and nothing
\* starts one on another plan.
THEOREM TrialsEnd == TenantSpec => []TrialEndsWithPro
<1>1. TenantInit => TenancyTypes /\ OutletsInv
  BY TypesStart, OutletsStart
<1>2. TenancyTypes /\ OutletsInv /\ [TenantNext]_tenantVars => (TenancyTypes /\ OutletsInv)'
  BY TypesStep, OutletsStep
<1>3. TenancyTypes /\ OutletsInv => TrialEndsWithPro
  BY DEF OutletsInv, Rows, TrialEndsWithPro
<1>. QED
  BY <1>1, <1>2, <1>3, PTL DEF TenantSpec

(***************************************************************************)
(* Payments: a number that is still free in its month says that nobody has *)
(* paid since it was read.                                                 *)
(***************************************************************************)
LEMMA OthersMonths ==
  ASSUME TenancyTypes, NEW p, MonthsOf(p), OutletOf(p), Prepared(p), MonthsStay
  PROVE  MonthsOf(p)'
<1> SUFFICES ASSUME In(p, "pay", {"open"})
             PROVE  /\ p.month \in 0..(Horizon \div Month) /\ p.seq <= invoices'[p.month] + 1
                    /\ ~rolled' =>
                         /\ p.month = now' \div Month
                         /\ invoices'[p.month] < p.seq => p.saw[p.outlet].until >= sub'[p.outlet].until + p.n * Month
  BY DEF MonthsOf
<1>1. /\ p.outlet \in Outlets /\ outlet[p.outlet] # "absent" /\ p.seq \in Nat /\ p.month \in 0..(Horizon \div Month)
      /\ p.seq <= invoices[p.month] + 1 /\ invoices[p.month] \in Nat
  BY DEF OutletOf, Prepared, Task, MonthsOf, TenancyTypes, TenantTypeOK
<1>2. invoices'[p.month] >= invoices[p.month] /\ invoices'[p.month] \in Nat
  BY <1>1 DEF MonthsStay
<1>3. ASSUME ~rolled'
      PROVE  /\ p.month = now' \div Month
             /\ invoices'[p.month] < p.seq => p.saw[p.outlet].until >= sub'[p.outlet].until + p.n * Month
  <2>1. ~rolled /\ now' = now /\ p.month = now \div Month
    BY <1>3 DEF MonthsStay, MonthsOf
  <2>2. invoices[p.month] < p.seq => p.saw[p.outlet].until >= sub[p.outlet].until + p.n * Month
    BY <2>1 DEF MonthsOf
  <2>3. \/ sub'[p.outlet].until = sub[p.outlet].until
        \/ invoices'[p.month] > invoices[p.month]
    BY <1>1, <2>1 DEF MonthsStay
  <2>4. invoices'[p.month] < p.seq => sub'[p.outlet].until = sub[p.outlet].until /\ invoices[p.month] < p.seq
    BY <1>1, <1>2, <2>3
  <2>. QED
    BY <2>1, <2>2, <2>4
<1>. QED
  BY <1>1, <1>2, <1>3

LEMMA MonthsGo ==
  ASSUME TenancyTypes, OutletsInv, MonthsInv, NEW w \in Admins, NEW q, task' = [task EXCEPT ![w] = q],
         MonthsOf(q)', MonthsStay
  PROVE  MonthsInv'
<1>1. task'[w] = q /\ \A u \in Admins \ {w} : task'[u] = task[u]
  BY DEF TenancyTypes, TenantTypeOK
<1>2. ASSUME NEW u \in Admins PROVE MonthsOf(task[u])'
  <2>1. CASE u = w
    BY <1>1, <2>1 DEF MonthsOf
  <2>2. CASE u # w
    <3>1. PICK p : p = task[u]
      OBVIOUS
    <3>2. MonthsOf(p) /\ OutletOf(p) /\ Prepared(p)
      BY <3>1 DEF MonthsInv, OutletsInv, TenancyTypes
    <3>3. MonthsOf(p)'
      BY <3>2, OthersMonths
    <3>. QED
      BY <1>1, <2>2, <3>1, <3>3 DEF MonthsOf
  <2>. QED
    BY <2>1, <2>2
<1>. QED
  BY <1>2 DEF MonthsInv

LEMMA MonthsSame ==
  ASSUME TenancyTypes, OutletsInv, MonthsInv, NEW w \in Admins, NEW q, task' = [task EXCEPT ![w] = q],
         ~In(q, "pay", {"open"}), UNCHANGED <<invoices, rolled, now>>,
         \A o \in Outlets : outlet[o] # "absent" => sub'[o].until = sub[o].until
  PROVE  MonthsInv'
<1>1. MonthsOf(q)'
  BY DEF MonthsOf
<1>2. \A m \in 0..(Horizon \div Month) : invoices'[m] >= invoices[m] /\ invoices'[m] \in Nat
  BY DEF TenancyTypes, TenantTypeOK
<1>3. MonthsStay
  BY <1>2 DEF MonthsStay
<1>. QED
  BY <1>1, <1>3, MonthsGo

LEMMA NotPaying == ~In(NoTask, "pay", {"open"}) /\ \A q : q.op # "pay" \/ q.step = "asked" => ~In(q, "pay", {"open"})
  BY NoTaskMade DEF In

LEMMA SignUpKeepsMonths ==
  ASSUME TenancyTypes, OutletsInv, MonthsInv, NEW w \in Admins, SignUp(w)
  PROVE  MonthsInv'
<1>1. PICK q : task' = [task EXCEPT ![w] = q] /\ (q = NoTask \/ q.op = "signUp") /\ "signUp" \in duty
  <2>1. CASE \E plan \in Plans, trial \in BOOLEAN : AskSignUp(w, plan, trial)
    BY <2>1, SignUpAsked DEF Admitted, Accept
  <2>2. CASE \/ MakeTenant(w) \/ SetUpUser(w) \/ SetUpShop(w) \/ SetUpDepot(w) \/ SetUpMain(w) \/ EndSignUp(w)
             \/ UndoSignUp(w)
    <3>1. task[w].op = "signUp" /\ task[w].step # "idle"
      BY <2>2 DEF MakeTenant, SetUpUser, SetUpShop, SetUpDepot, SetUpMain, EndSignUp, UndoSignUp, At
    <3>. QED
      BY <2>2, <3>1, SignUpAdvances, SignUpAlone DEF Advance, Doing
  <2>. QED
    BY <2>1, <2>2 DEF SignUp
<1>2. \A u \in Admins : task'[u] = NoTask \/ task'[u].op = "signUp"
  BY <1>1, SignUpAlone DEF TenancyTypes, TenantTypeOK
<1>3. ASSUME NEW u \in Admins PROVE MonthsOf(task[u])'
  BY <1>2, NotPaying DEF MonthsOf, In
<1>. QED
  BY <1>3 DEF MonthsInv

LEMMA PlanKeepsMonths ==
  ASSUME TenancyTypes, OutletsInv, MonthsInv, NEW w \in Admins, ChangePlan(w)
  PROVE  MonthsInv'
<1>1. PICK q : /\ task' = [task EXCEPT ![w] = q] /\ UNCHANGED <<rolled, now>> /\ ~In(q, "pay", {"open"})
  <2>1. ASSUME NEW plan \in Plans, AskPlan(w, plan)
        PROVE  \E q : task' = [task EXCEPT ![w] = q] /\ UNCHANGED <<rolled, now>> /\ ~In(q, "pay", {"open"})
    <3>1. PICK q : Admitted(w, q) /\ q.op = "changePlan"
      BY <2>1, PlanAsked
    <3>2. task' = [task EXCEPT ![w] = q] /\ UNCHANGED <<rolled, now>>
      BY <3>1 DEF Admitted, Accept, ghosts
    <3>3. ~In(q, "pay", {"open"})
      BY <3>1 DEF In
    <3>. QED
      BY <3>2, <3>3
  <2>2. CASE \/ CloseWarehouses(w) \/ CloseDepots(w) \/ OpenMain(w) \/ OpenMainDepot(w) \/ Sideways(w)
             \/ MoveSubscription(w) \/ CountSeats(w) \/ BillSeats(w)
    <3>1. task[w].op = "changePlan"
      BY <2>2 DEF CloseWarehouses, CloseDepots, OpenMain, OpenMainDepot, Sideways, MoveSubscription, CountSeats,
        BillSeats, At
    <3>2. PICK q : Advance(w, q)
      BY <2>2, PlanAdvances, MoveSubscriptionAdvances, CountSeatsAdvances
    <3>. QED
      BY <3>1, <3>2, NotPaying DEF Advance
  <2>. QED
    BY <2>1, <2>2 DEF ChangePlan
<1>2. /\ invoices' = invoices
      /\ sub' = sub \/ MoveSubscription(w)
  BY DEF ChangePlan, AskPlan, Accept, CloseWarehouses, CloseDepots, OpenMain, OpenMainDepot, Sideways, MoveSubscription,
    CountSeats, BillSeats, bills
<1>3. ASSUME MoveSubscription(w) PROVE \A x \in Outlets : sub'[x].until = sub[x].until
  <2>1. PICK o \in Outlets : o = Min(task[w].todo)
    BY <1>3, MoveSubscriptionAdvances
  <2>2. PICK status : status = IF EndsTrial(task[w].saw[o], task[w].plan) THEN "Active" ELSE sub[o].status
    OBVIOUS
  <2>3. sub' = [sub EXCEPT ![o].plan = task[w].plan, ![o].price = NoPrice, ![o].status = status]
    BY <1>3, <2>1, <2>2, TaskTyped DEF MoveSubscription, TenancyTypes, TenantTypeOK
  <2>. QED
    BY <2>3, RowMoved
<1>4. \A o \in Outlets : outlet[o] # "absent" => sub'[o].until = sub[o].until
  BY <1>2, <1>3
<1>. QED
  BY <1>1, <1>2, <1>4, MonthsSame

LEMMA NewOutletKeepsMonths ==
  ASSUME TenancyTypes, OutletsInv, MonthsInv, NEW w \in Admins, AddOutlet(w)
  PROVE  MonthsInv'
<1>1. CASE AskOutlet(w)
  <2>1. PICK q : Admitted(w, q) /\ q.op = "addOutlet"
    BY <1>1, AddOutletAsked
  <2>2. UNCHANGED <<sub, invoices, rolled, now>> /\ task' = [task EXCEPT ![w] = q]
    BY <2>1 DEF Admitted, Accept, bills, ghosts
  <2>. QED
    BY <2>1, <2>2, MonthsSame, NotPaying
<1>2. CASE OpenShop(w)
  <2>1. PICK q : Advance(w, q) /\ q.op = "addOutlet"
    BY <1>2, OpenShopAdvances
  <2>2. UNCHANGED <<sub, invoices>>
    BY <1>2 DEF OpenShop, bills
  <2>. QED
    BY <2>1, <2>2, MonthsSame, NotPaying DEF Advance
<1>3. CASE OpenOutlet(w)
  <2>1. PICK o : o = task[w].outlet
    OBVIOUS
  <2>2. o \in Outlets /\ outlet[o] = "absent"
    BY <1>3, <2>1 DEF OpenOutlet, At, OutletsInv, OutletOf, In, TenancyTypes, Prepared
  <2>3. \E r : sub' = [sub EXCEPT ![o] = r]
    BY <1>3, <2>1 DEF OpenOutlet
  <2>4. \A x \in Outlets : outlet[x] # "absent" => sub'[x] = sub[x]
    BY <2>2, <2>3 DEF TenancyTypes, TenantTypeOK
  <2>5. UNCHANGED <<invoices, rolled, now>> /\ task' = [task EXCEPT ![w] = NoTask]
    BY <1>3 DEF OpenOutlet, Done, Goes
  <2>. QED
    BY <2>4, <2>5, MonthsSame, NotPaying
<1>. QED
  BY <1>1, <1>2, <1>3 DEF AddOutlet

LEMMA Later == \A u \in Int : PaidUp(u) = "Expired" /\ now \in Nat /\ Grace \in Nat => now >= u
  BY DEF PaidUp

LEMMA OutletKeepsMonths ==
  ASSUME TenancyTypes, OutletsInv, MonthsInv, NEW w \in Admins, NEW o \in Outlets,
         DropOutlet(w, o) \/ RecordPayment(w, o) \/ CustomPrice(w, o)
  PROVE  MonthsInv'
<1>1. ASSUME NEW q, Admitted(w, q) PROVE MonthsInv'
  <2>1. UNCHANGED <<sub, invoices, rolled, now>> /\ task' = [task EXCEPT ![w] = q] /\ q.step = "asked"
    BY <1>1 DEF Admitted, Accept, bills, ghosts
  <2>. QED
    BY <2>1, MonthsSame, NotPaying
<1>2. CASE CloseShop(w, o) \/ LogPrice(w, o)
  <2>1. task[w].op # "pay" /\ UNCHANGED <<sub, invoices>>
    BY <1>2 DEF CloseShop, LogPrice, At, bills
  <2>2. PICK q : Advance(w, q)
    BY <1>2, OutletAdvances
  <2>. QED
    BY <2>1, <2>2, MonthsSame, NotPaying DEF Advance
<1>3. CASE CloseOutlet(w, o)
  <2>1. PICK status : status = IF sub[o].status \in Paying THEN "expired" ELSE sub[o].status
    OBVIOUS
  <2>2. sub' = [sub EXCEPT ![o].status = status] /\ UNCHANGED <<invoices, rolled, now>> /\ task' = [task EXCEPT ![w] = NoTask]
    BY <1>3, <2>1 DEF CloseOutlet, Done, Goes
  <2>3. \A x \in Outlets : sub'[x].until = sub[x].until
    BY <2>2, RowClosed
  <2>. QED
    BY <2>2, <2>3, MonthsSame, NotPaying
<1>4. CASE SetPrice(w, o)
  <2>1. sub' = [sub EXCEPT ![o].price = task[w].n] /\ UNCHANGED <<invoices, rolled, now>> /\ task' = [task EXCEPT ![w] = NoTask]
    BY <1>4 DEF SetPrice, Done, Goes
  <2>2. \A x \in Outlets : sub'[x].until = sub[x].until
    BY <2>1, RowPriced
  <2>. QED
    BY <2>1, <2>2, MonthsSame, NotPaying
<1>5. CASE ReadPaid(w, o)
  <2>1. PICK q : /\ Advance(w, q) /\ q.step = "open" /\ q.op = "pay" /\ q.outlet = o
              /\ q.n = task[w].n /\ q.n \in Nat /\ sub[o].status # "none"
              /\ q.month = now \div Month /\ q.seq = invoices[now \div Month] + 1
              /\ q.saw[o].until = (IF q.n > 0 /\ PaidUp(sub[o].until) = "Expired" THEN now ELSE sub[o].until)
                                    + q.n * Month
    BY <1>5, ReadPaidAdvances
  <2>2. UNCHANGED <<sub, invoices, rolled, now>> /\ task' = [task EXCEPT ![w] = q]
    BY <1>5, <2>1 DEF ReadPaid, bills, Advance
  <2>3. PICK bought \in Int : bought = q.n * Month
    BY <2>1, MonthsTyped
  <2>4. now \in Nat /\ Grace \in Nat /\ sub[o].until \in Int
    <3>1. now \in 0..Horizon
      BY DEF TenancyTypes, TenantTypeOK
    <3>2. Grace \in Nat
      BY TenancyAssumption
    <3>. QED
      BY <3>1, <3>2, TaskTyped
  <2>5. q.saw[o].until >= sub[o].until + bought
    <3>1. PICK paid, until : paid = sub[o].until /\ until = q.saw[o].until
      OBVIOUS
    <3>2. until = now + bought \/ until = paid + bought
      BY <2>1, <2>3, <3>1
    <3>3. until = now + bought /\ until # paid + bought => PaidUp(paid) = "Expired"
      BY <2>1, <2>3, <3>1
    <3>4. PaidUp(paid) = "Expired" => now >= paid
      BY <2>4, <3>1, Later
    <3>. QED
      BY <2>3, <2>4, <3>1, <3>2, <3>3, <3>4
  <2>6. MonthsOf(q)'
    <3>1. MonthsOf(q)
      BY <2>1, <2>3, <2>5, InMonth DEF MonthsOf
    <3>. QED
      BY <2>2, <3>1 DEF MonthsOf
  <2>7. MonthsStay
    <3>1. \A m \in 0..(Horizon \div Month) : invoices'[m] >= invoices[m] /\ invoices'[m] \in Nat
      BY <2>2 DEF TenancyTypes, TenantTypeOK
    <3>. QED
      BY <2>2, <3>1 DEF MonthsStay
  <2>. QED
    BY <2>2, <2>6, <2>7, MonthsGo
<1>6. CASE Pay(w, o)
  <2>1. PICK p \in Task : p = task[w]
    BY TaskTyped
  <2>2. /\ In(p, "pay", {"open"}) /\ NumberFree(p.month, p.seq) /\ invoices' = [invoices EXCEPT ![p.month] = p.seq]
        /\ UNCHANGED <<rolled, now>> /\ task' = [task EXCEPT ![w] = NoTask]
    BY <1>6, <2>1 DEF Pay, At, In, Done, Goes
  <2>3. MonthsOf(p)
    BY <2>1 DEF MonthsInv
  <2>4. PICK month, seq : month = p.month /\ seq = p.seq
    OBVIOUS
  <2>5. /\ month \in 0..(Horizon \div Month) /\ seq \in Nat /\ invoices[month] < seq
        /\ (~rolled => month = now \div Month) /\ invoices' = [invoices EXCEPT ![month] = seq]
    BY <2>2, <2>3, <2>4 DEF MonthsOf, NumberFree, Task
  <2>6. invoices \in [0..(Horizon \div Month) -> Nat]
    BY DEF TenancyTypes, TenantTypeOK
  <2>7. \A m \in 0..(Horizon \div Month) : invoices'[m] >= invoices[m] /\ invoices'[m] \in Nat
    BY <2>5, <2>6
  <2>8. ~rolled => invoices'[now \div Month] > invoices[now \div Month]
    BY <2>5, <2>6
  <2>9. MonthsStay
    BY <2>2, <2>7, <2>8 DEF MonthsStay
  <2>10. MonthsOf(NoTask)'
    BY NotPaying DEF MonthsOf
  <2>. QED
    BY <2>2, <2>9, <2>10, MonthsGo
<1>. QED
  BY <1>1, <1>2, <1>3, <1>4, <1>5, <1>6, DropOutletAsked, PayAsked, PriceAsked DEF DropOutlet, RecordPayment, CustomPrice

LEMMA MonthsStep ==
  ASSUME TenancyTypes, OutletsInv, MonthsInv, [TenantNext]_tenantVars
  PROVE  MonthsInv'
<1>1. CASE UNCHANGED tenantVars
  <2>1. UNCHANGED <<sub, task, invoices, rolled, now>>
    BY <1>1 DEF tenantVars, bills, ghosts
  <2>. QED
    BY <2>1 DEF MonthsInv, MonthsOf
<1>2. CASE Tick
  <2>1. UNCHANGED <<sub, task, invoices>>
    BY <1>2 DEF Tick, bills
  <2>2. ASSUME NEW w \in Admins, In(task[w], "pay", {"open"}), ~rolled'
        PROVE  ~rolled /\ now' \div Month = now \div Month
    BY <1>2, <2>2 DEF Tick, In
  <2>3. ASSUME NEW w \in Admins PROVE MonthsOf(task[w])'
    <3>1. MonthsOf(task[w])
      BY DEF MonthsInv
    <3>. QED
      BY <2>1, <2>2, <3>1 DEF MonthsOf
  <2>. QED
    BY <2>3 DEF MonthsInv
<1>3. ASSUME NEW w \in Admins, Fail(w) PROVE MonthsInv'
  <2>1. task' = [task EXCEPT ![w] = NoTask] /\ UNCHANGED <<sub, invoices, rolled, now>>
    BY <1>3 DEF Fail, bills, ghosts
  <2>. QED
    BY <2>1, MonthsSame, NotPaying
<1>4. ASSUME NEW w \in Admins, AnyLogin(w) \/ AnyWarehouse(w) \/ AskLoyalty(w) \/ LoyaltyOn(w) \/ LoyaltyOff(w)
      PROVE  MonthsInv'
  <2>1. PICK q : task' = [task EXCEPT ![w] = q] /\ UNCHANGED <<rolled, now>>
    <3>1. (\E q : Admitted(w, q)) \/ \E q : Advance(w, q)
      BY <1>4, LoginSteps, WarehouseSteps, PlanSteps DEF AnyPlan
    <3>. QED
      BY <3>1 DEF Admitted, Accept, Advance, ghosts
  <2>2. UNCHANGED <<sub, invoices>> /\ (q = NoTask \/ q.op \in NotOfOutlets)
    BY <1>4, <2>1, OtherSteps
  <2>3. ~In(q, "pay", {"open"})
    BY <2>2, NotPaying DEF NotOfOutlets
  <2>. QED
    BY <2>1, <2>2, <2>3, MonthsSame
<1>5. ASSUME NEW w \in Admins, AnyOutlet(w) PROVE MonthsInv'
  BY <1>5, NewOutletKeepsMonths, OutletKeepsMonths DEF AnyOutlet
<1>6. ASSUME NEW w \in Admins, AnyPlan(w) PROVE MonthsInv'
  BY <1>4, <1>6, PlanKeepsMonths DEF AnyPlan
<1>. QED
  BY <1>1, <1>2, <1>3, <1>4, <1>5, <1>6, SignUpKeepsMonths, Zenon DEF TenantNext

LEMMA MonthsStart == TenantInit => MonthsInv
  BY NotPaying DEF TenantInit, MonthsInv, MonthsOf

LEMMA Pays ==
  ASSUME TenancyTypes, MonthsInv, [TenantNext]_tenantVars, NEW w \in Admins,
         At(w, "pay", "open"), task'[w].step = "idle", invoices' # invoices
  PROVE  \E o \in Outlets : Pay(w, o)
<1>1. PICK v \in Admins, o \in Outlets : Pay(v, o)
  <2>1. ASSUME NEW v \in Admins, SignUp(v) PROVE invoices' = invoices
    BY <2>1 DEF SignUp, AskSignUp, Accept, MakeTenant, SetUpUser, SetUpShop, SetUpDepot, SetUpMain, EndSignUp,
      UndoSignUp, bills
  <2>2. ASSUME NEW v \in Admins, AnyPlan(v) PROVE invoices' = invoices
    BY <2>2, OtherSteps DEF AnyPlan, ChangePlan, AskPlan, Accept, CloseWarehouses, CloseDepots, OpenMain, OpenMainDepot,
      Sideways, MoveSubscription, CountSeats, BillSeats, bills
  <2>3. ASSUME NEW v \in Admins, AnyOutlet(v) PROVE invoices' = invoices \/ \E o \in Outlets : Pay(v, o)
    <3>1. CASE AddOutlet(v)
      BY <3>1 DEF AddOutlet, AskOutlet, OpenShop, OpenOutlet, Accept, bills
    <3>2. ASSUME NEW o \in Outlets, DropOutlet(v, o) \/ RecordPayment(v, o) \/ CustomPrice(v, o)
          PROVE  invoices' = invoices \/ Pay(v, o)
      BY <3>2 DEF DropOutlet, AskDropOutlet, CloseShop, CloseOutlet, RecordPayment, AskPay, ReadPaid, CustomPrice,
        AskPrice, LogPrice, SetPrice, Accept, bills
    <3>. QED
      BY <2>3, <3>1, <3>2 DEF AnyOutlet
  <2>4. ASSUME NEW v \in Admins, AnyLogin(v) \/ AnyWarehouse(v) PROVE invoices' = invoices
    BY <2>4, OtherSteps
  <2>5. ASSUME Tick \/ UNCHANGED tenantVars \/ \E v \in Admins : Fail(v) PROVE invoices' = invoices
    BY <2>5 DEF Tick, tenantVars, Fail, bills
  <2>. QED
    BY <2>1, <2>2, <2>3, <2>4, <2>5, Zenon DEF TenantNext
<1>2. v = w
  BY <1>1 DEF Pay, Done, Goes, At, TenancyTypes, TenantTypeOK
<1>. QED
  BY <1>1, <1>2

\* A payment never buys less than its months on top of what is paid for, nor
\* leaves a subscription that it extends inactive: two that are recorded in one
\* calendar month take the same number, and the second is refused.
THEOREM MonthsAreGranted == TenantSpec => MonthsGranted
<1>1. TenantInit => TenancyTypes /\ OutletsInv /\ MonthsInv
  BY TypesStart, OutletsStart, MonthsStart
<1>2. TenancyTypes /\ OutletsInv /\ MonthsInv /\ [TenantNext]_tenantVars => (TenancyTypes /\ OutletsInv /\ MonthsInv)'
  BY TypesStep, OutletsStep, MonthsStep
<1>3. ASSUME TenancyTypes, OutletsInv, MonthsInv, [TenantNext]_tenantVars, NEW w \in Admins,
             At(w, "pay", "open"), task'[w].step = "idle", invoices' # invoices, ~rolled
      PROVE  LET o == task[w].outlet IN
             /\ sub'[o].until >= sub[o].until + task[w].n * Month
             /\ task[w].n > 0 => sub'[o].status = "Active"
  <2>1. PICK o \in Outlets : Pay(w, o)
    BY <1>3, Pays
  <2>2. PICK p \in Task : p = task[w]
    BY <1>3, TaskTyped
  <2>3. PICK until : until = p.saw[o].until
    OBVIOUS
  <2>4. /\ p.outlet = o /\ NumberFree(p.month, p.seq)
        /\ sub' = IF p.n = 0 THEN sub ELSE [sub EXCEPT ![o].until = until, ![o].status = "Active"]
    BY <2>1, <2>2, <2>3 DEF Pay
  <2>5. MonthsOf(p) /\ In(p, "pay", {"open"}) /\ p.n \in Nat
    BY <1>3, <2>2 DEF MonthsInv, At, In, TenancyTypes, Prepared
  <2>6. until >= sub[o].until + p.n * Month
    BY <1>3, <2>3, <2>4, <2>5 DEF MonthsOf, NumberFree
  <2>7. CASE p.n = 0
    <3>1. 0 * Month = 0 /\ sub[o].until \in Int
      BY <1>3, TaskTyped, TenancyAssumption
    <3>. QED
      BY <2>2, <2>4, <2>7, <3>1
  <2>8. CASE p.n # 0
    <3>1. TenancyTypes
      BY <1>3
    <3>2. sub \in [Outlets -> SubRow] /\ sub[o] \in SubRow
      BY <3>1 DEF TenancyTypes, TenantTypeOK
    <3>3. sub'[o] = [sub[o] EXCEPT !.until = until, !.status = "Active"]
      BY <2>4, <2>8, <3>2
    <3>4. sub'[o].until = until /\ sub'[o].status = "Active"
      BY <3>2, <3>3 DEF SubRow
    <3>. QED
      BY <2>2, <2>4, <2>6, <3>4
  <2>. QED
    BY <2>7, <2>8
<1>4. TenancyTypes /\ OutletsInv /\ MonthsInv /\ [TenantNext]_tenantVars =>
        [\A w \in Admins : At(w, "pay", "open") /\ task'[w].step = "idle" /\ invoices' # invoices /\ ~rolled
           => LET o == task[w].outlet IN
              /\ sub'[o].until >= sub[o].until + task[w].n * Month
              /\ task[w].n > 0 => sub'[o].status = "Active"]_tenantVars
  BY <1>3
<1>. QED
  BY <1>1, <1>2, <1>4, PTL DEF TenantSpec, MonthsGranted

(***************************************************************************)
(* One request at a time.                                                  *)
(***************************************************************************)
LEMMA Solo ==
  ASSUME TenancyTypes, Serial, NEW w \in Admins, NEW q, StepBy(w, q), ~overlapped'
  PROVE  ~overlapped /\ Working(task[w]) /\ Working(q)' /\ \A p : Working(p)' => p = q
<1>1. task' = [task EXCEPT ![w] = q] /\ Prepared(q)
  BY NothingPrepared DEF StepBy, Fail, Admitted, Accept, Advance
<1>2. task'[w] = q /\ \A u \in Admins \ {w} : task'[u] = task[u]
  BY <1>1 DEF TenancyTypes, TenantTypeOK
<1>3. ~overlapped /\ (task[w].step # "idle" \/ Idle)
  <2>1. CASE Accept(w, q)
    BY <2>1, Zenon DEF Accept, Idle
  <2>2. CASE Fail(w) \/ Advance(w, q)
    BY <2>2 DEF Fail, Advance
  <2>. QED
    BY <2>1, <2>2 DEF StepBy, Admitted
<1>4. PICK r : Working(r)
  BY <1>3 DEF Serial
<1>5. Lone(w)
  BY <1>3, <1>4 DEF Working, Lone, Idle
<1>6. \A u \in Admins \ {w} : task'[u] = NoTask
  BY <1>2, <1>5 DEF Lone, TenancyTypes, Prepared
<1>7. Lone(w)'
  BY <1>6, NoTaskMade DEF Lone
<1>8. q.step = "idle" => q = NoTask
  BY <1>1 DEF Prepared
<1>9. ASSUME NEW p, Working(p)' PROVE p = q
  BY <1>2, <1>6, <1>8, <1>9 DEF Working, Lone, Idle
<1>. QED
  BY <1>2, <1>3, <1>5, <1>7, <1>9 DEF Working

LEMMA SerialStep ==
  ASSUME TenancyTypes, Serial, [TenantNext]_tenantVars
  PROVE  Serial'
<1>1. CASE UNCHANGED tenantVars \/ Tick
  <2>1. task' = task /\ overlapped' = overlapped
    BY <1>1 DEF tenantVars, Tick
  <2>. QED
    BY <2>1 DEF Serial, Working, Idle, Lone
<1>2. ASSUME NEW w \in Admins, NEW q, StepBy(w, q) PROVE Serial'
  BY <1>2, Solo DEF Serial
<1>. QED
  BY <1>1, <1>2, EveryStep DEF StepBy

LEMMA SerialStart == TenantInit => Serial
<1> SUFFICES ASSUME TenantInit PROVE Working(NoTask)
  BY DEF Serial
<1>. QED
  BY NoTaskMade DEF TenantInit, Working, Idle

LEMMA StepOn ==
  ASSUME TenancyTypes, NEW w \in Admins, NEW s \in Steps \ {"idle"}, Goto(w, s),
         task[w].step # "idle", task[w].op = "addOutlet" => s # "half"
  PROVE  \E q : Advance(w, q) /\ Follows(q, task[w], s)
<1>1. PICK p : p = task[w]
  OBVIOUS
<1>2. Prepared(p) /\ p \in Task
  BY <1>1 DEF TenancyTypes, Prepared
<1>3. PICK q : q = [p EXCEPT !.step = s]
  OBVIOUS
<1>4. Prepared(q)
  BY <1>1, <1>2, <1>3, PreparedOnward
<1>5. Follows(q, p, s)
  BY <1>2, <1>3, Onward DEF Follows
<1>6. Advance(w, q)
  BY <1>1, <1>3, <1>4, <1>5 DEF Advance, Goto, Goes, Follows
<1>. QED
  BY <1>1, <1>5, <1>6

(***************************************************************************)
(* Nothing is lost.                                                        *)
(***************************************************************************)
LEMMA KeptGo ==
  ASSUME TenancyTypes, Serial, KeptInv, NEW w \in Admins, NEW q, StepBy(w, q),
         Intact /\ KeptOf(task[w]) => Intact' /\ KeptOf(q)'
  PROVE  KeptInv'
<1> SUFFICES ASSUME ~overlapped' PROVE Intact' /\ \A p : Working(p)' => KeptOf(p)'
  BY DEF KeptInv
<1>1. ~overlapped /\ Working(task[w]) /\ \A p : Working(p)' => p = q
  BY Solo
<1>2. Intact /\ KeptOf(task[w])
  BY <1>1 DEF KeptInv
<1>3. Intact' /\ KeptOf(q)'
  BY <1>2
<1>4. ASSUME NEW p, Working(p)' PROVE KeptOf(p)'
  <2>1. p = q
    BY <1>1, <1>4
  <2>. QED
    BY <1>3, <2>1 DEF KeptOf
<1>. QED
  BY <1>3, <1>4

LEMMA KeptSame ==
  ASSUME TenancyTypes, Serial, KeptInv, NEW w \in Admins, NEW q, StepBy(w, q),
         UNCHANGED <<tenant, outlet, warehouse, stock>>, q.op \notin Keeping
  PROVE  KeptInv'
<1>1. KeptOf(q)'
  BY DEF KeptOf, Doing, In, Keeping
<1>2. Intact => Intact'
  BY DEF Intact, LiveOutlets
<1>. QED
  BY <1>1, <1>2, KeptGo

LEMMA NothingKeeps == NoTask.op \notin Keeping
  BY NoTaskMade DEF Keeping

LEMMA Taking ==
  ASSUME TenancyTypes, NEW w \in Admins, NEW q, NEW ops, Admitted(w, q), q.op \in ops
  PROVE  Of(w, q, ops)
  BY DEF Of, StepBy, Admitted, Accept, TenancyTypes, Prepared

LEMMA Advancing ==
  ASSUME TenancyTypes, NEW w \in Admins, NEW q, NEW ops, Advance(w, q), task[w].op \in ops
  PROVE  Of(w, q, ops)
  BY DEF Of, StepBy, Advance

LEMMA OfLogins ==
  ASSUME TenancyTypes, NEW w \in Admins, AnyLogin(w)
  PROVE  /\ UNCHANGED <<tenant, places, sub, logged, invoices, stale>>
         /\ \E q : Of(w, q, LoginWork)
<1>1. UNCHANGED <<tenant, places, sub, logged, invoices, stale>>
  <2> DEFINE Same == UNCHANGED <<tenant, places, sub, logged, invoices, stale>>
  <2>1. ASSUME NEW n \in Logins, AddLogin(w, n) PROVE Same
    BY <2>1 DEF AddLogin, AskLogin, MakeLogin, MakeUser, PlaceLogin, UndoAddLogin, Accept, bills, ghosts
  <2>2. ASSUME NEW n \in Logins, DropLogin(w, n) PROVE Same
    BY <2>2 DEF DropLogin, AskDropLogin, CloseLogin, CloseUser, UndoDropLogin, Accept, bills, ghosts
  <2>3. ASSUME NEW n \in Logins, Password(w, n) PROVE Same
    BY <2>3 DEF Password, AskPassword, SetPassword, CopyPassword, Accept, bills, ghosts
  <2>4. ASSUME NEW n \in Logins, NEW o \in Outlets, AskAssign(w, n, o) \/ Assign(w, n, o) \/ Unassign(w, n, o)
        PROVE  Same
    BY <2>4 DEF AskAssign, Assign, Unassign, Accept, bills, ghosts
  <2>5. ASSUME CountLogins(w) \/ BillLogins(w) PROVE Same
    BY <2>5 DEF CountLogins, BillLogins, bills
  <2> HIDE DEF Same
  <2>6. Same
    BY <2>1, <2>2, <2>3, <2>4, <2>5 DEF AnyLogin
  <2>. QED
    BY <2>6 DEF Same
<1>2. ASSUME NEW n \in Logins, NEW o \in Outlets,
             AskLogin(w, n) \/ AskDropLogin(w, n) \/ AskPassword(w, n) \/ AskAssign(w, n, o)
      PROVE  \E q : Of(w, q, LoginWork)
  BY <1>2, AddLoginAsked, DropLoginAsked, PasswordAsked, AssignAsked, Taking DEF LoginWork
<1>3. ASSUME NEW n \in Logins, NEW o \in Outlets,
           \/ MakeLogin(w, n) \/ MakeUser(w, n) \/ PlaceLogin(w, n) \/ UndoAddLogin(w, n)
           \/ CloseLogin(w, n) \/ CloseUser(w, n) \/ UndoDropLogin(w, n) \/ SetPassword(w, n) \/ CopyPassword(w, n)
           \/ Assign(w, n, o) \/ Unassign(w, n, o) \/ BillLogins(w) \/ CountLogins(w)
      PROVE  \E q : Of(w, q, LoginWork)
  <2>1. task[w].op \in LoginWork
    BY <1>3 DEF MakeLogin, MakeUser, PlaceLogin, UndoAddLogin, CloseLogin, CloseUser, UndoDropLogin, SetPassword,
      CopyPassword, Assign, Unassign, BillLogins, CountLogins, At, LoginWork
  <2>2. \E r : Advance(w, r)
    BY <1>3, LoginAdvances, CountLoginsAdvances
  <2>. QED
    BY <2>1, <2>2, Advancing
<1>4. \E q : Of(w, q, LoginWork)
  <2>1. CASE CountLogins(w) \/ BillLogins(w)
    BY <1>3, <2>1, TenancyAssumption
  <2>2. CASE \E n \in Logins : AddLogin(w, n) \/ DropLogin(w, n) \/ Password(w, n)
    BY <1>2, <1>3, <2>2, TenancyAssumption DEF AddLogin, DropLogin, Password
  <2>3. CASE \E n \in Logins, o \in Outlets : AskAssign(w, n, o) \/ Assign(w, n, o) \/ Unassign(w, n, o)
    BY <1>2, <1>3, <2>3
  <2>. QED
    BY <2>1, <2>2, <2>3 DEF AnyLogin
<1>. QED
  BY <1>1, <1>4

LEMMA SignUpKeeps ==
  ASSUME TenancyTypes, Serial, KeptInv, NEW w \in Admins, SignUp(w)
  PROVE  KeptInv'
<1>1. ASSUME NEW plan \in Plans, NEW trial \in BOOLEAN, AskSignUp(w, plan, trial) PROVE KeptInv'
  <2>1. PICK q : Admitted(w, q) /\ q.op = "signUp"
    BY <1>1, SignUpAsked
  <2>2. UNCHANGED <<tenant, outlet, warehouse, stock>>
    BY <2>1 DEF Admitted, Accept, places
  <2>. QED
    BY <2>1, <2>2, KeptSame DEF StepBy, Keeping
<1>2. CASE \/ MakeTenant(w) \/ SetUpUser(w) \/ SetUpShop(w) \/ SetUpDepot(w) \/ SetUpMain(w) \/ EndSignUp(w)
           \/ UndoSignUp(w)
  <2>1. task[w].op = "signUp"
    BY <1>2 DEF MakeTenant, SetUpUser, SetUpShop, SetUpDepot, SetUpMain, EndSignUp, UndoSignUp, At
  <2>2. PICK q : StepBy(w, q) /\ (q = NoTask \/ q.op = "signUp")
    BY <1>2, <2>1, SignUpAdvances DEF Advance, StepBy
  <2>3. KeptOf(q)'
    BY <2>2, NoTaskMade DEF KeptOf, Doing, In
  <2>4. Intact => Intact'
    <3>1. CASE MakeTenant(w)
      <4>1. outlet'[1] = "live" /\ UNCHANGED <<warehouse, stock>> /\ 1 \in Outlets
        BY <3>1, TenancyAssumption DEF MakeTenant, TenancyTypes, TenantTypeOK
      <4>. QED
        BY <4>1 DEF Intact, LiveOutlets
    <3>2. CASE UndoSignUp(w)
      <4>1. tenant' = FALSE /\ UNCHANGED <<warehouse, stock>>
        BY <3>2 DEF UndoSignUp
      <4>. QED
        BY <4>1 DEF Intact
    <3>3. CASE SetUpMain(w)
      <4>1. warehouse' = [warehouse EXCEPT ![Main] = "live"] /\ UNCHANGED <<tenant, outlet, stock>>
        BY <3>3 DEF SetUpMain
      <4>2. \A k \in Warehouses : warehouse[k] = "live" => warehouse'[k] = "live"
        BY <4>1 DEF TenancyTypes, TenantTypeOK
      <4>. QED
        BY <4>1, <4>2 DEF Intact, LiveOutlets, TenancyTypes, TenantTypeOK
    <3>4. CASE SetUpUser(w) \/ SetUpShop(w) \/ SetUpDepot(w) \/ EndSignUp(w)
      <4>1. UNCHANGED <<tenant, outlet, warehouse, stock>>
        BY <3>4 DEF SetUpUser, SetUpShop, SetUpDepot, EndSignUp, places
      <4>. QED
        BY <4>1 DEF Intact, LiveOutlets
    <3>. QED
      BY <1>2, <3>1, <3>2, <3>3, <3>4
  <2>. QED
    BY <2>2, <2>3, <2>4, KeptGo
<1>. QED
  BY <1>1, <1>2 DEF SignUp

LEMMA WarehouseKeeps ==
  ASSUME TenancyTypes, Serial, KeptInv, NEW w \in Admins, AnyWarehouse(w)
  PROVE  KeptInv'
<1>1. PICK k \in Warehouses : AddWarehouse(w, k) \/ DropWarehouse(w, k) \/ AskStock(w, k) \/ StockIn(w, k) \/ StockOut(w, k)
  BY DEF AnyWarehouse
<1>2. ASSUME NEW q, Admitted(w, q), q.warehouse = k, q.op \notin Keeping \/ q.op = "dropWarehouse"
                   \/ (q.op = "stockIn" /\ warehouse[k] = "live")
      PROVE  KeptInv'
  <2>1. UNCHANGED <<tenant, outlet, warehouse, stock>> /\ q.step = "asked"
    BY <1>2 DEF Admitted, Accept, places
  <2>2. KeptOf(q)'
    BY <1>2, <2>1 DEF KeptOf, Doing, In, Keeping
  <2>3. Intact => Intact'
    BY <2>1 DEF Intact, LiveOutlets
  <2>. QED
    BY <1>2, <2>2, <2>3, KeptGo DEF StepBy
<1>3. CASE AskWarehouse(w, k) \/ AskDropWarehouse(w, k) \/ AskStock(w, k)
  BY <1>2, <1>3, AddWarehouseAsked, DropWarehouseAsked, StockAsked DEF Keeping
<1>4. CASE FindWarehouse(w, k)
  <2>1. PICK q : Advance(w, q) /\ q.op = "addWarehouse"
    BY <1>4, FindWarehouseAdvances
  <2>2. UNCHANGED <<tenant, outlet, warehouse, stock>>
    BY <1>4 DEF FindWarehouse, places
  <2>. QED
    BY <2>1, <2>2, KeptSame DEF StepBy, Keeping
<1>5. CASE CheckWarehouse(w, k)
  <2>1. PICK q : Advance(w, q) /\ q.op = "dropWarehouse" /\ q.warehouse = k
    BY <1>5, CheckWarehouseAdvances
  <2>2. UNCHANGED <<tenant, outlet, warehouse, stock>> /\ k \notin stock
    BY <1>5 DEF CheckWarehouse, places, HoldsNothing
  <2>3. KeptOf(q)'
    BY <2>1, <2>2 DEF KeptOf, Doing, In
  <2>4. Intact => Intact'
    BY <2>2 DEF Intact, LiveOutlets
  <2>. QED
    BY <2>1, <2>3, <2>4, KeptGo DEF StepBy
<1>6. CASE \/ OpenWarehouse(w, k) \/ OpenDepot(w, k) \/ CloseWarehouse(w, k) \/ CloseDepot(w, k)
           \/ StockIn(w, k) \/ StockOut(w, k)
  <2>1. UNCHANGED <<tenant, outlet>> /\ task[w].warehouse = k
    BY <1>6 DEF OpenWarehouse, OpenDepot, CloseWarehouse, CloseDepot, StockIn, StockOut
  <2>2. PICK q : Advance(w, q) /\ (q = NoTask \/ q.step = "half")
    <3>1. task[w].step # "idle" /\ task[w].op # "addOutlet"
      BY <1>6 DEF OpenWarehouse, OpenDepot, CloseWarehouse, CloseDepot, StockIn, StockOut, At
    <3>2. Done(w) \/ Goto(w, "half")
      BY <1>6 DEF OpenWarehouse, OpenDepot, CloseWarehouse, CloseDepot, StockIn, StockOut
    <3>. QED
      BY <3>1, <3>2, StepOn, Finishing DEF Steps, Follows
  <2>3. task[w].op \in {"addWarehouse", "dropWarehouse", "stockIn", "stockOut"}
        /\ (q = NoTask \/ q.op \in {"addWarehouse", "dropWarehouse"})
    <3>1. task[w].op \in {"addWarehouse", "dropWarehouse"} \/ (StockIn(w, k) /\ task[w].op = "stockIn")
             \/ (StockOut(w, k) /\ task[w].op = "stockOut")
      BY <1>6 DEF OpenWarehouse, OpenDepot, CloseWarehouse, CloseDepot, StockIn, StockOut, At
    <3>2. StockIn(w, k) \/ StockOut(w, k) => q = NoTask
      BY <2>2 DEF StockIn, StockOut, Done, Goes, Advance, TenancyTypes, TenantTypeOK
    <3>. QED
      BY <2>2, <3>1, <3>2 DEF Advance
  <2>4. KeptOf(q)'
    BY <2>2, <2>3, NoTaskMade DEF KeptOf, Doing, In
  <2>5. warehouse \in [Warehouses -> Lives] /\ stock \subseteq Warehouses
    BY DEF TenancyTypes, TenantTypeOK
  <2>6. Intact /\ KeptOf(task[w]) => \A x \in stock' : warehouse'[x] = "live"
    <3>1. CASE OpenWarehouse(w, k) \/ OpenDepot(w, k)
      BY <2>5, <3>1 DEF OpenWarehouse, OpenDepot, Intact
    <3>2. CASE CloseWarehouse(w, k)
      BY <2>1, <2>5, <3>2 DEF CloseWarehouse, Intact, KeptOf, In, At
    <3>3. CASE CloseDepot(w, k)
      BY <3>3 DEF CloseDepot, Intact
    <3>4. CASE StockIn(w, k)
      BY <2>1, <3>4 DEF StockIn, Intact, KeptOf, Doing, At
    <3>5. CASE StockOut(w, k)
      BY <3>5 DEF StockOut, Intact
    <3>. QED
      BY <1>6, <3>1, <3>2, <3>3, <3>4, <3>5
  <2>7. Intact /\ KeptOf(task[w]) => Intact'
    BY <2>1, <2>6 DEF Intact, LiveOutlets
  <2>. QED
    BY <2>2, <2>4, <2>7, KeptGo DEF StepBy
<1>. QED
  BY <1>1, <1>3, <1>4, <1>5, <1>6 DEF AddWarehouse, DropWarehouse

LEMMA OutletKeeps ==
  ASSUME TenancyTypes, Serial, KeptInv, NEW w \in Admins, AnyOutlet(w)
  PROVE  KeptInv'
<1>1. ASSUME NEW q, Admitted(w, q), q.op \notin Keeping \/ Cardinality(LiveOutlets) > 1, q.op \in OutletOps \cup PlanOps
      PROVE  KeptInv'
  <2>1. UNCHANGED <<tenant, outlet, warehouse, stock>> /\ q.step = "asked"
    BY <1>1 DEF Admitted, Accept, places
  <2>2. KeptOf(q)'
    BY <1>1, <2>1 DEF KeptOf, Doing, In, Keeping, LiveOutlets, OutletOps, PlanOps
  <2>3. Intact => Intact'
    BY <2>1 DEF Intact, LiveOutlets
  <2>. QED
    BY <1>1, <2>2, <2>3, KeptGo DEF StepBy
<1>2. CASE AskOutlet(w)
  BY <1>1, <1>2, AddOutletAsked DEF Keeping, OutletOps
<1>3. CASE OpenShop(w)
  <2>1. PICK q : Advance(w, q) /\ q.op = "addOutlet"
    BY <1>3, OpenShopAdvances
  <2>2. UNCHANGED <<tenant, outlet, warehouse, stock>>
    BY <1>3 DEF OpenShop
  <2>. QED
    BY <2>1, <2>2, KeptSame DEF StepBy, Keeping
<1>4. CASE OpenOutlet(w)
  <2>1. Advance(w, NoTask) /\ task[w].outlet \in Outlets
    BY <1>4, Finishing DEF OpenOutlet, At, TenancyTypes, Prepared, In
  <2>2. outlet'[task[w].outlet] = "live" /\ UNCHANGED <<warehouse, stock>>
    BY <1>4, <2>1 DEF OpenOutlet, TenancyTypes, TenantTypeOK
  <2>3. Intact => Intact'
    BY <2>1, <2>2 DEF Intact, LiveOutlets
  <2>4. KeptOf(NoTask)'
    BY NoTaskMade DEF KeptOf, Doing, In
  <2>. QED
    BY <2>1, <2>3, <2>4, KeptGo DEF StepBy
<1>5. ASSUME NEW o \in Outlets, AskDropOutlet(w, o) PROVE KeptInv'
  BY <1>1, <1>5, DropOutletAsked DEF OutletOps
<1>6. ASSUME NEW o \in Outlets, CloseShop(w, o) PROVE KeptInv'
  <2>1. task[w].step # "idle" /\ task[w].op = "dropOutlet" /\ Goto(w, "half")
    BY <1>6 DEF CloseShop, At
  <2>2. PICK q : Advance(w, q) /\ Follows(q, task[w], "half")
    BY <2>1, StepOn DEF Steps
  <2>3. UNCHANGED <<tenant, outlet, warehouse, stock>>
    BY <1>6 DEF CloseShop
  <2>4. KeptOf(task[w]) => KeptOf(q)'
    BY <2>1, <2>2, <2>3 DEF KeptOf, Doing, In, LiveOutlets, Follows
  <2>5. Intact => Intact'
    BY <2>3 DEF Intact, LiveOutlets
  <2>. QED
    BY <2>2, <2>4, <2>5, KeptGo DEF StepBy
<1>7. ASSUME NEW o \in Outlets, CloseOutlet(w, o) PROVE KeptInv'
  <2>1. Advance(w, NoTask) /\ Doing(task[w], "dropOutlet")
    BY <1>7, Finishing DEF CloseOutlet, At, Doing
  <2>2. outlet' = [outlet EXCEPT ![o] = "closed"] /\ UNCHANGED <<tenant, warehouse, stock>>
    BY <1>7 DEF CloseOutlet
  <2>3. Cardinality(LiveOutlets) > 1 => LiveOutlets' # {}
    <3>1. LiveOutlets' = {} => LiveOutlets \subseteq {o}
      BY <2>2 DEF LiveOutlets, TenancyTypes, TenantTypeOK
    <3>2. LiveOutlets \subseteq {o} => Cardinality(LiveOutlets) <= 1
      <4>1. IsFiniteSet({o}) /\ Cardinality({o}) = 1
        BY FS_Singleton
      <4>. QED
        BY <4>1, FS_Subset
    <3>3. Cardinality(LiveOutlets) \in Nat
      BY CountsTyped DEF LiveOutlets
    <3>. QED
      BY <3>1, <3>2, <3>3
  <2>4. Intact /\ KeptOf(task[w]) => Intact'
    BY <2>1, <2>2, <2>3 DEF Intact, KeptOf
  <2>5. KeptOf(NoTask)'
    BY NoTaskMade DEF KeptOf, Doing, In
  <2>. QED
    BY <2>1, <2>4, <2>5, KeptGo DEF StepBy
<1>8. ASSUME NEW o \in Outlets, RecordPayment(w, o) \/ CustomPrice(w, o) PROVE KeptInv'
  <2>1. UNCHANGED <<tenant, outlet, warehouse, stock>>
    BY <1>8 DEF RecordPayment, AskPay, ReadPaid, Pay, CustomPrice, AskPrice, LogPrice, SetPrice, Accept, places
  <2>2. PICK q : StepBy(w, q) /\ (q = NoTask \/ q.op \in {"pay", "customPrice"})
    <3>1. CASE (\E m \in 0..MaxMonths : AskPay(w, o, m)) \/ \E c \in Customs \cup {NoPrice} : AskPrice(w, o, c)
      BY <3>1, PayAsked, PriceAsked DEF StepBy
    <3>2. CASE ReadPaid(w, o) \/ Pay(w, o) \/ LogPrice(w, o) \/ SetPrice(w, o)
      <4>1. task[w].op \in {"pay", "customPrice"}
        BY <3>2 DEF ReadPaid, Pay, LogPrice, SetPrice, At
      <4>2. \E q : Advance(w, q)
        BY <3>2, ReadPaidAdvances, OutletAdvances
      <4>. QED
        BY <4>1, <4>2 DEF Advance, StepBy
    <3>. QED
      BY <1>8, <3>1, <3>2 DEF RecordPayment, CustomPrice
  <2>. QED
    BY <2>1, <2>2, KeptSame, NothingKeeps DEF Keeping
<1>. QED
  BY <1>2, <1>3, <1>4, <1>5, <1>6, <1>7, <1>8 DEF AnyOutlet, AddOutlet, DropOutlet

LEMMA PlanKeeps ==
  ASSUME TenancyTypes, Serial, KeptInv, NEW w \in Admins, AnyPlan(w)
  PROVE  KeptInv'
<1> DEFINE Work == {"changePlan", "loyaltyOn", "loyaltyOff"}
<1>1. PICK q : StepBy(w, q) /\ (q = NoTask \/ q.op \in Work)
  <2>1. CASE AskLoyalty(w) \/ \E plan \in Plans : AskPlan(w, plan)
    <3>1. \E q : Admitted(w, q) /\ q.op \in Work
      <4>1. CASE AskLoyalty(w)
        BY <4>1, LoyaltyAsked
      <4>2. ASSUME NEW plan \in Plans, AskPlan(w, plan) PROVE \E q : Admitted(w, q) /\ q.op \in Work
        <5>1. PICK q : Admitted(w, q) /\ q.op = "changePlan"
          BY <4>2, PlanAsked
        <5>. QED
          BY <5>1
      <4>. QED
        BY <2>1, <4>1, <4>2
    <3>. QED
      BY <3>1 DEF StepBy
  <2>2. CASE \/ CloseWarehouses(w) \/ CloseDepots(w) \/ OpenMain(w) \/ OpenMainDepot(w) \/ Sideways(w)
             \/ MoveSubscription(w) \/ CountSeats(w) \/ BillSeats(w) \/ LoyaltyOn(w) \/ LoyaltyOff(w)
    <3>1. task[w].op \in Work
      BY <2>2 DEF CloseWarehouses, CloseDepots, OpenMain, OpenMainDepot, Sideways, MoveSubscription, CountSeats,
        BillSeats, LoyaltyOn, LoyaltyOff, At
    <3>2. \E q : Advance(w, q)
      BY <2>2, PlanAdvances, MoveSubscriptionAdvances, CountSeatsAdvances
    <3>. QED
      BY <3>1, <3>2 DEF Advance, StepBy
  <2>. QED
    BY <2>1, <2>2 DEF AnyPlan, ChangePlan
<1>2. UNCHANGED <<tenant, outlet>>
  <2>1. CASE AskLoyalty(w) \/ LoyaltyOn(w) \/ LoyaltyOff(w)
    BY <2>1, OtherSteps
  <2>2. CASE ChangePlan(w)
    BY <2>2 DEF ChangePlan, AskPlan, Accept, CloseWarehouses, CloseDepots, OpenMain, OpenMainDepot, Sideways,
      MoveSubscription, CountSeats, BillSeats, places
  <2>. QED
    BY <2>1, <2>2 DEF AnyPlan
<1>3. q.op \notin Keeping
  BY <1>1, NothingKeeps DEF Keeping
<1>4. CASE CloseWarehouses(w) \/ OpenMain(w)
  <2>1. Intact => \A k \in stock' : warehouse'[k] = "live"
    BY <1>4 DEF CloseWarehouses, OpenMain, Intact, TenancyTypes, TenantTypeOK
  <2>2. Intact => Intact'
    BY <1>2, <2>1 DEF Intact, LiveOutlets
  <2>3. KeptOf(q)'
    BY <1>3 DEF KeptOf, Doing, In, Keeping
  <2>. QED
    BY <1>1, <2>2, <2>3, KeptGo
<1>5. CASE ~(CloseWarehouses(w) \/ OpenMain(w))
  <2>1. UNCHANGED <<warehouse, stock>>
    <3>1. CASE AskLoyalty(w) \/ LoyaltyOn(w) \/ LoyaltyOff(w)
      BY <3>1 DEF AskLoyalty, LoyaltyOn, LoyaltyOff, Accept, places
    <3>2. CASE ChangePlan(w)
      BY <1>5, <3>2 DEF ChangePlan, AskPlan, Accept, CloseDepots, OpenMainDepot, Sideways,
        MoveSubscription, CountSeats, BillSeats, places
    <3>. QED
      BY <3>1, <3>2 DEF AnyPlan
  <2>. QED
    BY <1>1, <1>2, <1>3, <2>1, KeptSame
<1>. QED
  BY <1>4, <1>5

LEMMA KeptStep ==
  ASSUME TenancyTypes, Serial, KeptInv, [TenantNext]_tenantVars
  PROVE  KeptInv'
<1>1. CASE UNCHANGED tenantVars \/ Tick
  <2>1. UNCHANGED <<task, tenant, outlet, warehouse, stock>> /\ overlapped' = overlapped
    BY <1>1 DEF tenantVars, Tick, places
  <2>. QED
    BY <2>1 DEF KeptInv, Intact, KeptOf, LiveOutlets, Working, Idle, Lone
<1>2. ASSUME NEW w \in Admins, Fail(w) PROVE KeptInv'
  <2>1. UNCHANGED <<tenant, outlet, warehouse, stock>>
    BY <1>2 DEF Fail, places
  <2>. QED
    BY <1>2, <2>1, KeptSame, NothingKeeps DEF StepBy
<1>3. ASSUME NEW w \in Admins, AnyLogin(w) PROVE KeptInv'
  <2>1. UNCHANGED <<tenant, outlet, warehouse, stock>>
    BY <1>3, OfLogins DEF places
  <2>. QED
    BY <1>3, <2>1, OfLogins, KeptSame, NothingKeeps DEF Of, LoginWork, Keeping
<1>. QED
  BY <1>1, <1>2, <1>3, SignUpKeeps, WarehouseKeeps, OutletKeeps, PlanKeeps, Zenon DEF TenantNext

LEMMA KeptStart == TenantInit => KeptInv
<1> SUFFICES ASSUME TenantInit PROVE Intact /\ \A p : Working(p) => KeptOf(p)
  BY DEF KeptInv
<1>1. \A w \in Admins : task[w] = NoTask
  BY DEF TenantInit
<1>2. \A p : Working(p) => p = NoTask
  BY <1>1 DEF Working
<1>3. KeptOf(NoTask)
  BY NoTaskMade DEF KeptOf, Doing, In
<1>4. stock = {}
  BY DEF TenantInit
<1>5. tenant => LiveOutlets # {}
  <2>1. CASE "signUp" \in duty
    BY <2>1 DEF TenantInit, Empty
  <2>2. CASE "signUp" \notin duty
    <3>1. 1 \in Outlets
      BY TenancyAssumption
    <3>2. PICK O, plan, status, offer : 1 \in O /\ Stands(O, plan, status, offer)
      BY <2>2, <3>1 DEF TenantInit
    <3>3. outlet[1] = "live"
      BY <3>1, <3>2 DEF Stands
    <3>. QED
      BY <3>1, <3>3 DEF LiveOutlets
  <2>. QED
    BY <2>1, <2>2
<1>. QED
  BY <1>2, <1>3, <1>4, <1>5 DEF Intact

\* Unless requests overlap no stock is left in a closed warehouse and no tenant
\* without an outlet, even if a change of plan or a deletion is cut off: a
\* warehouse is closed only after what it holds was looked at or moved away, and
\* an outlet only while there is another.
THEOREM NothingIsLost == TenantSpec => []NothingLost
<1>1. TenantInit => TenancyTypes /\ Serial /\ KeptInv
  BY TypesStart, SerialStart, KeptStart
<1>2. TenancyTypes /\ Serial /\ KeptInv /\ [TenantNext]_tenantVars => (TenancyTypes /\ Serial /\ KeptInv)'
  BY TypesStep, SerialStep, KeptStep
<1>3. KeptInv => NothingLost
  BY DEF KeptInv, Intact, NothingLost
<1>. QED
  BY <1>1, <1>2, <1>3, PTL DEF TenantSpec

(***************************************************************************)
(* What the operations of each kind leave alone.                           *)
(***************************************************************************)
LEMMA LoginsTouch ==
  ASSUME TenancyTypes, NEW w \in Admins, AnyLogin(w)
  PROVE  Billed("warehouse") /\ Billed("loyalty") /\ (~BillLogins(w) => addOn' = addOn)
<1>1. ASSUME NEW n \in Logins, AddLogin(w, n) \/ DropLogin(w, n) \/ Password(w, n) PROVE addOn' = addOn
  BY <1>1 DEF AddLogin, AskLogin, MakeLogin, MakeUser, PlaceLogin, UndoAddLogin, DropLogin, AskDropLogin, CloseLogin,
    CloseUser, UndoDropLogin, Password, AskPassword, SetPassword, CopyPassword, Accept, bills
<1>2. ASSUME NEW n \in Logins, NEW o \in Outlets, AskAssign(w, n, o) \/ Assign(w, n, o) \/ Unassign(w, n, o)
      PROVE  addOn' = addOn
  BY <1>2 DEF AskAssign, Assign, Unassign, Accept, bills
<1>3. CASE CountLogins(w)
  BY <1>3 DEF CountLogins, bills, Billed
<1>4. CASE BillLogins(w)
  BY <1>4 DEF BillLogins, Billed, TenancyTypes, TenantTypeOK
<1>. QED
  BY <1>1, <1>2, <1>3, <1>4 DEF AnyLogin, Billed

LEMMA OfWarehouses ==
  ASSUME TenancyTypes, NEW w \in Admins, NEW k \in Warehouses,
         AddWarehouse(w, k) \/ DropWarehouse(w, k) \/ AskStock(w, k) \/ StockIn(w, k) \/ StockOut(w, k)
  PROVE  /\ UNCHANGED <<tenant, logins, outlet, shop, sub, logged, invoices>>
         /\ Billed("user") /\ Billed("loyalty") /\ ("user" \in stale' <=> "user" \in stale)
         /\ \E q : Of(w, q, WarehouseWork)
<1>1. /\ UNCHANGED <<tenant, logins, outlet, shop, sub, logged, invoices>>
      /\ ("user" \in stale' <=> "user" \in stale)
  BY DEF AddWarehouse, AskWarehouse, FindWarehouse, OpenWarehouse, OpenDepot, DropWarehouse, AskDropWarehouse,
    CheckWarehouse, CloseWarehouse, CloseDepot, AskStock, StockIn, StockOut, Accept, places, bills, ghosts
<1>2. Billed("user") /\ Billed("loyalty")
  <2>1. CASE OpenDepot(w, k)
    BY <2>1 DEF OpenDepot, Billed, TenancyTypes, TenantTypeOK
  <2>2. CASE CloseDepot(w, k)
    BY <2>2 DEF CloseDepot, Billed, TenancyTypes, TenantTypeOK
  <2>3. CASE ~OpenDepot(w, k) /\ ~CloseDepot(w, k)
    BY <2>3 DEF AddWarehouse, AskWarehouse, FindWarehouse, OpenWarehouse, DropWarehouse, AskDropWarehouse,
      CheckWarehouse, CloseWarehouse, AskStock, StockIn, StockOut, Accept, bills, Billed
  <2>. QED
    BY <2>1, <2>2, <2>3
<1>3. CASE AskWarehouse(w, k) \/ AskDropWarehouse(w, k) \/ AskStock(w, k)
  BY <1>1, <1>2, <1>3, AddWarehouseAsked, DropWarehouseAsked, StockAsked, Taking DEF WarehouseWork
<1>4. CASE \/ FindWarehouse(w, k) \/ OpenWarehouse(w, k) \/ OpenDepot(w, k) \/ CheckWarehouse(w, k)
           \/ CloseWarehouse(w, k) \/ CloseDepot(w, k) \/ StockIn(w, k) \/ StockOut(w, k)
  <2>1. task[w].op \in WarehouseWork
    BY <1>4 DEF FindWarehouse, OpenWarehouse, OpenDepot, CheckWarehouse, CloseWarehouse, CloseDepot, StockIn,
      StockOut, At, WarehouseWork
  <2>2. \E q : Advance(w, q)
    BY <1>4, WarehouseAdvances, FindWarehouseAdvances, CheckWarehouseAdvances
  <2>. QED
    BY <1>1, <1>2, <2>1, <2>2, Advancing
<1>. QED
  BY <1>3, <1>4 DEF AddWarehouse, DropWarehouse

LEMMA OfAddOutlet ==
  ASSUME TenancyTypes, NEW w \in Admins, AddOutlet(w)
  PROVE  /\ UNCHANGED <<tenant, logins, depot, warehouse, stock, logged, addOn, invoices>>
         /\ ("warehouse" \in stale' <=> "warehouse" \in stale)
         /\ \E q : Of(w, q, {"addOutlet"})
<1>1. /\ UNCHANGED <<tenant, logins, depot, warehouse, stock, logged, addOn, invoices>>
      /\ ("warehouse" \in stale' <=> "warehouse" \in stale)
  BY DEF AddOutlet, AskOutlet, OpenShop, OpenOutlet, Accept, places, bills, ghosts
<1>2. CASE AskOutlet(w)
  <2>1. PICK q : Admitted(w, q) /\ q.op \in {"addOutlet"}
    BY <1>2, AddOutletAsked
  <2>. QED
    BY <1>1, <2>1, Taking
<1>3. CASE OpenShop(w) \/ OpenOutlet(w)
  <2>1. task[w].op = "addOutlet"
    BY <1>3 DEF OpenShop, OpenOutlet, At
  <2>2. \E q : Advance(w, q)
    BY <1>3, OpenShopAdvances, OutletAdvances, TenancyAssumption
  <2>. QED
    BY <2>1, <2>2, Advancing, <1>1
<1>. QED
  BY <1>1, <1>2, <1>3 DEF AddOutlet

LEMMA OfDropOutlet ==
  ASSUME TenancyTypes, NEW w \in Admins, NEW o \in Outlets, DropOutlet(w, o)
  PROVE  /\ UNCHANGED <<tenant, logins, depot, warehouse, stock, logged, addOn, invoices>>
         /\ ("warehouse" \in stale' <=> "warehouse" \in stale)
         /\ \E q : Of(w, q, {"dropOutlet"})
<1>1. /\ UNCHANGED <<tenant, logins, depot, warehouse, stock, logged, addOn, invoices>>
      /\ ("warehouse" \in stale' <=> "warehouse" \in stale)
  BY DEF DropOutlet, AskDropOutlet, CloseShop, CloseOutlet, Accept, places, bills, ghosts
<1>2. CASE AskDropOutlet(w, o)
  <2>1. PICK q : Admitted(w, q) /\ q.op \in {"dropOutlet"}
    BY <1>2, DropOutletAsked
  <2>. QED
    BY <1>1, <2>1, Taking
<1>3. CASE CloseShop(w, o) \/ CloseOutlet(w, o)
  <2>1. task[w].op = "dropOutlet"
    BY <1>3 DEF CloseShop, CloseOutlet, At
  <2>2. \E q : Advance(w, q)
    BY <1>3, OutletAdvances
  <2>. QED
    BY <2>1, <2>2, Advancing, <1>1
<1>. QED
  BY <1>1, <1>2, <1>3 DEF DropOutlet

LEMMA OfPayments ==
  ASSUME TenancyTypes, NEW w \in Admins, NEW o \in Outlets, RecordPayment(w, o)
  PROVE  /\ UNCHANGED <<tenant, logins, places, logged, addOn, stale>>
         /\ \A x \in Outlets : sub'[x].plan = sub[x].plan /\ sub'[x].price = sub[x].price
         /\ \E q : Of(w, q, {"pay"})
<1>1. UNCHANGED <<tenant, logins, places, logged, addOn, stale>> /\ (~Pay(w, o) => sub' = sub)
  BY DEF RecordPayment, AskPay, ReadPaid, Pay, Accept, bills, ghosts
<1>2. ASSUME Pay(w, o), NEW x \in Outlets PROVE sub'[x].plan = sub[x].plan /\ sub'[x].price = sub[x].price
  <2>1. PICK until : until = task[w].saw[o].until
    OBVIOUS
  <2>2. sub' = sub \/ sub' = [sub EXCEPT ![o].until = until, ![o].status = "Active"]
    BY <1>2, <2>1 DEF Pay
  <2>3. CASE sub' = [sub EXCEPT ![o].until = until, ![o].status = "Active"]
    BY <2>3, RowPaid
  <2>. QED
    BY <2>2, <2>3
<1>3. ASSUME NEW m \in 0..MaxMonths, AskPay(w, o, m) PROVE \E q : Of(w, q, {"pay"})
  BY <1>3, PayAsked, Taking
<1>4. CASE ReadPaid(w, o) \/ Pay(w, o)
  <2>1. task[w].op = "pay"
    BY <1>4 DEF ReadPaid, Pay, At
  <2>2. \E q : Advance(w, q)
    BY <1>4, OutletAdvances, ReadPaidAdvances
  <2>. QED
    BY <2>1, <2>2, Advancing, <1>1, <1>2
<1>. QED
  BY <1>1, <1>2, <1>3, <1>4 DEF RecordPayment

LEMMA OfPrices ==
  ASSUME TenancyTypes, NEW w \in Admins, NEW o \in Outlets, CustomPrice(w, o)
  PROVE  /\ UNCHANGED <<tenant, logins, places, addOn, invoices, stale>>
         /\ \A x \in Outlets : sub'[x].plan = sub[x].plan /\ sub'[x].status = sub[x].status
         /\ \E q : Of(w, q, {"customPrice"})
<1>1. UNCHANGED <<tenant, logins, places, addOn, invoices, stale>> /\ (~SetPrice(w, o) => sub' = sub)
  BY DEF CustomPrice, AskPrice, LogPrice, SetPrice, Accept, bills, ghosts
<1>2. ASSUME SetPrice(w, o), NEW x \in Outlets PROVE sub'[x].plan = sub[x].plan /\ sub'[x].status = sub[x].status
  <2>1. sub' = [sub EXCEPT ![o].price = task[w].n]
    BY <1>2 DEF SetPrice
  <2>. QED
    BY <2>1, RowPriced
<1>3. ASSUME NEW c \in Customs \cup {NoPrice}, AskPrice(w, o, c) PROVE \E q : Of(w, q, {"customPrice"})
  BY <1>3, PriceAsked, Taking
<1>4. CASE LogPrice(w, o) \/ SetPrice(w, o)
  <2>1. task[w].op = "customPrice"
    BY <1>4 DEF LogPrice, SetPrice, At
  <2>2. \E q : Advance(w, q)
    BY <1>4, OutletAdvances
  <2>. QED
    BY <2>1, <2>2, Advancing, <1>1, <1>2
<1>. QED
  BY <1>1, <1>2, <1>3, <1>4 DEF CustomPrice

LEMMA OfPlans ==
  ASSUME TenancyTypes, NEW w \in Admins, ChangePlan(w)
  PROVE  /\ UNCHANGED <<tenant, logins, outlet, shop, invoices>>
         /\ \E q : Of(w, q, {"changePlan"})
<1>1. UNCHANGED <<tenant, logins, outlet, shop, invoices>>
  BY DEF ChangePlan, AskPlan, CloseWarehouses, CloseDepots, OpenMain, OpenMainDepot, Sideways, MoveSubscription,
    CountSeats, BillSeats, Accept, places, bills
<1>2. ASSUME NEW plan \in Plans, AskPlan(w, plan) PROVE \E q : Of(w, q, {"changePlan"})
  <2>1. PICK q : Admitted(w, q) /\ q.op = "changePlan"
    BY <1>2, PlanAsked
  <2>. QED
    BY <2>1, Taking
<1>3. CASE \/ CloseWarehouses(w) \/ CloseDepots(w) \/ OpenMain(w) \/ OpenMainDepot(w) \/ Sideways(w)
           \/ MoveSubscription(w) \/ CountSeats(w) \/ BillSeats(w)
  <2>1. task[w].op = "changePlan"
    BY <1>3 DEF CloseWarehouses, CloseDepots, OpenMain, OpenMainDepot, Sideways, MoveSubscription, CountSeats,
      BillSeats, At
  <2>2. \E q : Advance(w, q)
    BY <1>3, PlanAdvances, MoveSubscriptionAdvances, CountSeatsAdvances
  <2>. QED
    BY <2>1, <2>2, Advancing, <1>1
<1>. QED
  BY <1>1, <1>2, <1>3 DEF ChangePlan

LEMMA OfLoyalty ==
  ASSUME TenancyTypes, NEW w \in Admins, LoyaltyStep(w)
  PROVE  /\ UNCHANGED <<tenant, logins, places, sub, logged, invoices, stale>> /\ Billed("user") /\ Billed("warehouse")
         /\ \E q : Of(w, q, {"loyaltyOn", "loyaltyOff"})
<1>1. UNCHANGED <<tenant, logins, places, sub, logged, invoices, stale>>
  BY DEF LoyaltyStep, AskLoyalty, LoyaltyOn, LoyaltyOff, Accept, bills, ghosts
<1>2. Billed("user") /\ Billed("warehouse")
  BY DEF LoyaltyStep, AskLoyalty, LoyaltyOn, LoyaltyOff, Accept, bills, Billed, TenancyTypes, TenantTypeOK
<1>3. CASE AskLoyalty(w)
  BY <1>1, <1>2, <1>3, LoyaltyAsked, Taking
<1>4. CASE LoyaltyOn(w) \/ LoyaltyOff(w)
  <2>1. task[w].op \in {"loyaltyOn", "loyaltyOff"}
    BY <1>4 DEF LoyaltyOn, LoyaltyOff, At
  <2>2. \E q : Advance(w, q)
    BY <1>4, PlanAdvances
  <2>. QED
    BY <1>1, <1>2, <2>1, <2>2, Advancing
<1>. QED
  BY <1>3, <1>4 DEF LoyaltyStep

(***************************************************************************)
(* A tenant that is administered one request at a time, none of them cut   *)
(* off between two writes.                                                 *)
(***************************************************************************)
LEMMA Quiet ==
  ASSUME TenancyTypes, Serial, NEW w \in Admins, NEW q, StepBy(w, q), Calm'
  PROVE  /\ Calm /\ Working(task[w]) /\ (\A p : Working(p)' => p = q) /\ task' = [task EXCEPT ![w] = q]
         /\ Fail(w) => task[w].step \in {"asked", "open"}
<1>1. ~overlapped' /\ ~cut'
  BY DEF Calm
<1>2. ~overlapped /\ Working(task[w]) /\ \A p : Working(p)' => p = q
  BY <1>1, Solo
<1>3. task' = [task EXCEPT ![w] = q]
  BY DEF StepBy, Fail, Admitted, Accept, Advance
<1>4. ~cut /\ (Fail(w) => ~Written(w))
  <2>1. CASE Fail(w)
    BY <1>1, <2>1, Zenon DEF Fail
  <2>2. CASE ~Fail(w)
    BY <1>1, <2>2 DEF StepBy, Admitted, Accept, Advance
  <2>. QED
    BY <2>1, <2>2
<1>5. Fail(w) => task[w].step \in {"asked", "open"}
  BY <1>4 DEF Fail, Written, TenancyTypes, TenantTypeOK, Task, Steps
<1>. QED
  BY <1>2, <1>3, <1>4, <1>5 DEF Calm

LEMMA TheSame ==
  ASSUME TenancyTypes, NEW w \in Admins, NEW q, NEW r, task' = [task EXCEPT ![w] = q], task' = [task EXCEPT ![w] = r]
  PROVE  q = r
  BY DEF TenancyTypes, TenantTypeOK

LEMMA GotoIs ==
  ASSUME TenancyTypes, NEW w \in Admins, NEW q, task' = [task EXCEPT ![w] = q], NEW s \in Steps, Goto(w, s)
  PROVE  Follows(q, task[w], s)
<1>1. PICK r : r = [task[w] EXCEPT !.step = s]
  OBVIOUS
<1>2. q = r
  BY <1>1, TheSame DEF Goto, Goes
<1>. QED
  BY <1>1, <1>2, TaskTyped, Onward DEF Follows

LEMMA DoneIs ==
  ASSUME TenancyTypes, NEW w \in Admins, NEW q, task' = [task EXCEPT ![w] = q], Done(w)
  PROVE  q = NoTask
  BY TheSame DEF Done, Goes

LEMMA AdmittedIs ==
  ASSUME TenancyTypes, NEW w \in Admins, NEW q, task' = [task EXCEPT ![w] = q], NEW r, Admitted(w, r)
  PROVE  q = r /\ task[w] = NoTask /\ q.step = "asked" /\ UNCHANGED <<tenant, logins, places, bills, stale>>
  BY TheSame DEF Admitted, Accept, TenancyTypes, Prepared, ghosts

LEMMA AdvanceIs ==
  ASSUME TenancyTypes, NEW w \in Admins, NEW q, task' = [task EXCEPT ![w] = q], NEW r, Advance(w, r)
  PROVE  q = r
  BY TheSame DEF Advance

LEMMA ShopsSame ==
  ASSUME NEW p, NEW q, Shops(p), UNCHANGED <<outlet, shop>>, ~HalfOutlet(p), ~HalfOutlet(q)
  PROVE  Shops(q)'
  BY DEF Shops, HalfOutlet

LEMMA AddOutletShops ==
  ASSUME TenancyTypes, NEW w \in Admins, NEW q, task' = [task EXCEPT ![w] = q], Shops(task[w]), AddOutlet(w)
  PROVE  Shops(q)'
<1>1. CASE AskOutlet(w)
  <2>1. PICK r : Admitted(w, r)
    BY <1>1, AddOutletAsked
  <2>2. task[w] = NoTask /\ q.step = "asked" /\ UNCHANGED <<outlet, shop>>
    BY <2>1, AdmittedIs DEF places
  <2>3. ~HalfOutlet(task[w]) /\ ~HalfOutlet(q)
    BY <2>2, NoTaskMade DEF HalfOutlet, In
  <2>. QED
    BY <2>2, <2>3, ShopsSame
<1>2. CASE OpenShop(w)
  <2>1. PICK r, o : /\ Advance(w, r) /\ r.step = "half" /\ r.op = "addOutlet" /\ r.outlet = o
                    /\ shop' = [shop EXCEPT ![o] = "live"] /\ task[w].op = "addOutlet" /\ task[w].step = "asked"
    BY <1>2, OpenShopAdvances
  <2>2. q = r /\ outlet' = outlet
    BY <1>2, <2>1, AdvanceIs DEF OpenShop
  <2>3. shop = outlet
    BY <2>1 DEF Shops, In
  <2>. QED
    BY <2>1, <2>2, <2>3 DEF Shops, In
<1>3. CASE OpenOutlet(w)
  <2>1. q = NoTask /\ In(task[w], "addOutlet", {"half"}) /\ shop' = shop
        /\ outlet' = [outlet EXCEPT ![task[w].outlet] = "live"]
    BY <1>3, DoneIs DEF OpenOutlet, At, In
  <2>2. shop = outlet'
    BY <2>1 DEF Shops
  <2>. QED
    BY <2>1, <2>2, NoTaskMade DEF Shops, In
<1>. QED
  BY <1>1, <1>2, <1>3 DEF AddOutlet

LEMMA DropOutletShops ==
  ASSUME TenancyTypes, NEW w \in Admins, NEW q, task' = [task EXCEPT ![w] = q], Shops(task[w]),
         NEW o \in Outlets, DropOutlet(w, o)
  PROVE  Shops(q)'
<1>1. CASE AskDropOutlet(w, o)
  <2>1. PICK r : Admitted(w, r)
    BY <1>1, DropOutletAsked
  <2>2. task[w] = NoTask /\ q.step = "asked" /\ UNCHANGED <<outlet, shop>>
    BY <2>1, AdmittedIs DEF places
  <2>3. ~HalfOutlet(task[w]) /\ ~HalfOutlet(q)
    BY <2>2, NoTaskMade DEF HalfOutlet, In
  <2>. QED
    BY <2>2, <2>3, ShopsSame
<1>2. CASE CloseShop(w, o)
  <2>1. /\ task[w].op = "dropOutlet" /\ task[w].step = "asked" /\ task[w].outlet = o
        /\ shop' = [shop EXCEPT ![o] = "closed"] /\ outlet' = outlet /\ Goto(w, "half")
    BY <1>2 DEF CloseShop, At
  <2>2. Follows(q, task[w], "half")
    BY <2>1, GotoIs DEF Steps
  <2>3. shop = outlet
    BY <2>1 DEF Shops, In
  <2>. QED
    BY <2>1, <2>2, <2>3 DEF Shops, In, Follows
<1>3. CASE CloseOutlet(w, o)
  <2>1. q = NoTask /\ In(task[w], "dropOutlet", {"half"}) /\ shop' = shop /\ task[w].outlet = o
        /\ outlet' = [outlet EXCEPT ![o] = "closed"]
    BY <1>3, DoneIs DEF CloseOutlet, At, In
  <2>2. shop = outlet'
    BY <2>1 DEF Shops, In
  <2>. QED
    BY <2>1, <2>2, NoTaskMade DEF Shops, In
<1>. QED
  BY <1>1, <1>2, <1>3 DEF DropOutlet

LEMMA DepotsSame ==
  ASSUME NEW p, NEW q, Depots(p), UNCHANGED <<depot, warehouse>>, ~HalfDepot(p), ~HalfDepot(q)
  PROVE  Depots(q)'
  BY DEF Depots, HalfDepot

LEMMA WarehouseDepots ==
  ASSUME TenancyTypes, NEW w \in Admins, NEW q, task' = [task EXCEPT ![w] = q], Depots(task[w]), NEW k \in Warehouses,
         AddWarehouse(w, k) \/ DropWarehouse(w, k) \/ AskStock(w, k) \/ StockIn(w, k) \/ StockOut(w, k)
  PROVE  Depots(q)'
<1>1. CASE \/ AskWarehouse(w, k) \/ AskDropWarehouse(w, k) \/ AskStock(w, k)
  <2>1. PICK r : Admitted(w, r)
    BY <1>1, AddWarehouseAsked, DropWarehouseAsked, StockAsked
  <2>2. task[w] = NoTask /\ q.step = "asked" /\ UNCHANGED <<depot, warehouse>>
    BY <2>1, AdmittedIs DEF places
  <2>3. ~HalfDepot(task[w]) /\ ~HalfDepot(q)
    BY <2>2, NoTaskMade DEF HalfDepot, In
  <2>. QED
    BY <2>2, <2>3, DepotsSame
<1>2. CASE FindWarehouse(w, k) \/ CheckWarehouse(w, k)
  <2>1. PICK r : Advance(w, r) /\ r.step = "open"
    BY <1>2, FindWarehouseAdvances, CheckWarehouseAdvances
  <2>2. q.step = "open" /\ task[w].step = "asked" /\ UNCHANGED <<depot, warehouse>>
    <3>1. q = r
      BY <2>1, AdvanceIs
    <3>. QED
      BY <1>2, <2>1, <3>1 DEF FindWarehouse, CheckWarehouse, At, places
  <2>3. ~HalfDepot(task[w]) /\ ~HalfDepot(q)
    BY <2>2 DEF HalfDepot, In
  <2>. QED
    BY <2>2, <2>3, DepotsSame
<1>3. CASE StockIn(w, k) \/ StockOut(w, k)
  <2>1. q = NoTask /\ task[w].step = "asked" /\ UNCHANGED <<depot, warehouse>>
    BY <1>3, DoneIs DEF StockIn, StockOut, At
  <2>2. ~HalfDepot(task[w]) /\ ~HalfDepot(q)
    BY <2>1, NoTaskMade DEF HalfDepot, In
  <2>. QED
    BY <2>1, <2>2, DepotsSame
<1>4. CASE OpenWarehouse(w, k) \/ CloseWarehouse(w, k)
  <2>1. /\ task[w].step = "open" /\ task[w].warehouse = k /\ depot' = depot /\ Goto(w, "half")
        /\ \/ task[w].op = "addWarehouse" /\ warehouse' = [warehouse EXCEPT ![k] = "live"]
           \/ task[w].op = "dropWarehouse" /\ warehouse' = [warehouse EXCEPT ![k] = "closed"]
    BY <1>4 DEF OpenWarehouse, CloseWarehouse, At
  <2>2. Follows(q, task[w], "half")
    BY <2>1, GotoIs DEF Steps
  <2>3. warehouse = depot
    BY <2>1 DEF Depots, In
  <2>. QED
    BY <2>1, <2>2, <2>3 DEF Depots, In, Follows
<1>5. CASE OpenDepot(w, k) \/ CloseDepot(w, k)
  <2>1. /\ task[w].step = "half" /\ task[w].warehouse = k /\ warehouse' = warehouse /\ q = NoTask
        /\ \/ task[w].op = "addWarehouse" /\ depot' = [depot EXCEPT ![k] = "live"]
           \/ task[w].op = "dropWarehouse" /\ depot' = [depot EXCEPT ![k] = "closed"]
    BY <1>5, DoneIs DEF OpenDepot, CloseDepot, At
  <2>2. warehouse = depot'
    BY <2>1 DEF Depots, In
  <2>. QED
    BY <2>1, <2>2, NoTaskMade DEF Depots, In
<1>. QED
  BY <1>1, <1>2, <1>3, <1>4, <1>5 DEF AddWarehouse, DropWarehouse

LEMMA PlanDepots ==
  ASSUME TenancyTypes, NEW w \in Admins, NEW q, task' = [task EXCEPT ![w] = q], Depots(task[w]), ChangePlan(w)
  PROVE  Depots(q)'
<1>1. ASSUME NEW plan \in Plans, AskPlan(w, plan) PROVE Depots(q)'
  <2>1. PICK r : Admitted(w, r)
    BY <1>1, PlanAsked
  <2>2. task[w] = NoTask /\ q.step = "asked" /\ UNCHANGED <<depot, warehouse>>
    BY <2>1, AdmittedIs DEF places
  <2>3. ~HalfDepot(task[w]) /\ ~HalfDepot(q)
    BY <2>2, NoTaskMade DEF HalfDepot, In
  <2>. QED
    BY <2>2, <2>3, DepotsSame
<1>2. CASE Sideways(w) \/ MoveSubscription(w) \/ CountSeats(w) \/ BillSeats(w)
  <2>1. task[w].op = "changePlan" /\ task[w].step \in {"asked", "subs", "seats"} /\ UNCHANGED <<depot, warehouse>>
    BY <1>2 DEF Sideways, MoveSubscription, CountSeats, BillSeats, At, places
  <2>2. q = NoTask \/ q.step \in {"subs", "seats"}
    <3>1. CASE Sideways(w)
      BY <3>1, GotoIs DEF Sideways, Follows, Steps
    <3>2. CASE BillSeats(w)
      BY <3>2, DoneIs DEF BillSeats
    <3>3. CASE MoveSubscription(w) \/ CountSeats(w)
      <4>1. PICK r : Advance(w, r) /\ r.step \in {"subs", "seats"}
        <5>1. CASE MoveSubscription(w)
          BY <5>1, MoveSubscriptionAdvances
        <5>2. CASE CountSeats(w)
          <6>1. PICK r : Advance(w, r) /\ r.step = "seats"
            BY <5>2, CountSeatsAdvances
          <6>. QED
            BY <6>1
        <5>. QED
          BY <3>3, <5>1, <5>2
      <4>2. q = r
        BY <4>1, AdvanceIs
      <4>. QED
        BY <4>1, <4>2
    <3>. QED
      BY <1>2, <3>1, <3>2, <3>3
  <2>3. ~HalfDepot(task[w]) /\ ~HalfDepot(q)
    BY <2>1, <2>2, NoTaskMade DEF HalfDepot, In
  <2>. QED
    BY <2>1, <2>3, DepotsSame
<1>3. CASE CloseWarehouses(w) \/ OpenMain(w)
  <2>1. task[w].op = "changePlan" /\ task[w].step = "asked" /\ depot' = depot /\ Goto(w, "half")
    BY <1>3 DEF CloseWarehouses, OpenMain, At
  <2>2. Follows(q, task[w], "half")
    BY <2>1, GotoIs DEF Steps
  <2>3. warehouse = depot
    BY <2>1 DEF Depots, In
  <2>4. Leaves(q) <=> Leaves(task[w])
    BY <2>2 DEF Follows, Leaves
  <2>5. In(q, "changePlan", {"half"})
    BY <2>1, <2>2 DEF Follows, In
  <2>6. CASE CloseWarehouses(w)
    <3>1. Leaves(q)
      BY <2>4, <2>6 DEF CloseWarehouses
    <3>2. warehouse' = [k \in Warehouses |-> IF depot[k] = "live" THEN "closed" ELSE depot[k]]
      BY <2>3, <2>6 DEF CloseWarehouses
    <3>. QED
      BY <2>1, <2>5, <3>1, <3>2 DEF Depots, Shut, In, Leaves, Was, Read
  <2>7. CASE OpenMain(w)
    <3>1. ~Leaves(q)
      BY <2>4, <2>7 DEF OpenMain, Arrives, Leaves
    <3>2. warehouse' = [depot EXCEPT ![Main] = "live"]
      BY <2>3, <2>7 DEF OpenMain
    <3>. QED
      BY <2>1, <2>5, <3>1, <3>2 DEF Depots, In, Leaves, Was, Read
  <2>. QED
    BY <1>3, <2>6, <2>7
<1>4. CASE CloseDepots(w) \/ OpenMainDepot(w)
  <2>1. In(task[w], "changePlan", {"half"}) /\ warehouse' = warehouse /\ Goto(w, "subs")
    BY <1>4 DEF CloseDepots, OpenMainDepot, At, In
  <2>2. Follows(q, task[w], "subs")
    BY <2>1, GotoIs DEF Steps
  <2>3. warehouse = depot'
    <3>1. CASE CloseDepots(w)
      BY <2>1, <3>1 DEF CloseDepots, Depots, Shut, In
    <3>2. CASE OpenMainDepot(w)
      <4>1. ~Leaves(task[w])
        BY <3>2 DEF OpenMainDepot, Arrives, Leaves
      <4>. QED
        BY <2>1, <3>2, <4>1 DEF OpenMainDepot, Depots, In
    <3>. QED
      BY <1>4, <3>1, <3>2
  <2>. QED
    BY <2>1, <2>2, <2>3 DEF Depots, In, Follows
<1>. QED
  BY <1>1, <1>2, <1>3, <1>4 DEF ChangePlan

(***************************************************************************)
(* Whoever may sign in is a user of the shop.                              *)
(***************************************************************************)
LEMMA AllKnown ==
  ASSUME NEW p, Accounts(p), ~Between(p)
  PROVE  \A n \in Logins : Known(n)
  BY DEF Accounts, OwnAccount

LEMMA KnownStays ==
  ASSUME UNCHANGED logins, \A n \in Logins : Known(n),
         NEW q, q = NoTask \/ q.op \notin {"addLogin", "dropLogin", "password"} \/ (q.op # "dropLogin" /\ q.step = "asked")
  PROVE  Accounts(q)'
<1>1. \A n \in Logins : Known(n)'
  BY DEF logins, Known, Member
<1>2. ASSUME NEW n \in Logins PROVE OwnAccount(q, n)'
  BY <1>1, NoTaskMade DEF OwnAccount, In
<1>. QED
  BY <1>1, <1>2 DEF Accounts

LEMMA AccountsSame ==
  ASSUME NEW p, NEW q, Accounts(p), UNCHANGED logins, p.op \notin LoginWork \/ p.step \in {"idle", "asked", "open"},
         q = NoTask \/ q.op \notin LoginWork
  PROVE  Accounts(q)'
<1>1. ~Between(p)
  BY DEF Between, In, LoginWork
<1>. QED
  BY <1>1, AllKnown, KnownStays DEF LoginWork

LEMMA AccountsGo ==
  ASSUME NEW p, NEW q, Accounts(p), NEW n \in Logins, p.login = n, OneLogin(n),
         \/ q.login = n /\ OwnAccount(q, n)'
         \/ q = NoTask /\ Known(n)'
  PROVE  Accounts(q)'
<1>1. \A m \in Logins \ {n} : Known(m)'
  BY DEF Accounts, OneLogin, Known, Member
<1>2. CASE q.login = n /\ OwnAccount(q, n)'
  BY <1>1, <1>2 DEF Accounts
<1>3. CASE q = NoTask /\ Known(n)'
  <2>1. ASSUME NEW m \in Logins PROVE OwnAccount(q, m)'
    BY <1>1, <1>3, NoTaskMade DEF OwnAccount, In
  <2>. QED
    BY <1>1, <1>3, <2>1 DEF Accounts
<1>. QED
  BY <1>2, <1>3

LEMMA Relabelled ==
  ASSUME NEW r \in LoginRow, NEW life \in Lives, NEW s, s = [r EXCEPT !.life = life]
  PROVE  s \in LoginRow /\ s.life = life /\ s.word = r.word
  BY DEF LoginRow

LEMMA SameLogin ==
  ASSUME NEW r \in LoginRow, NEW s \in LoginRow, r.life = s.life, r.word = s.word
  PROVE  r = s
  BY DEF LoginRow

LEMMA AddLoginAccounts ==
  ASSUME TenancyTypes, NEW w \in Admins, NEW q, task' = [task EXCEPT ![w] = q], Accounts(task[w]), NEW n \in Logins,
         AddLogin(w, n), Intact, tenant, Shops(task[w])
  PROVE  Accounts(q)'
<1>1. CASE AskLogin(w, n)
  <2>1. PICK r : Admitted(w, r) /\ r.op = "addLogin"
    BY <1>1, AddLoginAsked
  <2>2. q = r /\ task[w] = NoTask /\ q.step = "asked" /\ UNCHANGED logins
    BY <2>1, AdmittedIs
  <2>3. \A m \in Logins : Known(m)
    BY <2>2, AllKnown, NoTaskMade DEF Between, In
  <2>. QED
    BY <2>1, <2>2, <2>3, KnownStays
<1>2. login \in [Logins -> LoginRow] /\ user \in [Logins -> LoginRow] /\ member \in [Logins -> [Outlets -> Lives]]
  BY DEF TenancyTypes, TenantTypeOK
<1>3. PICK p : p = task[w]
  OBVIOUS
<1>4. CASE MakeLogin(w, n)
  <2>1. /\ p.op = "addLogin" /\ p.step = "asked" /\ p.login = n /\ Goto(w, "made")
        /\ login' = [login EXCEPT ![n] = [life |-> "live", word |-> p.n]] /\ user' = user /\ member' = member
    BY <1>3, <1>4 DEF MakeLogin, At
  <2>2. Follows(q, p, "made")
    BY <1>3, <2>1, GotoIs DEF Steps
  <2>3. OneLogin(n) /\ login'[n] = [life |-> "live", word |-> p.n]
    BY <1>2, <2>1 DEF OneLogin
  <2>4. OwnAccount(q, n)'
    BY <2>1, <2>2, <2>3 DEF OwnAccount, In, Follows, Between
  <2>. QED
    BY <1>3, <2>1, <2>2, <2>3, <2>4, AccountsGo DEF Follows
<1>5. CASE MakeUser(w, n)
  <2>1. /\ p.op = "addLogin" /\ p.step = "made" /\ p.login = n /\ Goto(w, "both")
        /\ user' = [user EXCEPT ![n] = [life |-> "live", word |-> p.n]] /\ login' = login /\ member' = member
    BY <1>3, <1>5 DEF MakeUser, At
  <2>2. Follows(q, p, "both")
    BY <1>3, <2>1, GotoIs DEF Steps
  <2>3. OneLogin(n) /\ user'[n] = [life |-> "live", word |-> p.n]
    BY <1>2, <2>1 DEF OneLogin
  <2>4. login'[n] = user'[n]
    BY <1>3, <2>1, <2>3 DEF Accounts, OwnAccount, In
  <2>5. OwnAccount(q, n)'
    BY <2>1, <2>2, <2>4 DEF OwnAccount, In, Follows, Between
  <2>. QED
    BY <1>3, <2>1, <2>2, <2>3, <2>5, AccountsGo DEF Follows
<1>6. CASE PlaceLogin(w, n)
  <2>1. /\ p.op = "addLogin" /\ p.step = "both" /\ p.login = n /\ Goto(w, "placed")
        /\ member' = Placed(n) /\ login' = login /\ user' = user
    BY <1>3, <1>6 DEF PlaceLogin, At
  <2>2. Follows(q, p, "placed")
    BY <1>3, <2>1, GotoIs DEF Steps
  <2>3. shop = outlet
    BY <1>3, <2>1 DEF Shops, In
  <2>4. PICK o : o = Min({x \in Outlets : shop[x] = "live"})
    OBVIOUS
  <2>5. o \in Outlets /\ {x \in Outlets : shop[x] = "live"} # {}
    BY <2>3, <2>4, FewestOutlet DEF Intact, LiveOutlets
  <2>6. member' = [member EXCEPT ![n][o] = "live"]
    BY <2>1, <2>4, <2>5 DEF Placed
  <2>7. OneLogin(n) /\ member'[n][o] = "live"
    BY <1>2, <2>1, <2>5, <2>6 DEF OneLogin
  <2>8. Known(n)'
    BY <1>3, <2>1, <2>5, <2>7 DEF Accounts, OwnAccount, In, Known, Member
  <2>9. OwnAccount(q, n)'
    BY <2>1, <2>2, <2>8 DEF OwnAccount, In, Follows
  <2>. QED
    BY <1>3, <2>1, <2>2, <2>7, <2>9, AccountsGo DEF Follows
<1>7. CASE UndoAddLogin(w, n)
  <2>1. /\ p.login = n /\ login' = [login EXCEPT ![n] = NoLogin] /\ member' = member
        /\ user' = user \/ user' = [user EXCEPT ![n] = NoLogin]
    BY <1>3, <1>7 DEF UndoAddLogin
  <2>2. q = NoTask
    BY <1>7, DoneIs DEF UndoAddLogin
  <2>3. OneLogin(n) /\ login'[n] = NoLogin
    BY <1>2, <2>1 DEF OneLogin
  <2>4. Known(n)'
    BY <2>3 DEF Known, NoLogin
  <2>. QED
    BY <1>3, <2>1, <2>2, <2>3, <2>4, AccountsGo
<1>. QED
  BY <1>1, <1>4, <1>5, <1>6, <1>7 DEF AddLogin

LEMMA DropLoginAccounts ==
  ASSUME TenancyTypes, NEW w \in Admins, NEW q, task' = [task EXCEPT ![w] = q], Accounts(task[w]), NEW n \in Logins,
         DropLogin(w, n)
  PROVE  Accounts(q)'
<1>1. login \in [Logins -> LoginRow] /\ user \in [Logins -> LoginRow] /\ member \in [Logins -> [Outlets -> Lives]]
  BY DEF TenancyTypes, TenantTypeOK
<1>2. PICK p : p = task[w]
  OBVIOUS
<1>3. CASE AskDropLogin(w, n)
  <2>1. PICK r : Admitted(w, r) /\ r.op = "dropLogin" /\ r.login = n /\ r.found = (user[n].life # "absent")
                 /\ login[n].life = "live"
    BY <1>3, DropLoginAsked
  <2>7. Admitted(w, r)
    BY <2>1
  <2>2. q = r /\ task[w] = NoTask /\ q.step = "asked" /\ UNCHANGED logins
    BY <2>7, AdmittedIs
  <2>3. \A m \in Logins : Known(m)
    BY <2>2, AllKnown, NoTaskMade DEF Between, In
  <2>4. \A m \in Logins : Known(m)'
    BY <2>2, <2>3 DEF logins, Known, Member
  <2>5. q.found
    BY <2>1, <2>2, <2>3 DEF Known
  <2>6. OwnAccount(q, n)'
    BY <2>1, <2>2, <2>4, <2>5 DEF OwnAccount, In, logins
  <2>. QED
    BY <2>1, <2>2, <2>4, <2>6 DEF Accounts
<1>4. CASE CloseLogin(w, n)
  <2>1. /\ p.op = "dropLogin" /\ p.step = "asked" /\ p.login = n /\ Goto(w, "made")
        /\ login' = [login EXCEPT ![n].life = "closed"] /\ user' = user /\ member' = member
    BY <1>2, <1>4 DEF CloseLogin, At
  <2>2. Follows(q, p, "made")
    BY <1>2, <2>1, GotoIs DEF Steps
  <2>3. OneLogin(n) /\ login'[n] = [login[n] EXCEPT !.life = "closed"]
    BY <1>1, <2>1 DEF OneLogin
  <2>4. login[n].life = "live" /\ user[n] = login[n] /\ Member(n) /\ p.found
    BY <1>2, <2>1 DEF Accounts, OwnAccount, In, Between, Known
  <2>5. login'[n].life = "closed" /\ user'[n].life = "live" /\ user'[n].word = login'[n].word
    BY <1>1, <2>1, <2>3, <2>4, Relabelled DEF Lives
  <2>6. OwnAccount(q, n)'
    BY <2>1, <2>2, <2>4, <2>5 DEF OwnAccount, In, Follows, Member, Between
  <2>. QED
    BY <1>2, <2>1, <2>2, <2>3, <2>6, AccountsGo DEF Follows
<1>5. CASE CloseUser(w, n)
  <2>1. /\ p.op = "dropLogin" /\ p.step = "made" /\ p.login = n /\ Goto(w, "both")
        /\ (p.found => user' = [user EXCEPT ![n].life = "closed"]) /\ login' = login /\ member' = member
    BY <1>2, <1>5 DEF CloseUser, At
  <2>2. Follows(q, p, "both")
    BY <1>2, <2>1, GotoIs DEF Steps
  <2>3. p.found /\ login[n].life = "closed" /\ user[n].word = login[n].word /\ Member(n)
    BY <1>2, <2>1 DEF Accounts, OwnAccount, In
  <2>4. OneLogin(n) /\ user'[n] = [user[n] EXCEPT !.life = "closed"]
    BY <1>1, <2>1, <2>3 DEF OneLogin
  <2>5. user'[n] = login'[n]
    <3>1. user'[n] \in LoginRow /\ user'[n].life = "closed" /\ user'[n].word = user[n].word
      BY <1>1, <2>4, Relabelled DEF Lives
    <3>. QED
      BY <1>1, <2>1, <2>3, <3>1, SameLogin
  <2>6. Known(n)'
    BY <2>1, <2>3, <2>5 DEF Known, Member
  <2>7. OwnAccount(q, n)'
    BY <2>1, <2>2, <2>3, <2>6 DEF OwnAccount, In, Follows
  <2>. QED
    BY <1>2, <2>1, <2>2, <2>4, <2>7, AccountsGo DEF Follows
<1>6. CASE UndoDropLogin(w, n)
  <2>1. /\ p.op = "dropLogin" /\ p.step \in {"made", "both", "counted"} /\ p.login = n
        /\ (p.found => user' = [user EXCEPT ![n].life = "live"]) /\ login' = [login EXCEPT ![n].life = "live"]
        /\ member' = member
    BY <1>2, <1>6 DEF UndoDropLogin
  <2>2. q = NoTask
    BY <1>6, DoneIs DEF UndoDropLogin
  <2>3. /\ p.found /\ login[n].life = "closed" /\ Member(n)
        /\ user[n].word = login[n].word
    BY <1>2, <2>1 DEF Accounts, OwnAccount, In, Between, Known
  <2>4. /\ OneLogin(n) /\ user'[n] = [user[n] EXCEPT !.life = "live"]
        /\ login'[n] = [login[n] EXCEPT !.life = "live"]
    BY <1>1, <2>1, <2>3 DEF OneLogin
  <2>5. user'[n] = login'[n]
    <3>1. user'[n] \in LoginRow /\ user'[n].life = "live" /\ user'[n].word = user[n].word
      BY <1>1, <2>4, Relabelled DEF Lives
    <3>2. login'[n] \in LoginRow /\ login'[n].life = "live" /\ login'[n].word = login[n].word
      BY <1>1, <2>4, Relabelled DEF Lives
    <3>. QED
      BY <2>3, <3>1, <3>2, SameLogin
  <2>6. Known(n)'
    BY <2>1, <2>3, <2>5 DEF Known, Member
  <2>. QED
    BY <1>2, <2>1, <2>2, <2>4, <2>6, AccountsGo
<1>. QED
  BY <1>3, <1>4, <1>5, <1>6 DEF DropLogin

LEMMA PasswordAccounts ==
  ASSUME TenancyTypes, NEW w \in Admins, NEW q, task' = [task EXCEPT ![w] = q], Accounts(task[w]), NEW n \in Logins,
         Password(w, n)
  PROVE  Accounts(q)'
<1>1. login \in [Logins -> LoginRow] /\ user \in [Logins -> LoginRow]
  BY DEF TenancyTypes, TenantTypeOK
<1>2. PICK p : p = task[w]
  OBVIOUS
<1>3. CASE AskPassword(w, n)
  <2>1. PICK r : Admitted(w, r) /\ r.op = "password"
    BY <1>3, PasswordAsked
  <2>2. q = r /\ task[w] = NoTask /\ q.step = "asked" /\ UNCHANGED logins
    BY <2>1, AdmittedIs
  <2>3. \A m \in Logins : Known(m)
    BY <2>2, AllKnown, NoTaskMade DEF Between, In
  <2>. QED
    BY <2>1, <2>2, <2>3, KnownStays
<1>4. CASE SetPassword(w, n)
  <2>1. /\ p.op = "password" /\ p.step = "asked" /\ p.login = n /\ Goto(w, "made")
        /\ login[n].life # "absent" /\ login' = [login EXCEPT ![n].word = p.n] /\ user' = user /\ member' = member
    BY <1>2, <1>4 DEF SetPassword, At
  <2>2. Follows(q, p, "made")
    BY <1>2, <2>1, GotoIs DEF Steps
  <2>3. OneLogin(n) /\ login'[n] = [login[n] EXCEPT !.word = p.n]
    BY <1>1, <2>1 DEF OneLogin
  <2>4. user[n] = login[n] /\ Member(n)
    BY <1>2, <2>1 DEF Accounts, OwnAccount, In, Between, Known
  <2>5. OwnAccount(q, n)'
    BY <2>1, <2>2, <2>3, <2>4 DEF OwnAccount, In, Follows, Member, Between
  <2>. QED
    BY <1>2, <2>1, <2>2, <2>3, <2>5, AccountsGo DEF Follows
<1>5. CASE CopyPassword(w, n)
  <2>1. /\ p.op = "password" /\ p.step = "made" /\ p.login = n /\ login' = login /\ member' = member
        /\ (user[n].life # "absent" => user' = [user EXCEPT ![n].word = p.n])
    BY <1>2, <1>5 DEF CopyPassword, At
  <2>2. q = NoTask
    BY <1>5, DoneIs DEF CopyPassword
  <2>3. login[n] = [user[n] EXCEPT !.word = p.n] /\ user[n].life # "absent" /\ Member(n)
    BY <1>2, <2>1 DEF Accounts, OwnAccount, In
  <2>4. OneLogin(n) /\ user'[n] = login'[n]
    BY <1>1, <2>1, <2>3 DEF OneLogin
  <2>5. Known(n)'
    BY <2>1, <2>3, <2>4 DEF Known, Member
  <2>. QED
    BY <1>2, <2>1, <2>2, <2>4, <2>5, AccountsGo
<1>. QED
  BY <1>3, <1>4, <1>5 DEF Password

LEMMA AssignAccounts ==
  ASSUME TenancyTypes, NEW w \in Admins, NEW q, task' = [task EXCEPT ![w] = q], Accounts(task[w]), NEW n \in Logins,
         NEW o \in Outlets, AskAssign(w, n, o) \/ Assign(w, n, o) \/ Unassign(w, n, o)
  PROVE  Accounts(q)'
<1>1. CASE AskAssign(w, n, o)
  <2>1. PICK r : Admitted(w, r) /\ r.op \in {"assign", "unassign"}
    BY <1>1, AssignAsked
  <2>2. q = r /\ task[w] = NoTask /\ q.step = "asked" /\ UNCHANGED logins
    BY <2>1, AdmittedIs
  <2>3. \A m \in Logins : Known(m)
    BY <2>2, AllKnown, NoTaskMade DEF Between, In
  <2>. QED
    BY <2>1, <2>2, <2>3, KnownStays
<1>2. CASE Assign(w, n, o) \/ Unassign(w, n, o)
  <2>1. /\ task[w].op \in {"assign", "unassign"} /\ task[w].login = n /\ login' = login /\ user' = user
        /\ \E life \in {"live", "closed"} : member' = [member EXCEPT ![n][o] = life]
    BY <1>2 DEF Assign, Unassign, At
  <2>2. q = NoTask
    BY <1>2, DoneIs DEF Assign, Unassign
  <2>3. member \in [Logins -> [Outlets -> Lives]]
    BY DEF TenancyTypes, TenantTypeOK
  <2>4. OneLogin(n) /\ member'[n][o] # "absent"
    BY <2>1, <2>3 DEF OneLogin
  <2>5. Known(n)
    BY <2>1 DEF Accounts, OwnAccount, Between, In
  <2>6. Known(n)'
    BY <2>1, <2>4, <2>5 DEF Known, Member
  <2>. QED
    BY <2>1, <2>2, <2>4, <2>6, AccountsGo
<1>. QED
  BY <1>1, <1>2

LEMMA CountAccounts ==
  ASSUME TenancyTypes, NEW w \in Admins, NEW q, task' = [task EXCEPT ![w] = q], Accounts(task[w]),
         CountLogins(w) \/ BillLogins(w)
  PROVE  Accounts(q)'
<1>1. CASE CountLogins(w)
  <2>1. PICK r : /\ Advance(w, r) /\ r.step = "counted" /\ r.op = task[w].op /\ r.login = task[w].login
                 /\ r.found = task[w].found /\ r.n = task[w].n
    BY <1>1, CountLoginsAdvances
  <2>2. q = r
    BY <2>1, AdvanceIs
  <2>3. /\ UNCHANGED logins
        /\ \/ task[w].op = "addLogin" /\ task[w].step = "placed"
           \/ task[w].op = "dropLogin" /\ task[w].step = "both"
    BY <1>1 DEF CountLogins, At
  <2>4. \A m \in Logins : Known(m)
    BY <2>3, AllKnown DEF Between, In
  <2>5. \A m \in Logins : Known(m)'
    BY <2>3, <2>4 DEF logins, Known, Member
  <2>6. ASSUME NEW n \in Logins, q.login = n PROVE OwnAccount(q, n)'
    <3>1. OwnAccount(task[w], n)
      BY <2>1, <2>2, <2>6 DEF Accounts
    <3>. QED
      BY <2>1, <2>2, <2>3, <2>5, <3>1 DEF OwnAccount, In, logins
  <2>. QED
    BY <2>5, <2>6 DEF Accounts
<1>2. CASE BillLogins(w)
  <2>1. q = NoTask
    BY <1>2, DoneIs DEF BillLogins
  <2>2. UNCHANGED logins /\ task[w].step = "counted"
    BY <1>2 DEF BillLogins
  <2>3. \A m \in Logins : Known(m)
    BY <2>2, AllKnown DEF Between, In
  <2>. QED
    BY <2>1, <2>2, <2>3, KnownStays
<1>. QED
  BY <1>1, <1>2

LEMMA LoginAccounts ==
  ASSUME TenancyTypes, NEW w \in Admins, NEW q, task' = [task EXCEPT ![w] = q], Accounts(task[w]),
         AnyLogin(w), Intact, tenant, Shops(task[w])
  PROVE  Accounts(q)'
  BY AddLoginAccounts, DropLoginAccounts, PasswordAccounts, AssignAccounts, CountAccounts DEF AnyLogin

(***************************************************************************)
(* The two databases agree.                                                *)
(***************************************************************************)
LEMMA PairedGo ==
  ASSUME TenancyTypes, Serial, KeptInv, PairedInv, NEW w \in Admins, NEW q, StepBy(w, q),
         /\ Calm' /\ tenant /\ Intact /\ Paired(task[w]) /\ task' = [task EXCEPT ![w] = q]
         => tenant' /\ Paired(q)'
  PROVE  PairedInv'
<1> SUFFICES ASSUME Calm', "signUp" \notin duty' PROVE tenant' /\ \A p : Working(p)' => Paired(p)'
  BY DEF PairedInv
<1>1. Calm /\ Working(task[w]) /\ (\A p : Working(p)' => p = q) /\ task' = [task EXCEPT ![w] = q]
  BY Quiet
<1>2. duty' = duty
  BY DEF StepBy, Fail, Admitted, Accept, Advance
<1>3. tenant /\ Paired(task[w]) /\ Intact
  BY <1>1, <1>2 DEF PairedInv, KeptInv, Calm
<1>4. tenant' /\ Paired(q)'
  BY <1>1, <1>3
<1>5. ASSUME NEW p, Working(p)' PROVE Paired(p)'
  <2>1. p = q
    BY <1>1, <1>5
  <2>. QED
    BY <1>4, <2>1
<1>. QED
  BY <1>4, <1>5

LEMMA Apartness ==
  ASSUME TenancyTypes, NEW w \in Admins, NEW q, NEW ops, Of(w, q, ops)
  PROVE  /\ ops \cap {"addOutlet", "dropOutlet"} = {} => ~HalfOutlet(task[w]) /\ ~HalfOutlet(q)
         /\ ops \cap {"addWarehouse", "dropWarehouse", "changePlan"} = {} => ~HalfDepot(task[w]) /\ ~HalfDepot(q)
         /\ ops \cap LoginWork = {} =>
              (task[w].op \notin LoginWork \/ task[w].step \in {"idle", "asked", "open"}) /\ (q = NoTask \/ q.op \notin LoginWork)
<1>1. NoTask.step = "idle"
  BY NoTaskMade
<1>2. ASSUME ops \cap {"addOutlet", "dropOutlet"} = {} PROVE ~HalfOutlet(task[w]) /\ ~HalfOutlet(q)
  BY <1>1, <1>2 DEF Of, HalfOutlet, In
<1>3. ASSUME ops \cap {"addWarehouse", "dropWarehouse", "changePlan"} = {} PROVE ~HalfDepot(task[w]) /\ ~HalfDepot(q)
  BY <1>1, <1>3 DEF Of, HalfDepot, In
<1>4. ASSUME ops \cap LoginWork = {}
      PROVE  (task[w].op \notin LoginWork \/ task[w].step \in {"idle", "asked", "open"}) /\ (q = NoTask \/ q.op \notin LoginWork)
  BY <1>1, <1>4 DEF Of
<1>. QED
  BY <1>2, <1>3, <1>4

LEMMA LoginPairs ==
  ASSUME TenancyTypes, Serial, KeptInv, PairedInv, NEW w \in Admins, AnyLogin(w)
  PROVE  PairedInv'
<1>1. PICK q : Of(w, q, LoginWork)
  BY OfLogins
<1>2. UNCHANGED <<tenant, outlet, shop, depot, warehouse>>
  BY OfLogins DEF places
<1>3. ~HalfOutlet(task[w]) /\ ~HalfOutlet(q) /\ ~HalfDepot(task[w]) /\ ~HalfDepot(q)
  <2>1. LoginWork \cap {"addOutlet", "dropOutlet"} = {} /\ LoginWork \cap {"addWarehouse", "dropWarehouse", "changePlan"} = {}
    BY DEF LoginWork
  <2>. QED
    BY <1>1, <2>1, Apartness
<1>4. ASSUME tenant, Intact, Paired(task[w]), task' = [task EXCEPT ![w] = q] PROVE tenant' /\ Paired(q)'
  <2>1. Shops(task[w]) /\ Depots(task[w]) /\ Accounts(task[w])
    BY <1>4 DEF Paired
  <2>2. Shops(q)' /\ Depots(q)'
    BY <1>2, <1>3, <2>1, ShopsSame, DepotsSame
  <2>3. Accounts(q)'
    BY <1>4, <2>1, LoginAccounts
  <2>. QED
    BY <1>2, <1>4, <2>2, <2>3 DEF Paired
<1>. QED
  BY <1>1, <1>4, PairedGo DEF Of

LEMMA WarehousePairs ==
  ASSUME TenancyTypes, Serial, KeptInv, PairedInv, NEW w \in Admins, AnyWarehouse(w)
  PROVE  PairedInv'
<1>1. PICK k \in Warehouses : AddWarehouse(w, k) \/ DropWarehouse(w, k) \/ AskStock(w, k) \/ StockIn(w, k) \/ StockOut(w, k)
  BY DEF AnyWarehouse
<1>2. PICK q : Of(w, q, WarehouseWork)
  BY <1>1, OfWarehouses
<1>3. UNCHANGED <<tenant, logins, outlet, shop>>
  BY <1>1, OfWarehouses
<1>4. /\ ~HalfOutlet(task[w]) /\ ~HalfOutlet(q)
      /\ task[w].op \notin LoginWork \/ task[w].step \in {"idle", "asked", "open"}
      /\ q = NoTask \/ q.op \notin LoginWork
  <2>1. WarehouseWork \cap {"addOutlet", "dropOutlet"} = {} /\ WarehouseWork \cap LoginWork = {}
    BY DEF LoginWork, WarehouseWork
  <2>. QED
    BY <1>2, <2>1, Apartness
<1>5. ASSUME tenant, Paired(task[w]), task' = [task EXCEPT ![w] = q] PROVE tenant' /\ Paired(q)'
  <2>1. Shops(task[w]) /\ Depots(task[w]) /\ Accounts(task[w])
    BY <1>5 DEF Paired
  <2>2. Shops(q)' /\ Accounts(q)'
    BY <1>3, <1>4, <2>1, ShopsSame, AccountsSame
  <2>3. Depots(q)'
    BY <1>1, <1>5, <2>1, WarehouseDepots
  <2>. QED
    BY <1>3, <1>5, <2>2, <2>3 DEF Paired
<1>. QED
  BY <1>2, <1>5, PairedGo DEF Of

LEMMA OutletPairs ==
  ASSUME TenancyTypes, Serial, KeptInv, PairedInv, NEW w \in Admins,
         AddOutlet(w) \/ \E o \in Outlets : DropOutlet(w, o)
  PROVE  PairedInv'
<1>1. PICK q : Of(w, q, {"addOutlet"}) \/ Of(w, q, {"dropOutlet"})
  BY OfAddOutlet, OfDropOutlet
<1>2. UNCHANGED <<tenant, logins, depot, warehouse>>
  BY OfAddOutlet, OfDropOutlet
<1>3. /\ ~HalfDepot(task[w]) /\ ~HalfDepot(q)
      /\ task[w].op \notin LoginWork \/ task[w].step \in {"idle", "asked", "open"}
      /\ q = NoTask \/ q.op \notin LoginWork
  <2>1. \A op \in {"addOutlet", "dropOutlet"} :
          {op} \cap {"addWarehouse", "dropWarehouse", "changePlan"} = {} /\ {op} \cap LoginWork = {}
    BY DEF LoginWork
  <2>. QED
    BY <1>1, <2>1, Apartness
<1>4. ASSUME tenant, Paired(task[w]), task' = [task EXCEPT ![w] = q] PROVE tenant' /\ Paired(q)'
  <2>1. Shops(task[w]) /\ Depots(task[w]) /\ Accounts(task[w])
    BY <1>4 DEF Paired
  <2>2. Depots(q)' /\ Accounts(q)'
    BY <1>2, <1>3, <2>1, DepotsSame, AccountsSame
  <2>3. Shops(q)'
    BY <1>4, <2>1, AddOutletShops, DropOutletShops
  <2>. QED
    BY <1>2, <1>4, <2>2, <2>3 DEF Paired
<1>. QED
  BY <1>1, <1>4, PairedGo DEF Of

\* What prices, pays or bills moves no row that is kept twice.
LEMMA BillsPair ==
  ASSUME TenancyTypes, Serial, KeptInv, PairedInv, NEW w \in Admins, NEW q,
         Of(w, q, {"pay"}) \/ Of(w, q, {"customPrice"}) \/ Of(w, q, {"loyaltyOn", "loyaltyOff"}),
         UNCHANGED <<tenant, logins, places>>
  PROVE  PairedInv'
<1>1. PICK ops \in SUBSET {"pay", "customPrice", "loyaltyOn", "loyaltyOff"} : Of(w, q, ops)
  <2>1. CASE Of(w, q, {"pay"})
    BY <2>1
  <2>2. CASE Of(w, q, {"customPrice"})
    BY <2>2
  <2>3. CASE Of(w, q, {"loyaltyOn", "loyaltyOff"})
    BY <2>3
  <2>. QED
    BY <2>1, <2>2, <2>3
<1>2. /\ ops \cap {"addOutlet", "dropOutlet"} = {} /\ ops \cap {"addWarehouse", "dropWarehouse", "changePlan"} = {}
      /\ ops \cap LoginWork = {}
  BY <1>1 DEF LoginWork
<1>3. /\ ~HalfOutlet(task[w]) /\ ~HalfOutlet(q) /\ ~HalfDepot(task[w]) /\ ~HalfDepot(q)
      /\ task[w].op \notin LoginWork \/ task[w].step \in {"idle", "asked", "open"}
      /\ q = NoTask \/ q.op \notin LoginWork
  BY <1>1, <1>2, Apartness
<1>4. ASSUME tenant, Paired(task[w]) PROVE tenant' /\ Paired(q)'
  <2>1. UNCHANGED <<outlet, shop, depot, warehouse>>
    BY DEF places
  <2>. QED
    BY <1>3, <1>4, <2>1, ShopsSame, DepotsSame, AccountsSame DEF Paired
<1>. QED
  BY <1>1, <1>4, PairedGo DEF Of

LEMMA PlanPairs ==
  ASSUME TenancyTypes, Serial, KeptInv, PairedInv, NEW w \in Admins, ChangePlan(w)
  PROVE  PairedInv'
<1>1. PICK q : Of(w, q, {"changePlan"})
  BY OfPlans
<1>2. UNCHANGED <<tenant, logins, outlet, shop>>
  BY OfPlans
<1>3. /\ ~HalfOutlet(task[w]) /\ ~HalfOutlet(q)
      /\ task[w].op \notin LoginWork \/ task[w].step \in {"idle", "asked", "open"}
      /\ q = NoTask \/ q.op \notin LoginWork
  <2>1. {"changePlan"} \cap {"addOutlet", "dropOutlet"} = {} /\ {"changePlan"} \cap LoginWork = {}
    BY DEF LoginWork
  <2>. QED
    BY <1>1, <2>1, Apartness
<1>4. ASSUME tenant, Paired(task[w]), task' = [task EXCEPT ![w] = q] PROVE tenant' /\ Paired(q)'
  <2>1. Shops(task[w]) /\ Depots(task[w]) /\ Accounts(task[w])
    BY <1>4 DEF Paired
  <2>2. Shops(q)' /\ Accounts(q)'
    BY <1>2, <1>3, <2>1, ShopsSame, AccountsSame
  <2>3. Depots(q)'
    BY <1>4, <2>1, PlanDepots
  <2>. QED
    BY <1>2, <1>4, <2>2, <2>3 DEF Paired
<1>. QED
  BY <1>1, <1>4, PairedGo DEF Of

\* A request that is cut off before it wrote anything.
LEMMA FailPairs ==
  ASSUME TenancyTypes, Serial, KeptInv, PairedInv, NEW w \in Admins, Fail(w)
  PROVE  PairedInv'
<1>1. StepBy(w, NoTask)
  BY DEF StepBy
<1>2. UNCHANGED <<tenant, logins, outlet, shop, depot, warehouse>>
  BY DEF Fail, places
<1>3. ASSUME Calm', tenant, Paired(task[w]) PROVE tenant' /\ Paired(NoTask)'
  <2>1. task[w].step \in {"asked", "open"}
    BY <1>1, <1>3, Quiet
  <2>2. ~HalfOutlet(task[w]) /\ ~HalfDepot(task[w])
    BY <2>1 DEF HalfOutlet, HalfDepot, In
  <2>3. ~HalfOutlet(NoTask) /\ ~HalfDepot(NoTask)
    BY NoTaskMade DEF HalfOutlet, HalfDepot, In
  <2>. QED
    BY <1>2, <1>3, <2>1, <2>2, <2>3, ShopsSame, DepotsSame, AccountsSame DEF Paired
<1>. QED
  BY <1>1, <1>3, PairedGo

\* Who signs up does nothing else.
LEMMA SignUpsOnly ==
  ASSUME TenancyTypes, NEW w \in Admins, SignUp(w)
  PROVE  "signUp" \in duty'
<1>1. ASSUME NEW plan \in Plans, NEW trial \in BOOLEAN, AskSignUp(w, plan, trial) PROVE "signUp" \in duty'
  <2>1. PICK q : Admitted(w, q) /\ q.op = "signUp"
    BY <1>1, SignUpAsked
  <2>. QED
    BY <2>1 DEF Admitted, Accept
<1>2. CASE \/ MakeTenant(w) \/ SetUpUser(w) \/ SetUpShop(w) \/ SetUpDepot(w) \/ SetUpMain(w) \/ EndSignUp(w)
           \/ UndoSignUp(w)
  <2>1. Doing(task[w], "signUp")
    BY <1>2 DEF MakeTenant, SetUpUser, SetUpShop, SetUpDepot, SetUpMain, EndSignUp, UndoSignUp, At, Doing
  <2>2. \E q : Advance(w, q)
    BY <1>2, SignUpAdvances
  <2>. QED
    BY <2>1, <2>2, SignUpAlone DEF Advance
<1>. QED
  BY <1>1, <1>2 DEF SignUp

LEMMA PairedStep ==
  ASSUME TenancyTypes, Serial, KeptInv, PairedInv, [TenantNext]_tenantVars
  PROVE  PairedInv'
<1>1. CASE UNCHANGED tenantVars \/ Tick
  <2>1. UNCHANGED <<duty, tenant, login, user, member, outlet, shop, depot, warehouse, task, overlapped, cut>>
    BY <1>1 DEF tenantVars, Tick, places, logins
  <2>2. \A p : Working(p)' => Working(p)
    BY <2>1 DEF Working, Idle, Lone
  <2>3. ASSUME NEW p, Paired(p) PROVE Paired(p)'
    <3>1. Shops(p)'
      BY <2>1, <2>3 DEF Paired, Shops
    <3>2. Depots(p)'
      BY <2>1, <2>3 DEF Paired, Depots, Shut, Leaves, Was, Read
    <3>3. Accounts(p)'
      BY <2>1, <2>3 DEF Paired, Accounts, OwnAccount, Known, Member
    <3>. QED
      BY <3>1, <3>2, <3>3 DEF Paired
  <2>4. Calm' => Calm
    BY <2>1 DEF Calm
  <2>. QED
    BY <2>1, <2>2, <2>3, <2>4 DEF PairedInv
<1>2. ASSUME NEW w \in Admins, SignUp(w) PROVE PairedInv'
  BY <1>2, SignUpsOnly DEF PairedInv
<1>3. ASSUME NEW w \in Admins, AnyOutlet(w) PROVE PairedInv'
  <2>1. ASSUME NEW o \in Outlets, RecordPayment(w, o) \/ CustomPrice(w, o) PROVE PairedInv'
    <3>1. UNCHANGED <<tenant, logins, places>>
      BY <2>1, OfPayments, OfPrices
    <3>2. PICK q : Of(w, q, {"pay"}) \/ Of(w, q, {"customPrice"})
      BY <2>1, OfPayments, OfPrices
    <3>. QED
      BY <3>1, <3>2, BillsPair
  <2>. QED
    BY <1>3, <2>1, OutletPairs DEF AnyOutlet
<1>4. ASSUME NEW w \in Admins, AnyPlan(w) PROVE PairedInv'
  <2>1. CASE LoyaltyStep(w)
    <3>1. UNCHANGED <<tenant, logins, places>>
      BY <2>1, OfLoyalty
    <3>2. PICK q : Of(w, q, {"loyaltyOn", "loyaltyOff"})
      BY <2>1, OfLoyalty
    <3>. QED
      BY <3>1, <3>2, BillsPair
  <2>. QED
    BY <1>4, <2>1, PlanPairs DEF AnyPlan, LoyaltyStep
<1>. QED
  BY <1>1, <1>2, <1>3, <1>4, LoginPairs, WarehousePairs, FailPairs, Zenon DEF TenantNext

LEMMA PairedStart == TenantInit => PairedInv
<1> SUFFICES ASSUME TenantInit, "signUp" \notin duty PROVE tenant /\ \A p : Working(p) => Paired(p)
  BY DEF PairedInv
<1>1. \A p : Working(p) => p = NoTask
  BY DEF TenantInit, Working
<1>2. PICK O, plan, status, offer : Stands(O, plan, status, offer)
  BY DEF TenantInit
<1>3. tenant /\ user = login /\ shop = outlet /\ warehouse = depot
  BY <1>2 DEF Stands
<1>4. \A n \in Logins : login[n].life # "absent" => n = Owner
  BY <1>2 DEF Stands
<1>5. Member(Owner)
  BY <1>2, TenancyAssumption DEF Stands, Member
<1>6. Paired(NoTask)
  <2>1. \A n \in Logins : Known(n)
    BY <1>3, <1>4, <1>5 DEF Known
  <2>. QED
    BY <1>3, <2>1, NoTaskMade DEF Paired, Shops, Depots, Accounts, OwnAccount, In
<1>. QED
  BY <1>1, <1>3, <1>6

(***************************************************************************)
(* A tenant that signs up: nobody else administers it.                     *)
(***************************************************************************)
LEMMA RowsMade ==
  /\ [Nobody EXCEPT ![Owner].life = "live"] = OnlyOwner /\ [OnlyOwner EXCEPT ![Owner] = NoLogin] = Nobody
  /\ [NoOutlet EXCEPT ![1] = "live"] = OnlyFirst /\ [OnlyFirst EXCEPT ![1] = "absent"] = NoOutlet
  /\ [NoDepot EXCEPT ![Main] = "live"] = OnlyMain
  /\ [OnlyMain EXCEPT ![Main] = "absent"] = NoDepot /\ [NoDepot EXCEPT ![Main] = "absent"] = NoDepot
  /\ Nobody[Owner].life = "absent" /\ OnlyOwner[Owner].life = "live"
<1>1. Owner \in Logins /\ Main \in Warehouses /\ 1 \in Outlets
  BY TenancyAssumption
<1>2. /\ [NoOutlet EXCEPT ![1] = "live"] = OnlyFirst /\ [OnlyFirst EXCEPT ![1] = "absent"] = NoOutlet
      /\ [NoDepot EXCEPT ![Main] = "live"] = OnlyMain
      /\ [OnlyMain EXCEPT ![Main] = "absent"] = NoDepot /\ [NoDepot EXCEPT ![Main] = "absent"] = NoDepot
  BY <1>1 DEF NoOutlet, OnlyFirst, NoDepot, OnlyMain
<1>3. [Nobody EXCEPT ![Owner].life = "live"] = OnlyOwner
  <2>1. [Nobody EXCEPT ![Owner].life = "live"] = [n \in Logins |-> IF n = Owner THEN [NoLogin EXCEPT !.life = "live"] ELSE NoLogin]
    BY <1>1 DEF Nobody
  <2>2. [NoLogin EXCEPT !.life = "live"] = [life |-> "live", word |-> 0]
    BY DEF NoLogin
  <2>. QED
    BY <2>1, <2>2 DEF OnlyOwner, NoLogin
<1>4. [OnlyOwner EXCEPT ![Owner] = NoLogin] = Nobody
  BY <1>1 DEF Nobody, OnlyOwner, NoLogin
<1>5. Nobody[Owner].life = "absent" /\ OnlyOwner[Owner].life = "live"
  BY <1>1 DEF Nobody, OnlyOwner, NoLogin
<1>. QED
  BY <1>2, <1>3, <1>4, <1>5

LEMMA FoundedGo ==
  ASSUME TenancyTypes, Serial, FoundedInv, NEW w \in Admins, NEW q, StepBy(w, q),
         /\ Calm' /\ Signed /\ Left /\ FoundedAt(Stage(task[w])) /\ task' = [task EXCEPT ![w] = q]
         => Signed' /\ Left' /\ FoundedAt(Stage(q))'
  PROVE  FoundedInv'
<1> SUFFICES ASSUME Calm', "signUp" \in duty' PROVE Signed' /\ Left' /\ \A p : Working(p)' => FoundedAt(Stage(p))'
  BY DEF FoundedInv
<1>1. Calm /\ Working(task[w]) /\ (\A p : Working(p)' => p = q) /\ task' = [task EXCEPT ![w] = q]
  BY Quiet
<1>2. duty' = duty
  BY DEF StepBy, Fail, Admitted, Accept, Advance
<1>3. Signed /\ Left /\ FoundedAt(Stage(task[w]))
  BY <1>1, <1>2 DEF FoundedInv
<1>4. Signed' /\ Left' /\ FoundedAt(Stage(q))'
  BY <1>1, <1>3
<1>5. ASSUME NEW p, Working(p)' PROVE FoundedAt(Stage(p))'
  <2>1. p = q
    BY <1>1, <1>5
  <2>. QED
    BY <1>4, <2>1
<1>. QED
  BY <1>4, <1>5

\* What a step of a sign-up does, from one stage to the next.
LEMMA Founds ==
  ASSUME TenancyTypes, NEW w \in Admins, Signed, Left, NEW s, s = task[w].step, task[w].op = "signUp",
         FoundedAt(s)
  PROVE  /\ MakeTenant(w) => Signed' /\ Left' /\ FoundedAt("made")'
         /\ SetUpUser(w) => Signed' /\ Left' /\ FoundedAt("both")'
         /\ SetUpShop(w) => Signed' /\ Left' /\ FoundedAt("placed")'
         /\ SetUpDepot(w) => Signed' /\ Left' /\ FoundedAt("half")'
         /\ SetUpMain(w) \/ EndSignUp(w) \/ UndoSignUp(w) => Signed' /\ Left' /\ FoundedAt("idle")'
<1>1. Owner \in Logins /\ 1 \in Outlets /\ Main \in Warehouses
  BY TenancyAssumption
<1>2. member \in [Logins -> [Outlets -> Lives]] /\ sub \in [Outlets -> SubRow]
  BY DEF TenancyTypes, TenantTypeOK
<1>3. ASSUME MakeTenant(w) PROVE Signed' /\ Left' /\ FoundedAt("made")'
  <2>1. /\ ~tenant /\ tenant' = TRUE /\ login' = [login EXCEPT ![Owner].life = "live"]
        /\ outlet' = [outlet EXCEPT ![1] = "live"] /\ \A o \in Outlets \ {1} : sub'[o] = sub[o]
        /\ UNCHANGED <<user, member, shop, depot, warehouse>>
    BY <1>2, <1>3 DEF MakeTenant
  <2>2. login = Nobody /\ outlet = NoOutlet /\ depot = NoDepot /\ \A o \in Outlets : sub[o] = NoSub
    BY <2>1 DEF Signed
  <2>3. Signed'
    BY <2>1, <2>2, RowsMade DEF Signed, OnlyOwner, OnlyFirst
  <2>4. Left'
    BY <2>1 DEF Left, OnlyOwner, Nobody, NoOutlet, NoDepot
  <2>. QED
    BY <2>1, <2>2, <2>3, <2>4 DEF FoundedAt, Building, NoDepot, OnlyMain
<1>4. ASSUME SetUpUser(w) PROVE Signed' /\ Left' /\ FoundedAt("both")'
  <2>1. /\ s = "made" /\ user[Owner].life = "absent" /\ user' = [user EXCEPT ![Owner].life = "live"]
        /\ UNCHANGED <<tenant, login, sub, member, outlet, shop, depot, warehouse>>
    BY <1>4 DEF SetUpUser, At, places, bills
  <2>2. user = Nobody /\ shop = NoOutlet /\ warehouse = NoDepot
    BY <2>1, RowsMade DEF Left
  <2>3. tenant /\ depot = NoDepot
    BY <2>1 DEF FoundedAt, Building
  <2>4. user' = OnlyOwner
    BY <2>1, <2>2, RowsMade
  <2>5. Signed'
    BY <2>1 DEF Signed, OnlyOwner, OnlyFirst, Nobody, NoOutlet, NoDepot
  <2>. QED
    BY <2>1, <2>2, <2>3, <2>4, <2>5 DEF Left, FoundedAt, Building, OnlyOwner, NoOutlet, NoDepot, OnlyMain
<1>5. ASSUME SetUpShop(w) PROVE Signed' /\ Left' /\ FoundedAt("placed")'
  <2>1. /\ s = "both" /\ shop' = [shop EXCEPT ![1] = "live"] /\ member'[Owner][1] = "live"
        /\ UNCHANGED <<tenant, login, sub, user, outlet, depot, warehouse>>
    BY <1>1, <1>2, <1>5 DEF SetUpShop, At, bills
  <2>2. tenant /\ depot = NoDepot /\ user = OnlyOwner /\ shop = NoOutlet /\ warehouse = NoDepot
    BY <2>1 DEF FoundedAt, Building
  <2>3. shop' = OnlyFirst
    BY <2>1, <2>2, RowsMade
  <2>4. Signed'
    BY <2>1 DEF Signed, OnlyOwner, OnlyFirst, Nobody, NoOutlet, NoDepot
  <2>. QED
    BY <2>1, <2>2, <2>3, <2>4 DEF Left, FoundedAt, Building, OnlyOwner, OnlyFirst, NoDepot, OnlyMain
<1>6. ASSUME SetUpDepot(w) PROVE Signed' /\ Left' /\ FoundedAt("half")'
  <2>1. /\ s = "placed" /\ depot' = [depot EXCEPT ![Main] = "live"]
        /\ UNCHANGED <<tenant, login, sub, user, member, outlet, shop, warehouse>>
    BY <1>6 DEF SetUpDepot, At, bills, logins
  <2>2. /\ tenant /\ depot = NoDepot /\ user = OnlyOwner /\ shop = OnlyFirst /\ member[Owner][1] = "live"
        /\ warehouse = NoDepot
    BY <2>1 DEF FoundedAt, Building
  <2>3. depot' = OnlyMain
    BY <2>1, <2>2, RowsMade
  <2>4. Signed'
    BY <2>1, <2>2 DEF Signed, OnlyOwner, OnlyFirst
  <2>. QED
    BY <2>1, <2>2, <2>3, <2>4 DEF Left, FoundedAt, Building, OnlyOwner, OnlyFirst, NoDepot, OnlyMain
<1>7. ASSUME SetUpMain(w) PROVE Signed' /\ Left' /\ FoundedAt("idle")'
  <2>1. /\ s = "half" /\ warehouse' = [warehouse EXCEPT ![Main] = "live"]
        /\ UNCHANGED <<tenant, login, sub, user, member, outlet, shop, depot>>
    BY <1>7 DEF SetUpMain, At, bills, logins
  <2>2. /\ tenant /\ depot = OnlyMain /\ user = OnlyOwner /\ shop = OnlyFirst /\ member[Owner][1] = "live"
        /\ warehouse = NoDepot
    BY <2>1 DEF FoundedAt, Building
  <2>3. warehouse' = OnlyMain
    BY <2>1, <2>2, RowsMade
  <2>4. Signed'
    BY <2>1, <2>2 DEF Signed, OnlyOwner, OnlyFirst
  <2>. QED
    BY <2>1, <2>2, <2>3, <2>4 DEF Left, FoundedAt, Building, OnlyOwner, OnlyFirst, NoDepot, OnlyMain
<1>8. ASSUME EndSignUp(w) PROVE Signed' /\ Left' /\ FoundedAt("idle")'
  <2>1. s = "placed" /\ UNCHANGED <<tenant, login, sub, user, member, outlet, shop, depot, warehouse>>
    BY <1>8 DEF EndSignUp, At, bills, logins, places
  <2>2. /\ tenant /\ depot = NoDepot /\ user = OnlyOwner /\ shop = OnlyFirst /\ member[Owner][1] = "live"
        /\ warehouse = NoDepot
    BY <2>1 DEF FoundedAt, Building
  <2>3. Signed'
    BY <2>1, <2>2 DEF Signed, OnlyOwner, OnlyFirst
  <2>. QED
    BY <2>1, <2>2, <2>3 DEF Left, FoundedAt, Building, OnlyOwner, OnlyFirst, NoDepot, OnlyMain
<1>9. ASSUME UndoSignUp(w) PROVE Signed' /\ Left' /\ FoundedAt("idle")'
  <2>1. /\ s \in Building /\ tenant' = FALSE /\ login' = [login EXCEPT ![Owner] = NoLogin]
        /\ outlet' = [outlet EXCEPT ![1] = "absent"] /\ depot' = [depot EXCEPT ![Main] = "absent"]
        /\ sub' = [sub EXCEPT ![1] = NoSub] /\ UNCHANGED <<user, member, shop, warehouse>>
    BY <1>9 DEF UndoSignUp, Building
  <2>2. tenant /\ depot \in {NoDepot, OnlyMain}
    BY <2>1 DEF FoundedAt
  <2>3. login = OnlyOwner /\ outlet = OnlyFirst /\ \A o \in Outlets \ {1} : sub[o] = NoSub
    BY <2>2 DEF Signed
  <2>4. login' = Nobody /\ outlet' = NoOutlet /\ depot' = NoDepot
    BY <2>1, <2>2, <2>3, RowsMade
  <2>5. \A o \in Outlets : sub'[o] = NoSub
    BY <1>2, <2>1, <2>3
  <2>6. Signed'
    BY <2>1, <2>4, <2>5 DEF Signed, Nobody, NoOutlet, NoDepot
  <2>7. Left'
    BY <2>1 DEF Left, OnlyOwner, Nobody, NoOutlet, NoDepot
  <2>. QED
    BY <2>1, <2>4, <2>6, <2>7 DEF FoundedAt, Building, NoDepot, OnlyMain
<1>. QED
  BY <1>3, <1>4, <1>5, <1>6, <1>7, <1>8, <1>9

LEMMA SignUpFounds ==
  ASSUME TenancyTypes, Serial, FoundedInv, NEW w \in Admins, SignUp(w)
  PROVE  FoundedInv'
<1>1. ASSUME NEW plan \in Plans, NEW trial \in BOOLEAN, AskSignUp(w, plan, trial) PROVE FoundedInv'
  <2>1. PICK q : Admitted(w, q) /\ q.op = "signUp"
    BY <1>1, SignUpAsked
  <2>2. task[w] = NoTask /\ UNCHANGED <<tenant, login, user, member, sub, outlet, shop, depot, warehouse>> /\ q.step = "asked"
    BY <2>1 DEF Admitted, Accept, TenancyTypes, Prepared, logins, places, bills
  <2>3. Stage(task[w]) = "idle" /\ Stage(q) = "asked"
    BY <2>1, <2>2, NoTaskMade DEF Stage
  <2>4. FoundedAt("idle") => FoundedAt("asked")'
    BY <2>2 DEF FoundedAt, Building, OnlyOwner, OnlyFirst, OnlyMain, NoDepot, NoOutlet
  <2>5. (Signed => Signed') /\ (Left => Left')
    BY <2>2 DEF Signed, Left, OnlyOwner, Nobody, OnlyFirst, NoDepot, NoOutlet
  <2>. QED
    BY <2>1, <2>3, <2>4, <2>5, FoundedGo DEF StepBy
<1>2. CASE \/ MakeTenant(w) \/ SetUpUser(w) \/ SetUpShop(w) \/ SetUpDepot(w) \/ SetUpMain(w) \/ EndSignUp(w)
           \/ UndoSignUp(w)
  <2>1. task[w].op = "signUp" /\ task[w].step # "idle"
    BY <1>2 DEF MakeTenant, SetUpUser, SetUpShop, SetUpDepot, SetUpMain, EndSignUp, UndoSignUp, At
  <2>2. PICK q : Advance(w, q)
    BY <1>2, SignUpAdvances
  <2>3. PICK s : s = task[w].step
    OBVIOUS
  <2>4. Stage(task[w]) = s
    BY <2>1, <2>3 DEF Stage
  <2>5. task' = [task EXCEPT ![w] = q]
    BY <2>2 DEF Advance
  <2>6. /\ MakeTenant(w) => Stage(q) = "made"
        /\ SetUpUser(w) => Stage(q) = "both"
        /\ SetUpShop(w) => Stage(q) = "placed"
        /\ SetUpDepot(w) => Stage(q) = "half"
        /\ SetUpMain(w) \/ EndSignUp(w) \/ UndoSignUp(w) => Stage(q) = "idle"
    <3>1. ASSUME NEW t \in Steps, Goto(w, t) PROVE Stage(q) = t
      <4>1. Follows(q, task[w], t)
        BY <2>5, <3>1, GotoIs
      <4>. QED
        BY <2>1, <4>1 DEF Stage, Follows
    <3>2. Done(w) => Stage(q) = "idle"
      BY <2>5, DoneIs, NoTaskMade DEF Stage
    <3>. QED
      BY <3>1, <3>2 DEF MakeTenant, SetUpUser, SetUpShop, SetUpDepot, SetUpMain, EndSignUp, UndoSignUp, Steps
  <2>7. Signed /\ Left /\ FoundedAt(s) => Signed' /\ Left' /\ FoundedAt(Stage(q))'
    <3> SUFFICES ASSUME Signed, Left, FoundedAt(s) PROVE Signed' /\ Left' /\ FoundedAt(Stage(q))'
      OBVIOUS
    <3>1. PICK t : t = Stage(q)
      OBVIOUS
    <3>2. Signed' /\ Left' /\ FoundedAt(t)'
      BY <1>2, <2>1, <2>3, <2>6, <3>1, Founds
    <3>. QED
      BY <3>1, <3>2 DEF FoundedAt, Stage
  <2>. QED
    BY <2>2, <2>4, <2>7, FoundedGo DEF StepBy
<1>. QED
  BY <1>1, <1>2 DEF SignUp

\* The other operations are for a tenant that stands.
LEMMA OthersFound ==
  ASSUME TenancyTypes, NEW w \in Admins, NEW q, NEW ops, Of(w, q, ops), ops \subseteq Chores \ {"signUp"}
  PROVE  "signUp" \notin duty'
<1>1. duty' = duty
  BY DEF Of, StepBy, Fail, Admitted, Accept, Advance
<1>2. CASE task[w].step # "idle"
  <2>1. task[w].op # "signUp"
    BY <1>2, NoTaskMade DEF Of
  <2>. QED
    BY <1>1, <1>2, <2>1, SignUpAlone
<1>3. CASE task[w].step = "idle"
  <2>1. Admitted(w, q)
    BY <1>3 DEF Of, StepBy, Fail, Advance
  <2>2. q.op \in duty /\ q.op # "signUp" /\ duty \in Duties
    BY <2>1, NoTaskMade DEF Of, Admitted, Accept, TenancyTypes, TenantTypeOK
  <2>. QED
    BY <1>1, <2>2, TenancyAssumption
<1>. QED
  BY <1>2, <1>3

LEMMA OthersStand ==
  ASSUME TenancyTypes, NEW w \in Admins, AnyLogin(w) \/ AnyWarehouse(w) \/ AnyOutlet(w) \/ AnyPlan(w)
  PROVE  "signUp" \notin duty'
<1>1. PICK q, ops : Of(w, q, ops) /\ ops \subseteq Chores \ {"signUp"}
  <2>1. CASE AnyLogin(w)
    <3>1. LoginWork \subseteq Chores \ {"signUp"}
      BY DEF LoginWork, Chores, LoginOps, OutletOps
    <3>. QED
      BY <2>1, <3>1, OfLogins
  <2>2. CASE AnyWarehouse(w)
    <3>1. WarehouseWork \subseteq Chores \ {"signUp"}
      BY DEF WarehouseWork, Chores, WarehouseOps
    <3>. QED
      BY <2>2, <3>1, OfWarehouses DEF AnyWarehouse
  <2>3. CASE AnyOutlet(w) \/ AnyPlan(w)
    <3>1. \A ops \in {{"addOutlet"}, {"dropOutlet"}, {"pay"}, {"customPrice"}, {"changePlan"}, {"loyaltyOn", "loyaltyOff"}} :
            ops \subseteq Chores \ {"signUp"}
      BY DEF Chores, OutletOps, PlanOps
    <3>2. PICK q : \E ops \in {{"addOutlet"}, {"dropOutlet"}, {"pay"}, {"customPrice"}, {"changePlan"}, {"loyaltyOn", "loyaltyOff"}} :
            Of(w, q, ops)
      <4>1. CASE AddOutlet(w) \/ \E o \in Outlets : DropOutlet(w, o)
        <5>1. PICK q : Of(w, q, {"addOutlet"}) \/ Of(w, q, {"dropOutlet"})
          BY <4>1, OfAddOutlet, OfDropOutlet
        <5>. QED
          BY <5>1
      <4>2. CASE \E o \in Outlets : RecordPayment(w, o) \/ CustomPrice(w, o)
        <5>1. PICK q : Of(w, q, {"pay"}) \/ Of(w, q, {"customPrice"})
          BY <4>2, OfPayments, OfPrices
        <5>. QED
          BY <5>1
      <4>3. CASE ChangePlan(w)
        <5>1. PICK q : Of(w, q, {"changePlan"})
          BY <4>3, OfPlans
        <5>. QED
          BY <5>1
      <4>4. CASE LoyaltyStep(w)
        <5>1. PICK q : Of(w, q, {"loyaltyOn", "loyaltyOff"})
          BY <4>4, OfLoyalty
        <5>. QED
          BY <5>1
      <4>. QED
        BY <2>3, <4>1, <4>2, <4>3, <4>4 DEF AnyOutlet, AnyPlan, LoyaltyStep
    <3>. QED
      BY <3>1, <3>2
  <2>. QED
    BY <2>1, <2>2, <2>3
<1>. QED
  BY <1>1, OthersFound

LEMMA FoundedStep ==
  ASSUME TenancyTypes, Serial, FoundedInv, [TenantNext]_tenantVars
  PROVE  FoundedInv'
<1>1. CASE UNCHANGED tenantVars \/ Tick
  <2>1. UNCHANGED <<duty, tenant, login, user, member, sub, outlet, shop, depot, warehouse, task, overlapped, cut>>
    BY <1>1 DEF tenantVars, Tick, places, logins, bills
  <2>2. (Signed => Signed') /\ (Left => Left') /\ (Calm' => Calm)
    BY <2>1 DEF Signed, Left, Calm, OnlyOwner, Nobody, OnlyFirst, NoDepot, NoOutlet
  <2>3. \A p : Working(p)' => Working(p)
    BY <2>1 DEF Working, Idle, Lone
  <2>4. \A s : FoundedAt(s) => FoundedAt(s)'
    BY <2>1 DEF FoundedAt, OnlyOwner, OnlyFirst, OnlyMain, NoDepot, NoOutlet
  <2>5. \A p : FoundedAt(Stage(p)) => FoundedAt(Stage(p))'
    BY <2>4 DEF Stage, FoundedAt
  <2>. QED
    BY <2>1, <2>2, <2>3, <2>5 DEF FoundedInv
<1>2. ASSUME NEW w \in Admins, Fail(w) PROVE FoundedInv'
  <2>1. StepBy(w, NoTask)
    BY <1>2 DEF StepBy
  <2>2. UNCHANGED <<tenant, login, user, member, sub, outlet, shop, depot, warehouse>>
    BY <1>2 DEF Fail, places, logins, bills
  <2>3. (Signed => Signed') /\ (Left => Left')
    BY <2>2 DEF Signed, Left, OnlyOwner, Nobody, OnlyFirst, NoDepot, NoOutlet
  <2>4. ASSUME Calm', FoundedAt(Stage(task[w])) PROVE FoundedAt(Stage(NoTask))'
    <3>1. task[w].step \in {"asked", "open"}
      BY <1>2, <2>1, <2>4, Quiet
    <3>2. PICK s : s = Stage(task[w])
      OBVIOUS
    <3>3. s \in {"asked", "open", "idle"}
      BY <3>1, <3>2 DEF Stage
    <3>4. FoundedAt("idle")'
      BY <2>2, <2>4, <3>2, <3>3 DEF FoundedAt, Building, OnlyOwner, OnlyFirst, OnlyMain, NoDepot, NoOutlet
    <3>5. Stage(NoTask) = "idle"
      BY NoTaskMade DEF Stage
    <3>. QED
      BY <3>4, <3>5
  <2>. QED
    BY <2>1, <2>3, <2>4, FoundedGo
<1>3. ASSUME NEW w \in Admins, AnyLogin(w) \/ AnyWarehouse(w) \/ AnyOutlet(w) \/ AnyPlan(w) PROVE FoundedInv'
  BY <1>3, OthersStand DEF FoundedInv
<1>. QED
  BY <1>1, <1>2, <1>3, SignUpFounds, Zenon DEF TenantNext

LEMMA FoundedStart == TenantInit => FoundedInv
<1> SUFFICES ASSUME TenantInit, "signUp" \in duty PROVE Signed /\ Left /\ \A p : Working(p) => FoundedAt(Stage(p))
  BY DEF FoundedInv
<1>1. \A p : Working(p) => Stage(p) = "idle"
  BY NoTaskMade DEF TenantInit, Working, Stage
<1>2. Empty
  BY DEF TenantInit
<1>. QED
  BY <1>1, <1>2 DEF Empty, Signed, Left, FoundedAt, Building, Nobody, NoOutlet, NoDepot, OnlyOwner

\* The databases agree whenever every request of a behaviour ran alone and to its
\* end or to its undoing: the handlers that write one row after the other finish
\* the pair they began, and what undoes a sign-up leaves nothing in the global one.
THEOREM DatabasesStayPaired == TenantSpec => []BothAgree
<1> DEFINE Inv == TenancyTypes /\ Serial /\ KeptInv /\ PairedInv /\ FoundedInv
<1>1. TenantInit => Inv
  BY TypesStart, SerialStart, KeptStart, PairedStart, FoundedStart
<1>2. Inv /\ [TenantNext]_tenantVars => Inv'
  BY TypesStep, SerialStep, KeptStep, PairedStep, FoundedStep
<1>3. Inv => BothAgree
  <2> SUFFICES ASSUME Inv, Tidy PROVE DatabasesAgree
    BY DEF BothAgree, DatabasesAgree, TenancyTypes
  <2>1. Working(NoTask) /\ Calm
    BY DEF Tidy, Working, Calm
  <2>2. CASE "signUp" \notin duty
    <3>1. tenant /\ Shops(NoTask) /\ Depots(NoTask) /\ Accounts(NoTask)
      BY <2>1, <2>2 DEF PairedInv, Paired
    <3>2. shop = outlet /\ warehouse = depot
      BY <3>1, NoTaskMade DEF Shops, Depots, In
    <3>3. \A n \in Logins : Known(n)
      BY <3>1, AllKnown, NoTaskMade DEF Between, In
    <3>. QED
      BY <3>1, <3>2, <3>3 DEF DatabasesAgree, Known, Member
  <2>3. CASE "signUp" \in duty
    <3>1. Signed /\ FoundedAt(Stage(NoTask))
      BY <2>1, <2>3 DEF FoundedInv
    <3>2. Stage(NoTask) = "idle"
      BY NoTaskMade DEF Stage
    <3>3. FoundedAt("idle")
      BY <3>1, <3>2
    <3>4. CASE tenant
      <4>1. user = login /\ shop = outlet /\ warehouse = depot /\ login = OnlyOwner /\ member[Owner][1] = "live"
        BY <3>1, <3>3, <3>4 DEF Signed, FoundedAt, Building
      <4>2. \A n \in Logins : login[n].life # "absent" => n = Owner
        BY <4>1 DEF OnlyOwner
      <4>3. 1 \in Outlets
        BY TenancyAssumption
      <4>. QED
        BY <3>4, <4>1, <4>2, <4>3 DEF DatabasesAgree
    <3>5. CASE ~tenant
      <4>1. login = Nobody /\ outlet = NoOutlet /\ depot = NoDepot /\ \A o \in Outlets : sub[o] = NoSub
        BY <3>1, <3>5 DEF Signed
      <4>2. \A n \in Logins : login[n] = NoLogin /\ login[n].life = "absent"
        BY <4>1 DEF Nobody, NoLogin
      <4>. QED
        BY <3>5, <4>1, <4>2 DEF DatabasesAgree, NoOutlet, NoDepot
    <3>. QED
      BY <3>4, <3>5
  <2>. QED
    BY <2>2, <2>3
<1> HIDE DEF Inv
<1>. QED
  BY <1>1, <1>2, <1>3, PTL DEF TenantSpec

LEMMA SumOverMonotone ==
  ASSUME NEW S, IsFiniteSet(S), NEW f, NEW g,
         \A x \in S : f[x] \in Int /\ g[x] \in Int /\ f[x] <= g[x]
  PROVE  SumOver(f, S) <= SumOver(g, S)
<1> DEFINE h == [x \in S |-> g[x] - f[x]]
<1>1. \A x \in S : h[x] \in Nat /\ f[x] \in Int /\ h[x] \in Int /\ g[x] = f[x] + h[x]
  OBVIOUS
<1> HIDE DEF h
<1>2. SumOver(g, S) = SumOver(f, S) + SumOver(h, S)
  BY <1>1, SumOverPlus
<1>3. SumOver(h, S) \in Nat /\ SumOver(f, S) \in Int
  BY <1>1, SumOverNat, SumOverInt
<1>. QED
  BY <1>2, <1>3

(***************************************************************************)
(* What the portal says a tenant costs.                                    *)
(***************************************************************************)
LEMMA FiguresAre ==
  /\ TenantCost = AddOnCost + SumOver([o \in Charged(sub) |-> Less(PlanCost(sub[o]), Portion(sub[o]) + Bears(o))], Charged(sub))
  /\ DashboardCost = AddOnCost + SumOver([o \in Charged(sub) |-> Less(PlanCost(sub[o]), Portion(sub[o]) + Reckons(o))], Charged(sub))
<1>1. TenantCost = AddOnCost + SumOver([o \in Charged(sub) |-> Less(PlanCost(sub[o]), Portion(sub[o]) + Bears(o))], Charged(sub))
  BY DEF TenantCost, Fixed, Whole, Before, Bears
<1>2. DashboardCost = AddOnCost + SumOver([o \in Charged(sub) |-> Less(PlanCost(sub[o]), Portion(sub[o]) + Reckons(o))], Charged(sub))
  BY DEF DashboardCost, Leads, Reckons
<1>. QED
  BY <1>1, <1>2

LEMMA PercentOf ==
  ASSUME NEW c \in Nat, NEW v \in Nat
  PROVE  (c * v) \div 100 \in Nat /\ (v <= 100 => (c * v) \div 100 <= c)
<1>1. c * v \in Nat
  OBVIOUS
<1>2. ASSUME v <= 100 PROVE c * v <= c * 100
  BY <1>2
<1>3. PICK m \in Nat : m = c * v
  BY <1>1
<1>4. m \div 100 \in Nat /\ (m <= c * 100 => m \div 100 <= c)
  OBVIOUS
<1>. QED
  BY <1>2, <1>3, <1>4

LEMMA CostsTyped ==
  ASSUME NEW s \in SubRow
  PROVE  /\ PlanCost(s) \in Nat /\ Share(s) \in Nat /\ Portion(s) \in Nat /\ OffOne(s) \in Nat
         /\ s.offer \in Offers \cup {NoOffer} /\ s.until \in Int
         /\ s.offer.kind \in {"none", "fixed", "percentage"} /\ s.offer.value \in Nat
         /\ s.offer.kind = "none" => s.offer = NoOffer
         /\ Portion(s) <= Share(s) /\ OffOne(s) <= PlanCost(s)
         /\ s.offer.kind # "percentage" => Share(s) = 0 /\ Portion(s) = 0
         /\ s.offer.kind # "fixed" => OffOne(s) = Share(s)
         /\ s.offer.kind = "fixed" => OffOne(s) = Smaller(s.offer.value, PlanCost(s))
         /\ s.offer.onPlan => Portion(s) = Share(s)
         /\ s.offer = NoOffer => s.offer.kind = "none"
<1>1. /\ s.price \in Customs \cup {NoPrice} /\ s.plan \in Plans /\ s.offer \in Offers \cup {NoOffer}
      /\ s.until \in Int
  BY DEF SubRow
<1>2. PlanCost(s) \in Nat
  <2>1. Price[s.plan] \in Nat
    BY <1>1, TenancyAssumption
  <2>2. s.price # NoPrice => s.price \in Nat
    BY <1>1, TenancyAssumption
  <2>3. FullPrice(s) \in Nat
    BY <2>1, <2>2 DEF FullPrice
  <2>. QED
    BY <2>3 DEF PlanCost
<1>3. /\ s.offer.kind \in {"none", "fixed", "percentage"} /\ s.offer.value \in Nat /\ s.offer.onPlan \in BOOLEAN
      /\ s.offer.kind = "none" => s.offer = NoOffer
      /\ s.offer = NoOffer => s.offer.kind = "none"
      /\ s.offer.kind = "percentage" => s.offer.value <= 100
  <2>1. CASE s.offer = NoOffer
    BY <2>1 DEF NoOffer
  <2>2. CASE s.offer \in Offers
    <3>1. /\ s.offer \in [kind: {"percentage", "fixed"}, value: Nat, onPlan: BOOLEAN]
          /\ s.offer.kind = "percentage" => s.offer.value <= 100
      BY <2>2, TenancyAssumption
    <3>. QED
      BY <3>1 DEF NoOffer
  <2>. QED
    BY <1>1, <2>1, <2>2
<1>4. PICK c, v, k : c \in Nat /\ v \in Nat /\ c = PlanCost(s) /\ v = s.offer.value /\ k = s.offer.kind
  BY <1>2, <1>3
<1>5. Share(s) = (IF k = "percentage" THEN (c * v) \div 100 ELSE 0)
  BY <1>4 DEF Share
<1>6. Share(s) \in Nat /\ (k = "percentage" => Share(s) <= c)
  BY <1>3, <1>4, <1>5, PercentOf
<1>7. Portion(s) \in Nat /\ Portion(s) <= Share(s) /\ (s.offer.onPlan => Portion(s) = Share(s))
  BY <1>3, <1>6 DEF Portion
<1>8. OffOne(s) = (IF k = "fixed" THEN Smaller(v, c) ELSE Share(s))
  BY <1>4 DEF OffOne
<1>9. OffOne(s) \in Nat /\ OffOne(s) <= c
  BY <1>3, <1>4, <1>5, <1>6, <1>8 DEF Smaller
<1>10. k # "percentage" => Share(s) = 0 /\ Portion(s) = 0
  BY <1>5, <1>6, <1>7
<1>. QED
  BY <1>1, <1>2, <1>3, <1>4, <1>6, <1>7, <1>8, <1>9, <1>10

LEMMA AddOnsCost == TenantTypeOK => AddOnCost \in Nat
<1> SUFFICES ASSUME TenantTypeOK PROVE AddOnCost \in Nat
  OBVIOUS
<1>1. ASSUME NEW S \in SUBSET {"user", "warehouse", "loyalty"} PROVE SumOver([a \in S |-> Fee[a] * addOn[a]], S) \in Nat
  <2> DEFINE f == [a \in S |-> Fee[a] * addOn[a]]
  <2>1. IsFiniteSet({"user", "warehouse", "loyalty"})
    <3>1. IsFiniteSet({"user"}) /\ IsFiniteSet({"warehouse"}) /\ IsFiniteSet({"loyalty"})
      BY FS_Singleton
    <3>2. IsFiniteSet({"user"} \cup {"warehouse"})
      BY <3>1, FS_Union
    <3>3. IsFiniteSet(({"user"} \cup {"warehouse"}) \cup {"loyalty"})
      BY <3>1, <3>2, FS_Union
    <3>4. ({"user"} \cup {"warehouse"}) \cup {"loyalty"} = {"user", "warehouse", "loyalty"}
      OBVIOUS
    <3>. QED
      BY <3>3, <3>4
  <2>2. IsFiniteSet(S)
    BY <2>1, FS_Subset
  <2>3. \A a \in S : f[a] \in Nat
    <3> SUFFICES ASSUME NEW a \in S PROVE Fee[a] * addOn[a] \in Nat
      OBVIOUS
    <3>1. Fee[a] \in Nat
      BY TenancyAssumption
    <3>2. addOn[a] \in Nat
      BY DEF TenantTypeOK
    <3>3. \A x, y \in Nat : x * y \in Nat
      OBVIOUS
    <3>. QED
      BY <3>1, <3>2, <3>3, Zenon
  <2> HIDE DEF f
  <2>4. SumOver(f, S) \in Nat
    BY <2>2, <2>3, SumOverNat
  <2>. QED
    BY <2>4 DEF f
<1>2. PICK S \in SUBSET {"user", "warehouse", "loyalty"} : AddOnCost = SumOver([a \in S |-> Fee[a] * addOn[a]], S)
  <2>1. CASE vertical = "Laundry" /\ HasPrimary
    <3>1. AddOnCost = SumOver([a \in {"user", "warehouse"} |-> Fee[a] * addOn[a]], {"user", "warehouse"})
      BY <2>1 DEF AddOnCost
    <3>. QED
      BY <3>1
  <2>2. CASE ~(vertical = "Laundry" /\ HasPrimary)
    <3>1. AddOnCost = SumOver([a \in {"user", "warehouse", "loyalty"} |-> Fee[a] * addOn[a]], {"user", "warehouse", "loyalty"})
      BY <2>2 DEF AddOnCost
    <3>. QED
      BY <3>1
  <2>. QED
    BY <2>1, <2>2
<1>. QED
  BY <1>1, <1>2

LEMMA BearsTyped ==
  ASSUME TenantTypeOK, NEW o \in Charged(sub)
  PROVE  Before(o) \in Nat /\ Whole \in Nat /\ Bears(o) \in Nat /\ (Whole = 0 => Bears(o) = 0)
         /\ (Before(o) >= Whole => Bears(o) = 0)
<1>1. Charged(sub) \in SUBSET Outlets /\ sub \in [Outlets -> SubRow]
  BY DEF Charged, TenantTypeOK
<1> DEFINE c == [p \in Charged(sub) |-> PlanCost(sub[p])]
           P == {p \in Charged(sub) : p < o}
<1>2. \A p \in Charged(sub) : c[p] \in Nat
  BY <1>1, CostsTyped
<1> HIDE DEF c
<1>3. IsFiniteSet(P)
  BY <1>1, CountsTyped
<1>4. SumOver(c, P) \in Nat
  BY <1>2, <1>3, SumOverNat
<1>5. Before(o) \in Nat
  BY <1>4 DEF Before, c, P
<1>6. Whole \in Nat
  <2>1. Fixed # {} => Min(Fixed) \in Charged(sub)
    BY <1>1, FewestOutlet DEF Fixed
  <2>. QED
    BY <1>1, <2>1, CostsTyped DEF Whole
<1>7. PlanCost(sub[o]) \in Nat
  BY <1>1, CostsTyped
<1>8. PICK b \in Nat, h \in Nat, k \in Nat : b = Before(o) /\ h = Whole /\ k = PlanCost(sub[o])
  BY <1>5, <1>6, <1>7
<1>9. Bears(o) = Smaller(Less(h, b), k)
  BY <1>8 DEF Bears, Used
<1>. QED
  BY <1>8, <1>9 DEF Smaller, Less

LEMMA FiguresStand ==
  ASSUME TenantTypeOK, {o \in LiveOutlets : sub[o].status # "none"} = Charged(sub)
  PROVE  \E c, t, d, s : Figures(Charged(sub), c, t, d, s)
<1>1. Charged(sub) \in SUBSET Outlets /\ sub \in [Outlets -> SubRow]
  BY DEF Charged, TenantTypeOK
<1>2. PICK O : O = Charged(sub)
  OBVIOUS
<1>3. PICK c : c = [o \in O |-> PlanCost(sub[o])]
  OBVIOUS
<1>4. PICK t : t = [o \in O |-> Less(PlanCost(sub[o]), Portion(sub[o]) + Bears(o))]
  OBVIOUS
<1>5. PICK d : d = [o \in O |-> Less(PlanCost(sub[o]), Portion(sub[o]) + Reckons(o))]
  OBVIOUS
<1>6. PICK s : s = [o \in Outlets |-> Less(PlanCost(sub[o]), OffOne(sub[o]))]
  OBVIOUS
<1>7. TenantCost = AddOnCost + SumOver(t, O) /\ DashboardCost = AddOnCost + SumOver(d, O)
  BY <1>2, <1>4, <1>5, FiguresAre
<1>8. SummaryCost = AddOnCost + SumOver(s, O)
  BY <1>2, <1>6 DEF SummaryCost
<1>9. ASSUME NEW o \in O
      PROVE  /\ c[o] = PlanCost(sub[o]) /\ t[o] = Less(c[o], Portion(sub[o]) + Bears(o))
             /\ d[o] = Less(c[o], Portion(sub[o]) + Reckons(o)) /\ s[o] = Less(c[o], OffOne(sub[o]))
             /\ c[o] \in Nat /\ t[o] \in Nat /\ d[o] \in Nat /\ s[o] \in Nat
             /\ Bears(o) \in Nat /\ Reckons(o) \in Nat
  <2>1. o \in Charged(sub) /\ o \in Outlets /\ sub[o] \in SubRow
    BY <1>1, <1>2, <1>9
  <2>2. PICK k \in Nat, y \in Nat, z \in Nat, v \in Nat :
           k = PlanCost(sub[o]) /\ y = Portion(sub[o]) /\ z = OffOne(sub[o]) /\ v = sub[o].offer.value
    BY <2>1, CostsTyped
  <2>3. Bears(o) \in Nat
    BY <2>1, BearsTyped
  <2>4. Reckons(o) \in Nat
    BY <2>2 DEF Reckons, Smaller
  <2>5. c[o] = k /\ t[o] = Less(k, y + Bears(o)) /\ d[o] = Less(k, y + Reckons(o)) /\ s[o] = Less(k, z)
    BY <1>3, <1>4, <1>5, <1>6, <1>9, <2>1, <2>2
  <2>. QED
    BY <2>2, <2>3, <2>4, <2>5 DEF Less
<1>. QED
  BY <1>2, <1>7, <1>8, <1>9 DEF Figures

LEMMA SameFigures ==
  ASSUME TenantTypeOK, NEW O \in SUBSET Outlets, NEW f, NEW g, \A o \in O : f[o] \in Nat /\ g[o] = f[o]
  PROVE  SumOver(f, O) = SumOver(g, O)
<1>1. IsFiniteSet(O)
  BY CountsTyped
<1>2. \A o \in O : f[o] \in Int /\ f[o] = g[o]
  OBVIOUS
<1>. QED
  BY <1>1, <1>2, SumOverSame

LEMMA NoneFixed ==
  ASSUME TenantTypeOK, \A o \in Charged(sub) : sub[o].offer.kind # "fixed"
  PROVE  \A o \in Charged(sub) : Bears(o) = 0 /\ Reckons(o) = 0
<1>1. Whole = 0
  BY DEF Whole, Fixed
<1>. QED
  BY <1>1, BearsTyped DEF Reckons

LEMMA PlainAgree ==
  ASSUME NEW O, NEW c, NEW t, NEW d, NEW s, NEW last, Priceable(O, c, t, d, s, last),
         \A o \in O : sub[o].offer = NoOffer
  PROVE  TenantCost = DashboardCost /\ TenantCost = SummaryCost /\ TenantCost = UpcomingCost(last)
<1>1. \A o \in O : sub[o].offer.kind = "none"
  BY CostsTyped DEF Priceable
<1>2. \A o \in O : Bears(o) = 0 /\ Reckons(o) = 0
  BY <1>1, NoneFixed DEF Priceable
<1>3. ASSUME NEW o \in O PROVE c[o] \in Nat /\ t[o] = c[o] /\ d[o] = c[o] /\ s[o] = c[o]
  <2>1. Portion(sub[o]) = 0 /\ OffOne(sub[o]) = 0
    BY <1>1, CostsTyped DEF Priceable
  <2>2. c[o] \in Nat /\ t[o] = Less(c[o], 0) /\ d[o] = Less(c[o], 0) /\ s[o] = Less(c[o], 0)
    BY <1>2, <2>1 DEF Priceable, Figures
  <2>. QED
    BY <2>2 DEF Less
<1>4. SumOver(c, O) = SumOver(t, O) /\ SumOver(c, O) = SumOver(d, O) /\ SumOver(c, O) = SumOver(s, O)
  BY <1>3, SameFigures DEF Priceable
<1>. QED
  BY <1>4 DEF Priceable, Figures

LEMMA SharesAgree ==
  ASSUME NEW O, NEW c, NEW t, NEW d, NEW s, NEW last, Priceable(O, c, t, d, s, last),
         \A o \in O : sub[o].offer.onPlan /\ sub[o].offer.kind = "percentage"
  PROVE  TenantCost = DashboardCost /\ TenantCost = SummaryCost
<1>1. \A o \in O : Bears(o) = 0 /\ Reckons(o) = 0
  BY NoneFixed DEF Priceable
<1>2. ASSUME NEW o \in O PROVE s[o] \in Nat /\ t[o] = s[o] /\ d[o] = s[o]
  <2>1. Portion(sub[o]) \in Nat /\ OffOne(sub[o]) = Portion(sub[o])
    BY CostsTyped DEF Priceable
  <2>2. /\ s[o] \in Nat /\ s[o] = Less(c[o], OffOne(sub[o])) /\ t[o] = Less(c[o], Portion(sub[o]) + 0)
        /\ d[o] = Less(c[o], Portion(sub[o]) + 0)
    BY <1>1 DEF Priceable, Figures
  <2>. QED
    BY <2>1, <2>2
<1>3. SumOver(s, O) = SumOver(t, O) /\ SumOver(s, O) = SumOver(d, O)
  BY <1>2, SameFigures DEF Priceable
<1>. QED
  BY <1>3 DEF Priceable, Figures

LEMMA FirstBears ==
  ASSUME NEW O, NEW c, NEW t, NEW d, NEW s, NEW last, Priceable(O, c, t, d, s, last), O # {},
         Fixed = {Min(O)}, sub[Min(O)].offer.value <= PlanCost(sub[Min(O)])
  PROVE  /\ Bears(Min(O)) = Smaller(sub[Min(O)].offer.value, PlanCost(sub[Min(O)]))
         /\ \A o \in O \ {Min(O)} : Bears(o) = 0
<1>1. PICK m : m = Min(O)
  OBVIOUS
<1>2. O \in SUBSET Outlets /\ O = Charged(sub) /\ TenantTypeOK
  BY DEF Priceable
<1>3. m \in O /\ m \in Outlets /\ \A o \in O : m <= o
  BY <1>1, <1>2, FewestOutlet
<1>4. {m} \in SUBSET Outlets /\ {m} # {}
  BY <1>3
<1>5. Min({m}) = m
  BY <1>4, FewestOutlet
<1>6. PICK v \in Nat, k \in Nat : v = sub[m].offer.value /\ k = PlanCost(sub[m])
  BY <1>3, CostsTyped DEF Priceable
<1>7. Whole = v /\ v <= k
  BY <1>1, <1>5, <1>6 DEF Whole
<1>8. Outlets \subseteq Nat
  BY TenancyAssumption
<1> DEFINE f == [p \in Charged(sub) |-> PlanCost(sub[p])]
<1>9. \A p \in O : f[p] \in Nat /\ f[p] = PlanCost(sub[p])
  BY <1>2, CostsTyped DEF Priceable
<1>10. Bears(m) = Smaller(v, k)
  <2>1. {p \in Charged(sub) : p < m} = {}
    BY <1>2, <1>3, <1>8
  <2>2. Before(m) = 0
    BY <2>1, SumOverEmpty DEF Before
  <2>3. Bears(m) = Smaller(Less(v, 0), k)
    BY <1>6, <1>7, <2>2 DEF Bears, Used
  <2>. QED
    BY <1>6, <2>3 DEF Less
<1>11. ASSUME NEW o \in O \ {m} PROVE Bears(o) = 0
  <2> DEFINE P == {p \in Charged(sub) : p < o}
  <2>1. m \in P /\ P \subseteq O
    BY <1>2, <1>3, <1>8
  <2>2. IsFiniteSet(P) /\ IsFiniteSet(P \ {m})
    BY <1>2, CountsTyped
  <2>3. Before(o) = SumOver(f, P)
    BY DEF Before
  <2> HIDE DEF f, P
  <2>4. \A p \in P : f[p] \in Nat
    BY <1>9, <2>1
  <2>5. SumOver(f, P) = SumOver(f, P \ {m}) + f[m]
    BY <2>1, <2>2, <2>4, SumOverRemove
  <2>6. SumOver(f, P \ {m}) \in Nat
    BY <2>2, <2>4, SumOverNat
  <2>7. f[m] = k
    BY <1>3, <1>6, <1>9
  <2>8. Before(o) >= Whole
    BY <1>6, <1>7, <2>3, <2>5, <2>6, <2>7
  <2>. QED
    BY <1>2, <2>8, BearsTyped
<1>. QED
  BY <1>1, <1>6, <1>10, <1>11

LEMMA FirstAgrees ==
  ASSUME NEW O, NEW c, NEW t, NEW d, NEW s, NEW last, Priceable(O, c, t, d, s, last), O # {},
         Fixed = {Min(O)}, sub[Min(O)].offer.value <= PlanCost(sub[Min(O)]), \A o \in O \ Fixed : sub[o].offer = NoOffer
  PROVE  TenantCost = DashboardCost /\ TenantCost = SummaryCost
<1>1. PICK m : m = Min(O)
  OBVIOUS
<1>2. /\ m \in O /\ m \in Outlets /\ \A o \in O : m <= o
  BY <1>1, FewestOutlet DEF Priceable
<1>3. sub[m].offer.kind = "fixed"
  BY <1>1 DEF Fixed
<1>4. ASSUME NEW o \in O PROVE s[o] \in Nat /\ t[o] = s[o] /\ d[o] = s[o]
  <2>1. /\ s[o] \in Nat /\ s[o] = Less(c[o], OffOne(sub[o])) /\ t[o] = Less(c[o], Portion(sub[o]) + Bears(o))
        /\ d[o] = Less(c[o], Portion(sub[o]) + Reckons(o)) /\ Bears(o) \in Nat /\ Reckons(o) \in Nat
    BY DEF Priceable, Figures
  <2>2. CASE o = m
    <3>1. Leads(o)
      BY <1>2, <2>2 DEF Leads, Priceable
    <3>2. Reckons(o) = OffOne(sub[o]) /\ Portion(sub[o]) = 0
      BY <1>3, <2>2, <3>1, CostsTyped DEF Reckons, Priceable
    <3>3. Bears(o) = OffOne(sub[o])
      BY <1>1, <1>3, <2>2, FirstBears, CostsTyped DEF Priceable
    <3>. QED
      BY <2>1, <3>2, <3>3
  <2>3. CASE o # m
    <3>1. Bears(o) = 0
      BY <1>1, <2>3, FirstBears
    <3>2. sub[o].offer.kind = "none"
      BY <1>1, <2>3, CostsTyped DEF Priceable
    <3>3. Reckons(o) = 0 /\ Portion(sub[o]) = 0 /\ OffOne(sub[o]) = 0
      BY <3>2, CostsTyped DEF Reckons, Priceable
    <3>. QED
      BY <2>1, <3>1, <3>3
  <2>. QED
    BY <2>2, <2>3
<1>5. SumOver(s, O) = SumOver(t, O) /\ SumOver(s, O) = SumOver(d, O)
  BY <1>4, SameFigures DEF Priceable
<1>. QED
  BY <1>5 DEF Priceable, Figures

LEMMA FiguresOrdered ==
  ASSUME NEW O, NEW c, NEW t, NEW d, NEW s, NEW last, Priceable(O, c, t, d, s, last)
  PROVE  SummaryCost <= DashboardCost /\ DashboardCost <= UpcomingCost(last)
<1>1. ASSUME NEW o \in O PROVE c[o] \in Nat /\ d[o] \in Nat /\ s[o] \in Nat /\ s[o] <= d[o] /\ d[o] <= c[o]
  <2>1. PICK k \in Nat, y \in Nat, z \in Nat, x \in Nat :
          /\ k = c[o] /\ y = Portion(sub[o]) /\ z = OffOne(sub[o]) /\ x = Reckons(o) /\ k = PlanCost(sub[o])
          /\ d[o] = Less(k, y + x) /\ s[o] = Less(k, z)
    BY CostsTyped DEF Priceable, Figures
  <2>2. y + x <= z
    <3>1. CASE sub[o].offer.kind = "fixed"
      <4>1. y = 0 /\ z = Smaller(sub[o].offer.value, k) /\ sub[o].offer.value \in Nat
        BY <2>1, <3>1, CostsTyped DEF Priceable
      <4>. QED
        BY <2>1, <4>1 DEF Reckons, Smaller
    <3>2. CASE sub[o].offer.kind # "fixed"
      <4>1. x = 0 /\ z = Share(sub[o]) /\ y <= Share(sub[o])
        BY <2>1, <3>2, CostsTyped DEF Priceable, Reckons
      <4>. QED
        BY <2>1, <4>1
    <3>. QED
      BY <3>1, <3>2
  <2>. QED
    BY <2>1, <2>2 DEF Less
<1>2. IsFiniteSet(O)
  BY CountsTyped DEF Priceable
<1>3. SumOver(s, O) <= SumOver(d, O) /\ SumOver(d, O) <= SumOver(c, O)
  BY <1>1, <1>2, SumOverMonotone
<1>4. SumOver(s, O) \in Nat /\ SumOver(d, O) \in Nat /\ SumOver(c, O) \in Nat /\ AddOnCost \in Nat
  BY <1>1, <1>2, SumOverNat, AddOnsCost DEF Priceable
<1>. QED
  BY <1>3, <1>4 DEF Priceable, Figures

LEMMA SnapshotAgrees ==
  ASSUME NEW O, NEW c, NEW t, NEW d, NEW s, NEW last, Priceable(O, c, t, d, s, last), NEW o \in O, O = {o}
  PROVE  SnapshotCost(sub[o], 0) = SummaryCost
<1>1. PICK k \in Nat, z \in Nat, a \in Nat :
        k = PlanCost(sub[o]) /\ z = OffOne(sub[o]) /\ z <= k /\ a = AddOnCost /\ s[o] = Less(k, z)
  BY CostsTyped, AddOnsCost DEF Priceable, Figures
<1>2. SumOver(s, O) = s[o]
  <2>1. s[o] \in Int
    BY <1>1 DEF Less
  <2>. QED
    BY <2>1, SumOverOne
<1>3. SnapshotCost(sub[o], 0) = Less(k + a, z)
  BY <1>1 DEF SnapshotCost
<1>4. SummaryCost = a + Less(k, z)
  BY <1>1, <1>2 DEF Priceable, Figures
<1>. QED
  BY <1>1, <1>3, <1>4 DEF Less

LEMMA ListedAsPaid ==
  ASSUME NEW O, NEW c, NEW t, NEW d, NEW s, NEW last, Priceable(O, c, t, d, s, last), NEW o \in O
  PROVE  o \in UpcomingAs(PaidUp(sub[o].until), last)
<1>1. PICK u \in Int : u = sub[o].until
  BY CostsTyped DEF Priceable
<1>2. o \in Charged(sub) /\ sub[o].until <= last
  BY DEF Priceable
<1>3. now \in Int /\ Grace \in Nat
  BY TenancyAssumption DEF Priceable, TenantTypeOK
<1>4. PaidUp(u) = (IF u >= now THEN "Active" ELSE IF u >= now - Grace THEN "Grace" ELSE "Expired")
  BY <1>3 DEF PaidUp
<1>. QED
  BY <1>1, <1>2, <1>4 DEF UpcomingAs

LEMMA ScreensStand == TenantTypeOK => ScreensAgree
<1> SUFFICES ASSUME TenantTypeOK, NEW last \in {sub[o].until : o \in Charged(sub)},
                    {o \in LiveOutlets : sub[o].status # "none"} = Charged(sub),
                    \A o \in Charged(sub) : sub[o].until <= last
             PROVE  LET O == Charged(sub)
                        offers == {sub[o].offer : o \in O}
                        fixed == {o \in O : sub[o].offer.kind = "fixed"}
                        Same(S) == \A a, b \in S : a = b
                    IN  /\ offers = {NoOffer} => Same({TenantCost, DashboardCost, SummaryCost, UpcomingCost(last)})
                        /\ (\A f \in offers : f.onPlan /\ f.kind = "percentage") => Same({TenantCost, DashboardCost, SummaryCost})
                        /\ (fixed = {Min(O)} /\ sub[Min(O)].offer.value <= PlanCost(sub[Min(O)])
                              /\ \A o \in O \ fixed : sub[o].offer = NoOffer)
                             => Same({TenantCost, DashboardCost, SummaryCost})
                        /\ SummaryCost <= DashboardCost /\ DashboardCost <= UpcomingCost(last)
                        /\ \A o \in O : O = {o} => SnapshotCost(sub[o], 0) = SummaryCost
                        /\ \A o \in O : o \in UpcomingAs(PaidUp(sub[o].until), last)
  BY DEF ScreensAgree
<1>1. PICK O : O = Charged(sub)
  OBVIOUS
<1>2. PICK c, t, d, s : Figures(O, c, t, d, s)
  BY <1>1, FiguresStand
<1>3. O \subseteq Outlets /\ \A o \in O : sub[o] \in SubRow
  BY <1>1 DEF Charged, TenantTypeOK
<1>4. UpcomingCost(last) = AddOnCost + SumOver(c, O)
  <2> DEFINE f == [o \in Outlets |-> PlanCost(sub[o])]
  <2>1. {o \in Charged(sub) : sub[o].until <= last} = O
    BY <1>1
  <2>2. UpcomingCost(last) = AddOnCost + SumOver(f, O)
    BY <2>1 DEF UpcomingCost
  <2>3. \A o \in O : f[o] \in Nat /\ c[o] = f[o]
    BY <1>2, <1>3 DEF Figures
  <2> HIDE DEF f
  <2>4. SumOver(f, O) = SumOver(c, O)
    BY <1>3, <2>3, SameFigures
  <2>. QED
    BY <2>2, <2>4
<1>5. Priceable(O, c, t, d, s, last)
  BY <1>1, <1>2, <1>3, <1>4 DEF Priceable
<1>6. {sub[o].offer : o \in O} = {NoOffer} =>
        TenantCost = DashboardCost /\ TenantCost = SummaryCost /\ TenantCost = UpcomingCost(last)
  BY <1>5, PlainAgree
<1>7. (\A f \in {sub[o].offer : o \in O} : f.onPlan /\ f.kind = "percentage") =>
        TenantCost = DashboardCost /\ TenantCost = SummaryCost
  BY <1>5, SharesAgree
<1>8. ASSUME Fixed = {Min(O)}, sub[Min(O)].offer.value <= PlanCost(sub[Min(O)]), \A o \in O \ Fixed : sub[o].offer = NoOffer
      PROVE  TenantCost = DashboardCost /\ TenantCost = SummaryCost
  <2>1. O # {}
    BY <1>1, <1>8 DEF Fixed
  <2>. QED
    BY <1>5, <1>8, <2>1, FirstAgrees
<1>9. SummaryCost <= DashboardCost /\ DashboardCost <= UpcomingCost(last)
  BY <1>5, FiguresOrdered
<1>10. \A o \in O : O = {o} => SnapshotCost(sub[o], 0) = SummaryCost
  BY <1>5, SnapshotAgrees
<1>11. \A o \in O : o \in UpcomingAs(PaidUp(sub[o].until), last)
  BY <1>5, ListedAsPaid
<1>. QED
  BY <1>1, <1>6, <1>7, <1>8, <1>9, <1>10, <1>11 DEF Fixed

(***************************************************************************)
(* The books: what a tenant is billed for, and at which prices.            *)
(***************************************************************************)
LEMMA BooksGo ==
  ASSUME TenancyTypes, Serial, OutletsInv, KeptInv, PairedInv, BooksInv, NEW w \in Admins, NEW q, StepBy(w, q),
         /\ Calm' /\ tenant /\ LiveOutlets # {} /\ Books(task[w]) /\ task' = [task EXCEPT ![w] = q]
         /\ Fail(w) => task[w].step \in {"asked", "open"}
         => Books(q)'
  PROVE  BooksInv'
<1> SUFFICES ASSUME Calm', "signUp" \notin duty' PROVE \A p : Working(p)' => Books(p)'
  BY DEF BooksInv
<1>1. /\ Calm /\ Working(task[w]) /\ (\A p : Working(p)' => p = q) /\ task' = [task EXCEPT ![w] = q]
      /\ Fail(w) => task[w].step \in {"asked", "open"}
  BY Quiet
<1>2. duty' = duty
  BY DEF StepBy, Fail, Admitted, Accept, Advance
<1>3. tenant /\ Books(task[w]) /\ LiveOutlets # {}
  BY <1>1, <1>2 DEF PairedInv, KeptInv, Calm, Intact, BooksInv
<1>4. Books(q)'
  BY <1>1, <1>3
<1>5. ASSUME NEW p, Working(p)' PROVE Books(p)'
  <2>1. p = q
    BY <1>1, <1>5
  <2>. QED
    BY <1>4, <2>1
<1>. QED
  BY <1>5

\* Outlets that are charged for are those that are live.
LEMMA ChargedLive ==
  ASSUME Rows
  PROVE  Charged(sub) = LiveOutlets /\ LiveOutlets \in SUBSET Outlets
  BY DEF Rows, Charged, LiveOutlets

LEMMA PlansStay ==
  ASSUME NEW p, OnePlan(p), outlet' = outlet, Level, Billed("loyalty"), ~Moving(p)
  PROVE  /\ LiveOutlets' = LiveOutlets /\ (\A plan : AllOn(plan) => AllOn(plan)')
         /\ \A o, x \in LiveOutlets' : sub'[o].plan = sub'[x].plan
         /\ addOn'["loyalty"] = 1 => AllOn("Pro")'
<1>1. LiveOutlets' = LiveOutlets /\ LiveOutlets \subseteq Outlets
  BY DEF LiveOutlets
<1>2. \A plan : AllOn(plan) => AllOn(plan)'
  BY <1>1 DEF AllOn, Level
<1>3. addOn'["loyalty"] = 1 => AllOn("Pro")'
  BY <1>2 DEF OnePlan, Billed
<1>4. \A o, x \in LiveOutlets' : sub'[o].plan = sub'[x].plan
  BY <1>1 DEF OnePlan, Level
<1>. QED
  BY <1>1, <1>2, <1>3, <1>4

LEMMA OnePlanGo ==
  ASSUME NEW p, NEW q, OnePlan(p), outlet' = outlet, Level, Billed("loyalty"), ~Moving(p), ~Moving(q),
         Doing(q, "addOutlet") => AllOn(q.saw[1].plan), Doing(q, "loyaltyOn") => AllOn("Pro"),
         Doing(q, "changePlan") => Changing(q)'
  PROVE  OnePlan(q)'
<1>1. ~Moving(q)' /\ (Doing(q, "addOutlet") => AllOn(q.saw[1].plan)') /\ (Doing(q, "loyaltyOn") => AllOn("Pro")')
  BY PlansStay DEF Moving, In
<1>2. (\A o, x \in LiveOutlets : sub[o].plan = sub[x].plan)' /\ (addOn["loyalty"] = 1 => AllOn("Pro"))'
  BY PlansStay
<1>. QED
  BY <1>1, <1>2 DEF OnePlan, Doing

LEMMA OnePlanSame ==
  ASSUME NEW p, NEW q, OnePlan(p), outlet' = outlet, Level, Billed("loyalty"),
         ~Moving(p), ~Doing(q, "addOutlet"), ~Doing(q, "loyaltyOn"), ~Doing(q, "changePlan")
  PROVE  OnePlan(q)'
<1>1. ~Moving(q)
  BY DEF Moving, In, Doing
<1>. QED
  BY <1>1, OnePlanGo

LEMMA HousedSame ==
  ASSUME NEW p, NEW q, Housed(p), depot' = depot, Billed("warehouse"), "warehouse" \in stale' <=> "warehouse" \in stale,
         ~Holding(q)
  PROVE  Housed(q)'
<1>1. LiveDepots' = LiveDepots /\ \A K : Billable(K)' = Billable(K)
  BY DEF LiveDepots, Billable
<1>2. DepotsBilled'
  BY <1>1 DEF Housed, DepotsBilled, Billed
<1>. QED
  BY <1>2 DEF Housed, Held, Holding, In

LEMMA IncludedSame ==
  ASSUME outlet' = outlet, Level
  PROVE  /\ LiveOutlets' = LiveOutlets /\ Included(LiveOutlets, sub)' = Included(LiveOutlets, sub)
         /\ Active' = Active => Over(LiveOutlets, sub)' = Over(LiveOutlets, sub)
<1>1. LiveOutlets' = LiveOutlets /\ LiveOutlets \subseteq Outlets
  BY DEF LiveOutlets
<1>2. [o \in LiveOutlets' |-> Seats[sub'[o].plan]] = [o \in LiveOutlets |-> Seats[sub[o].plan]]
  BY <1>1 DEF Level
<1>3. Included(LiveOutlets, sub)' = Included(LiveOutlets, sub)
  BY <1>1, <1>2 DEF Included
<1>. QED
  BY <1>1, <1>3 DEF Over

\* The logins are counted as before, or by one more or less, and the request knows it.
LEMMA SeatedGo ==
  ASSUME NEW p, NEW q, Seated(p), outlet' = outlet, Level, Billed("user"), "user" \in stale' <=> "user" \in stale,
         ~Moving(p), ~Moving(q), Cardinality(Active') - Uncounted(q) = Cardinality(Active) - Uncounted(p),
         Counting(q) => q.over = Over(LiveOutlets, sub)', Whose(q)'
  PROVE  Seated(q)'
<1>1. Included(LiveOutlets, sub)' = Included(LiveOutlets, sub)
  BY IncludedSame
<1>2. "user" \notin stale' =>
        addOn'["user"] = Beyond(Cardinality(Active') - Uncounted(q), Included(LiveOutlets, sub))
  BY DEF Seated, Billed
<1>3. /\ ("user" \notin stale /\ ~Moving(q) =>
            addOn["user"] = Beyond(Cardinality(Active) - Uncounted(q), Included(LiveOutlets, sub)))'
      /\ (Counting(q) => q.over = Over(LiveOutlets, sub))'
  BY <1>1, <1>2 DEF Uncounted, Beyond, Counting, In
<1>. QED
  BY <1>3 DEF Seated

LEMMA SeatedSame ==
  ASSUME NEW p, NEW q, Seated(p), UNCHANGED <<login, outlet>>, Level, Billed("user"), "user" \in stale' <=> "user" \in stale,
         Settled(p), q.op \notin {"addLogin", "dropLogin"} \/ q.step = "idle", ~Moving(p), ~Moving(q)
  PROVE  Seated(q)'
<1>1. Active' = Active
  BY DEF Active
<1>2. Uncounted(p) = 0 /\ Uncounted(q) = 0 /\ ~Counting(q)
  BY DEF Settled, Uncounted, Counting, In, Moving
<1>3. Whose(q)'
  BY DEF Whose, In
<1>4. Cardinality(Active') - Uncounted(q) = Cardinality(Active) - Uncounted(p)
  BY <1>1, <1>2
<1>. QED
  BY <1>2, <1>3, <1>4, SeatedGo

LEMMA PricedSame ==
  ASSUME NEW p, NEW q, Priced(p), logged' = logged, \A o \in Outlets : sub'[o].price = sub[o].price,
         ~In(p, "customPrice", {"made"}), ~In(q, "customPrice", {"made"})
  PROVE  Priced(q)'
  BY DEF Priced, In

\* What the requests of some operations have nothing to do with.
LEMMA Elsewhere ==
  ASSUME TenancyTypes, NEW w \in Admins, NEW q, NEW ops, Of(w, q, ops)
  PROVE  /\ "changePlan" \notin ops => ~Moving(task[w]) /\ ~Moving(q) /\ ~Doing(q, "changePlan")
         /\ "addOutlet" \notin ops => ~Doing(q, "addOutlet")
         /\ "loyaltyOn" \notin ops => ~Doing(q, "loyaltyOn")
         /\ ops \cap {"addWarehouse", "dropWarehouse"} = {} => ~Holding(q)
         /\ "customPrice" \notin ops => ~In(task[w], "customPrice", {"made"}) /\ ~In(q, "customPrice", {"made"})
         /\ ops \cap {"addLogin", "dropLogin"} = {} =>
              Settled(task[w]) /\ (q.op \notin {"addLogin", "dropLogin"} \/ q.step = "idle")
<1>1. NoTask.op = "pay" /\ NoTask.step = "idle" /\ (task[w] = NoTask \/ task[w].op \in ops) /\ (q = NoTask \/ q.op \in ops)
  BY NoTaskMade DEF Of
<1>2. /\ "changePlan" \notin ops => ~Moving(task[w]) /\ ~Moving(q) /\ ~Doing(q, "changePlan")
      /\ "addOutlet" \notin ops => ~Doing(q, "addOutlet")
      /\ "loyaltyOn" \notin ops => ~Doing(q, "loyaltyOn")
  BY <1>1 DEF Moving, In, Doing
<1>3. ops \cap {"addWarehouse", "dropWarehouse"} = {} => ~Holding(q)
  BY <1>1 DEF Holding
<1>4. "customPrice" \notin ops => ~In(task[w], "customPrice", {"made"}) /\ ~In(q, "customPrice", {"made"})
  BY <1>1 DEF In
<1>5. ops \cap {"addLogin", "dropLogin"} = {} =>
            Settled(task[w]) /\ (q.op \notin {"addLogin", "dropLogin"} \/ q.step = "idle")
  BY <1>1 DEF Settled
<1>. QED
  BY <1>2, <1>3, <1>4, <1>5

\* One login more, or less.
LEMMA OneActive ==
  ASSUME TenancyTypes, NEW n \in Logins, \A m \in Logins \ {n} : login'[m].life = login[m].life
  PROVE  /\ login'[n].life = "live" /\ n \notin Active =>
              n \in Active' /\ Cardinality(Active') = Cardinality(Active) + 1
         /\ login'[n].life # "live" /\ n \in Active =>
              n \notin Active' /\ Cardinality(Active') = Cardinality(Active) - 1
         /\ login'[n].life = login[n].life => Active' = Active
<1>1. IsFiniteSet(Active) /\ Cardinality(Active) \in Nat
  BY CountsTyped
<1>2. ASSUME login'[n].life = "live", n \notin Active
      PROVE  n \in Active' /\ Cardinality(Active') = Cardinality(Active) + 1
  <2>1. Active' = Active \cup {n}
    BY <1>2 DEF Active
  <2>. QED
    BY <1>1, <1>2, <2>1, FS_AddElement
<1>3. ASSUME login'[n].life # "live", n \in Active
      PROVE  n \notin Active' /\ Cardinality(Active') = Cardinality(Active) - 1
  <2>1. Active' = Active \ {n}
    BY <1>3 DEF Active
  <2>. QED
    BY <1>1, <1>3, <2>1, FS_RemoveElement
<1>4. login'[n].life = login[n].life => Active' = Active
  BY DEF Active
<1>. QED
  BY <1>2, <1>3, <1>4

LEMMA EvenSame ==
  ASSUME NEW p, NEW q, Active' = Active, Uncounted(q) = Uncounted(p), ~Counting(q), Whose(q)'
  PROVE  Even(p, q)
  BY DEF Even

LEMMA NothingCounted == Uncounted(NoTask) = 0 /\ ~Counting(NoTask) /\ Whose(NoTask)'
  BY NoTaskMade DEF Uncounted, Counting, Whose, In

LEMMA AddLoginEven ==
  ASSUME TenancyTypes, NEW w \in Admins, NEW q, task' = [task EXCEPT ![w] = q], Whose(task[w]), NEW n \in Logins,
         AddLogin(w, n)
  PROVE  Even(task[w], q)
<1>0. PICK p : p = task[w]
  OBVIOUS
<1>1. CASE AskLogin(w, n)
  <2>1. PICK r : Admitted(w, r) /\ r.op = "addLogin"
    BY <1>1, AddLoginAsked
  <2>2. q = r /\ p = NoTask /\ q.step = "asked" /\ Active' = Active
    BY <1>0, <2>1, AdmittedIs DEF logins, Active
  <2>3. Uncounted(q) = 0 /\ ~Counting(q) /\ Whose(q)'
    BY <2>1, <2>2 DEF Uncounted, Counting, Whose, In
  <2>4. Even(p, q)
    BY <2>2, <2>3, NothingCounted, EvenSame
  <2>. QED
    BY <1>0, <2>4
<1>2. CASE MakeLogin(w, n)
  <2>1. /\ p.op = "addLogin" /\ p.step = "asked" /\ p.login = n /\ login[n].life = "absent" /\ Goto(w, "made")
        /\ login' = [login EXCEPT ![n] = [life |-> "live", word |-> p.n]]
    BY <1>0, <1>2 DEF MakeLogin, At
  <2>2. Follows(q, p, "made")
    BY <1>0, <2>1, GotoIs DEF Steps
  <2>3. login'[n].life = "live" /\ n \notin Active /\ \A m \in Logins \ {n} : login'[m].life = login[m].life
    BY <2>1 DEF Active, TenancyTypes, TenantTypeOK
  <2>4. n \in Active' /\ Cardinality(Active') = Cardinality(Active) + 1 /\ Cardinality(Active) \in Nat
    BY <2>3, OneActive, CountsTyped
  <2>5. Uncounted(p) = 0 /\ Uncounted(q) = 1 /\ ~Counting(q) /\ Whose(q)'
    BY <2>1, <2>2, <2>4 DEF Uncounted, Counting, Whose, In, Follows
  <2>6. Even(p, q)
    BY <2>4, <2>5 DEF Even
  <2>. QED
    BY <1>0, <2>6
<1>3. ASSUME MakeUser(w, n) \/ PlaceLogin(w, n) PROVE Even(task[w], q)
  <2>1. /\ p.op = "addLogin" /\ p.step \in {"made", "both"} /\ Active' = Active
        /\ Goto(w, "both") \/ Goto(w, "placed")
    BY <1>0, <1>3 DEF MakeUser, PlaceLogin, At, Active
  <2>2. Follows(q, p, "both") \/ Follows(q, p, "placed")
    BY <1>0, <2>1, GotoIs DEF Steps
  <2>3. p.login \in Active
    BY <1>0, <2>1 DEF Whose, In
  <2>4. Uncounted(p) = 1 /\ Uncounted(q) = 1 /\ ~Counting(q) /\ Whose(q)'
    BY <2>1, <2>2, <2>3 DEF Uncounted, Counting, Whose, In, Follows
  <2>5. Even(p, q)
    BY <2>1, <2>4, EvenSame
  <2>. QED
    BY <1>0, <2>5
<1>4. CASE UndoAddLogin(w, n)
  <2>1. /\ In(p, "addLogin", {"made", "both", "placed", "counted"}) /\ p.login = n
        /\ login' = [login EXCEPT ![n] = NoLogin] /\ q = NoTask
    BY <1>0, <1>4, DoneIs DEF UndoAddLogin, In
  <2>2. login'[n].life # "live" /\ n \in Active /\ \A m \in Logins \ {n} : login'[m].life = login[m].life
    BY <1>0, <2>1 DEF NoLogin, Whose, TenancyTypes, TenantTypeOK
  <2>3. Cardinality(Active') = Cardinality(Active) - 1 /\ Cardinality(Active) \in Nat
    BY <2>2, OneActive, CountsTyped
  <2>4. Uncounted(p) = 1
    BY <2>1 DEF Uncounted
  <2>5. Even(p, q)
    BY <2>1, <2>3, <2>4, NothingCounted DEF Even
  <2>. QED
    BY <1>0, <2>5
<1>. QED
  BY <1>1, <1>2, <1>3, <1>4 DEF AddLogin

LEMMA DropLoginEven ==
  ASSUME TenancyTypes, NEW w \in Admins, NEW q, task' = [task EXCEPT ![w] = q], Whose(task[w]), NEW n \in Logins,
         DropLogin(w, n)
  PROVE  Even(task[w], q)
<1>0. PICK p : p = task[w]
  OBVIOUS
<1>1. CASE AskDropLogin(w, n)
  <2>1. PICK r : Admitted(w, r) /\ r.op = "dropLogin" /\ r.login = n /\ login[n].life = "live"
    BY <1>1, DropLoginAsked
  <2>2. q = r /\ p = NoTask /\ q.step = "asked" /\ Active' = Active
    BY <1>0, <2>1, AdmittedIs DEF logins, Active
  <2>3. n \in Active'
    BY <2>1, <2>2 DEF Active
  <2>4. Uncounted(q) = 0 /\ ~Counting(q) /\ Whose(q)'
    BY <2>1, <2>2, <2>3 DEF Uncounted, Counting, Whose, In
  <2>5. Even(p, q)
    BY <2>2, <2>4, NothingCounted, EvenSame
  <2>. QED
    BY <1>0, <2>5
<1>2. CASE CloseLogin(w, n)
  <2>1. /\ p.op = "dropLogin" /\ p.step = "asked" /\ p.login = n /\ Goto(w, "made")
        /\ login' = [login EXCEPT ![n].life = "closed"]
    BY <1>0, <1>2 DEF CloseLogin, At
  <2>2. Follows(q, p, "made")
    BY <1>0, <2>1, GotoIs DEF Steps
  <2>3. n \in Active
    BY <1>0, <2>1 DEF Whose, In
  <2>4. login'[n].life # "live" /\ \A m \in Logins \ {n} : login'[m].life = login[m].life
    BY <2>1 DEF LoginRow, TenancyTypes, TenantTypeOK
  <2>5. n \notin Active' /\ Cardinality(Active') = Cardinality(Active) - 1 /\ Cardinality(Active) \in Nat
    BY <2>3, <2>4, OneActive, CountsTyped
  <2>6. Uncounted(p) = 0 /\ Uncounted(q) = -1 /\ ~Counting(q) /\ Whose(q)'
    BY <2>1, <2>2, <2>5 DEF Uncounted, Counting, Whose, In, Follows
  <2>7. Even(p, q)
    BY <2>5, <2>6 DEF Even
  <2>. QED
    BY <1>0, <2>7
<1>3. CASE CloseUser(w, n)
  <2>1. p.op = "dropLogin" /\ p.step = "made" /\ Active' = Active /\ Goto(w, "both")
    BY <1>0, <1>3 DEF CloseUser, At, Active
  <2>2. Follows(q, p, "both")
    BY <1>0, <2>1, GotoIs DEF Steps
  <2>3. p.login \in Logins \ Active
    BY <1>0, <2>1 DEF Whose, In
  <2>4. Uncounted(p) = -1 /\ Uncounted(q) = -1 /\ ~Counting(q) /\ Whose(q)'
    BY <2>1, <2>2, <2>3 DEF Uncounted, Counting, Whose, In, Follows
  <2>5. Even(p, q)
    BY <2>1, <2>4, EvenSame
  <2>. QED
    BY <1>0, <2>5
<1>4. CASE UndoDropLogin(w, n)
  <2>1. /\ In(p, "dropLogin", {"made", "both", "counted"}) /\ p.login = n
        /\ login' = [login EXCEPT ![n].life = "live"] /\ q = NoTask
    BY <1>0, <1>4, DoneIs DEF UndoDropLogin, In
  <2>2. n \notin Active
    BY <1>0, <2>1 DEF Whose
  <2>3. login'[n].life = "live" /\ \A m \in Logins \ {n} : login'[m].life = login[m].life
    BY <2>1 DEF LoginRow, TenancyTypes, TenantTypeOK
  <2>4. Cardinality(Active') = Cardinality(Active) + 1 /\ Cardinality(Active) \in Nat
    BY <2>2, <2>3, OneActive, CountsTyped
  <2>5. Uncounted(p) = -1
    BY <2>1 DEF Uncounted, In
  <2>6. Even(p, q)
    BY <2>1, <2>4, <2>5, NothingCounted DEF Even
  <2>. QED
    BY <1>0, <2>6
<1>. QED
  BY <1>1, <1>2, <1>3, <1>4 DEF DropLogin

\* Requests that neither add nor remove a login.
LEMMA SettledEven ==
  ASSUME NEW p, NEW q, Active' = Active, p.op \notin {"addLogin", "dropLogin"}, q.op \notin {"addLogin", "dropLogin", "changePlan"}
  PROVE  Even(p, q)
<1>1. Uncounted(p) = 0 /\ Uncounted(q) = 0 /\ ~Counting(q) /\ Whose(q)'
  BY DEF Uncounted, Counting, Whose, In
<1>. QED
  BY <1>1, EvenSame

LEMMA OtherLoginsEven ==
  ASSUME TenancyTypes, NEW w \in Admins, NEW q, task' = [task EXCEPT ![w] = q], NEW n \in Logins, NEW o \in Outlets,
         Password(w, n) \/ AskAssign(w, n, o) \/ Assign(w, n, o) \/ Unassign(w, n, o)
  PROVE  Even(task[w], q)
<1>1. Active' = Active
  <2>1. CASE SetPassword(w, n)
    <3>1. login' = [login EXCEPT ![n].word = task[w].n]
      BY <2>1 DEF SetPassword
    <3>2. login'[n].life = login[n].life /\ \A m \in Logins \ {n} : login'[m].life = login[m].life
      BY <3>1 DEF LoginRow, TenancyTypes, TenantTypeOK
    <3>. QED
      BY <3>2, OneActive
  <2>2. CASE ~SetPassword(w, n)
    BY <2>2 DEF Password, AskPassword, CopyPassword, AskAssign, Assign, Unassign, Accept, logins, Active
  <2>. QED
    BY <2>1, <2>2
<1>2. task[w].op \notin {"addLogin", "dropLogin"} /\ q.op \notin {"addLogin", "dropLogin", "changePlan"}
  <2>1. ASSUME AskPassword(w, n) \/ AskAssign(w, n, o)
        PROVE  task[w].op \notin {"addLogin", "dropLogin"} /\ q.op \notin {"addLogin", "dropLogin", "changePlan"}
    <3>1. PICK r : Admitted(w, r) /\ r.op \in {"password", "assign", "unassign"}
      BY <2>1, PasswordAsked, AssignAsked
    <3>2. q = r /\ task[w] = NoTask
      BY <3>1, AdmittedIs
    <3>. QED
      BY <3>1, <3>2, NoTaskMade
  <2>2. CASE SetPassword(w, n)
    <3>1. task[w].op = "password" /\ Goto(w, "made")
      BY <2>2 DEF SetPassword, At
    <3>2. Follows(q, task[w], "made")
      BY <3>1, GotoIs DEF Steps
    <3>. QED
      BY <3>1, <3>2 DEF Follows
  <2>3. CASE CopyPassword(w, n) \/ Assign(w, n, o) \/ Unassign(w, n, o)
    <3>1. task[w].op \in {"password", "assign", "unassign"} /\ q = NoTask
      BY <2>3, DoneIs DEF CopyPassword, Assign, Unassign, At
    <3>. QED
      BY <3>1, NoTaskMade
  <2>. QED
    BY <2>1, <2>2, <2>3 DEF Password
<1>. QED
  BY <1>1, <1>2, SettledEven

LEMMA CountEven ==
  ASSUME TenancyTypes, Rows, NEW w \in Admins, NEW q, task' = [task EXCEPT ![w] = q], Whose(task[w]), CountLogins(w)
  PROVE  Even(task[w], q)
<1>0. PICK p : p = task[w]
  OBVIOUS
<1>1. PICK r : /\ Advance(w, r) /\ r.step = "counted" /\ r.op = p.op /\ r.login = p.login /\ r.over = Over(Charged(sub), sub)
  BY <1>0, CountLoginsAdvances
<1>2. q = r
  BY <1>1, AdvanceIs
<1>3. /\ UNCHANGED <<outlet, sub, login>>
      /\ \/ p.op = "addLogin" /\ p.step = "placed"
         \/ p.op = "dropLogin" /\ p.step = "both"
  BY <1>0 DEF CountLogins, At, places, bills, logins
<1>4. Active' = Active
  BY <1>3 DEF Active
<1>5. Over(LiveOutlets, sub)' = Over(LiveOutlets, sub)
  BY <1>3, <1>4, IncludedSame DEF Level
<1>6. q.over = Over(LiveOutlets, sub)'
  BY <1>1, <1>2, <1>5, ChargedLive
<1>7. Uncounted(q) = Uncounted(p) /\ Whose(q)'
  <2>1. CASE p.op = "addLogin" /\ p.step = "placed"
    <3>1. p.login \in Active
      BY <1>0, <2>1 DEF Whose, In
    <3>. QED
      BY <1>1, <1>2, <1>4, <2>1, <3>1 DEF Uncounted, Whose, In
  <2>2. CASE p.op = "dropLogin" /\ p.step = "both"
    <3>1. p.login \in Logins \ Active
      BY <1>0, <2>2 DEF Whose, In
    <3>. QED
      BY <1>1, <1>2, <1>4, <2>2, <3>1 DEF Uncounted, Whose, In
  <2>. QED
    BY <1>3, <2>1, <2>2
<1>8. Even(p, q)
  BY <1>4, <1>6, <1>7 DEF Even
<1>. QED
  BY <1>0, <1>8

LEMMA SeatsTyped ==
  ASSUME TenancyTypes
  PROVE  /\ Included(LiveOutlets, sub) \in Nat /\ Cardinality(Active) \in Nat
         /\ Over(LiveOutlets, sub) = Beyond(Cardinality(Active), Included(LiveOutlets, sub))
<1>1. \A o \in LiveOutlets : sub[o].plan \in Plans
  BY DEF LiveOutlets, TenancyTypes, TenantTypeOK, SubRow
<1>2. LiveOutlets \in SUBSET Outlets
  BY DEF LiveOutlets
<1>3. PICK i \in Nat, c \in Nat : i = Included(LiveOutlets, sub) /\ c = Cardinality(Active)
  BY <1>1, <1>2, OverTyped, CountsTyped
<1>4. Over(LiveOutlets, sub) = Beyond(c, i)
  BY <1>3 DEF Over, Beyond
<1>. QED
  BY <1>3, <1>4

\* The add-on is written: what was counted is right whatever it was before.
LEMMA BilledEven ==
  ASSUME TenancyTypes, NEW w \in Admins, Seated(task[w]), BillLogins(w), NEW q, task' = [task EXCEPT ![w] = q]
  PROVE  Seated(q)'
<1>1. PICK p : p = task[w]
  OBVIOUS
<1>2. /\ p.step = "counted" /\ p.op \in {"addLogin", "dropLogin"} /\ q = NoTask
      /\ addOn' = [addOn EXCEPT !["user"] = LoginsBilled(p.op, p.over, @)]
      /\ UNCHANGED <<login, outlet, sub, stale>>
  BY <1>1, DoneIs DEF BillLogins, logins, places
<1>3. Counting(p) /\ ~Moving(p) /\ ~Moving(q)
  BY <1>2, NoTaskMade DEF Counting, Moving, In
<1>4. p.over = Over(LiveOutlets, sub)
  BY <1>1, <1>3 DEF Seated
<1>5. PICK i \in Nat, c \in Nat :
        /\ i = Included(LiveOutlets, sub) /\ c = Cardinality(Active) /\ p.over = Beyond(c, i)
  BY <1>4, SeatsTyped
<1>6. Active' = Active /\ Included(LiveOutlets, sub)' = i
  BY <1>2, <1>5, IncludedSame DEF Active, Level
<1>7. PICK a \in Nat : a = addOn["user"] /\ addOn'["user"] = LoginsBilled(p.op, p.over, a)
  BY <1>2 DEF TenancyTypes, TenantTypeOK
<1>8. ASSUME "user" \notin stale' PROVE addOn'["user"] = Beyond(c, i)
  <2>1. a = Beyond(c - Uncounted(p), i)
    BY <1>1, <1>2, <1>3, <1>5, <1>7, <1>8 DEF Seated
  <2>2. CASE p.op = "addLogin"
    <3>1. a = Beyond(c - 1, i)
      BY <1>2, <2>1, <2>2 DEF Uncounted, In
    <3>. QED
      BY <1>5, <1>7, <2>2, <3>1 DEF LoginsBilled, Beyond
  <2>3. CASE p.op = "dropLogin"
    <3>1. a = Beyond(c - (-1), i)
      BY <1>2, <2>1, <2>3 DEF Uncounted, In
    <3>. QED
      BY <1>5, <1>7, <2>3, <3>1 DEF LoginsBilled, Beyond
  <2>. QED
    BY <1>2, <2>2, <2>3
<1>9. Uncounted(q) = 0 /\ ~Counting(q) /\ Whose(q)'
  BY <1>2, NothingCounted
<1>10. /\ ("user" \notin stale /\ ~Moving(q) =>
            addOn["user"] = Beyond(Cardinality(Active) - Uncounted(q), Included(LiveOutlets, sub)))'
       /\ (Counting(q) => q.over = Over(LiveOutlets, sub))'
  <2>1. c - 0 = c
    OBVIOUS
  <2>. QED
    BY <1>5, <1>6, <1>8, <1>9, <2>1 DEF Uncounted, Beyond, Counting, In
<1>. QED
  BY <1>9, <1>10 DEF Seated

LEMMA LoginSeats ==
  ASSUME TenancyTypes, Rows, NEW w \in Admins, NEW q, task' = [task EXCEPT ![w] = q], Seated(task[w]), AnyLogin(w),
         ~Moving(task[w]), ~Moving(q)
  PROVE  Seated(q)'
<1>1. PICK p : p = task[w]
  OBVIOUS
<1>2. CASE BillLogins(w)
  BY <1>2, BilledEven
<1>3. CASE ~BillLogins(w)
  <2>1. Whose(task[w])
    BY DEF Seated
  <2>2. Even(p, q)
    <3>1. CASE CountLogins(w)
      BY <1>1, <2>1, <3>1, CountEven
    <3>2. ASSUME NEW n \in Logins, AddLogin(w, n) \/ DropLogin(w, n) PROVE Even(p, q)
      BY <1>1, <2>1, <3>2, AddLoginEven, DropLoginEven
    <3>3. ASSUME NEW n \in Logins, NEW o \in Outlets,
                 Password(w, n) \/ AskAssign(w, n, o) \/ Assign(w, n, o) \/ Unassign(w, n, o)
          PROVE  Even(p, q)
      BY <1>1, <3>3, OtherLoginsEven
    <3>. QED
      BY <1>3, <3>1, <3>2, <3>3, TenancyAssumption DEF AnyLogin
  <2>3. outlet' = outlet /\ Level /\ Billed("user") /\ ("user" \in stale' <=> "user" \in stale)
    <3>1. UNCHANGED <<outlet, sub, stale>>
      BY OfLogins DEF places
    <3>2. addOn' = addOn
      BY <1>3, LoginsTouch
    <3>. QED
      BY <3>1, <3>2 DEF Level, Billed
  <2>4. Seated(p) /\ ~Moving(p)
    BY <1>1
  <2>. QED
    BY <2>2, <2>3, <2>4, SeatedGo DEF Even
<1>. QED
  BY <1>2, <1>3

LEMMA LoginsBook ==
  ASSUME TenancyTypes, Serial, OutletsInv, KeptInv, PairedInv, BooksInv, NEW w \in Admins, AnyLogin(w)
  PROVE  BooksInv'
<1>1. PICK q : Of(w, q, LoginWork)
  BY OfLogins
<1>2. /\ ~Moving(task[w]) /\ ~Moving(q) /\ ~Doing(q, "changePlan") /\ ~Doing(q, "addOutlet") /\ ~Doing(q, "loyaltyOn")
      /\ ~Holding(q) /\ ~In(task[w], "customPrice", {"made"}) /\ ~In(q, "customPrice", {"made"})
  <2>1. /\ "changePlan" \notin LoginWork /\ "addOutlet" \notin LoginWork /\ "loyaltyOn" \notin LoginWork
        /\ "customPrice" \notin LoginWork /\ LoginWork \cap {"addWarehouse", "dropWarehouse"} = {}
    BY DEF LoginWork
  <2>. QED
    BY <1>1, <2>1, Elsewhere
<1>3. /\ outlet' = outlet /\ sub' = sub /\ depot' = depot /\ stale' = stale /\ logged' = logged
      /\ Billed("warehouse") /\ Billed("loyalty")
  BY OfLogins, LoginsTouch DEF places
<1>4. ASSUME Books(task[w]), task' = [task EXCEPT ![w] = q] PROVE Books(q)'
  <2>1. OnePlan(q)'
    BY <1>2, <1>3, <1>4, OnePlanSame DEF Books, Level
  <2>2. Housed(q)'
    BY <1>2, <1>3, <1>4, HousedSame DEF Books
  <2>3. Seated(q)'
    BY <1>2, <1>4, LoginSeats DEF Books, OutletsInv
  <2>4. Priced(q)'
    BY <1>2, <1>3, <1>4, PricedSame DEF Books
  <2>. QED
    BY <2>1, <2>2, <2>3, <2>4 DEF Books
<1>. QED
  BY <1>1, <1>4, BooksGo DEF Of

LEMMA HeldOn ==
  ASSUME DepotsBilled, UNCHANGED depot, Billed("warehouse"),
         "warehouse" \in stale' <=> "warehouse" \in stale
  PROVE  DepotsBilled' /\ LiveDepots' = LiveDepots
<1>1. LiveDepots' = LiveDepots /\ \A K : Billable(K)' = Billable(K)
  BY DEF LiveDepots, Billable
<1>. QED
  BY <1>1 DEF DepotsBilled, Billed

LEMMA BillableGrows ==
  ASSUME TenancyTypes, NEW K \in SUBSET Warehouses, NEW k \in Warehouses \ K
  PROVE  Billable(K \cup {k}) = Cardinality(K) /\ (K # {} => Billable(K \cup {k}) > 0)
<1>1. IsFiniteSet(K) /\ Cardinality(K) \in Nat
  BY CountsTyped
<1>2. Cardinality(K \cup {k}) = Cardinality(K) + 1
  BY <1>1, FS_AddElement
<1>3. K # {} => Cardinality(K) # 0
  BY <1>1, FS_EmptySet
<1>. QED
  BY <1>1, <1>2, <1>3 DEF Billable

LEMMA WarehouseHoused ==
  ASSUME TenancyTypes, NEW w \in Admins, NEW q, task' = [task EXCEPT ![w] = q], Housed(task[w]), NEW k \in Warehouses,
         AddWarehouse(w, k) \/ DropWarehouse(w, k) \/ AskStock(w, k) \/ StockIn(w, k) \/ StockOut(w, k)
  PROVE  Housed(q)'
<1>0. PICK p : p = task[w]
  OBVIOUS
<1>t. DepotsBilled /\ Held(p)
  BY <1>0 DEF Housed
<1>1. CASE \/ AskWarehouse(w, k) \/ AskDropWarehouse(w, k) \/ AskStock(w, k)
  <2>1. PICK r : Admitted(w, r)
    BY <1>1, AddWarehouseAsked, DropWarehouseAsked, StockAsked
  <2>2. q.step = "asked" /\ UNCHANGED <<depot, addOn, stale>>
    BY <2>1, AdmittedIs DEF places, bills
  <2>3. ~Holding(q) /\ Billed("warehouse")
    BY <2>2 DEF Holding, Billed
  <2>. QED
    BY <1>0, <2>2, <2>3, HousedSame
<1>2. CASE FindWarehouse(w, k) \/ CheckWarehouse(w, k)
  <2>1. UNCHANGED <<depot, addOn, stale>>
    BY <1>2 DEF FindWarehouse, CheckWarehouse, places, bills
  <2>2. DepotsBilled' /\ LiveDepots' = LiveDepots
    BY <1>t, <2>1, HeldOn DEF Billed
  <2>3. CASE FindWarehouse(w, k)
    <3>1. PICK r : /\ Advance(w, r) /\ r.step = "open" /\ r.op = "addWarehouse" /\ r.warehouse = k
                   /\ r.held = LiveDepots /\ r.found = (depot[k] = "closed")
      BY <2>3, FindWarehouseAdvances
    <3>2. q = r
      BY <3>1, AdvanceIs
    <3>. QED
      BY <2>1, <2>2, <3>1, <3>2 DEF Housed, Held, In
  <2>4. CASE CheckWarehouse(w, k)
    <3>1. PICK r : /\ Advance(w, r) /\ r.step = "open" /\ r.op = "dropWarehouse" /\ r.held = LiveDepots
      BY <2>4, CheckWarehouseAdvances
    <3>2. q = r
      BY <3>1, AdvanceIs
    <3>. QED
      BY <2>1, <2>2, <3>1, <3>2 DEF Housed, Held, In
  <2>. QED
    BY <1>2, <2>3, <2>4
<1>3. CASE StockIn(w, k) \/ StockOut(w, k)
  <2>1. q = NoTask /\ UNCHANGED <<depot, addOn, stale>>
    BY <1>3, DoneIs DEF StockIn, StockOut, bills
  <2>2. ~Holding(q) /\ Billed("warehouse")
    BY <2>1, NoTaskMade DEF Holding, Billed
  <2>. QED
    BY <1>0, <2>1, <2>2, HousedSame
<1>4. CASE OpenWarehouse(w, k) \/ CloseWarehouse(w, k)
  <2>1. /\ p.step = "open" /\ p.warehouse = k /\ Goto(w, "half") /\ UNCHANGED <<depot, addOn, stale>>
        /\ \/ p.op = "addWarehouse" /\ (p.found \/ depot[k] = "absent")
           \/ p.op = "dropWarehouse"
    BY <1>0, <1>4 DEF OpenWarehouse, CloseWarehouse, At, bills
  <2>2. Follows(q, p, "half")
    BY <1>0, <2>1, GotoIs DEF Steps
  <2>3. p.held = LiveDepots /\ (p.op = "addWarehouse" => k \notin LiveDepots)
    BY <1>t, <2>1 DEF Held, In, LiveDepots
  <2>4. DepotsBilled' /\ LiveDepots' = LiveDepots
    BY <1>t, <2>1, HeldOn DEF Billed
  <2>. QED
    BY <2>1, <2>2, <2>3, <2>4 DEF Housed, Held, In, Follows
<1>5. CASE OpenDepot(w, k)
  <2>1. /\ In(p, "addWarehouse", {"half"}) /\ p.warehouse = k /\ q = NoTask /\ depot' = [depot EXCEPT ![k] = "live"]
        /\ "warehouse" \notin stale'
        /\ addOn' = IF Billable(p.held \cup {k}) > 0 THEN [addOn EXCEPT !["warehouse"] = Billable(p.held \cup {k})] ELSE addOn
    BY <1>0, <1>5, DoneIs DEF OpenDepot, At, In
  <2>2. p.held = LiveDepots /\ k \notin LiveDepots /\ LiveDepots \in SUBSET Warehouses
    BY <1>t, <2>1 DEF Held, In, LiveDepots
  <2>3. LiveDepots' = LiveDepots \cup {k}
    BY <2>1 DEF LiveDepots, TenancyTypes, TenantTypeOK
  <2>4. addOn'["warehouse"] = Billable(LiveDepots \cup {k})
    <3>1. PICK m \in Nat : m = Billable(LiveDepots \cup {k})
      <4>1. LiveDepots \cup {k} \in SUBSET Warehouses
        BY <2>2
      <4>. QED
        BY <4>1, CountsTyped
    <3>2. addOn \in [{"user", "warehouse", "loyalty"} -> Nat]
      BY DEF TenancyTypes, TenantTypeOK
    <3>3. CASE m > 0
      BY <2>1, <2>2, <3>1, <3>2, <3>3
    <3>4. CASE ~(m > 0)
      <4>1. LiveDepots = {} /\ m = 0
        BY <2>2, <3>1, <3>4, BillableGrows
      <4>2. addOn["warehouse"] = 0
        <5>1. Main \in Warehouses
          BY TenancyAssumption
        <5>. QED
          BY <1>t, <4>1, <5>1 DEF DepotsBilled, LiveDepots, Billable
      <4>. QED
        BY <2>1, <2>2, <3>1, <3>4, <4>1, <4>2
    <3>. QED
      BY <3>3, <3>4
  <2>5. DepotsBilled'
    BY <2>1, <2>3, <2>4 DEF DepotsBilled, Billable
  <2>. QED
    BY <2>1, <2>5, NoTaskMade DEF Housed, Held, In
<1>6. CASE CloseDepot(w, k)
  <2>1. /\ p.op = "dropWarehouse" /\ p.step = "half" /\ q = NoTask /\ depot' = [depot EXCEPT ![k] = "closed"]
        /\ "warehouse" \notin stale' /\ addOn' = [addOn EXCEPT !["warehouse"] = Billable(p.held \ {k})]
    BY <1>0, <1>6, DoneIs DEF CloseDepot, At
  <2>2. p.held = LiveDepots
    BY <1>t, <2>1 DEF Held
  <2>3. LiveDepots' = LiveDepots \ {k}
    BY <2>1 DEF LiveDepots, TenancyTypes, TenantTypeOK
  <2>4. addOn'["warehouse"] = Billable(LiveDepots \ {k})
    BY <2>1, <2>2 DEF TenancyTypes, TenantTypeOK
  <2>5. DepotsBilled'
    BY <2>1, <2>3, <2>4 DEF DepotsBilled, Billable
  <2>. QED
    BY <2>1, <2>5, NoTaskMade DEF Housed, Held, In
<1>. QED
  BY <1>1, <1>2, <1>3, <1>4, <1>5, <1>6 DEF AddWarehouse, DropWarehouse

LEMMA WarehousesBook ==
  ASSUME TenancyTypes, Serial, OutletsInv, KeptInv, PairedInv, BooksInv, NEW w \in Admins, AnyWarehouse(w)
  PROVE  BooksInv'
<1>0. PICK k \in Warehouses :
        AddWarehouse(w, k) \/ DropWarehouse(w, k) \/ AskStock(w, k) \/ StockIn(w, k) \/ StockOut(w, k)
  BY DEF AnyWarehouse
<1>1. PICK q : Of(w, q, WarehouseWork)
  BY <1>0, OfWarehouses
<1>2. /\ ~Moving(task[w]) /\ ~Moving(q) /\ ~Doing(q, "changePlan") /\ ~Doing(q, "addOutlet") /\ ~Doing(q, "loyaltyOn")
      /\ ~In(task[w], "customPrice", {"made"}) /\ ~In(q, "customPrice", {"made"})
      /\ Settled(task[w]) /\ (q.op \notin {"addLogin", "dropLogin"} \/ q.step = "idle")
  <2>1. /\ "changePlan" \notin WarehouseWork /\ "addOutlet" \notin WarehouseWork /\ "loyaltyOn" \notin WarehouseWork
        /\ "customPrice" \notin WarehouseWork /\ WarehouseWork \cap {"addLogin", "dropLogin"} = {}
    BY DEF WarehouseWork
  <2>. QED
    BY <1>1, <2>1, Elsewhere
<1>3. /\ outlet' = outlet /\ sub' = sub /\ login' = login /\ logged' = logged
      /\ ("user" \in stale' <=> "user" \in stale) /\ Billed("user") /\ Billed("loyalty")
  BY <1>0, OfWarehouses DEF logins
<1>4. ASSUME Books(task[w]), task' = [task EXCEPT ![w] = q] PROVE Books(q)'
  <2>1. OnePlan(q)'
    BY <1>2, <1>3, <1>4, OnePlanSame DEF Books, Level
  <2>2. Housed(q)'
    BY <1>0, <1>4, WarehouseHoused DEF Books
  <2>3. Seated(q)'
    BY <1>2, <1>3, <1>4, SeatedSame DEF Books, Level
  <2>4. Priced(q)'
    BY <1>2, <1>3, <1>4, PricedSame DEF Books
  <2>. QED
    BY <2>1, <2>2, <2>3, <2>4 DEF Books
<1>. QED
  BY <1>1, <1>4, BooksGo DEF Of

\* An outlet's coming or going leaves the logins to be counted another time.
LEMMA Uncounting ==
  ASSUME "user" \in stale', NEW q, q = NoTask
  PROVE  Seated(q)'
<1>1. ~Counting(q) /\ Whose(q)'
  BY NothingCounted
<1>2. (Counting(q) => q.over = Over(LiveOutlets, sub))'
  BY <1>1 DEF Counting, In
<1>. QED
  BY <1>1, <1>2 DEF Seated

LEMMA PrimaryOn ==
  ASSUME TenancyTypes, Rows, HasPrimary, \A o, x \in LiveOutlets : sub[o].plan = sub[x].plan
  PROVE  AllOn(Primary.plan)
<1>1. PICK o \in LiveOutlets : Primary = sub[o]
  BY PrimaryIs, ChargedLive
<1>. QED
  BY <1>1 DEF AllOn

LEMMA AskOutletBooks ==
  ASSUME TenancyTypes, Rows, NEW w \in Admins, NEW q, task' = [task EXCEPT ![w] = q], Books(task[w]), AskOutlet(w)
  PROVE  Books(q)'
<1>1. PICK r : Admitted(w, r) /\ r.op = "addOutlet" /\ r.saw[1] = Primary /\ HasPrimary
  BY AddOutletAsked
<1>2. q = r /\ task[w] = NoTask /\ q.step = "asked" /\ UNCHANGED <<outlet, sub, login, depot, stale, logged, addOn>>
  BY <1>1, AdmittedIs DEF places, logins, bills
<1>3. Books(NoTask) /\ ~Moving(NoTask) /\ Settled(NoTask) /\ ~In(NoTask, "customPrice", {"made"})
  BY <1>2, NoTaskMade DEF Moving, In, Settled
<1>4. /\ ~Moving(q) /\ ~Doing(q, "loyaltyOn") /\ ~Doing(q, "changePlan") /\ ~Holding(q)
      /\ q.op \notin {"addLogin", "dropLogin"} /\ ~In(q, "customPrice", {"made"})
  BY <1>1, <1>2 DEF Moving, In, Doing, Holding
<1>5. AllOn(q.saw[1].plan)
  BY <1>1, <1>2, <1>3, PrimaryOn DEF Books, OnePlan
<1>6. Level /\ \A a : Billed(a)
  BY <1>2 DEF Level, Billed
<1>7. OnePlan(q)'
  BY <1>2, <1>3, <1>4, <1>5, <1>6, OnePlanGo DEF Books
<1>8. Housed(q)'
  BY <1>2, <1>3, <1>4, <1>6, HousedSame DEF Books
<1>9. Seated(q)'
  BY <1>2, <1>3, <1>4, <1>6, SeatedSame DEF Books
<1>10. Priced(q)'
  BY <1>2, <1>3, <1>4, PricedSame DEF Books
<1>. QED
  BY <1>7, <1>8, <1>9, <1>10 DEF Books

LEMMA OpenShopBooks ==
  ASSUME TenancyTypes, NEW w \in Admins, NEW q, task' = [task EXCEPT ![w] = q], Books(task[w]), OpenShop(w)
  PROVE  Books(q)'
<1>0. PICK p : p = task[w]
  OBVIOUS
<1>1. PICK r : /\ Advance(w, r) /\ r.step = "half" /\ r.op = "addOutlet" /\ r.saw = p.saw /\ p.op = "addOutlet"
               /\ p.step = "asked"
  BY <1>0, OpenShopAdvances
<1>2. q = r /\ UNCHANGED <<outlet, sub, login, depot, stale, logged, addOn>>
  BY <1>1, AdvanceIs DEF OpenShop, logins, bills
<1>3. Books(p) /\ ~Moving(p) /\ Settled(p) /\ ~In(p, "customPrice", {"made"})
  BY <1>0, <1>1 DEF Moving, In, Settled
<1>4. /\ ~Moving(q) /\ ~Doing(q, "loyaltyOn") /\ ~Doing(q, "changePlan") /\ ~Holding(q)
      /\ q.op \notin {"addLogin", "dropLogin"} /\ ~In(q, "customPrice", {"made"})
  BY <1>1, <1>2 DEF Moving, In, Doing, Holding
<1>5. AllOn(q.saw[1].plan)
  BY <1>1, <1>2, <1>3 DEF Books, OnePlan, Doing
<1>6. Level /\ \A a : Billed(a)
  BY <1>2 DEF Level, Billed
<1>7. OnePlan(q)'
  BY <1>2, <1>3, <1>4, <1>5, <1>6, OnePlanGo DEF Books
<1>8. Housed(q)'
  BY <1>2, <1>3, <1>4, <1>6, HousedSame DEF Books
<1>9. Seated(q)'
  BY <1>2, <1>3, <1>4, <1>6, SeatedSame DEF Books
<1>10. Priced(q)'
  BY <1>2, <1>3, <1>4, PricedSame DEF Books
<1>. QED
  BY <1>7, <1>8, <1>9, <1>10 DEF Books

\* A new outlet joins the plan the others are on.
LEMMA OpenOutletBooks ==
  ASSUME TenancyTypes, OutletsInv, LiveOutlets # {}, NEW w \in Admins, NEW q, task' = [task EXCEPT ![w] = q],
         Books(task[w]), OpenOutlet(w)
  PROVE  Books(q)'
<1>0. PICK p : p = task[w]
  OBVIOUS
<1>1. PICK plan, o, status, until :
        /\ p.op = "addOutlet" /\ p.step = "half" /\ plan = p.saw[1].plan /\ o = p.outlet /\ q = NoTask
        /\ outlet' = [outlet EXCEPT ![o] = "live"] /\ "user" \in stale' /\ ("warehouse" \in stale' <=> "warehouse" \in stale)
        /\ sub' = [sub EXCEPT ![o] = [NoSub EXCEPT !.plan = plan, !.status = status, !.until = until]]
        /\ UNCHANGED <<depot, logged, addOn>>
  BY <1>0, DoneIs DEF OpenOutlet, At
<1>2. o \in Outlets /\ outlet[o] = "absent" /\ Rows
  BY <1>0, <1>1 DEF OutletsInv, OutletOf, In, TenancyTypes, Prepared
<1>3. sub[o].price = NoPrice /\ sub'[o].price = NoPrice /\ sub'[o].plan = plan
  <2>1. PICK row : row = [NoSub EXCEPT !.plan = plan, !.status = status, !.until = until]
    OBVIOUS
  <2>2. row.price = NoPrice /\ row.plan = plan /\ NoSub.price = NoPrice
    BY <2>1 DEF NoSub
  <2>3. sub'[o] = row
    BY <1>1, <1>2, <2>1 DEF TenancyTypes, TenantTypeOK
  <2>. QED
    BY <1>2, <2>2, <2>3 DEF Rows
<1>4. (\A x \in Outlets \ {o} : sub'[x] = sub[x]) /\ LiveOutlets' = LiveOutlets \cup {o} /\ LiveOutlets \subseteq Outlets
      /\ o \notin LiveOutlets
  BY <1>1, <1>2 DEF LiveOutlets, TenancyTypes, TenantTypeOK
<1>5. Books(p) /\ ~In(p, "customPrice", {"made"}) /\ Doing(p, "addOutlet")
  BY <1>0, <1>1 DEF In, Doing
<1>6. /\ ~Moving(q) /\ ~Doing(q, "addOutlet") /\ ~Doing(q, "loyaltyOn") /\ ~Doing(q, "changePlan") /\ ~Holding(q)
      /\ ~In(q, "customPrice", {"made"})
  BY <1>1, NoTaskMade DEF Moving, In, Doing, Holding
<1>7. OnePlan(q)'
  <2>1. AllOn(plan)
    BY <1>1, <1>5 DEF Books, OnePlan
  <2>2. \A x \in LiveOutlets' : sub'[x].plan = plan
    BY <1>3, <1>4, <2>1 DEF AllOn
  <2>3. addOn'["loyalty"] = 1 => plan = "Pro"
    BY <1>1, <1>5, <2>1 DEF Books, OnePlan, AllOn
  <2>4. ~Moving(q)' /\ (\A x, y \in LiveOutlets : sub[x].plan = sub[y].plan)' /\ (addOn["loyalty"] = 1 => AllOn("Pro"))'
    BY <1>6, <2>2, <2>3 DEF AllOn, Moving, In
  <2>. QED
    BY <1>6, <2>4 DEF OnePlan, Doing
<1>8. Housed(q)'
  BY <1>1, <1>5, <1>6, HousedSame DEF Books, Billed
<1>9. Seated(q)'
  BY <1>1, Uncounting
<1>10. Priced(q)'
  <2>1. \A x \in Outlets : sub'[x].price = sub[x].price
    BY <1>3, <1>4
  <2>. QED
    BY <1>1, <1>5, <1>6, <2>1, PricedSame DEF Books
<1>. QED
  BY <1>7, <1>8, <1>9, <1>10 DEF Books

LEMMA AddOutletBook ==
  ASSUME TenancyTypes, Serial, OutletsInv, KeptInv, PairedInv, BooksInv, NEW w \in Admins, AddOutlet(w)
  PROVE  BooksInv'
<1>1. PICK q : Of(w, q, {"addOutlet"})
  BY OfAddOutlet
<1>2. ASSUME LiveOutlets # {}, Books(task[w]), task' = [task EXCEPT ![w] = q] PROVE Books(q)'
  BY <1>2, AskOutletBooks, OpenShopBooks, OpenOutletBooks DEF AddOutlet, OutletsInv
<1>. QED
  BY <1>1, <1>2, BooksGo DEF Of

LEMMA CloseOutletBooks ==
  ASSUME TenancyTypes, NEW w \in Admins, NEW q, task' = [task EXCEPT ![w] = q], Books(task[w]), NEW o \in Outlets,
         CloseOutlet(w, o)
  PROVE  Books(q)'
<1>0. PICK p : p = task[w]
  OBVIOUS
<1>1. PICK status :
        /\ p.op = "dropOutlet" /\ q = NoTask /\ outlet' = [outlet EXCEPT ![o] = "closed"]
        /\ "user" \in stale' /\ ("warehouse" \in stale' <=> "warehouse" \in stale)
        /\ sub' = [sub EXCEPT ![o].status = status]
        /\ UNCHANGED <<depot, logged, addOn>>
  BY <1>0, DoneIs DEF CloseOutlet, At
<1>2. Level /\ \A x \in Outlets : sub'[x].price = sub[x].price
  BY <1>1, RowClosed DEF Level
<1>3. LiveOutlets' \subseteq LiveOutlets /\ LiveOutlets \subseteq Outlets
  BY <1>1 DEF LiveOutlets, TenancyTypes, TenantTypeOK
<1>4. Books(p) /\ ~In(p, "customPrice", {"made"}) /\ ~Moving(p)
  BY <1>0, <1>1 DEF In, Moving
<1>5. /\ ~Moving(q) /\ ~Doing(q, "addOutlet") /\ ~Doing(q, "loyaltyOn") /\ ~Doing(q, "changePlan") /\ ~Holding(q)
      /\ ~In(q, "customPrice", {"made"})
  BY <1>1, NoTaskMade DEF Moving, In, Doing, Holding
<1>6. OnePlan(q)'
  <2>1. (\A x, y \in LiveOutlets : sub[x].plan = sub[y].plan)'
    BY <1>2, <1>3, <1>4 DEF Books, OnePlan, Level
  <2>2. (addOn["loyalty"] = 1 => AllOn("Pro"))'
    BY <1>1, <1>2, <1>3, <1>4 DEF Books, OnePlan, AllOn, Level
  <2>. QED
    BY <1>5, <2>1, <2>2 DEF OnePlan, Doing, Moving, In
<1>7. Housed(q)'
  BY <1>1, <1>4, <1>5, HousedSame DEF Books, Billed
<1>8. Seated(q)'
  BY <1>1, Uncounting
<1>9. Priced(q)'
  BY <1>1, <1>2, <1>4, <1>5, PricedSame DEF Books
<1>. QED
  BY <1>6, <1>7, <1>8, <1>9 DEF Books

\* Steps that move none of what the books are about.
LEMMA BooksSame ==
  ASSUME TenancyTypes, NEW w \in Admins, NEW q, NEW ops, Of(w, q, ops),
         ops \subseteq {"dropOutlet", "pay", "customPrice", "loyaltyOff"}, Books(task[w]),
         UNCHANGED <<login, outlet, depot, addOn, stale>>, Level, Priced(q)'
  PROVE  Books(q)'
<1>0. PICK p : p = task[w]
  OBVIOUS
<1>1. /\ ~Moving(p) /\ ~Moving(q) /\ ~Doing(q, "changePlan") /\ ~Doing(q, "addOutlet") /\ ~Doing(q, "loyaltyOn")
      /\ ~Holding(q) /\ Settled(p) /\ (q.op \notin {"addLogin", "dropLogin"} \/ q.step = "idle")
  <2>1. /\ "changePlan" \notin ops /\ "addOutlet" \notin ops /\ "loyaltyOn" \notin ops
        /\ ops \cap {"addWarehouse", "dropWarehouse"} = {} /\ ops \cap {"addLogin", "dropLogin"} = {}
    OBVIOUS
  <2>. QED
    BY <1>0, <2>1, Elsewhere
<1>2. Books(p) /\ \A a : Billed(a)
  BY <1>0 DEF Billed
<1>3. OnePlan(q)'
  BY <1>1, <1>2, OnePlanSame DEF Books
<1>4. Housed(q)'
  BY <1>1, <1>2, HousedSame DEF Books
<1>5. Seated(q)'
  BY <1>1, <1>2, SeatedSame DEF Books
<1>. QED
  BY <1>3, <1>4, <1>5 DEF Books

LEMMA DropOutletBook ==
  ASSUME TenancyTypes, Serial, OutletsInv, KeptInv, PairedInv, BooksInv, NEW w \in Admins, NEW o \in Outlets, DropOutlet(w, o)
  PROVE  BooksInv'
<1>1. PICK q : Of(w, q, {"dropOutlet"})
  BY OfDropOutlet
<1>2. ASSUME Books(task[w]), task' = [task EXCEPT ![w] = q] PROVE Books(q)'
  <2>1. CASE CloseOutlet(w, o)
    BY <1>2, <2>1, CloseOutletBooks
  <2>2. CASE AskDropOutlet(w, o) \/ CloseShop(w, o)
    <3>1. UNCHANGED <<login, outlet, depot, addOn, stale, sub, logged>>
      BY <2>2 DEF AskDropOutlet, CloseShop, Accept, places, logins, bills, ghosts
    <3>2. ~In(task[w], "customPrice", {"made"}) /\ ~In(q, "customPrice", {"made"})
      BY <1>1, Elsewhere
    <3>3. Priced(q)'
      BY <1>2, <3>1, <3>2, PricedSame DEF Books
    <3>. QED
      BY <1>1, <1>2, <3>1, <3>3, BooksSame DEF Level
  <2>. QED
    BY <2>1, <2>2 DEF DropOutlet
<1>. QED
  BY <1>1, <1>2, BooksGo DEF Of

LEMMA PaymentsBook ==
  ASSUME TenancyTypes, Serial, OutletsInv, KeptInv, PairedInv, BooksInv, NEW w \in Admins, NEW o \in Outlets, RecordPayment(w, o)
  PROVE  BooksInv'
<1>1. PICK q : Of(w, q, {"pay"})
  BY OfPayments
<1>2. UNCHANGED <<login, outlet, depot, addOn, stale, logged>> /\ Level /\ \A x \in Outlets : sub'[x].price = sub[x].price
  BY OfPayments DEF places, logins, Level
<1>3. ASSUME Books(task[w]) PROVE Books(q)'
  <2>1. ~In(task[w], "customPrice", {"made"}) /\ ~In(q, "customPrice", {"made"})
    BY <1>1, Elsewhere
  <2>2. Priced(q)'
    BY <1>2, <1>3, <2>1, PricedSame DEF Books
  <2>. QED
    BY <1>1, <1>2, <1>3, <2>2, BooksSame
<1>. QED
  BY <1>1, <1>3, BooksGo DEF Of

\* A price is logged, then written.
LEMMA PricesPriced ==
  ASSUME TenancyTypes, NEW w \in Admins, NEW o \in Outlets, CustomPrice(w, o), NEW q, task' = [task EXCEPT ![w] = q],
         Priced(task[w])
  PROVE  Priced(q)'
<1>0. PICK p : p = task[w]
  OBVIOUS
<1>1. ASSUME NEW c \in Customs \cup {NoPrice}, AskPrice(w, o, c) PROVE Priced(q)'
  <2>1. PICK r : Admitted(w, r)
    BY <1>1, PriceAsked
  <2>2. q = r /\ p = NoTask /\ q.step = "asked" /\ UNCHANGED <<sub, logged>>
    BY <1>0, <2>1, AdmittedIs DEF bills
  <2>3. ~In(p, "customPrice", {"made"}) /\ ~In(q, "customPrice", {"made"})
    BY <2>2, NoTaskMade DEF In
  <2>. QED
    BY <1>0, <2>2, <2>3, PricedSame
<1>2. CASE LogPrice(w, o)
  <2>1. p.op = "customPrice" /\ p.step = "asked" /\ p.outlet = o /\ logged' = [logged EXCEPT ![o] = p.n] /\ sub' = sub
    BY <1>0, <1>2 DEF LogPrice, At
  <2>2. Follows(q, p, "made")
    BY <1>0, <1>2, GotoIs DEF LogPrice, Steps
  <2>3. q.op = "customPrice" /\ q.step = "made" /\ q.outlet = o /\ q.n = p.n
    BY <2>1, <2>2 DEF Follows
  <2>4. logged'[o] = p.n /\ \A x \in Outlets \ {o} : logged'[x] = logged[x]
    BY <2>1 DEF TenancyTypes, TenantTypeOK
  <2>5. \A x \in Outlets : sub[x].price = logged[x]
    BY <1>0, <2>1 DEF Priced, In
  <2>. QED
    BY <2>1, <2>3, <2>4, <2>5 DEF Priced, In
<1>3. CASE SetPrice(w, o)
  <2>1. /\ p.op = "customPrice" /\ p.step = "made" /\ p.outlet = o /\ logged' = logged
        /\ sub' = [sub EXCEPT ![o].price = p.n]
    BY <1>0, <1>3 DEF SetPrice, At
  <2>2. q = NoTask
    BY <1>3, DoneIs DEF SetPrice
  <2>3. sub'[o].price = p.n /\ \A x \in Outlets \ {o} : sub'[x] = sub[x]
    BY <2>1, RowPriced
  <2>4. logged[o] = p.n /\ \A x \in Outlets \ {o} : sub[x].price = logged[x]
    BY <1>0, <2>1 DEF Priced, In
  <2>5. ~In(q, "customPrice", {"made"})
    BY <2>2, NoTaskMade DEF In
  <2>. QED
    BY <2>1, <2>3, <2>4, <2>5 DEF Priced, In
<1>. QED
  BY <1>1, <1>2, <1>3 DEF CustomPrice

LEMMA PricesBook ==
  ASSUME TenancyTypes, Serial, OutletsInv, KeptInv, PairedInv, BooksInv, NEW w \in Admins, NEW o \in Outlets, CustomPrice(w, o)
  PROVE  BooksInv'
<1>1. PICK q : Of(w, q, {"customPrice"})
  BY OfPrices
<1>2. UNCHANGED <<login, outlet, depot, addOn, stale>> /\ Level
  BY OfPrices DEF places, logins, Level
<1>3. ASSUME Books(task[w]), task' = [task EXCEPT ![w] = q] PROVE Books(q)'
  <2>1. Priced(q)'
    BY <1>3, PricesPriced DEF Books
  <2>. QED
    BY <1>1, <1>2, <1>3, <2>1, BooksSame
<1>. QED
  BY <1>1, <1>3, BooksGo DEF Of

\* Loyalty is sold to who is on Pro.
LEMMA LoyaltyOnePlan ==
  ASSUME TenancyTypes, Rows, NEW w \in Admins, NEW q, task' = [task EXCEPT ![w] = q], OnePlan(task[w]), LoyaltyStep(w)
  PROVE  OnePlan(q)'
<1>0. PICK p : p = task[w]
  OBVIOUS
<1>1. UNCHANGED <<outlet, sub>> /\ LiveOutlets' = LiveOutlets /\ Level
  BY OfLoyalty DEF places, Level, LiveOutlets
<1>2. CASE AskLoyalty(w)
  <2>1. PICK r : Admitted(w, r) /\ (r.op = "loyaltyOff" \/ (r.op = "loyaltyOn" /\ HasPrimary /\ Primary.plan = "Pro"))
    BY <1>2, LoyaltyAsked
  <2>2. q = r /\ p = NoTask /\ addOn' = addOn
    BY <1>0, <2>1, AdmittedIs DEF bills
  <2>3. ~Moving(p) /\ ~Moving(q) /\ ~Doing(q, "addOutlet") /\ ~Doing(q, "changePlan")
    BY <2>1, <2>2, NoTaskMade DEF Moving, In, Doing
  <2>4. ASSUME Doing(q, "loyaltyOn") PROVE AllOn("Pro")
    <3>1. HasPrimary /\ Primary.plan = "Pro"
      BY <2>1, <2>2, <2>4 DEF Doing
    <3>. QED
      BY <1>0, <2>3, <3>1, PrimaryOn DEF OnePlan
  <2>. QED
    BY <1>0, <1>1, <2>2, <2>3, <2>4, OnePlanGo DEF Billed
<1>3. CASE LoyaltyOn(w) \/ LoyaltyOff(w)
  <2>1. /\ q = NoTask /\ (addOn'["loyalty"] = 1 => AllOn("Pro"))
        /\ p.op \in {"loyaltyOn", "loyaltyOff"} /\ p.step = "asked"
    <3>1. q = NoTask
      BY <1>3, DoneIs DEF LoyaltyOn, LoyaltyOff
    <3>2. CASE LoyaltyOn(w)
      BY <1>0, <3>1, <3>2 DEF LoyaltyOn, At, OnePlan, Doing
    <3>3. CASE LoyaltyOff(w)
      BY <1>0, <3>1, <3>3 DEF LoyaltyOff, At, TenancyTypes, TenantTypeOK
    <3>. QED
      BY <1>3, <3>2, <3>3
  <2>2. ~Moving(p) /\ ~Moving(q) /\ ~Doing(q, "addOutlet") /\ ~Doing(q, "loyaltyOn") /\ ~Doing(q, "changePlan")
    BY <2>1, NoTaskMade DEF Moving, In, Doing
  <2>3. \A o, x \in LiveOutlets : sub[o].plan = sub[x].plan
    BY <1>0, <2>2 DEF OnePlan
  <2>4. /\ ~Moving(q)' /\ (\A o, x \in LiveOutlets : sub[o].plan = sub[x].plan)'
        /\ (addOn["loyalty"] = 1 => AllOn("Pro"))'
    BY <1>1, <2>1, <2>2, <2>3 DEF AllOn, Moving, In
  <2>. QED
    BY <2>2, <2>4 DEF OnePlan, Doing
<1>. QED
  BY <1>2, <1>3 DEF LoyaltyStep

LEMMA LoyaltyBook ==
  ASSUME TenancyTypes, Serial, OutletsInv, KeptInv, PairedInv, BooksInv, NEW w \in Admins, LoyaltyStep(w)
  PROVE  BooksInv'
<1>1. PICK q : Of(w, q, {"loyaltyOn", "loyaltyOff"})
  BY OfLoyalty
<1>2. UNCHANGED <<login, outlet, depot, sub, logged, stale>> /\ Billed("user") /\ Billed("warehouse") /\ Level
  BY OfLoyalty DEF places, logins, Level
<1>3. ASSUME Books(task[w]), task' = [task EXCEPT ![w] = q] PROVE Books(q)'
  <2>1. OnePlan(q)'
    BY <1>3, LoyaltyOnePlan DEF Books, OutletsInv
  <2>2. /\ ~Moving(task[w]) /\ ~Moving(q) /\ ~Holding(q) /\ Settled(task[w])
        /\ (q.op \notin {"addLogin", "dropLogin"} \/ q.step = "idle")
        /\ ~In(task[w], "customPrice", {"made"}) /\ ~In(q, "customPrice", {"made"})
    BY <1>1, Elsewhere
  <2>3. Housed(q)'
    BY <1>2, <1>3, <2>2, HousedSame DEF Books
  <2>4. Seated(q)'
    BY <1>2, <1>3, <2>2, SeatedSame DEF Books
  <2>5. Priced(q)'
    BY <1>2, <1>3, <2>2, PricedSame DEF Books
  <2>. QED
    BY <2>1, <2>3, <2>4, <2>5 DEF Books
<1>. QED
  BY <1>1, <1>3, BooksGo DEF Of

\* A request that is cut off before it wrote anything.
LEMMA FailBooks ==
  ASSUME TenancyTypes, Serial, OutletsInv, KeptInv, PairedInv, BooksInv, NEW w \in Admins, Fail(w)
  PROVE  BooksInv'
<1>1. StepBy(w, NoTask)
  BY DEF StepBy
<1>2. UNCHANGED <<login, outlet, depot, sub, logged, addOn, stale>> /\ Level /\ \A a : Billed(a)
  BY DEF Fail, places, logins, bills, ghosts, Level, Billed
<1>3. ASSUME Books(task[w]), task[w].step \in {"asked", "open"} PROVE Books(NoTask)'
  <2>1. ~Moving(task[w]) /\ Settled(task[w]) /\ ~In(task[w], "customPrice", {"made"})
    BY <1>3 DEF Moving, Settled, In
  <2>2. /\ ~Moving(NoTask) /\ ~Holding(NoTask) /\ ~In(NoTask, "customPrice", {"made"})
        /\ ~Doing(NoTask, "addOutlet") /\ ~Doing(NoTask, "loyaltyOn") /\ ~Doing(NoTask, "changePlan")
        /\ NoTask.op \notin {"addLogin", "dropLogin"}
    BY NoTaskMade DEF Moving, Holding, In, Doing
  <2>. QED
    BY <1>2, <1>3, <2>1, <2>2, OnePlanSame, HousedSame, SeatedSame, PricedSame DEF Books
<1>. QED
  BY <1>1, <1>3, BooksGo DEF Fail

(***************************************************************************)
(* A change of plan.                                                       *)
(***************************************************************************)
LEMMA ChangingOn ==
  ASSUME NEW p, NEW q, NEW s \in {"half", "subs"}, Changing(p), ~Moving(p), Follows(q, p, s), UNCHANGED <<outlet, sub>>
  PROVE  Changing(q)'
<1>1. /\ q.saw = p.saw /\ q.todo = p.todo /\ q.plan = p.plan /\ q.step # "seats" /\ LiveOutlets' = LiveOutlets
      /\ p.todo = LiveOutlets
  BY DEF Follows, LiveOutlets, Changing
<1>2. /\ Read(p.saw) = LiveOutlets /\ p.plan # Was(p.saw)
      /\ \A o \in LiveOutlets : p.saw[o] = sub[o] /\ sub[o].plan = Was(p.saw)
  BY <1>1 DEF Changing
<1>3. PICK saw, was : saw = p.saw /\ was = Was(saw) /\ Read(saw)' = Read(saw) /\ Was(saw)' = Was(saw)
  BY DEF Read, Was
<1>4. /\ (Read(saw) = LiveOutlets /\ q.plan # Was(saw))'
      /\ \A o \in LiveOutlets' : saw[o] = sub'[o] /\ sub'[o].plan = was
  BY <1>1, <1>2, <1>3
<1>. QED
  BY <1>1, <1>3, <1>4 DEF Changing

\* A plan is changed from the one that all outlets are on.
LEMMA AskPlanChanges ==
  ASSUME TenancyTypes, Rows, NEW w \in Admins, NEW plan \in Plans, AskPlan(w, plan),
         NEW q, task' = [task EXCEPT ![w] = q], \A o, x \in LiveOutlets : sub[o].plan = sub[x].plan
  PROVE  /\ Changing(q)' /\ task[w] = NoTask /\ q.op = "changePlan" /\ q.step = "asked"
         /\ UNCHANGED <<login, outlet, depot, sub, logged, addOn, stale>>
<1>1. PICK r : /\ Admitted(w, r) /\ r.op = "changePlan" /\ r.plan = plan /\ r.todo = Charged(sub)
               /\ r.saw = [o \in Outlets |-> IF o \in Charged(sub) THEN sub[o] ELSE NoSub]
               /\ HasPrimary /\ Primary.plan # plan
  BY PlanAsked
<1>2. /\ q = r /\ task[w] = NoTask /\ q.step = "asked"
      /\ UNCHANGED <<login, outlet, depot, sub, logged, addOn, stale>>
  <2>1. Admitted(w, r)
    BY <1>1
  <2>. QED
    BY <2>1, AdmittedIs DEF places, logins, bills
<1>3. Charged(sub) = LiveOutlets /\ LiveOutlets \in SUBSET Outlets /\ LiveOutlets # {} /\ LiveOutlets' = LiveOutlets
  <2>1. LiveOutlets' = LiveOutlets
    BY <1>2 DEF LiveOutlets
  <2>. QED
    BY <1>1, <2>1, ChargedLive DEF HasPrimary
<1>4. PICK saw : saw = [o \in Outlets |-> IF o \in LiveOutlets THEN sub[o] ELSE NoSub]
  OBVIOUS
<1>5. \A o \in LiveOutlets : sub[o].status # "none"
  BY <1>3 DEF Rows, Paying, LiveOutlets
<1>6. NoSub.status = "none"
  BY DEF NoSub
<1>7. Read(saw) = LiveOutlets
  BY <1>3, <1>4, <1>5, <1>6 DEF Read
<1>8. Min(LiveOutlets) \in LiveOutlets
  BY <1>3, FewestOutlet
<1>9. Was(saw) = Primary.plan
  BY <1>3, <1>4, <1>7, <1>8 DEF Was, Primary
<1>10. AllOn(Primary.plan)
  BY <1>1, PrimaryOn
<1>11. PICK was : was = Was(saw) /\ Read(saw)' = Read(saw) /\ Was(saw)' = Was(saw)
  BY DEF Read, Was
<1>12. /\ q.saw = saw /\ q.todo = LiveOutlets /\ q.plan = plan /\ q.plan # was
       /\ \A o \in LiveOutlets : saw[o] = sub[o] /\ sub[o].plan = was
  BY <1>1, <1>2, <1>3, <1>4, <1>9, <1>10, <1>11 DEF AllOn
<1>13. Changing(q)'
  BY <1>2, <1>3, <1>7, <1>11, <1>12 DEF Changing
<1>. QED
  BY <1>1, <1>2, <1>13

\* Loyalty ends before the outlets leave Pro.
LEMMA LoyaltyLeaves ==
  ASSUME NEW p, OnePlan(p), Doing(p, "changePlan"), ~Moving(p), LiveOutlets # {}, addOn["loyalty"] = 1
  PROVE  Leaves(p)
<1>1. PICK o : o \in LiveOutlets
  OBVIOUS
<1>2. sub[o].plan = "Pro" /\ sub[o].plan = Was(p.saw) /\ p.plan # Was(p.saw)
  BY <1>1 DEF OnePlan, Changing, AllOn
<1>. QED
  BY <1>2 DEF Leaves

LEMMA RowOnward ==
  ASSUME TenancyTypes, NEW w \in Admins, MoveSubscription(w), NEW o \in Outlets, o = Min(task[w].todo)
  PROVE  /\ sub'[o].plan = task[w].plan /\ sub'[o].price = NoPrice
         /\ \A x \in Outlets \ {o} : sub'[x] = sub[x]
<1>1. PICK plan, price, status :
        /\ plan = task[w].plan /\ price = NoPrice
        /\ status = IF EndsTrial(task[w].saw[o], task[w].plan) THEN "Active" ELSE sub[o].status
  OBVIOUS
<1>2. sub' = [sub EXCEPT ![o].plan = plan, ![o].price = price, ![o].status = status]
  BY <1>1, TaskTyped DEF MoveSubscription, TenancyTypes, TenantTypeOK
<1>3. sub'[o].plan = plan
  BY <1>2, RowMoved
<1>4. sub'[o].price = price
  <2>1. PICK row \in SubRow : row = sub[o]
    BY DEF TenancyTypes, TenantTypeOK
  <2>2. sub'[o] = [row EXCEPT !.plan = plan, !.price = price, !.status = status]
    BY <1>2, <2>1 DEF TenancyTypes, TenantTypeOK
  <2>. QED
    BY <2>1, <2>2 DEF SubRow
<1>5. \A x \in Outlets \ {o} : sub'[x] = sub[x]
  BY <1>2, RowMoved
<1>. QED
  BY <1>1, <1>3, <1>4, <1>5

LEMMA MovesChange ==
  ASSUME TenancyTypes, NEW w \in Admins, NEW q, task' = [task EXCEPT ![w] = q], Changing(task[w]), MoveSubscription(w)
  PROVE  /\ Changing(q)' /\ In(task[w], "changePlan", {"subs"}) /\ In(q, "changePlan", {"subs"})
         /\ UNCHANGED <<login, outlet, depot, addOn, stale>>
         /\ (\A x \in Outlets : sub[x].price = logged[x]) => \A x \in Outlets : sub'[x].price = logged'[x]
<1>0. PICK p : p = task[w]
  OBVIOUS
<1>1. PICK r, o : /\ Advance(w, r) /\ r.step = "subs" /\ r.op = "changePlan" /\ r.saw = p.saw
                  /\ r.plan = p.plan /\ r.todo = p.todo \ {o} /\ o \in p.todo /\ o \in Outlets /\ o = Min(p.todo)
  BY <1>0, MoveSubscriptionAdvances
<1>2. q = r
  BY <1>1, AdvanceIs
<1>3. /\ p.op = "changePlan" /\ p.step = "subs" /\ UNCHANGED <<login, outlet, depot, addOn, stale>>
      /\ logged' = IF p.saw[o].price = NoPrice THEN logged ELSE [logged EXCEPT ![o] = NoPrice]
  BY <1>0, <1>1 DEF MoveSubscription, At, logins, places
<1>4. sub'[o].plan = p.plan /\ sub'[o].price = NoPrice /\ \A x \in Outlets \ {o} : sub'[x] = sub[x]
  BY <1>0, <1>1, RowOnward
<1>5. /\ Read(p.saw) = LiveOutlets /\ p.todo \subseteq LiveOutlets /\ p.plan # Was(p.saw)
      /\ (\A x \in p.todo : p.saw[x] = sub[x] /\ sub[x].plan = Was(p.saw))
      /\ \A x \in LiveOutlets \ p.todo : sub[x].plan = p.plan
  BY <1>0 DEF Changing
<1>6. LiveOutlets' = LiveOutlets /\ LiveOutlets \subseteq Outlets
  BY <1>3 DEF LiveOutlets
<1>7. PICK saw, was : saw = p.saw /\ was = Was(saw) /\ Read(saw)' = Read(saw) /\ Was(saw)' = Was(saw)
  BY DEF Read, Was
<1>8. /\ q.saw = saw /\ q.plan = p.plan /\ q.todo \subseteq LiveOutlets
      /\ (\A x \in q.todo : saw[x] = sub'[x] /\ sub'[x].plan = was)
      /\ \A x \in LiveOutlets \ q.todo : sub'[x].plan = q.plan
  BY <1>1, <1>2, <1>4, <1>5, <1>6, <1>7
<1>9. In(q, "changePlan", {"subs"}) /\ q.step # "seats" /\ Moving(q)'
  BY <1>1, <1>2 DEF In, Moving
<1>10. Changing(q)'
  BY <1>5, <1>6, <1>7, <1>8, <1>9 DEF Changing
<1>11. ASSUME \A x \in Outlets : sub[x].price = logged[x], NEW x \in Outlets PROVE sub'[x].price = logged'[x]
  <2>1. logged'[o] = NoPrice /\ \A y \in Outlets \ {o} : logged'[y] = logged[y]
    BY <1>1, <1>3, <1>5, <1>11 DEF TenancyTypes, TenantTypeOK
  <2>. QED
    BY <1>4, <1>11, <2>1
<1>. QED
  BY <1>0, <1>3, <1>9, <1>10, <1>11 DEF In

\* The seats are counted when all outlets are on the new plan.
LEMMA SeatsCounted ==
  ASSUME TenancyTypes, NEW w \in Admins, NEW q, task' = [task EXCEPT ![w] = q], Changing(task[w]), CountSeats(w)
  PROVE  /\ Changing(q)' /\ In(task[w], "changePlan", {"subs"}) /\ In(q, "changePlan", {"seats"})
         /\ UNCHANGED <<login, outlet, depot, sub, logged, addOn, stale>> /\ q.over = Over(LiveOutlets, sub)'
<1>0. PICK p : p = task[w]
  OBVIOUS
<1>1. PICK r : /\ Advance(w, r) /\ r.step = "seats" /\ r.op = "changePlan" /\ r.saw = p.saw
               /\ r.plan = p.plan /\ r.todo = p.todo
               /\ r.over = Over(Read(p.saw), [o \in Outlets |-> [plan |-> p.plan]])
  BY <1>0, CountSeatsAdvances
<1>2. q = r
  BY <1>1, AdvanceIs
<1>3. p.op = "changePlan" /\ p.step = "subs" /\ p.todo = {} /\ UNCHANGED <<login, outlet, depot, sub, logged, addOn, stale>>
  BY <1>0 DEF CountSeats, At, logins, places, bills
<1>4. /\ Read(p.saw) = LiveOutlets /\ p.plan # Was(p.saw) /\ \A x \in LiveOutlets : sub[x].plan = p.plan
  BY <1>0, <1>3 DEF Changing
<1>5. LiveOutlets' = LiveOutlets /\ LiveOutlets \subseteq Outlets /\ Active' = Active /\ Level
  BY <1>3 DEF LiveOutlets, Active, Level
<1>6. PICK saw, was : saw = p.saw /\ was = Was(saw) /\ Read(saw)' = Read(saw) /\ Was(saw)' = Was(saw)
  BY DEF Read, Was
<1>7. In(q, "changePlan", {"seats"}) /\ Moving(q)'
  BY <1>1, <1>2 DEF In, Moving
<1>8. Changing(q)'
  <2>1. q.saw = saw /\ q.plan = p.plan /\ q.todo = {} /\ \A x \in LiveOutlets' : sub'[x].plan = q.plan
    BY <1>1, <1>2, <1>3, <1>4, <1>5, <1>6
  <2>. QED
    BY <1>4, <1>5, <1>6, <1>7, <2>1 DEF Changing
<1>9. q.over = Over(LiveOutlets, sub)
  <2>1. PICK subs : subs = [o \in Outlets |-> [plan |-> p.plan]]
    OBVIOUS
  <2>2. [o \in LiveOutlets |-> Seats[subs[o].plan]] = [o \in LiveOutlets |-> Seats[sub[o].plan]]
    BY <1>4, <1>5, <2>1
  <2>3. Included(LiveOutlets, subs) = Included(LiveOutlets, sub)
    BY <2>2 DEF Included
  <2>. QED
    BY <1>1, <1>2, <1>4, <2>1, <2>3 DEF Over
<1>10. Over(LiveOutlets, sub)' = Over(LiveOutlets, sub)
  BY <1>3, <1>5, IncludedSame
<1>. QED
  BY <1>0, <1>3, <1>7, <1>8, <1>9, <1>10 DEF In

\* Its steps before and after the subscriptions are moved.
LEMMA PlanGoes ==
  ASSUME TenancyTypes, NEW w \in Admins, NEW q, task' = [task EXCEPT ![w] = q],
         CloseWarehouses(w) \/ OpenMain(w) \/ CloseDepots(w) \/ OpenMainDepot(w) \/ Sideways(w)
  PROVE  /\ Doing(task[w], "changePlan") /\ ~Moving(task[w]) /\ UNCHANGED <<login, outlet, sub, logged>>
         /\ Billed("user") /\ ("user" \in stale' <=> "user" \in stale) /\ q.op = "changePlan"
         /\ CloseWarehouses(w) \/ OpenMain(w) => Follows(q, task[w], "half") /\ Billed("loyalty")
         /\ CloseDepots(w) \/ OpenMainDepot(w) \/ Sideways(w) => Follows(q, task[w], "subs")
<1>1. /\ task[w].op = "changePlan" /\ task[w].step \in {"asked", "half"} /\ UNCHANGED <<login, outlet, sub, logged>>
      /\ ("user" \in stale' <=> "user" \in stale) /\ (~CloseDepots(w) => addOn' = addOn)
  BY DEF CloseWarehouses, OpenMain, CloseDepots, OpenMainDepot, Sideways, At, logins, places, bills
<1>2. /\ CloseWarehouses(w) \/ OpenMain(w) => Goto(w, "half") /\ addOn' = addOn
      /\ CloseDepots(w) \/ OpenMainDepot(w) \/ Sideways(w) => Goto(w, "subs")
  BY DEF CloseWarehouses, OpenMain, CloseDepots, OpenMainDepot, Sideways, bills
<1>3. \A s \in {"half", "subs"} : Goto(w, s) => Follows(q, task[w], s)
  BY GotoIs DEF Steps
<1>4. Billed("user")
  BY <1>1 DEF CloseDepots, Billed, TenancyTypes, TenantTypeOK
<1>5. q.op = "changePlan"
  BY <1>1, <1>2, <1>3 DEF Follows
<1>. QED
  BY <1>1, <1>2, <1>3, <1>4, <1>5 DEF Doing, Moving, In, Billed

LEMMA PlanGoesOn ==
  ASSUME TenancyTypes, LiveOutlets # {}, NEW w \in Admins, NEW q, task' = [task EXCEPT ![w] = q], OnePlan(task[w]),
         CloseWarehouses(w) \/ OpenMain(w) \/ CloseDepots(w) \/ OpenMainDepot(w) \/ Sideways(w)
  PROVE  OnePlan(q)'
<1>0. PICK p : p = task[w]
  OBVIOUS
<1>1. Doing(p, "changePlan") /\ ~Moving(p) /\ UNCHANGED <<outlet, sub>> /\ Level /\ q.op = "changePlan"
  BY <1>0, PlanGoes DEF Level
<1>2. PICK s \in {"half", "subs"} :
        /\ Follows(q, p, s)
        /\ s = "half" => Billed("loyalty")
        /\ s = "subs" => CloseDepots(w) \/ OpenMainDepot(w) \/ Sideways(w)
  BY <1>0, PlanGoes
<1>3. Changing(p) /\ OnePlan(p)
  BY <1>0, <1>1 DEF OnePlan
<1>4. Changing(q)'
  BY <1>1, <1>2, <1>3, ChangingOn
<1>5. ~Doing(q, "addOutlet") /\ ~Doing(q, "loyaltyOn") /\ q.step = s
  BY <1>1, <1>2 DEF Doing, Follows
<1>6. CASE s = "half"
  <2>1. ~Moving(q)
    BY <1>5, <1>6 DEF Moving, In
  <2>. QED
    BY <1>1, <1>2, <1>3, <1>4, <1>5, <1>6, <2>1, OnePlanGo
<1>7. CASE s = "subs"
  <2>1. addOn'["loyalty"] # 1
    <3>1. CASE CloseDepots(w)
      BY <3>1 DEF CloseDepots, TenancyTypes, TenantTypeOK
    <3>2. CASE OpenMainDepot(w) \/ Sideways(w)
      <4>1. ~Leaves(p) /\ addOn' = addOn
        BY <1>0, <3>2 DEF OpenMainDepot, Sideways, Arrives, Leaves, bills
      <4>. QED
        BY <1>1, <1>3, <4>1, LoyaltyLeaves
    <3>. QED
      BY <1>2, <1>7, <3>1, <3>2
  <2>2. Moving(q)'
    BY <1>1, <1>5, <1>7 DEF Moving, In
  <2>. QED
    BY <1>4, <1>5, <2>1, <2>2 DEF OnePlan, Doing
<1>. QED
  BY <1>6, <1>7

LEMMA PlanOnePlan ==
  ASSUME TenancyTypes, Rows, LiveOutlets # {}, NEW w \in Admins, NEW q, task' = [task EXCEPT ![w] = q],
         OnePlan(task[w]), ChangePlan(w)
  PROVE  OnePlan(q)'
<1>0. PICK p : p = task[w]
  OBVIOUS
<1>1. ASSUME NEW plan \in Plans, AskPlan(w, plan) PROVE OnePlan(q)'
  <2>1. task[w].step = "idle"
    BY <1>1 DEF AskPlan, Accept
  <2>2. ~Moving(task[w])
    BY <2>1 DEF Moving, In
  <2>3. \A o, x \in LiveOutlets : sub[o].plan = sub[x].plan
    BY <2>2 DEF OnePlan
  <2>4. /\ Changing(q)' /\ q.op = "changePlan" /\ q.step = "asked"
        /\ UNCHANGED <<login, outlet, depot, sub, logged, addOn, stale>>
    BY <1>1, <2>3, AskPlanChanges
  <2>5. ~Moving(q) /\ ~Doing(q, "addOutlet") /\ ~Doing(q, "loyaltyOn")
    BY <2>4 DEF Moving, In, Doing
  <2>. QED
    BY <2>2, <2>4, <2>5, OnePlanGo DEF Level, Billed
<1>2. CASE MoveSubscription(w) \/ CountSeats(w)
  <2>1. In(p, "changePlan", {"subs"})
    BY <1>0, <1>2 DEF MoveSubscription, CountSeats, At, In
  <2>2. Changing(p) /\ addOn["loyalty"] # 1
    BY <1>0, <2>1 DEF OnePlan, In, Doing, Moving
  <2>3. Changing(q)' /\ In(q, "changePlan", {"subs", "seats"}) /\ addOn' = addOn
    <3>1. CASE MoveSubscription(w)
      BY <1>0, <2>2, <3>1, MovesChange DEF In
    <3>2. CASE CountSeats(w)
      BY <1>0, <2>2, <3>2, SeatsCounted DEF In
    <3>. QED
      BY <1>2, <3>1, <3>2
  <2>4. Moving(q)'
    BY <2>3 DEF Moving, In
  <2>. QED
    BY <2>2, <2>3, <2>4 DEF OnePlan, In, Doing
<1>3. CASE BillSeats(w)
  <2>1. /\ In(p, "changePlan", {"seats"}) /\ q = NoTask /\ UNCHANGED <<outlet, sub>> /\ addOn'["loyalty"] = addOn["loyalty"]
    BY <1>0, <1>3, DoneIs DEF BillSeats, At, In, places, TenancyTypes, TenantTypeOK
  <2>2. addOn["loyalty"] # 1 /\ \A o \in LiveOutlets : sub[o].plan = p.plan
    BY <1>0, <2>1 DEF OnePlan, In, Doing, Moving, Changing
  <2>3. LiveOutlets' = LiveOutlets
    BY <2>1 DEF LiveOutlets
  <2>4. ~Doing(q, "addOutlet") /\ ~Doing(q, "loyaltyOn") /\ ~Doing(q, "changePlan") /\ ~Moving(q)
    BY <2>1, NoTaskMade DEF Doing, Moving, In
  <2>5. (\A o, x \in LiveOutlets : sub[o].plan = sub[x].plan)' /\ addOn'["loyalty"] # 1
    BY <2>1, <2>2, <2>3
  <2>. QED
    BY <2>4, <2>5 DEF OnePlan, Doing
<1>. QED
  BY <1>1, <1>2, <1>3, PlanGoesOn DEF ChangePlan

LEMMA PlanHoused ==
  ASSUME TenancyTypes, NEW w \in Admins, NEW q, Of(w, q, {"changePlan"}), task' = [task EXCEPT ![w] = q],
         Housed(task[w]), ChangePlan(w)
  PROVE  Housed(q)'
<1>1. ~Holding(q)
  BY Elsewhere
<1>2. CASE CloseDepots(w)
  <2>1. LiveDepots' = {} /\ addOn'["warehouse"] = 0 /\ "warehouse" \notin stale'
    BY <1>2 DEF CloseDepots, LiveDepots, TenancyTypes, TenantTypeOK
  <2>2. Billable(LiveDepots)' = 0
    BY <2>1 DEF Billable
  <2>. QED
    BY <1>1, <2>1, <2>2 DEF Housed, DepotsBilled, Held, Holding, In
<1>3. CASE OpenMainDepot(w)
  <2>1. "warehouse" \in stale' /\ depot'[Main] = "live"
    BY <1>3, TenancyAssumption DEF OpenMainDepot, TenancyTypes, TenantTypeOK
  <2>. QED
    BY <1>1, <2>1 DEF Housed, DepotsBilled, Held, Holding, In
<1>4. CASE ~CloseDepots(w) /\ ~OpenMainDepot(w)
  <2>1. depot' = depot /\ ("warehouse" \in stale' <=> "warehouse" \in stale)
    BY <1>4 DEF ChangePlan, AskPlan, CloseWarehouses, OpenMain, Sideways, MoveSubscription, CountSeats, BillSeats,
      Accept, places, ghosts
  <2>2. Billed("warehouse")
    BY <1>4 DEF ChangePlan, AskPlan, CloseWarehouses, OpenMain, Sideways, MoveSubscription, CountSeats, BillSeats,
      Accept, bills, Billed, TenancyTypes, TenantTypeOK
  <2>. QED
    BY <1>1, <2>1, <2>2, HousedSame
<1>. QED
  BY <1>2, <1>3, <1>4

\* The seats of the new plan are billed.
LEMMA SeatsBilled ==
  ASSUME TenancyTypes, NEW w \in Admins, NEW q, task' = [task EXCEPT ![w] = q], Seated(task[w]), BillSeats(w)
  PROVE  Seated(q)'
<1>1. PICK p : p = task[w]
  OBVIOUS
<1>2. /\ p.step = "seats" /\ p.op = "changePlan" /\ q = NoTask /\ addOn' = [addOn EXCEPT !["user"] = p.over]
      /\ UNCHANGED <<login, outlet, sub>>
  BY <1>1, DoneIs DEF BillSeats, At, logins, places
<1>3. p.over = Over(LiveOutlets, sub)
  BY <1>1, <1>2 DEF Seated, Counting, In
<1>4. PICK i \in Nat, c \in Nat :
        /\ i = Included(LiveOutlets, sub) /\ c = Cardinality(Active) /\ p.over = Beyond(c, i)
  BY <1>3, SeatsTyped
<1>5. Active' = Active /\ Included(LiveOutlets, sub)' = i
  BY <1>2, <1>4, IncludedSame DEF Active, Level
<1>6. addOn'["user"] = Beyond(c, i)
  BY <1>2, <1>4 DEF TenancyTypes, TenantTypeOK
<1>7. Uncounted(q) = 0 /\ ~Counting(q) /\ Whose(q)'
  BY <1>2, NothingCounted
<1>8. /\ ("user" \notin stale /\ ~Moving(q) =>
            addOn["user"] = Beyond(Cardinality(Active) - Uncounted(q), Included(LiveOutlets, sub)))'
      /\ (Counting(q) => q.over = Over(LiveOutlets, sub))'
  <2>1. c - 0 = c
    OBVIOUS
  <2>. QED
    BY <1>4, <1>5, <1>6, <1>7, <2>1 DEF Uncounted, Beyond, Counting, In
<1>. QED
  BY <1>7, <1>8 DEF Seated

LEMMA PlanSeated ==
  ASSUME TenancyTypes, NEW w \in Admins, NEW q, Of(w, q, {"changePlan"}), task' = [task EXCEPT ![w] = q],
         OnePlan(task[w]), Seated(task[w]), ChangePlan(w)
  PROVE  Seated(q)'
<1>0. Settled(task[w]) /\ (q.op \notin {"addLogin", "dropLogin"} \/ q.step = "idle")
  BY Elsewhere
<1>1. ASSUME NEW plan \in Plans, AskPlan(w, plan) PROVE Seated(q)'
  <2>1. PICK r : Admitted(w, r) /\ r.op = "changePlan"
    BY <1>1, PlanAsked
  <2>2. q = r /\ task[w] = NoTask /\ q.step = "asked" /\ UNCHANGED <<login, outlet, sub, addOn, stale>>
    BY <2>1, AdmittedIs DEF places, logins, bills
  <2>3. ~Moving(task[w]) /\ ~Moving(q)
    BY <2>2, NoTaskMade DEF Moving, In
  <2>. QED
    BY <1>0, <2>2, <2>3, SeatedSame DEF Level, Billed
<1>2. CASE CloseWarehouses(w) \/ OpenMain(w)
  <2>1. /\ UNCHANGED <<login, outlet, sub>> /\ Billed("user") /\ ("user" \in stale' <=> "user" \in stale)
        /\ ~Moving(task[w]) /\ Follows(q, task[w], "half")
    BY <1>2, PlanGoes
  <2>2. ~Moving(q)
    BY <2>1 DEF Follows, Moving, In
  <2>. QED
    BY <1>0, <2>1, <2>2, SeatedSame DEF Level
<1>3. CASE CloseDepots(w) \/ OpenMainDepot(w) \/ Sideways(w) \/ MoveSubscription(w)
  <2>1. In(q, "changePlan", {"subs"})
    <3>1. CASE MoveSubscription(w)
      <4>1. task[w].op = "changePlan" /\ task[w].step = "subs"
        BY <3>1 DEF MoveSubscription, At
      <4>2. PICK r : Advance(w, r) /\ r.step = "subs" /\ r.op = "changePlan"
        BY <3>1, MoveSubscriptionAdvances
      <4>3. q = r
        BY <4>2, AdvanceIs
      <4>. QED
        BY <4>2, <4>3 DEF In
    <3>2. CASE CloseDepots(w) \/ OpenMainDepot(w) \/ Sideways(w)
      <4>1. Follows(q, task[w], "subs") /\ q.op = "changePlan"
        BY <3>2, PlanGoes
      <4>. QED
        BY <4>1 DEF Follows, In
    <3>. QED
      BY <1>3, <3>1, <3>2
  <2>2. Moving(q)' /\ ~Counting(q)' /\ Whose(q)'
    BY <2>1 DEF Moving, Counting, Whose, In
  <2>. QED
    BY <2>2 DEF Seated
<1>4. CASE CountSeats(w)
  <2>1. Changing(task[w])
    BY <1>4 DEF CountSeats, At, OnePlan, Doing
  <2>2. In(q, "changePlan", {"seats"}) /\ q.over = Over(LiveOutlets, sub)'
    BY <1>4, <2>1, SeatsCounted
  <2>3. Moving(q)' /\ Whose(q)'
    BY <2>2 DEF Moving, Whose, In
  <2>. QED
    BY <2>2, <2>3 DEF Seated
<1>5. CASE BillSeats(w)
  BY <1>5, SeatsBilled
<1>. QED
  BY <1>1, <1>2, <1>3, <1>4, <1>5 DEF ChangePlan

LEMMA PlanPriced ==
  ASSUME TenancyTypes, NEW w \in Admins, NEW q, Of(w, q, {"changePlan"}), task' = [task EXCEPT ![w] = q],
         OnePlan(task[w]), Priced(task[w]), ChangePlan(w)
  PROVE  Priced(q)'
<1>1. ~In(task[w], "customPrice", {"made"}) /\ ~In(q, "customPrice", {"made"})
  BY Elsewhere
<1>2. CASE MoveSubscription(w)
  <2>1. Changing(task[w])
    BY <1>2 DEF MoveSubscription, At, OnePlan, Doing
  <2>2. \A x \in Outlets : sub[x].price = logged[x]
    BY <1>1 DEF Priced, In
  <2>3. \A x \in Outlets : sub'[x].price = logged'[x]
    BY <1>2, <2>1, <2>2, MovesChange
  <2>. QED
    BY <1>1, <2>3 DEF Priced, In
<1>3. CASE ~MoveSubscription(w)
  <2>1. UNCHANGED <<sub, logged>>
    BY <1>3 DEF ChangePlan, AskPlan, CloseWarehouses, CloseDepots, OpenMain, OpenMainDepot, Sideways, CountSeats,
      BillSeats, Accept, bills
  <2>. QED
    BY <1>1, <2>1, PricedSame
<1>. QED
  BY <1>2, <1>3

LEMMA PlansBook ==
  ASSUME TenancyTypes, Serial, OutletsInv, KeptInv, PairedInv, BooksInv, NEW w \in Admins, ChangePlan(w)
  PROVE  BooksInv'
<1>1. PICK q : Of(w, q, {"changePlan"})
  BY OfPlans
<1>2. ASSUME LiveOutlets # {}, Books(task[w]), task' = [task EXCEPT ![w] = q] PROVE Books(q)'
  <2>1. OnePlan(q)'
    BY <1>2, PlanOnePlan DEF Books, OutletsInv
  <2>2. Housed(q)'
    BY <1>1, <1>2, PlanHoused DEF Books
  <2>3. Seated(q)'
    BY <1>1, <1>2, PlanSeated DEF Books
  <2>4. Priced(q)'
    BY <1>1, <1>2, PlanPriced DEF Books
  <2>. QED
    BY <2>1, <2>2, <2>3, <2>4 DEF Books
<1>. QED
  BY <1>1, <1>2, BooksGo DEF Of

LEMMA BooksStep ==
  ASSUME TenancyTypes, Serial, OutletsInv, KeptInv, PairedInv, BooksInv, [TenantNext]_tenantVars
  PROVE  BooksInv'
<1>1. CASE UNCHANGED tenantVars \/ Tick
  <2>1. UNCHANGED <<duty, tenant, login, outlet, depot, sub, logged, addOn, stale, task, overlapped, cut>>
    BY <1>1 DEF tenantVars, Tick, places, logins, bills, ghosts
  <2>2. \A p : Working(p)' => Working(p)
    BY <2>1 DEF Working, Idle, Lone
  <2>3. ASSUME NEW p, Books(p) PROVE Books(p)'
    <3>1. /\ LiveOutlets' = LiveOutlets /\ LiveDepots' = LiveDepots /\ Active' = Active
          /\ Included(LiveOutlets, sub)' = Included(LiveOutlets, sub) /\ Over(LiveOutlets, sub)' = Over(LiveOutlets, sub)
      <4>1. Active' = Active /\ LiveDepots' = LiveDepots /\ Level
        BY <2>1 DEF Active, LiveDepots, Level
      <4>. QED
        BY <2>1, <4>1, IncludedSame
    <3>2. OnePlan(p)'
      BY <2>1, <2>3, <3>1 DEF Books, OnePlan, Moving, AllOn, Changing, Doing, In, Was, Read
    <3>3. Housed(p)'
      BY <2>1, <2>3, <3>1 DEF Books, Housed, DepotsBilled, Held, In, Billable
    <3>4. Seated(p)'
      BY <2>1, <2>3, <3>1 DEF Books, Seated, Whose, Uncounted, Counting, Beyond, Moving, In
    <3>5. Priced(p)'
      BY <2>1, <2>3 DEF Books, Priced, In
    <3>. QED
      BY <3>2, <3>3, <3>4, <3>5 DEF Books
  <2>4. Calm' => Calm
    BY <2>1 DEF Calm
  <2>. QED
    BY <2>1, <2>2, <2>3, <2>4 DEF BooksInv
<1>2. ASSUME NEW w \in Admins, SignUp(w) PROVE BooksInv'
  BY <1>2, SignUpsOnly DEF BooksInv
<1>3. ASSUME NEW w \in Admins, AnyOutlet(w) PROVE BooksInv'
  BY <1>3, AddOutletBook, DropOutletBook, PaymentsBook, PricesBook DEF AnyOutlet
<1>4. ASSUME NEW w \in Admins, AnyPlan(w) PROVE BooksInv'
  BY <1>4, PlansBook, LoyaltyBook DEF AnyPlan, LoyaltyStep
<1>5. ASSUME NEW w \in Admins, AnyLogin(w) PROVE BooksInv'
  BY <1>5, LoginsBook
<1>6. ASSUME NEW w \in Admins, AnyWarehouse(w) PROVE BooksInv'
  BY <1>6, WarehousesBook DEF AnyWarehouse
<1>. QED
  BY <1>1, <1>2, <1>3, <1>4, <1>5, <1>6, FailBooks, Zenon DEF TenantNext

\* At least one outlet, whose plan seats at least the owner, bills for no login.
LEMMA OwnerSeated ==
  ASSUME NEW O \in SUBSET Outlets, O # {}, NEW subs, \A o \in O : subs[o].plan \in Plans
  PROVE  Included(O, subs) \in Nat /\ Included(O, subs) >= 1
<1> DEFINE f == [o \in O |-> Seats[subs[o].plan]]
<1>1. PICK o : o \in O
  OBVIOUS
<1>2. IsFiniteSet(O) /\ IsFiniteSet(O \ {o})
  BY CountsTyped, FS_RemoveElement
<1>3. \A x \in O : f[x] \in Nat \ {0} /\ f[x] \in Int
  BY TenancyAssumption
<1> HIDE DEF f
<1>4. SumOver(f, O) = SumOver(f, O \ {o}) + f[o]
  BY <1>1, <1>2, <1>3, SumOverRemove
<1>5. SumOver(f, O \ {o}) \in Nat
  BY <1>2, <1>3, SumOverNat
<1>6. f[o] \in Nat \ {0}
  BY <1>1, <1>3
<1>. QED
  BY <1>4, <1>5, <1>6 DEF Included, f

LEMMA OneDepot ==
  ASSUME NEW K \in SUBSET {Main}
  PROVE  Billable(K) = 0
<1>1. K = {} \/ K = {Main}
  OBVIOUS
<1>2. Cardinality({Main}) = 1
  BY FS_Singleton
<1>. QED
  BY <1>1, <1>2 DEF Billable

LEMMA BooksStart == TenantInit => BooksInv
<1> SUFFICES ASSUME TenantInit, "signUp" \notin duty PROVE \A p : Working(p) => Books(p)
  BY DEF BooksInv
<1>1. \A p : Working(p) => p = NoTask
  BY DEF TenantInit, Working
<1>2. PICK O, plan, status, offer :
        O \in SUBSET Outlets /\ plan \in Plans /\ Stands(O, plan, status, offer) /\ 1 \in O
  <2>1. PICK start, offer :
          start \in Starts /\ Stands(IF duty \cap {"addOutlet", "dropLogin"} # {} THEN {1} ELSE Outlets, start.plan, start.status, offer)
    BY DEF TenantInit
  <2>2. PICK O : O = IF duty \cap {"addOutlet", "dropLogin"} # {} THEN {1} ELSE Outlets
    OBVIOUS
  <2>3. O \in SUBSET Outlets /\ 1 \in O /\ start.plan \in Plans
    BY <2>1, <2>2, TenancyAssumption
  <2>4. Stands(O, start.plan, start.status, offer)
    BY <2>1, <2>2
  <2>. QED
    BY <2>3, <2>4
<1>3. /\ logged = [o \in Outlets |-> NoPrice] /\ addOn = [a \in {"user", "warehouse", "loyalty"} |-> 0] /\ stale = {}
  BY DEF TenantInit
<1>4. LiveOutlets = O
  BY <1>2 DEF Stands, LiveOutlets
<1>5. \A o \in Outlets : sub[o].price = NoPrice /\ (o \in O => sub[o].plan = plan)
  BY <1>2 DEF Stands, NoSub
<1>6. LiveDepots \in SUBSET {Main}
  BY <1>2 DEF Stands, LiveDepots
<1>7. Active = {Owner} /\ Cardinality(Active) = 1
  <2>1. login = [n \in Logins |-> [life |-> IF n = Owner THEN "live" ELSE "absent", word |-> 0]]
    BY <1>2 DEF Stands
  <2>2. \A n \in Logins : login[n].life = "live" <=> n = Owner
    BY <2>1
  <2>3. Active = {Owner}
    BY <2>2, TenancyAssumption DEF Active
  <2>. QED
    BY <2>3, FS_Singleton
<1>8. PICK i \in Nat : i = Included(LiveOutlets, sub) /\ i >= 1
  BY <1>2, <1>4, <1>5, OwnerSeated
<1>9. /\ ~Moving(NoTask) /\ ~Doing(NoTask, "addOutlet") /\ ~Doing(NoTask, "loyaltyOn") /\ ~Doing(NoTask, "changePlan")
      /\ ~Holding(NoTask) /\ ~In(NoTask, "customPrice", {"made"}) /\ ~Counting(NoTask) /\ Uncounted(NoTask) = 0
      /\ Whose(NoTask)
  BY NoTaskMade DEF Moving, Doing, Holding, In, Counting, Uncounted, Whose
<1>10. OnePlan(NoTask)
  <2>1. addOn["loyalty"] = 0
    BY <1>3
  <2>2. \A o, x \in LiveOutlets : sub[o].plan = sub[x].plan
    BY <1>2, <1>4, <1>5
  <2>. QED
    BY <1>9, <2>1, <2>2 DEF OnePlan
<1>11. Housed(NoTask)
  <2>1. Billable(LiveDepots) = 0
    BY <1>6, OneDepot
  <2>. QED
    BY <1>3, <1>9, <2>1 DEF Housed, DepotsBilled, Held, Holding, In
<1>12. Seated(NoTask)
  <2>1. Beyond(Cardinality(Active) - Uncounted(NoTask), Included(LiveOutlets, sub)) = 0
    BY <1>7, <1>8, <1>9 DEF Beyond
  <2>. QED
    BY <1>3, <1>9, <2>1 DEF Seated
<1>13. Priced(NoTask)
  BY <1>3, <1>5, <1>9 DEF Priced
<1>. QED
  BY <1>1, <1>10, <1>11, <1>12, <1>13 DEF Books

(***************************************************************************)
(* Nothing is billed or priced before a sign-up is over.                   *)
(***************************************************************************)
LEMMA FreshStart == TenantInit => FreshInv
<1> SUFFICES ASSUME TenantInit, "signUp" \in duty PROVE Unbilled
  BY DEF FreshInv
<1>1. Empty
  BY DEF TenantInit
<1>2. \A o \in Outlets : sub[o].price = NoPrice
  BY <1>1 DEF Empty, NoSub
<1>. QED
  BY <1>2 DEF TenantInit, Unbilled

LEMMA SignUpFresh ==
  ASSUME TenancyTypes, Unbilled, NEW w \in Admins, SignUp(w)
  PROVE  Unbilled'
<1>1. stale' = stale /\ logged' = logged /\ (~UndoSignUp(w) => addOn' = addOn)
  BY DEF SignUp, AskSignUp, MakeTenant, SetUpUser, SetUpShop, SetUpDepot, SetUpMain, EndSignUp, UndoSignUp, Accept,
    bills, ghosts
<1>2. \A a \in {"user", "warehouse", "loyalty"} : addOn'[a] = 0
  <2>1. CASE UndoSignUp(w)
    BY <2>1 DEF UndoSignUp, TenancyTypes, TenantTypeOK
  <2>. QED
    BY <1>1, <2>1 DEF Unbilled
<1>3. PICK row : sub' = [sub EXCEPT ![1] = row] /\ row.price = NoPrice
  <2>1. CASE MakeTenant(w)
    <3>1. PICK row : row = [NoSub EXCEPT !.plan = task[w].plan, !.until = now + Month,
                               !.status = IF task[w].found THEN "trial" ELSE "Active"]
      OBVIOUS
    <3>2. row.price = NoPrice
      BY <3>1 DEF NoSub
    <3>3. sub' = [sub EXCEPT ![1] = row]
      BY <2>1, <3>1 DEF MakeTenant
    <3>. QED
      BY <3>2, <3>3
  <2>2. CASE UndoSignUp(w)
    <3>1. sub' = [sub EXCEPT ![1] = NoSub] /\ NoSub.price = NoPrice
      BY <2>2 DEF UndoSignUp, NoSub
    <3>. QED
      BY <3>1
  <2>3. CASE ~MakeTenant(w) /\ ~UndoSignUp(w)
    <3>1. sub' = sub
      BY <2>3 DEF SignUp, AskSignUp, SetUpUser, SetUpShop, SetUpDepot, SetUpMain, EndSignUp, Accept, bills
    <3>2. sub = [sub EXCEPT ![1] = sub[1]] /\ sub[1].price = NoPrice
      BY TenancyAssumption DEF Unbilled, TenancyTypes, TenantTypeOK
    <3>. QED
      BY <3>1, <3>2
  <2>. QED
    BY <2>1, <2>2, <2>3
<1>4. ASSUME NEW o \in Outlets PROVE sub'[o].price = NoPrice
  <2>1. sub'[o] = row \/ sub'[o] = sub[o]
    BY <1>3 DEF TenancyTypes, TenantTypeOK
  <2>. QED
    BY <1>3, <2>1 DEF Unbilled
<1>. QED
  BY <1>1, <1>2, <1>4 DEF Unbilled

LEMMA FreshStep ==
  ASSUME TenancyTypes, FreshInv, [TenantNext]_tenantVars
  PROVE  FreshInv'
<1>1. ASSUME UNCHANGED tenantVars \/ Tick \/ \E w \in Admins : Fail(w) PROVE FreshInv'
  BY <1>1 DEF tenantVars, Tick, Fail, bills, ghosts, FreshInv, Unbilled
<1>2. ASSUME NEW w \in Admins, SignUp(w) PROVE FreshInv'
  <2>1. "signUp" \in duty
    <3>1. duty' = duty
      BY <1>2 DEF SignUp, AskSignUp, MakeTenant, SetUpUser, SetUpShop, SetUpDepot, SetUpMain, EndSignUp, UndoSignUp,
        Accept, Goto, Done, Goes
    <3>. QED
      BY <1>2, <3>1, SignUpsOnly
  <2>. QED
    BY <1>2, <2>1, SignUpFresh DEF FreshInv
<1>3. ASSUME NEW w \in Admins, AnyLogin(w) \/ AnyWarehouse(w) \/ AnyOutlet(w) \/ AnyPlan(w) PROVE FreshInv'
  BY <1>3, OthersStand DEF FreshInv
<1>. QED
  BY <1>1, <1>2, <1>3, Zenon DEF TenantNext

(***************************************************************************)
(* What a tenant is charged is right.                                      *)
(***************************************************************************)
LEMMA BookedRight ==
  ASSUME TenancyTypes, Rows, LiveOutlets # {}, Books(NoTask)
  PROVE  /\ "user" \notin stale => addOn["user"] = Over(Charged(sub), sub)
         /\ "warehouse" \notin stale => addOn["warehouse"] = Billable(LiveDepots)
         /\ \A o, p \in Charged(sub) : sub[o].plan = sub[p].plan
         /\ addOn["loyalty"] = 1 => Primary.plan = "Pro"
         /\ \A o \in Outlets : sub[o].price = logged[o]
<1>1. /\ ~Moving(NoTask) /\ ~In(NoTask, "customPrice", {"made"}) /\ Uncounted(NoTask) = 0
  BY NoTaskMade DEF Moving, In, Uncounted
<1>2. Charged(sub) = LiveOutlets /\ HasPrimary
  BY ChargedLive DEF HasPrimary
<1>3. "user" \notin stale => addOn["user"] = Over(Charged(sub), sub)
  <2>1. PICK c \in Nat : c = Cardinality(Active) /\ c - 0 = c
    BY SeatsTyped
  <2>2. "user" \notin stale => addOn["user"] = Beyond(c, Included(LiveOutlets, sub))
    BY <1>1, <2>1 DEF Books, Seated
  <2>. QED
    BY <1>2, <2>1, <2>2, SeatsTyped
<1>4. "warehouse" \notin stale => addOn["warehouse"] = Billable(LiveDepots)
  BY DEF Books, Housed, DepotsBilled
<1>5. \A o, p \in Charged(sub) : sub[o].plan = sub[p].plan
  BY <1>1, <1>2 DEF Books, OnePlan
<1>6. addOn["loyalty"] = 1 => Primary.plan = "Pro"
  <2>1. PICK o \in LiveOutlets : Primary = sub[o]
    BY <1>2, PrimaryIs
  <2>. QED
    BY <2>1 DEF Books, OnePlan, AllOn
<1>7. \A o \in Outlets : sub[o].price = logged[o]
  BY <1>1 DEF Books, Priced
<1>. QED
  BY <1>3, <1>4, <1>5, <1>6, <1>7

\* A tenant just signed up owes nothing but its plan.
LEMMA FreshRight ==
  ASSUME TenancyTypes, Rows, Unbilled, tenant, Signed, depot \in {NoDepot, OnlyMain}
  PROVE  /\ addOn["user"] = Over(Charged(sub), sub) /\ addOn["warehouse"] = Billable(LiveDepots)
         /\ \A o, p \in Charged(sub) : sub[o].plan = sub[p].plan
         /\ addOn["loyalty"] # 1
<1>1. login = OnlyOwner /\ outlet = OnlyFirst /\ 1 \in Outlets /\ Owner \in Logins
  BY TenancyAssumption DEF Signed
<1>2. Charged(sub) = {1} /\ LiveOutlets = {1}
  <2>1. LiveOutlets = {1}
    BY <1>1 DEF OnlyFirst, LiveOutlets
  <2>. QED
    BY <2>1, ChargedLive
<1>3. Active = {Owner} /\ Cardinality(Active) = 1
  <2>1. Active = {Owner}
    BY <1>1 DEF OnlyOwner, Active
  <2>. QED
    BY <2>1, FS_Singleton
<1>4. PICK i \in Nat : i = Included(LiveOutlets, sub) /\ i >= 1
  <2>1. \A o \in LiveOutlets : sub[o].plan \in Plans
    BY DEF LiveOutlets, TenancyTypes, TenantTypeOK, SubRow
  <2>2. LiveOutlets \in SUBSET Outlets /\ LiveOutlets # {}
    BY <1>1, <1>2
  <2>. QED
    BY <2>1, <2>2, OwnerSeated
<1>5. Over(LiveOutlets, sub) = 0
  BY <1>3, <1>4, SeatsTyped DEF Beyond
<1>6. LiveDepots \in SUBSET {Main}
  BY DEF LiveDepots, NoDepot, OnlyMain
<1>7. Billable(LiveDepots) = 0
  BY <1>6, OneDepot
<1>. QED
  BY <1>2, <1>5, <1>7 DEF Unbilled

\* A tenant whose requests ran one at a time, each to its end or undone, is billed
\* for the logins beyond its seats and the warehouses beyond the first, on one
\* plan, for loyalty on Pro only, and at the prices the log recorded; and the
\* portal's screens agree on what it costs, whatever overlapped or failed.
THEOREM ChargedStaysRight == TenantSpec => []ChargedRight
<1> DEFINE Inv == TenancyTypes /\ Serial /\ OutletsInv /\ KeptInv /\ PairedInv /\ FoundedInv /\ BooksInv /\ FreshInv
<1>1. TenantInit => Inv
  BY TypesStart, SerialStart, OutletsStart, KeptStart, PairedStart, FoundedStart, BooksStart, FreshStart
<1>2. Inv /\ [TenantNext]_tenantVars => Inv'
  BY TypesStep, SerialStep, OutletsStep, KeptStep, PairedStep, FoundedStep, BooksStep, FreshStep
<1>3. Inv => ChargedRight
  <2> SUFFICES ASSUME Inv PROVE BilledRight /\ PriceLogged
    BY ScreensStand DEF ChargedRight, TenancyTypes
  <2>1. Rows
    BY DEF OutletsInv
  <2>2. ASSUME Tidy PROVE /\ Working(NoTask) /\ Calm /\ (tenant => LiveOutlets # {})
                          /\ ("signUp" \notin duty => tenant /\ Books(NoTask))
    <3>1. Working(NoTask) /\ Calm
      BY <2>2 DEF Tidy, Working, Calm
    <3>. QED
      BY <3>1 DEF KeptInv, Intact, PairedInv, BooksInv, Calm
  <2>3. ASSUME Tidy, "signUp" \in duty PROVE Unbilled /\ Signed /\ depot \in {NoDepot, OnlyMain}
    <3>1. FoundedAt(Stage(NoTask)) /\ Signed
      BY <2>2, <2>3 DEF FoundedInv
    <3>. QED
      BY <2>3, <3>1 DEF FreshInv, FoundedAt
  <2>4. PriceLogged
    BY <2>1, <2>2, <2>3, BookedRight DEF PriceLogged, Unbilled
  <2>5. BilledRight
    <3> SUFFICES ASSUME Tidy, tenant
                 PROVE  /\ "user" \notin stale => addOn["user"] = Over(Charged(sub), sub)
                        /\ "warehouse" \notin stale => addOn["warehouse"] = Billable(LiveDepots)
                        /\ \A o, p \in Charged(sub) : sub[o].plan = sub[p].plan
                        /\ addOn["loyalty"] = 1 => Primary.plan = "Pro"
      BY DEF BilledRight, Billable
    <3>1. CASE "signUp" \notin duty
      BY <2>1, <2>2, <3>1, BookedRight
    <3>2. CASE "signUp" \in duty
      BY <2>1, <2>3, <3>2, FreshRight
    <3>. QED
      BY <3>1, <3>2
  <2>. QED
    BY <2>4, <2>5
<1> HIDE DEF Inv
<1>. QED
  BY <1>1, <1>2, <1>3, PTL DEF TenantSpec
=============================================================================
