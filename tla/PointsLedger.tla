---------------------------- MODULE PointsLedger ----------------------------
(***************************************************************************)
(* The loyalty points of one member: the account's currentPoints, the      *)
(* point batches behind it, and the transactions that say how it came      *)
(* about.  Sales and their reversals (sales.service.ts), manual earning,   *)
(* redemption and adjustment (loyalty.service.ts) and the nightly expiry   *)
(* (cron/loyalty-expiry.cron.ts) all write the three.                      *)
(*                                                                         *)
(* A request is two steps of a worker, as in StockLedger: Begin reads a    *)
(* snapshot and plans its writes, Commit applies them.  A batch is written *)
(* absolutely, from the snapshot; currentPoints is written relatively.     *)
(* The expiry reads a page of batches outside any transaction and zeroes   *)
(* them in a later one.                                                    *)
(***************************************************************************)
EXTENDS Sequences, FiniteSets, Sums

CONSTANTS
    Sales,       \* sales of the member
    Earn,        \* points the total of each sale earns
    Deferred,    \* sales that may be left owing (kasbon, pay at pickup)
    Reopenable,  \* laundry sales, which collect makes Completed again
    Workers,     \* requests in flight at once
    Amounts,     \* points a request may redeem or adjust by
    Mixes,       \* sets of operations and sales to consider together
    Openings,    \* sequences of batches the account may start with
    PageSize,    \* BATCH_SIZE of the cron
    MaxBatches,  \* bound: no request that adds a batch beyond this starts
    MaxReversals \* bound: a laundry order is reopened until it was reversed so often

Batch == [left: Nat, expires: {"never", "later", "past"}, sale: Sales \cup {"none"},
          state: {"live", "deleted"}]

Ops == {"sell", "pay", "reverse", "collect", "earn", "redeem", "adjust", "expire"}

ASSUME PointsAssumption ==
    /\ Sales # {} /\ Earn \in [Sales -> Nat] /\ Amounts \subseteq Nat \ {0}
    /\ Deferred \subseteq Sales /\ Reopenable \subseteq Sales
    /\ Mixes \subseteq SUBSET (Ops \cup Sales) /\ Openings \subseteq Seq(Batch) /\ "none" \notin Sales
    /\ PageSize \in Nat \ {0} /\ MaxBatches \in Nat
    /\ MaxReversals \in Nat

VARIABLES
    mix,     \* the operations and sales of this behaviour
    batch,   \* loyalty_point_batch rows, in the order they were earned
    points,  \* loyalty_account.currentPoints
    logged,  \* sum of the points of the loyalty_transaction rows
    sale,    \* the sales rows
    tx,      \* the plan each worker is about to commit
    cron,    \* the expiry job
    raced    \* history: two requests that draw from batches overlapped

vars == <<mix, batch, points, logged, sale, tx, cron, raced>>

\* earned, redeemed: loyaltyPointsEarned and -Redeemed; restored: how often it
\* was reversed; undone: the legs whose reversal is in the transactions.
States  == {"unrung", "owing", "completed", "reversed"}
SaleRow == [state: States, earned: Nat, redeemed: Nat, restored: Nat,
            undone: SUBSET {"earn", "redeem"}]

Ids == DOMAIN batch

\* to, earned, redeemed: what the sale becomes; seen: what is left in the
\* batches drawn from; take: what is taken of each; drop: batches that are
\* soft-deleted; add: batches created; undo: legs reversed; delta, log: what
\* currentPoints and the transactions change by.
NoPlan == [op |-> "idle", id |-> CHOOSE s \in Sales : TRUE, to |-> "unrung",
           earned |-> 0, redeemed |-> 0, seen |-> <<>>, take |-> <<>>,
           drop |-> {}, add |-> <<>>, undo |-> {}, delta |-> 0, log |-> 0]

\* due: batches past their date as the run began; page: the batches of the
\* page read, with what was left in them.
Asleep == [phase |-> "asleep", due |-> {}, cursor |-> 0, page |-> <<>>]

Draws(p) == DOMAIN p.take # {}

TypeOK ==
    /\ mix \in Mixes
    /\ batch \in Seq(Batch)
    /\ points \in Int /\ logged \in Int
    /\ sale \in [Sales -> SaleRow]
    /\ \A w \in Workers :
        /\ tx[w].op \in mix \cup {"idle"} /\ tx[w].id \in Sales /\ tx[w].to \in States
        /\ tx[w].earned \in Nat /\ tx[w].redeemed \in Nat
        /\ DOMAIN tx[w].take = DOMAIN tx[w].seen /\ DOMAIN tx[w].take \subseteq Ids
        /\ \A i \in DOMAIN tx[w].take : /\ tx[w].seen[i] \in Nat
                                       /\ tx[w].take[i] \in 0..tx[w].seen[i]
        /\ tx[w].drop \subseteq Ids /\ tx[w].add \in Seq(Batch)
        /\ tx[w].undo \subseteq {"earn", "redeem"}
        /\ tx[w].delta \in Int /\ tx[w].log \in Int
    /\ cron.phase \in {"asleep", "awake"} /\ cron.due \subseteq Ids /\ cron.cursor \in Nat
    /\ DOMAIN cron.page \subseteq Ids
    /\ \A i \in DOMAIN cron.page : cron.page[i] \in Nat
    /\ raced \in BOOLEAN

----------------------------------------------------------------------------
(* Batches *)

Total(f, S) == Sum([i \in Ids |-> IF i \in S THEN f[i] ELSE 0], Len(batch))
Left        == [i \in Ids |-> batch[i].left]
Live        == {i \in Ids : batch[i].state = "live" /\ batch[i].left > 0}
Dated       == {i \in Ids : batch[i].expires # "never"}
Due         == {i \in Ids : batch[i].expires = "past"}
Held        == Total(Left, Live)

Init ==
    /\ mix \in Mixes
    /\ batch \in Openings
    /\ points = Held /\ logged = Held
    /\ sale = [s \in Sales |-> [state |-> "unrung", earned |-> 0, redeemed |-> 0,
                             restored |-> 0, undone |-> {}]]
    /\ tx = [w \in Workers |-> NoPlan]
    /\ cron = Asleep
    /\ raced = FALSE

\* Mutant: points that never expire are spent first.
NeverFirst(i, j) == \/ i \notin Dated /\ j \in Dated
                    \/ i < j /\ (i \in Dated <=> j \in Dated)
\* expiresAt ascending with nulls last, then earnedAt: every dated batch of
\* the program lasts as long, so the first earned expires first.
Sooner(i, j) == \/ i \in Dated /\ j \notin Dated
                \/ i < j /\ (i \in Dated <=> j \in Dated)

\* What FIFO depletion by n takes from each batch it reaches; Ahead is what
\* the batches before i hold.
Ahead(i) == Total(Left, {j \in Live : Sooner(j, i)})
Lesser(a, b) == IF a < b THEN a ELSE b
Taken(n) == [i \in {j \in Live : Ahead(j) < n} |-> Lesser(Left[i], n - Ahead(i))]

New(n, expires, s) == IF n > 0 THEN <<[left |-> n, expires |-> expires, sale |-> s,
                                       state |-> "live"]>>
                               ELSE <<>>

----------------------------------------------------------------------------
(* The steps of a request *)

\* Some request or the cron is about to write batches it has read.
Drawn == DOMAIN cron.page # {} \/ \E v \in Workers : Draws(tx[v])

Drawing(p, take) == [p EXCEPT !.take = take, !.seen = [i \in DOMAIN take |-> Left[i]]]

Begin(w, p) ==
    /\ p.op \in mix /\ tx[w].op = "idle"
    /\ Len(batch) + Len(p.add) <= MaxBatches
    /\ tx' = [tx EXCEPT ![w] = p]
    /\ raced' = (raced \/ (Draws(p) /\ Drawn))
    /\ UNCHANGED <<mix, batch, points, logged, sale, cron>>

\* The batch of a sale is unique, deleted or not.
EarnsOnce(p) == \A k \in DOMAIN p.add : p.add[k].sale # "none" =>
                    \A i \in Ids : batch[i].sale # p.add[k].sale

\* A reversal claims the sale; two checkouts of one sale are two sales.
Holds(p) ==
    /\ EarnsOnce(p)
    /\ p.op = "sell" => sale[p.id].state = "unrung"
    /\ p.op = "reverse" => sale[p.id].state = "completed"

Settled(p) == [i \in Ids |-> [batch[i] EXCEPT
                  !.left = IF i \in DOMAIN p.take THEN p.seen[i] - p.take[i] ELSE @,
                  !.state = IF i \in p.drop THEN "deleted" ELSE @]]

Became(row, p) ==
    [row EXCEPT !.state = p.to,
                !.earned = IF p.earned > 0 THEN p.earned ELSE @,
                !.redeemed = IF p.op = "sell" THEN p.redeemed ELSE @,
                !.restored = IF p.op = "reverse" THEN @ + 1 ELSE @,
                !.undone = @ \cup p.undo]

Commit(w) ==
    LET p == tx[w] IN
    /\ p.op # "idle" /\ Holds(p)
    /\ batch' = Settled(p) \o p.add
    /\ points' = points + p.delta
    /\ logged' = logged + p.log
    /\ sale' = IF p.op \notin {"sell", "pay", "reverse"} THEN sale ELSE [sale EXCEPT ![p.id] = Became(@, p)]
    /\ tx' = [tx EXCEPT ![w] = NoPlan]
    /\ UNCHANGED <<mix, cron, raced>>

\* Refused by Holds, a deadlock's victim, cut off by a timeout or a crash.
Abort(w) ==
    /\ tx[w].op # "idle"
    /\ tx' = [tx EXCEPT ![w] = NoPlan]
    /\ UNCHANGED <<mix, batch, points, logged, sale, cron, raced>>

----------------------------------------------------------------------------
(* Sales *)

\* A checkout redeems n points and, unless it is left owing, earns e.
Sell(w, s, n, e, owing) ==
    /\ s \in mix /\ sale[s].state = "unrung"
    /\ (n > 0 => points >= n) /\ (owing => s \in Deferred /\ e = 0)
    /\ Begin(w, Drawing([NoPlan EXCEPT
            !.op = "sell", !.id = s, !.to = IF owing THEN "owing" ELSE "completed",
            !.earned = e, !.redeemed = n, !.add = New(e, "later", s),
            !.delta = e - n, !.log = e - n], Taken(n)))

\* The payment that completes an owing sale earns its points.
Pay(w, s, e) ==
    /\ sale[s].state = "owing"
    /\ Begin(w, [NoPlan EXCEPT
            !.op = "pay", !.id = s, !.to = "completed", !.earned = e,
            !.add = New(e, "later", s), !.delta = e, !.log = e])

EarnedBatches(s) == {i \in Ids : /\ sale[s].earned > 0
                                 /\ batch[i].sale = s /\ batch[i].state = "live"}

\* Mutant: all the sale earned is taken back, spent or not.
ClawWhole(s) == sale[s].earned
\* What a reversal takes back of the points the sale earned.
Clawback(s) == Total(Left, EarnedBatches(s))

ClawLogged(s) == -Total(Left, EarnedBatches(s))

\* reverseLoyaltyForSale: the points left of the sale's earn are taken back,
\* those it redeemed come back in a batch that never expires.  Each of the two
\* is logged the first time only.
ReverseLoyalty(w, s) ==
    LET earns == EarnedBatches(s)
        again == sale[s].redeemed
        new(leg, n) == IF leg \in sale[s].undone THEN 0 ELSE n
    IN  /\ sale[s].state = "completed"
        /\ Begin(w, Drawing([NoPlan EXCEPT
                !.op = "reverse", !.id = s, !.to = "reversed", !.drop = earns,
                !.add = New(again, "never", "none"), !.delta = again - Clawback(s),
                !.log = new("redeem", again) + new("earn", ClawLogged(s)),
                !.undo = {leg \in {"earn", "redeem"} :
                            IF leg = "earn" THEN sale[s].earned > 0 ELSE again > 0}],
                [i \in earns |-> Left[i]]))

\* collect: a laundry order that was reversed is Completed again.
Reopen(s) ==
    /\ "collect" \in mix /\ s \in Reopenable /\ sale[s].state = "reversed"
    /\ sale[s].restored < MaxReversals
    /\ sale' = [sale EXCEPT ![s].state = "completed"]
    /\ UNCHANGED <<mix, batch, points, logged, tx, cron, raced>>

----------------------------------------------------------------------------
(* Manual operations *)

Manual(op, delta, add) == [NoPlan EXCEPT !.op = op, !.delta = delta, !.log = delta,
                                         !.add = add]

EarnPoints(w, n) == Begin(w, Manual("earn", n, New(n, "later", "none")))

\* consumePointsFifo throws when the batches do not cover the redemption.
RedeemPoints(w, n) ==
    /\ points >= n /\ Held >= n
    /\ Begin(w, Drawing(Manual("redeem", -n, <<>>), Taken(n)))

AdjustUp(w, n) == Begin(w, Manual("adjust", n, New(n, "never", "none")))

AdjustDown(w, n) ==
    /\ points >= n
    /\ Begin(w, Drawing(Manual("adjust", -n, <<>>), Taken(n)))

----------------------------------------------------------------------------
(* The expiry job *)

\* A batch passes its date; those earned before it have passed theirs.
ComesDue(i) ==
    /\ "expire" \in mix /\ i \in Dated \ Due
    /\ \A j \in Dated : j < i => j \in Due
    /\ batch' = [batch EXCEPT ![i].expires = "past"]
    /\ UNCHANGED <<mix, points, logged, sale, tx, cron, raced>>

Wake ==
    /\ "expire" \in mix /\ cron.phase = "asleep"
    /\ cron' = [Asleep EXCEPT !.phase = "awake", !.due = Due]
    /\ UNCHANGED <<mix, batch, points, logged, sale, tx, raced>>

FirstOf(n, S) == {i \in S : Cardinality({j \in S : j < i}) < n}

\* Mutant: the first row is skipped on every page.
PageSkipping == LET S == cron.due \cap Live IN FirstOf(PageSize, S \ FirstOf(1, S))
\* skip: 1 is an OFFSET into the rows from the cursor on.  It is meant to skip
\* the row of the cursor, which the filter already leaves out once it is zero.
PageRows ==
    LET S == {i \in cron.due \cap Live : i >= cron.cursor}
    IN  FirstOf(PageSize, IF cron.cursor = 0 THEN S ELSE S \ FirstOf(1, S))

ReadPage ==
    /\ cron.phase = "awake" /\ cron.page = <<>>
    /\ cron' = IF PageRows = {} THEN Asleep
               ELSE [cron EXCEPT !.page = [i \in PageRows |-> Left[i]]]
    /\ raced' = (raced \/ (PageRows # {} /\ Drawn))
    /\ UNCHANGED <<mix, batch, points, logged, sale, tx>>

\* What the account is charged for; GREATEST floors it at zero.
Charged == Total(cron.page, DOMAIN cron.page)
ExpirePage ==
    LET ids == DOMAIN cron.page IN
    /\ cron.phase = "awake" /\ ids # {}
    /\ batch' = [i \in Ids |-> [batch[i] EXCEPT !.left = IF i \in ids THEN 0 ELSE @]]
    /\ points' = IF points > Charged THEN points - Charged ELSE 0
    /\ logged' = logged - Charged
    /\ cron' = IF Cardinality(ids) < PageSize THEN Asleep
               ELSE [cron EXCEPT !.page = <<>>, !.cursor = CHOOSE i \in ids :
                                                               \A j \in ids : j <= i]
    /\ UNCHANGED <<mix, sale, tx, raced>>

\* The server restarts in the middle of a run.
Die ==
    /\ cron.phase = "awake"
    /\ cron' = Asleep
    /\ UNCHANGED <<mix, batch, points, logged, sale, tx, raced>>

Next ==
    \/ \E w \in Workers :
        \/ \E s \in Sales :
            \/ \E n \in Amounts \cup {0}, e \in {0, Earn[s]}, owing \in BOOLEAN :
                  Sell(w, s, n, e, owing)
            \/ \E e \in {0, Earn[s]} : Pay(w, s, e)
            \/ ReverseLoyalty(w, s)
        \/ \E n \in Amounts : \/ EarnPoints(w, n) \/ RedeemPoints(w, n)
                              \/ AdjustUp(w, n) \/ AdjustDown(w, n)
        \/ Commit(w) \/ Abort(w)
    \/ \E s \in Sales : Reopen(s)
    \/ \E i \in Ids : ComesDue(i)
    \/ Wake \/ ReadPage \/ ExpirePage \/ Die

Spec == Init /\ [][Next]_vars

\* The cron runs every night, and the server does not die in the middle of
\* every run.
FairSpec == /\ Spec /\ WF_vars(Wake) /\ SF_vars(ReadPage) /\ SF_vars(ExpirePage)

----------------------------------------------------------------------------
(* Properties *)

\* Unless two requests that draw from batches overlapped, the account shows
\* the sum of its batches: earning, restoring and paying may overlap anything.
PointsMatchBatches == ~raced => points = Held

\* Then also the transactions explain the balance, of sales reversed once.
HistoryExplains ==
    ~raced /\ (\A s \in Sales : sale[s].restored <= 1) => points = logged

\* The account, its batches and its history tell one balance.
BooksAgree == PointsMatchBatches /\ HistoryExplains

\* Whatever overlaps, the member never has less than the history shows.
NeverBelowHistory == points >= logged

\* The points a sale redeemed come back once, whichever reversals race.
RestoredOnce ==
    \A s \in Sales \ (Deferred \cup Reopenable) : sale[s].restored <= 1

\* What a request is about to write to a batch is computed from what the batch
\* still holds, unless two drawing requests overlapped.
SnapshotsCurrent ==
    ~raced => \A w \in Workers : \A i \in DOMAIN tx[w].take :
                  batch[i].state = "live" /\ batch[i].left = tx[w].seen[i]

\* Points that expire sooner are spent first: a step that takes points from a
\* batch leaves none in a batch before it that was there when it was earned.
DrawsInOrder ==
    \A w \in Workers :
        ~raced /\ tx[w].op # "reverse" /\ tx[w] # tx'[w] /\ batch' # batch =>
            \A i, j \in Ids : /\ i < j /\ (j \in Dated => i \in Dated)
                               /\ batch[i].state = "live" /\ batch'[j].left < batch[j].left
                => batch'[i].left = 0
SoonestFirst == [][DrawsInOrder]_vars

\* A batch past its date is emptied in the end, although the pages of a run
\* skip rows and a run may die.
EventuallyExpired ==
    \A i \in 1..MaxBatches :
        i \in Live \cap Due ~> i \notin Live
=============================================================================
