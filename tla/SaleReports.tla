---------------------------- MODULE SaleReports ----------------------------
(***************************************************************************)
(* What is said of the sales: the reports of a session, of an outlet and   *)
(* of a laundry shift (report.service.ts), the monthly summary             *)
(* (monthly-summary.service.ts), the dashboard's figures                   *)
(* (sales.service.ts), and the cache that keeps the outlet reports of      *)
(* closed periods as long as a fingerprint of the rows stays the same.     *)
(*                                                                         *)
(* The sales live as in SaleLifecycle, whose steps are taken over: to each *)
(* this module adds what it writes that the reports read.  A figure of a   *)
(* report stands for the rows it adds up.                                  *)
(*                                                                         *)
(* Of time only the order of UPDATED_AT stamps is kept: each write is      *)
(* stamped later than those before it, but for raw SQL, whose stamp is cut *)
(* to the second and may be no later than one committed already.           *)
(***************************************************************************)
EXTENDS SaleLifecycle, FiniteSets, Sequences, TLC

CONSTANTS
    Sessions,   \* sessions of the outlet
    NoSession,  \* the completedSessionId of a sale not completed
    LastDay,    \* business days are counted from 1 to this one
    Ended,      \* those that are over
    DayOf,      \* the business day of a sale
    PayDay,     \* the business day of payments received after checkout
    Expenses,   \* ids of expenses
    Periods,    \* sets of days that reports are asked of
    Readers,    \* requests for outlet reports there may be at once
    CacheCap,   \* OUTLET_REPORT_CACHE_MAX_ENTRIES
    Mixes,      \* what to look at: "sales" alone, the reports of "sessions",
                \* or the "cache"
    Looked,     \* bound: sales rung up while the reports are looked at
    MaxStamp    \* bound: stamps of writes while the cache is looked at

Days == 1 .. LastDay

ASSUME ReportsAssumption ==
    /\ NoSession \notin Sessions /\ Sessions # {}
    /\ LastDay \in Nat /\ Ended \subseteq Days /\ DayOf \in [Sales -> Days] /\ PayDay \in Days
    /\ Periods \subseteq SUBSET Days
    /\ Looked \subseteq Sales /\ CacheCap \in Nat \ {0} /\ MaxStamp \in Nat
    /\ Mixes \subseteq {"sales", "sessions", "cache"}

VARIABLES
    mix,        \* what this behaviour is about
    rung,       \* sessionId of each sale
    doneIn,     \* its completedSessionId
    margin,     \* its profitAmount: 0 as rung up, 1 written again
    stamp,      \* its UPDATED_AT
    slips,      \* the payment rows
    expense,    \* the expense rows
    shelf,      \* what the live sections show: stock and today's documents
    latest,     \* the latest stamp committed
    late,       \* history: days of rows stamped no later than another write
    strayed,    \* history: days whose figures changed with no row of theirs
                \* written: payments of a sale of another day, whose write
                \* concerned it alone, and an expense moved to another day
    cache,      \* the entries, least recently used first
    desk,       \* the requests for outlet reports
    since,      \* history: what each could have been told since it was made
    amid        \* history: those since whose making a report was stored

books == <<rung, doneIn, margin, stamp, slips, expense, shelf, latest, late,
           strayed, since, amid>>
desks == <<cache, desk>>
rvars == <<vars, mix, books, desks>>

Tables == {"sales", "payments", "expenses"}
First  == {"totals", "list"}  \* what a build reads first
Then   == {"details"}                    \* and after that

NoDesk == [at |-> "idle", period |-> {}, todo |-> {}, print |-> <<>>, said |-> <<>>]

RInit ==
    /\ Init
    /\ mix \in Mixes
    /\ rung = [s \in Sales |-> NoSession] /\ doneIn = rung
    /\ margin = [s \in Sales |-> 0] /\ stamp = margin
    /\ slips = {}
    /\ expense = [e \in Expenses |-> [st |-> "absent", day |-> 1, amount |-> 0, at |-> 0]]
    /\ shelf = 0 /\ latest = 0
    /\ late = {} /\ strayed = {}
    /\ cache = <<>> /\ desk = [r \in Readers |-> NoDesk]
    /\ since = [r \in Readers |-> {}] /\ amid = {}

----------------------------------------------------------------------------
(* The rows a figure adds up *)

Active == {"Completed", "Partially Paid", "Delivered"}
Taken  == Active \cup {"Returned", "Refunded"}

Line(s)     == [sale |-> s, paid |-> sale[s].paid, profit |-> margin[s]]
Live(S)     == {s \in S : ~sale[s].deleted}
Lines(S, T) == {Line(s) : s \in {x \in S : sale[x].status \in T}}

RungIn(k) == {s \in Sales : Exists(s) /\ rung[s] = k}
DoneIn(k) == {s \in Sales : Exists(s) /\ doneIn[s] = k}
OfDays(P) == {s \in Sales : Exists(s) /\ DayOf[s] \in P}

\* A payment counts as long as its sale does, whatever its own status.
Counts(s)  == sale[s].status \in Taken /\ ~sale[s].deleted
Counted(S) == {<<p.sale, p.no>> : p \in {q \in S : Counts(q.sale)}}

\* The aggregates by status: what was completed is that of `done`, the rest of
\* `own`; voids are counted though removed.
Totals(own, done) ==
    [completed |-> Lines(Live(done), {"Completed"}),
     partly    |-> Lines(Live(own), {"Partially Paid"}),
     delivered |-> Lines(Live(own), {"Delivered"}),
     returned  |-> Lines(Live(own), {"Returned"}),
     refunded  |-> Lines(Live(own), {"Refunded"}),
     voided    |-> Lines(own, {"Voided"})]

\* Rankings of items, and the categories, take lines of removed sales too.
Ranked(own, done) == [sold |-> Lines(own, Taken), ranked |-> Lines(done, {"Completed"})]

\* The lists behind the aggregates.
Details(own) ==
    [st \in {"Partially Paid", "Delivered", "Returned", "Refunded", "Voided"} |->
        Lines(Live(own), {st})]

\* Gains and losses are split over the list of sales.
Profits(own, done) ==
    [completed |-> Lines(done, {"Completed"}), partly |-> Lines(own, {"Partially Paid"}),
     delivered |-> Lines(own, {"Delivered"})]

\* Loads and supplies of laundry orders, and what their services brought.
Loads(S)    == Lines(S \cap Laundry, Taken)
Services(S) == Lines(Live(S) \cap Laundry, Active)

----------------------------------------------------------------------------
(* generateReport: the report of a session *)

SessionTotals(k)  == Totals(RungIn(k), DoneIn(k))
SessionRanked(k)  == Ranked(RungIn(k), DoneIn(k))
SessionTakings(k) == [paid |-> Counted({p \in slips : p.till = k})]
SessionDetails(k) == Details(RungIn(k))

\* Rung up in the session or completed in it.
SessionList(k) == Live(RungIn(k) \cup DoneIn(k))

SessionProfits(k) ==
    Profits(SessionList(k) \cap RungIn(k), SessionList(k) \cap DoneIn(k))

SessionLoads(k) == Loads(RungIn(k))

SessionReport(k) ==
    [totals |-> SessionTotals(k), ranked |-> SessionRanked(k), takings |-> SessionTakings(k),
     details |-> SessionDetails(k), profits |-> SessionProfits(k)]

(* generateLaundryReport: the report of a laundry shift *)

ShiftTotals(k) == [completed |-> Lines(Live(DoneIn(k)), {"Completed"})]
ShiftLoads(k)  == [loads |-> Loads(Live(RungIn(k))), services |-> Services(RungIn(k))]
ShiftProfits(k) ==
    [completed |-> Lines(SessionList(k) \cap DoneIn(k), {"Completed"})]

LaundryReport(k) ==
    [totals |-> ShiftTotals(k), takings |-> SessionTakings(k), laundry |-> ShiftLoads(k),
     profits |-> ShiftProfits(k)]

(* generateOutletReport: the report of an outlet *)

OutletTotals(P)  == Totals(OfDays(P), OfDays(P))
OutletRanked(P)  == Ranked(OfDays(P), OfDays(P))
OutletTakings(P) == [paid |-> Counted({p \in slips : p.day \in P})]
OutletList(P)    == Live(OfDays(P))
OutletDetails(P) == Details(OfDays(P))
OutletProfits(P) == Profits(OutletList(P), OutletList(P))
OutletLaundry(P) == [loads |-> Loads(Live(OfDays(P))), services |-> Services(OfDays(P))]
OutletCosts(P) ==
    {<<e, expense[e].amount>> : e \in {x \in Expenses : expense[x].st = "live"
                                                        /\ expense[x].day \in P}}

\* What one statement, or a group of them, tells.
Read(part, P) ==
    CASE part = "totals"  -> [totals |-> OutletTotals(P), ranked |-> OutletRanked(P),
                              takings |-> OutletTakings(P)]
      [] part = "list"    -> [list |-> OutletList(P), profits |-> OutletProfits(P)]
      [] part = "details" -> [details |-> OutletDetails(P), laundry |-> OutletLaundry(P),
                              costs |-> OutletCosts(P)]

OutletReport(P) == [part \in First \cup Then |-> Read(part, P)]

(* The dashboard and the monthly summary *)

GetTotalSalesData(k) == Lines(Live(RungIn(k)), Active)
GetRevenueTrend(d)   == Lines(Live(OfDays({d})), Active)
MonthlySummary(P) ==
    [orders      |-> Lines(Live(OfDays(P)), Active),
     outstanding |-> Lines(Live(OfDays(P)), {"Partially Paid"})]

----------------------------------------------------------------------------
(* The writes, with what the reports read of them *)

\* Bound: stamps are told apart under the cache, and sessions under the reports,
\* where every request names one.
Stamps == IF mix = "cache" THEN {latest + 1} \cap 1 .. MaxStamp ELSE {0}
Tills  == IF mix = "sessions" THEN Sessions ELSE {CHOOSE k \in Sessions : TRUE}

\* Rows of the days D are written with stamp t.
Dated(t, D) ==
    /\ latest' = IF t > latest THEN t ELSE latest
    /\ late' = IF mix = "cache" /\ t <= latest THEN late \cup D ELSE late

Requested(r) == desk[r].at = "printing"
Remember ==
    since' = [r \in Readers |->
                IF Requested(r) THEN since[r] \cup {OutletReport(desk[r].period)'} ELSE {}]

\* The rows of the sales S and payments of theirs: those in `paid` are stamped.
Wrote(S, paid, new, t) ==
    /\ stamp' = [s \in Sales |-> IF s \in S THEN t ELSE stamp[s]]
    /\ slips' = {IF p \in paid THEN [p EXCEPT !.at = t] ELSE p : p \in slips} \cup new
    /\ Dated(t, {DayOf[s] : s \in S} \cup {p.day : p \in paid \cup new})
    /\ strayed' = strayed \cup
         {p.day : p \in {q \in slips \ paid : /\ q.sale \in S /\ q.day # DayOf[q.sale]
                                              /\ Counts(q.sale)' # Counts(q.sale)}}
    /\ UNCHANGED <<expense, shelf, mix, amid, desks>>
    /\ Remember

Unwatched == mix = "sales" /\ UNCHANGED <<mix, books, desks>>

\* Bound: one sale is rung up under the reports; under the cache it is no
\* laundry order, paid in full or not at all, with no expense beside it.
InView(s, tender) ==
    /\ s \in Looked /\ \A o \in Sales : ~Exists(o)
    /\ mix = "cache" => /\ s \notin Laundry /\ tender \in {0, Total}
                        /\ \A e \in Expenses : expense[e].st = "absent"

SlipsOf(s) == {p \in slips : p.sale = s}
Slip(s, day, k, t) ==
    [sale |-> s, no |-> Cardinality(SlipsOf(s)) + 1, day |-> day, till |-> k, at |-> t]

\* A sale paid in full carries the session it was rung up in.
RingUp(s, tender) ==
    /\ Checkout(s, tender)
    /\ \/ Unwatched
       \/ \E k \in Tills, t \in Stamps :
            /\ mix # "sales" /\ InView(s, tender)
            /\ rung' = [rung EXCEPT ![s] = k]
            /\ doneIn' = [doneIn EXCEPT ![s] = IF tender >= Total THEN k ELSE @]
            /\ UNCHANGED margin
            /\ Wrote({s}, {}, IF tender > 0 THEN {Slip(s, DayOf[s], k, t)} ELSE {}, t)

\* Mutant: payments complete a sale in no session, as they once did.
CompletingNone(paid, k, was) == was
\* The session that takes the last payment completes the sale.
CompletingSession(paid, k, was) == IF paid >= Total /\ k # NoSession THEN k ELSE was

Settle(w, s) ==
    /\ CommitPay(w, s)
    /\ \/ Unwatched
       \/ \E k \in Tills, t \in Stamps :
            LET paid == tx[w].seen[s].paid + tx[w].tender IN
            /\ mix # "sales"
            /\ doneIn' = [doneIn EXCEPT ![s] = CompletingSession(paid, k, @)]
            /\ UNCHANGED <<rung, margin>>
            /\ Wrote({s}, {}, {Slip(s, PayDay, k, t)}, t)

\* Writes that touch the rows of the sales S, and those of payments in `paid`.
Touches(S, paid) ==
    \/ Unwatched
    \/ \E t \in Stamps : /\ mix # "sales"
                         /\ UNCHANGED <<rung, doneIn, margin>>
                         /\ Wrote(S, paid, {}, t)

Reverse(w, s) == CommitReverse(w, s) /\ Touches({s}, SlipsOf(s))
Confirm(w)    == CommitDeliver(w) /\ Touches(tx[w].batch, {})
Collect(w, s) == CommitCollect(w, s) /\ Touches({s}, {})
Delete(s)     == Remove(s) /\ Touches({s}, {})

\* The profit of a sale is written again (bound: once).
Reprice(s, T) ==
    /\ mix = "cache" /\ margin[s] = 0
    /\ margin' = [margin EXCEPT ![s] = 1]
    /\ UNCHANGED <<vars, rung, doneIn>>
    /\ \E t \in T : Wrote({s}, {}, {}, t)

\* update, with whatever the client sends; restateSoldLayerCosts, when the cost
\* of stock already sold is corrected, whose stamp SQL cuts to the second.
Update(s)  == Visible(s) /\ Reprice(s, Stamps)
Restate(s) == Exists(s) /\ Reprice(s, {latest : x \in Stamps})

(* expense.service.ts *)
Spend(e, row) ==
    /\ mix = "cache" /\ \A s \in Sales : ~Exists(s)
    /\ expense' = [expense EXCEPT ![e] = row]
    /\ Dated(row.at, {row.day, expense[e].day})
    /\ strayed' = IF row.day # expense[e].day /\ expense[e].st # "absent"
                   THEN strayed \cup {expense[e].day} ELSE strayed
    /\ UNCHANGED <<vars, mix, desks, rung, doneIn, margin, stamp, slips, shelf, amid>>
    /\ Remember

CreateExpense(e, d) ==
    /\ expense[e].st = "absent"
    /\ \E t \in Stamps : Spend(e, [st |-> "live", day |-> d, amount |-> 0, at |-> t])
UpdateExpense(e, d) ==
    /\ expense[e].st # "absent"
    /\ \E t \in Stamps : Spend(e, [expense[e] EXCEPT !.day = d, !.amount = 1 - @, !.at = t])
RemoveExpense(e) ==
    /\ expense[e].st = "live"
    /\ \E t \in Stamps : Spend(e, [expense[e] EXCEPT !.st = "gone", !.at = t])

\* Stock moves, and documents are entered (bound: once).
ShelfMoves ==
    /\ mix = "cache" /\ cache # <<>>
    /\ shelf = 0 /\ shelf' = 1
    /\ UNCHANGED <<vars, mix, desks, rung, doneIn, margin, stamp, slips, expense, latest,
                   late, strayed, since, amid>>

----------------------------------------------------------------------------
(* The cache of generateOutletReport *)

MaxOf(S) == IF S = {} THEN 0 ELSE CHOOSE n \in S : \A m \in S : m <= n

\* Mutant: removed rows are not looked at.
FingerprintLive(table, P) ==
    CASE table = "sales" -> <<Cardinality(Live(OfDays(P))), MaxOf({stamp[s] : s \in Live(OfDays(P))})>>
      [] table = "payments" ->
           LET kept == {p \in slips : p.day \in P} IN <<Cardinality(kept), MaxOf({p.at : p \in kept})>>
      [] table = "expenses" ->
           LET kept == {e \in Expenses : expense[e].st = "live" /\ expense[e].day \in P} IN
           <<Cardinality(kept), MaxOf({expense[e].at : e \in kept})>>

\* COUNT and MAX(UPDATED_AT) of the rows of the period, removed ones included.
Fingerprint(table, P) ==
    CASE table = "sales" -> <<Cardinality(OfDays(P)), MaxOf({stamp[s] : s \in OfDays(P)})>>
      [] table = "payments" ->
           LET paid == {p \in slips : p.day \in P} IN <<Cardinality(paid), MaxOf({p.at : p \in paid})>>
      [] table = "expenses" ->
           LET spent == {e \in Expenses : expense[e].st # "absent" /\ expense[e].day \in P} IN
           <<Cardinality(spent), MaxOf({expense[e].at : e \in spent})>>

\* isClosedPeriod
IsClosed(P) == P \subseteq Ended

Entry(P) == {n \in DOMAIN cache : cache[n].period = P}
Without(n) == SubSeq(cache, 1, n - 1) \o SubSeq(cache, n + 1, Len(cache))

\* setOutletReportCacheEntry: with no room left the one used longest ago goes.
Stored(x) ==
    Append(IF Entry(x.period) # {} THEN Without(CHOOSE n \in Entry(x.period) : TRUE)
           ELSE IF Len(cache) >= CacheCap THEN Tail(cache) ELSE cache, x)

Quiet == UNCHANGED <<vars, mix, rung, doneIn, margin, stamp, slips, expense, shelf, latest,
                     late, strayed>>
With(f, x, v) == [y \in DOMAIN f \cup {x} |-> IF y = x THEN v ELSE f[y]]
At(r, next) == desk' = [desk EXCEPT ![r] = next]
Started(P) == [NoDesk EXCEPT !.at = "building", !.period = P, !.todo = First]

\* A report of a period not closed is built, and not kept.
Ask(r, P) ==
    /\ mix = "cache" /\ desk[r].at = "idle" /\ IsClosed(P)
    /\ At(r, [NoDesk EXCEPT !.at = "printing", !.period = P, !.todo = Tables])
    /\ since' = [since EXCEPT ![r] = {OutletReport(P)}] /\ amid' = amid \ {r}
    /\ UNCHANGED cache /\ Quiet

\* computeOutletReportFingerprint asks the tables at once, in no order.
TakePrint(r, table) ==
    /\ desk[r].at = "printing" /\ table \in desk[r].todo
    /\ At(r, [desk[r] EXCEPT !.todo = @ \ {table},
                             !.print = With(@, table, Fingerprint(table, desk[r].period))])
    /\ UNCHANGED <<cache, since, amid>> /\ Quiet

Printed(r) == desk[r].at = "printing" /\ desk[r].todo = {}
Matching(r) == {n \in Entry(desk[r].period) : cache[n].print = desk[r].print}

\* Mutant: the live sections are served as they were kept.
AnswerKept(kept) == kept
\* What is kept is served with live sections read again.
Answer(kept) == [kept EXCEPT !["live"] = shelf]

Hit(r) ==
    /\ Printed(r) /\ Matching(r) # {}
    /\ \E n \in Matching(r) : cache' = Append(Without(n), cache[n])
    /\ At(r, NoDesk) /\ since' = [since EXCEPT ![r] = {}] /\ amid' = amid \ {r}
    /\ Quiet

Miss(r) ==
    /\ Printed(r) /\ Matching(r) = {}
    /\ At(r, [desk[r] EXCEPT !.at = "building", !.todo = First])
    /\ since' = [since EXCEPT ![r] = {}] /\ amid' = amid \ {r}
    /\ UNCHANGED cache /\ Quiet

\* The statements of a build run at once, and those of the details after them.
Build(r, part) ==
    /\ desk[r].at = "building" /\ part \in desk[r].todo
    /\ LET left == desk[r].todo \ {part} IN
       At(r, [desk[r] EXCEPT !.said = With(@, part, Read(part, desk[r].period)),
                             !.todo = IF left = {} /\ part \in First THEN Then ELSE left])
    /\ UNCHANGED <<cache, since, amid>> /\ Quiet

Store(r) ==
    /\ desk[r].at = "building" /\ desk[r].todo = {}
    /\ cache' = Stored([period |-> desk[r].period, print |-> desk[r].print,
                        said |-> With(desk[r].said, "live", shelf)])
    /\ At(r, NoDesk) /\ amid' = amid \cup {q \in Readers : Requested(q)}
    /\ UNCHANGED since /\ Quiet

----------------------------------------------------------------------------
\* Bounds: a laundry order in the reports has one request at a time.  So has a
\* sale under the cache: it pays the rest or voids, begins before a report is
\* asked for, and does not fail.
Alone == \A w \in Workers : tx[w].op = "idle"
Beside == UNCHANGED <<mix, books, desks>>
Begun ==
    /\ mix = "cache" \/ (mix = "sessions" /\ \E s \in Laundry : Exists(s)) => Alone
    /\ mix = "cache" => \A r \in Readers : desk[r].at = "idle"
    /\ Beside
BegunElse == mix # "cache" /\ Begun

RNext ==
    \/ \E s \in Sales :
          \/ \E t \in Tenders : RingUp(s, t)
          \/ Delete(s) \/ Update(s) \/ Restate(s)
          \/ WindowCloses(s) /\ Beside
    \/ \E w \in Workers, s \in Sales :
          \/ \E t \in Tenders : BeginPay(w, s, t) /\ Begun /\ (mix = "cache" => t >= Total)
          \/ VoidSales(w, s) /\ Begun
          \/ ReturnSales(w, s) /\ BegunElse
          \/ RefundSales(w, s) /\ BegunElse
          \/ BeginCollect(w, s) /\ BegunElse
          \/ Settle(w, s) \/ Reverse(w, s) \/ Collect(w, s)
    \/ \E w \in Workers :
          \/ \E batch \in SUBSET Sales : BeginDeliver(w, batch) /\ BegunElse
          \/ Confirm(w)
          \/ Abort(w) /\ mix # "cache" /\ Beside
    \/ \E e \in Expenses : \/ \E d \in Days : CreateExpense(e, d) \/ UpdateExpense(e, d)
                           \/ RemoveExpense(e)
    \/ ShelfMoves
    \/ \E r \in Readers :
          \/ \E P \in Periods : Ask(r, P)
          \/ \E table \in Tables : TakePrint(r, table)
          \/ Hit(r) \/ Miss(r)
          \/ \E part \in First \cup Then : Build(r, part)
          \/ Store(r)

RSpec == RInit /\ [][RNext]_rvars

----------------------------------------------------------------------------
(* Properties *)

\* What a report says of its sections R is what those of the parts Q say
\* together, and no row is in two of them.
AddsUp(R, Q) ==
    \A x \in DOMAIN R : \A f \in DOMAIN R[x] :
        /\ R[x][f] = UNION {q.says[x][f] : q \in Q}
        /\ \A q, p \in Q : q.till # p.till => q.says[x][f] \cap p.says[x][f] = {}

\* Each sale and each payment is in the report of one session, under one
\* status, and those reports add up to the outlet's, to the laundry shifts',
\* and to the dashboard's and the month's figures, whatever order payments,
\* reversals, deliveries, collections and removals came in.
ReportsAddUp ==
    mix = "sessions" =>
        LET totals  == OutletTotals(Days)
            details == OutletDetails(Days)
            month   == MonthlySummary(Days)
            active  == totals.completed \cup totals.partly \cup totals.delivered
        IN  /\ AddsUp([totals |-> totals, ranked |-> OutletRanked(Days),
                       takings |-> OutletTakings(Days), details |-> details,
                       profits |-> OutletProfits(Days)],
                      {[till |-> k, says |-> SessionReport(k)] : k \in Sessions})
            /\ AddsUp([totals  |-> [completed |-> totals.completed],
                       takings |-> OutletTakings(Days), laundry |-> OutletLaundry(Days),
                       profits |-> [completed |-> totals.completed]],
                      {[till |-> k, says |-> LaundryReport(k)] : k \in Sessions})
            /\ OutletList(Days) = UNION {SessionList(k) : k \in Sessions}
            /\ OutletProfits(Days).completed = totals.completed
            /\ details["Partially Paid"] = totals.partly
            /\ \A k \in Sessions : ShiftLoads(k).loads \subseteq SessionLoads(k)
            /\ month.orders = active /\ month.outstanding = totals.partly
            /\ active = UNION {GetTotalSalesData(k) : k \in Sessions}
            /\ active = UNION {GetRevenueTrend(d) : d \in Days}

\* An outlet report served from the cache says what one built at some moment
\* since it was asked for would have said, its live sections as they are now,
\* however commits fall between the statements of the fingerprints and of the
\* build that was kept.  If it was stored meanwhile that holds of each of its
\* parts, read as they were while writes committed.  Excepted are days of a write
\* stamped no later than another, of payments that count differently since only
\* their sale of another day was written, and days an expense was moved away from.
CacheCurrent ==
    \A r \in Readers : Printed(r) /\ desk[r].period \cap (late \cup strayed) = {} =>
        \A n \in Matching(r) :
            LET said == Answer(cache[n].said) IN
            /\ said["live"] = shelf
            /\ \A part \in First \cup Then : \E told \in since[r] : said[part] = told[part]
            /\ r \notin amid => \E told \in since[r] :
                                   \A part \in First \cup Then : said[part] = told[part]

\* The reports agree with one another, and a kept one with the books.
ReportsTrue == ReportsAddUp /\ CacheCurrent

----------------------------------------------------------------------------
(* The strengthening that makes the invariants above inductive. *)

\* Nobody asks for a report but where the cache is looked at.
NoneAsked ==
    /\ mix \in {"sales", "sessions", "cache"}
    /\ mix # "cache" => cache = <<>> /\ \A r \in Readers : desk[r].at = "idle"

\* No row is stamped later than the latest commit.
SlipRow == [sale: Sales, no: Nat, day: Days, till: Sessions, at: Nat]
ExpenseRow == [st: {"absent", "live", "gone"}, day: Days, amount: {0, 1}, at: Nat]
RowsStamped ==
    /\ latest \in Nat /\ (mix # "cache" => latest = 0)
    /\ stamp \in [Sales -> 0 .. latest] /\ margin \in [Sales -> {0, 1}]
    /\ slips \subseteq SlipRow /\ IsFiniteSet(slips) /\ \A p \in slips : p.at <= latest
    /\ expense \in [Expenses -> ExpenseRow] /\ \A e \in Expenses : expense[e].at <= latest

\* While the sessions are looked at every sale is rung up in one of them, and
\* one that is or was paid in full was completed in one.
SessionsNamed ==
    mix = "sessions" =>
        /\ rung \in [Sales -> Sessions \cup {NoSession}]
        /\ doneIn \in [Sales -> Sessions \cup {NoSession}]
        /\ \A s \in Sales : Exists(s) =>
              /\ rung[s] \in Sessions
              /\ sale[s].status = "Completed" \/ sale[s].paid >= Total => doneIn[s] # NoSession
        /\ \A w \in Workers, s \in Sales : tx[w].seen[s].paid >= Total => doneIn[s] # NoSession

\* A payment is of one session, and those of a sale are counted.
SlipsNumbered ==
    mix = "sessions" =>
        /\ \A p \in slips : p.till \in Sessions /\ p.no \in 1 .. Cardinality(SlipsOf(p.sale))
        /\ \A p, q \in slips : p.sale = q.sale /\ p.no = q.no => p = q

\* The requests, and what is known of each.
DesksTyped ==
    /\ DOMAIN desk = Readers /\ DOMAIN since = Readers
    /\ \A r \in Readers : DOMAIN desk[r] = DOMAIN NoDesk

\* Where a request is with its report.
DesksKept ==
    \A r \in Readers :
        \/ desk[r].at = "idle"
        \/ /\ desk[r].at = "printing" /\ desk[r].said = <<>>
           /\ desk[r].todo \subseteq Tables /\ DOMAIN desk[r].print = Tables \ desk[r].todo
           /\ OutletReport(desk[r].period) \in since[r]
        \/ /\ desk[r].at = "building" /\ DOMAIN desk[r].print = Tables
           /\ \/ /\ desk[r].todo \in (SUBSET First) \ {{}}
                 /\ DOMAIN desk[r].said = First \ desk[r].todo
              \/ /\ desk[r].todo \subseteq Then
                 /\ DOMAIN desk[r].said = (First \cup Then) \ desk[r].todo

Clear(P) == P \cap (late \cup strayed) = {}
Mark(table, P) == Fingerprint(table, P)[2]

\* A fingerprint is taken of what there was: on clear days marks only rise.
MarksRise(P, print) ==
    Clear(P) => \A table \in DOMAIN print : print[table][2] \in 0 .. Mark(table, P)

\* What was read after the fingerprint is true for as long as that is.
ReadStands(P, print, said) ==
    Clear(P) /\ (\A table \in Tables : print[table] = Fingerprint(table, P)) =>
        \A part \in (First \cup Then) \cap DOMAIN said : said[part] = Read(part, P)

\* The request r may yet find that its fingerprint is `print`: what it has taken
\* of it agrees, and the rest would if it was taken now.
MayMatch(r, P, print) ==
    /\ desk[r].at = "printing" /\ desk[r].period = P /\ Clear(P)
    /\ \A table \in Tables :
          print[table] = IF table \in desk[r].todo THEN Fingerprint(table, P)
                         ELSE desk[r].print[table]

\* What such a request would be served was true since it was made: part by part
\* and, if it was kept before that, as a whole.
PartsTold(r, P, print, said) ==
    MayMatch(r, P, print) => \A part \in (First \cup Then) \cap DOMAIN said :
                                \E told \in since[r] : told[part] = said[part]
WholeTold(r, P, print, said) ==
    MayMatch(r, P, print) => \E told \in since[r] :
                                \A part \in First \cup Then : told[part] = said[part]

BuildsTrue ==
    \A r \in Readers :
        /\ desk[r].at # "idle" => MarksRise(desk[r].period, desk[r].print)
        /\ desk[r].at = "building" =>
              /\ ReadStands(desk[r].period, desk[r].print, desk[r].said)
              /\ \A q \in Readers : PartsTold(q, desk[r].period, desk[r].print, desk[r].said)

EntryTrue(x) ==
    /\ DOMAIN x.print = Tables /\ DOMAIN x.said = First \cup Then \cup {"live"}
    /\ MarksRise(x.period, x.print) /\ ReadStands(x.period, x.print, x.said)
    /\ \A r \in Readers : /\ PartsTold(r, x.period, x.print, x.said)
                          /\ r \notin amid => WholeTold(r, x.period, x.print, x.said)

EntriesTrue ==
    /\ cache \in Seq({cache[n] : n \in DOMAIN cache})
    /\ \A n \in DOMAIN cache : EntryTrue(cache[n])

CacheInv == NoneAsked /\ RowsStamped /\ DesksTyped /\ DesksKept /\ BuildsTrue /\ EntriesTrue
SessionsInv == SessionsNamed /\ SlipsNumbered

=============================================================================
