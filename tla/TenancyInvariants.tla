------------------------- MODULE TenancyInvariants --------------------------
(***************************************************************************)
(* The inductive invariants of Tenancy, part by part (proofs are in        *)
(* HeldValueProofs).  The parts that need requests to come one at a time   *)
(* are about the request p that is under way, which is NoTask between two. *)
(***************************************************************************)
EXTENDS Tenancy

\* Nobody else is at work.
Lone(w) == \A v \in Admins \ {w} : task[v].step = "idle"
Doing(p, op) == p.op = op /\ p.step # "idle"
In(p, op, steps) == p.op = op /\ p.step \in steps

\* A request is one a handler takes, and none of its fields is out of its range.
Prepared(p) ==
  /\ p \in Task
  /\ p.step = "idle" => p = NoTask
  /\ p.step # "idle" => p.op \in duty
  /\ p.op \in {"addLogin", "password"} => p.n \in 0..MaxRequests
  /\ p.op = "customPrice" => p.n \in Customs \cup {NoPrice}
  /\ p.op = "pay" => p.n \in Nat
  /\ In(p, "addOutlet", {"half"}) => p.outlet \in Outlets
TenancyTypes == TenantTypeOK /\ \A w \in Admins : Prepared(task[w])

Status == {"none", "Active", "trial", "expired"}
\* A step of a request that is under way: it ends, or goes on.
Advance(w, q) ==
  /\ task[w].step # "idle" /\ task' = [task EXCEPT ![w] = q] /\ Prepared(q)
  /\ q = NoTask \/ (q.op = task[w].op /\ q.step # "idle")
  /\ UNCHANGED <<duty, vertical, now, begun, overlapped, cut, rolled>>

\* A request that is taken on.
Admitted(w, q) == Accept(w, q) /\ Prepared(q) /\ q.step = "asked"

RowsTyped ==
    /\ duty \in Duties /\ vertical \in {"Retail", "Laundry"} /\ tenant \in BOOLEAN
    /\ login \in [Logins -> LoginRow] /\ user \in [Logins -> LoginRow]
    /\ member \in [Logins -> [Outlets -> Lives]]
    /\ outlet \in [Outlets -> Lives] /\ shop \in [Outlets -> Lives]
    /\ sub \in [Outlets -> SubRow] /\ logged \in [Outlets -> Customs \cup {NoPrice}]
    /\ depot \in [Warehouses -> Lives] /\ warehouse \in [Warehouses -> Lives]
    /\ stock \subseteq Warehouses
    /\ addOn \in [{"user", "warehouse", "loyalty"} -> Nat]
    /\ invoices \in [0..(Horizon \div Month) -> Nat] /\ now \in 0..Horizon
    /\ begun \in 0..MaxRequests
    /\ overlapped \in BOOLEAN /\ cut \in BOOLEAN /\ stale \subseteq {"user", "warehouse"} /\ rolled \in BOOLEAN

\* What a request knows of its outlet that cannot change any more.
OutletOf(p) ==
  /\ Doing(p, "signUp") /\ p.found => p.plan = "Pro"
  /\ Doing(p, "addOutlet") /\ p.saw[1].status = "trial" => p.saw[1].plan = "Pro"
  /\ In(p, "addOutlet", {"half"}) => outlet[p.outlet] = "absent" /\ shop[p.outlet] # "absent"
  /\ Doing(p, "dropOutlet") \/ Doing(p, "customPrice") \/ In(p, "pay", {"open"})
       => p.outlet \in Outlets /\ outlet[p.outlet] # "absent"
  /\ Doing(p, "changePlan") =>
       \A o \in p.todo : outlet[o] # "absent" /\ (sub[o].status = "trial" => p.saw[o].status = "trial")
\* Nothing but Pro is on a trial, and what is not there has no subscription.
Rows == \A o \in Outlets :
  /\ outlet[o] = "absent" => sub[o] = NoSub
  /\ outlet[o] = "live" => sub[o].status \in Paying
  /\ sub[o].status = "trial" => sub[o].plan = "Pro"
Apart == \A u, v \in Admins :
  u # v /\ In(task[u], "addOutlet", {"half"}) /\ In(task[v], "addOutlet", {"half"}) => task[u].outlet # task[v].outlet
OutletsInv == Rows /\ Apart /\ \A w \in Admins : OutletOf(task[w])

\* An outlet that is there stays, and no subscription of one becomes a trial.
OutletsStay ==
  /\ \A o \in Outlets : outlet[o] # "absent" => outlet'[o] # "absent"
  /\ \A o \in Outlets : shop[o] # "absent" => shop'[o] # "absent"
  /\ \A o \in Outlets : outlet[o] # "absent" /\ sub'[o].status = "trial" => sub[o].status = "trial"

NotOfOutlets == {"addLogin", "dropLogin", "password", "assign", "unassign", "addWarehouse", "dropWarehouse",
                 "stockIn", "stockOut", "loyaltyOn", "loyaltyOff"}
\* A number that is still free in its month says that nobody has paid since.
MonthsOf(p) ==
  In(p, "pay", {"open"}) =>
    /\ p.month \in 0..(Horizon \div Month) /\ p.seq <= invoices[p.month] + 1
    /\ ~rolled =>
         /\ p.month = now \div Month
         /\ invoices[p.month] < p.seq => p.saw[p.outlet].until >= sub[p.outlet].until + p.n * Month
MonthsInv == \A w \in Admins : MonthsOf(task[w])

MonthsStay ==
  /\ \A m \in 0..(Horizon \div Month) : invoices'[m] >= invoices[m] /\ invoices'[m] \in Nat
  /\ rolled' = rolled /\ now' = now
  /\ \/ \A o \in Outlets : outlet[o] # "absent" => sub'[o].until = sub[o].until
     \/ ~rolled => invoices'[now \div Month] > invoices[now \div Month]

\* The request under way, or none.
Working(p) == (p = NoTask /\ Idle) \/ \E w \in Admins : task[w] = p /\ Lone(w)
Serial == ~overlapped => \E p : Working(p)

StepBy(w, q) == (Fail(w) /\ q = NoTask) \/ Admitted(w, q) \/ Advance(w, q)

\* A request as it goes on to its next step.
Follows(q, p, s) ==
  /\ q \in Task /\ q.step = s /\ q.op = p.op /\ q.login = p.login /\ q.outlet = p.outlet
  /\ q.warehouse = p.warehouse /\ q.plan = p.plan /\ q.n = p.n /\ q.todo = p.todo /\ q.saw = p.saw
  /\ q.found = p.found /\ q.held = p.held /\ q.over = p.over

\* Nothing is lost, and what the request under way looked at is so until it writes.
Intact ==
  /\ \A k \in stock : warehouse[k] = "live"
  /\ tenant => LiveOutlets # {}
KeptOf(p) ==
  /\ Doing(p, "stockIn") => warehouse[p.warehouse] = "live"
  /\ In(p, "dropWarehouse", {"open"}) => p.warehouse \notin stock
  /\ Doing(p, "dropOutlet") => Cardinality(LiveOutlets) > 1
KeptInv == ~overlapped => Intact /\ \A p : Working(p) => KeptOf(p)

Keeping == {"stockIn", "dropWarehouse", "dropOutlet"}
\* A step of one of the operations ops.
Of(w, q, ops) ==
  /\ StepBy(w, q)
  /\ task[w] = NoTask \/ task[w].op \in ops
  /\ q = NoTask \/ q.op \in ops

LoginWork == {"addLogin", "dropLogin", "password", "assign", "unassign"}
Billed(a) == addOn'[a] = addOn[a]

WarehouseWork == {"addWarehouse", "dropWarehouse", "stockIn", "stockOut"}
LoyaltyStep(w) == AskLoyalty(w) \/ LoyaltyOn(w) \/ LoyaltyOff(w)
Calm == ~overlapped /\ ~cut

\* The shop's outlets are the global ones, but for one that a request is at.
Shops(p) ==
  shop = IF In(p, "addOutlet", {"half"}) THEN [outlet EXCEPT ![p.outlet] = "live"]
         ELSE IF In(p, "dropOutlet", {"half"}) THEN [outlet EXCEPT ![p.outlet] = "closed"]
         ELSE outlet
HalfOutlet(p) == In(p, "addOutlet", {"half"}) \/ In(p, "dropOutlet", {"half"})

\* So with the warehouses.
Shut(k) == IF depot[k] = "live" THEN "closed" ELSE depot[k]
Depots(p) ==
  warehouse = IF In(p, "addWarehouse", {"half"}) THEN [depot EXCEPT ![p.warehouse] = "live"]
              ELSE IF In(p, "dropWarehouse", {"half"}) THEN [depot EXCEPT ![p.warehouse] = "closed"]
              ELSE IF In(p, "changePlan", {"half"}) /\ Leaves(p) THEN [k \in Warehouses |-> Shut(k)]
              ELSE IF In(p, "changePlan", {"half"}) THEN [depot EXCEPT ![Main] = "live"]
              ELSE depot
HalfDepot(p) ==
  In(p, "addWarehouse", {"half"}) \/ In(p, "dropWarehouse", {"half"}) \/ In(p, "changePlan", {"half"})

\* Whoever may sign in is a user of the shop, and has an outlet.
Member(n) == \E o \in Outlets : member[n][o] # "absent"
Known(n) == login[n].life # "absent" => user[n] = login[n] /\ Member(n)
\* Between two of its writes.
Between(p) == In(p, "addLogin", {"made", "both"}) \/ In(p, "dropLogin", {"made"}) \/ In(p, "password", {"made"})
OwnAccount(p, n) ==
  /\ In(p, "addLogin", {"made"}) => login[n] = [life |-> "live", word |-> p.n]
  /\ In(p, "addLogin", {"both"}) => user[n] = login[n]
  /\ p.op = "dropLogin" => p.found
  /\ In(p, "dropLogin", {"asked"}) => login[n].life = "live"
  /\ In(p, "dropLogin", {"made", "both", "counted"}) => login[n].life = "closed"
  /\ In(p, "dropLogin", {"made"}) => user[n].life = "live" /\ user[n].word = login[n].word /\ Member(n)
  /\ In(p, "password", {"made"}) => login[n] = [user[n] EXCEPT !.word = p.n] /\ user[n].life # "absent" /\ Member(n)
  /\ ~Between(p) => Known(n)
Accounts(p) == \A n \in Logins : IF p.login = n THEN OwnAccount(p, n) ELSE Known(n)

\* A step that writes one login.
OneLogin(n) ==
  \A m \in Logins \ {n} : login'[m] = login[m] /\ user'[m] = user[m] /\ member'[m] = member[m]

Paired(p) == Shops(p) /\ Depots(p) /\ Accounts(p)
PairedInv == Calm /\ "signUp" \notin duty => tenant /\ \A p : Working(p) => Paired(p)

\* A tenant that signs up, and the stages it passes.
OnlyFirst == [o \in Outlets |-> IF o = 1 THEN "live" ELSE "absent"]
NoOutlet  == [o \in Outlets |-> "absent"]
OnlyMain  == [k \in Warehouses |-> IF k = Main THEN "live" ELSE "absent"]
NoDepot   == [k \in Warehouses |-> "absent"]
OnlyOwner == [n \in Logins |-> [life |-> IF n = Owner THEN "live" ELSE "absent", word |-> 0]]
Nobody    == [n \in Logins |-> NoLogin]

Building == {"made", "both", "placed", "half"}
Stage(p) == IF p.op = "signUp" THEN p.step ELSE "idle"
\* What the global database holds, and what an earlier try left in the tenant's.
Signed == IF tenant THEN login = OnlyOwner /\ outlet = OnlyFirst /\ \A o \in Outlets \ {1} : sub[o] = NoSub
                    ELSE login = Nobody /\ outlet = NoOutlet /\ depot = NoDepot /\ \A o \in Outlets : sub[o] = NoSub
Left == user = OnlyOwner \/ (user = Nobody /\ shop = NoOutlet /\ warehouse = NoDepot)
FoundedAt(s) ==
  /\ s \in Building => tenant
  /\ s \in {"made", "both", "placed"} => depot = NoDepot
  /\ s \in {"both", "placed", "half"} => user = OnlyOwner /\ warehouse = NoDepot
  /\ s = "both" => shop = NoOutlet
  /\ s = "half" => depot = OnlyMain
  /\ tenant /\ s \notin {"made", "both"} => user = OnlyOwner /\ shop = OnlyFirst /\ member[Owner][1] = "live"
  /\ tenant /\ s \notin Building => warehouse = depot
  /\ depot \in {NoDepot, OnlyMain}
FoundedInv == Calm /\ "signUp" \in duty => Signed /\ Left /\ \A p : Working(p) => FoundedAt(Stage(p))

\* An outlet's part of the fixed discounts, as the tenant's page spends them and
\* as the dashboard does.
Fixed == {o \in Charged(sub) : sub[o].offer.kind = "fixed"}
Whole == IF Fixed = {} THEN 0 ELSE sub[Min(Fixed)].offer.value
Before(o) == SumOver([p \in Charged(sub) |-> PlanCost(sub[p])], {p \in Charged(sub) : p < o})
Bears(o) == Used(Whole, Before(o), PlanCost(sub[o]))
Leads(o) == \A p \in Charged(sub) : sub[p].offer = sub[o].offer => o <= p
Reckons(o) == IF sub[o].offer.kind = "fixed" /\ Leads(o) THEN Smaller(sub[o].offer.value, PlanCost(sub[o])) ELSE 0

\* Each figure is the add-ons and a sum over the outlets charged for: what their
\* plans cost (c), less what each screen takes off.
Figures(O, c, t, d, s) ==
  /\ TenantCost = AddOnCost + SumOver(t, O) /\ DashboardCost = AddOnCost + SumOver(d, O)
  /\ SummaryCost = AddOnCost + SumOver(s, O)
  /\ \A o \in O : /\ c[o] = PlanCost(sub[o]) /\ t[o] = Less(c[o], Portion(sub[o]) + Bears(o))
                  /\ d[o] = Less(c[o], Portion(sub[o]) + Reckons(o)) /\ s[o] = Less(c[o], OffOne(sub[o]))
                  /\ c[o] \in Nat /\ t[o] \in Nat /\ d[o] \in Nat /\ s[o] \in Nat
                  /\ Bears(o) \in Nat /\ Reckons(o) \in Nat

\* The figures, and what the last day's reminder says.
Priceable(O, c, t, d, s, last) ==
  /\ TenantTypeOK /\ O = Charged(sub) /\ O \subseteq Outlets /\ \A o \in O : sub[o] \in SubRow /\ sub[o].until <= last
  /\ Figures(O, c, t, d, s) /\ UpcomingCost(last) = AddOnCost + SumOver(c, O)

Moving(p) == In(p, "changePlan", {"subs", "seats"})
AllOn(plan) == \A o \in LiveOutlets : sub[o].plan = plan

\* A change of plan knows the outlets there are, has moved those it is done with
\* and knows the others' subscriptions as they are.
Changing(p) ==
  /\ Read(p.saw) = LiveOutlets /\ p.todo \subseteq LiveOutlets /\ p.plan # Was(p.saw)
  /\ \A o \in p.todo : p.saw[o] = sub[o] /\ sub[o].plan = Was(p.saw)
  /\ \A o \in LiveOutlets \ p.todo : sub[o].plan = p.plan
  /\ ~Moving(p) => p.todo = LiveOutlets
  /\ p.step = "seats" => p.todo = {}
\* One plan for all outlets, and loyalty on Pro only.
OnePlan(p) ==
  /\ ~Moving(p) => \A o, x \in LiveOutlets : sub[o].plan = sub[x].plan
  /\ addOn["loyalty"] = 1 => ~Moving(p) /\ AllOn("Pro")
  /\ Doing(p, "addOutlet") => AllOn(p.saw[1].plan)
  /\ Doing(p, "loyaltyOn") => AllOn("Pro")
  /\ Doing(p, "changePlan") => Changing(p)

\* The warehouses beyond the first are billed for; who opens or closes one knows
\* them all.
DepotsBilled ==
  IF "warehouse" \in stale THEN depot[Main] = "live" ELSE addOn["warehouse"] = Billable(LiveDepots)
Held(p) ==
  /\ p.op \in {"addWarehouse", "dropWarehouse"} /\ p.step \in {"open", "half"} => p.held = LiveDepots
  /\ In(p, "addWarehouse", {"open"}) => (p.found <=> depot[p.warehouse] = "closed")
  /\ In(p, "addWarehouse", {"half"}) => p.warehouse \notin LiveDepots
Housed(p) == DepotsBilled /\ Held(p)

\* The logins beyond the seats are billed for, but for the one that a request has
\* added or removed and not yet counted.
Uncounted(p) == IF In(p, "addLogin", {"made", "both", "placed", "counted"}) THEN 1
                ELSE IF In(p, "dropLogin", {"made", "both", "counted"}) THEN -1 ELSE 0
Counting(p) == In(p, "addLogin", {"counted"}) \/ In(p, "dropLogin", {"counted"}) \/ In(p, "changePlan", {"seats"})
Beyond(n, seats) == IF n > seats THEN n - seats ELSE 0
\* Whose login it is.
Whose(p) ==
  /\ In(p, "addLogin", {"made", "both", "placed", "counted"}) => p.login \in Active
  /\ In(p, "dropLogin", {"asked"}) => p.login \in Active
  /\ In(p, "dropLogin", {"made", "both", "counted"}) => p.login \in Logins \ Active
Seated(p) ==
  /\ "user" \notin stale /\ ~Moving(p) =>
       addOn["user"] = Beyond(Cardinality(Active) - Uncounted(p), Included(LiveOutlets, sub))
  /\ Counting(p) => p.over = Over(LiveOutlets, sub)
  /\ Whose(p)

\* The log has the price of every outlet, and the one that is about to be written.
Priced(p) == \A o \in Outlets :
  IF In(p, "customPrice", {"made"}) /\ p.outlet = o THEN logged[o] = p.n ELSE sub[o].price = logged[o]

Books(p) == OnePlan(p) /\ Housed(p) /\ Seated(p) /\ Priced(p)
BooksInv == Calm /\ "signUp" \notin duty => \A p : Working(p) => Books(p)

\* No plan has changed.
Level == \A o \in Outlets : sub'[o].plan = sub[o].plan

Holding(q) == q.op \in {"addWarehouse", "dropWarehouse"} /\ q.step \in {"open", "half"}
\* Requests that have nothing to count.
Settled(p) == p.op \notin {"addLogin", "dropLogin"} \/ p.step \in {"idle", "asked", "open"}
\* A step of a request p, then q, counts a login that it adds or removes.
Even(p, q) ==
  /\ Cardinality(Active') - Uncounted(q) = Cardinality(Active) - Uncounted(p)
  /\ Counting(q) => q.over = Over(LiveOutlets, sub)'
  /\ Whose(q)'

\* Nothing is billed or priced before a sign-up is over.
Unbilled ==
  /\ \A a \in {"user", "warehouse", "loyalty"} : addOn[a] = 0
  /\ stale = {} /\ \A o \in Outlets : logged[o] = NoPrice /\ sub[o].price = NoPrice
FreshInv == "signUp" \in duty => Unbilled
=============================================================================
