------------------------------- MODULE Tenancy -------------------------------
(***************************************************************************)
(* The administration of one tenant (admin.service.ts): its sign-up, its   *)
(* logins, outlets and warehouses, the plan its outlets subscribe to, the  *)
(* add-ons it is billed for, the payments that extend a subscription, and  *)
(* what the admin portal says it costs.                                    *)
(*                                                                         *)
(* Everything is kept twice: in the global database, which bills and signs *)
(* in, and in the tenant's own, which the shop works on.  Handlers that    *)
(* open a transaction on both commit the tenant's inside the global one;   *)
(* the others write one statement after the other.  A request may fail or  *)
(* be cut off between any two.                                             *)
(***************************************************************************)
EXTENDS Integers, FiniteSets, FiniteSetsExt, Sums

CONSTANTS
    Logins,      \* usernames
    Owner,       \* the one signed up with
    Outlets,     \* outlet ids, given in order
    Warehouses,  \* warehouse codes
    Main,        \* the warehouse every Pro tenant has
    Seats,       \* plan -> logins an outlet's subscription includes
    Price,       \* plan -> monthly price of an outlet
    Customs,     \* custom prices that may be agreed
    Fee,         \* add-on -> monthly price of one
    Offers,      \* discounts a subscription may carry
    Starts,      \* lines of business, plans and statuses a tenant may start with
    Month, Grace, \* ticks of the clock in a paid month, and in the grace period
    Admins,     \* requests in flight at once
    Duties,       \* sets of operations to consider together
    MaxMonths,   \* bound: months a payment buys
    Horizon,     \* bound: ticks of the clock
    MaxRequests  \* bound: requests of a behaviour

LoginOps     == {"signUp", "addLogin", "dropLogin", "password"}
WarehouseOps == {"addWarehouse", "dropWarehouse", "stockIn", "stockOut"}
OutletOps    == {"addOutlet", "dropOutlet", "assign", "unassign"}
PlanOps      == {"changePlan", "pay", "customPrice", "loyaltyOn", "loyaltyOff"}
Chores == LoginOps \cup WarehouseOps \cup OutletOps \cup PlanOps

None    == "none"
NoPrice == -1  \* the column is null
Plans   == {"Lite", "Basic", "Pro"}
NoOffer == [kind |-> "none", value |-> 0, onPlan |-> FALSE]

ASSUME TenancyAssumption ==
    /\ Owner \in Logins /\ Main \in Warehouses /\ IsFiniteSet(Logins) /\ IsFiniteSet(Warehouses)
    /\ Outlets \subseteq Nat \ {0} /\ IsFiniteSet(Outlets) /\ 1 \in Outlets
    /\ Seats \in [Plans -> Nat \ {0}] /\ Price \in [Plans -> Nat] /\ Customs \subseteq Nat \ {0}
    /\ Fee \in [{"user", "warehouse", "loyalty"} -> Nat]
    /\ Offers \subseteq [kind: {"percentage", "fixed"}, value: Nat, onPlan: BOOLEAN]
    /\ Starts \subseteq [vertical: {"Retail", "Laundry"}, plan: Plans, status: {"Active", "trial"}]
    /\ \A s \in Starts : s.status = "trial" => s.plan = "Pro"
    /\ \A f \in Offers : f.kind = "percentage" => f.value <= 100
    /\ Month \in Nat \ {0} /\ Grace \in Nat
    /\ None \notin Logins \cup Warehouses
    \* nobody administers a tenant before its sign-up is over
    /\ \A m \in Duties : "signUp" \in m => m = {"signUp"}
    /\ Duties \subseteq SUBSET Chores /\ {Horizon, MaxMonths} \subseteq Nat /\ MaxRequests \in Nat

VARIABLES
    duty,       \* the operations of this behaviour
    vertical,  \* the tenant's line of business
    tenant,    \* whether the global database has the tenant
    login,     \* global logins, their password and life
    user,      \* the tenant's users, their password and life
    member,    \* user -> outlet -> the assignment's row
    outlet,    \* global outlets
    shop,      \* the tenant's outlets
    sub,       \* the subscription of each outlet
    logged,    \* the price the custom price log last recorded for it
    depot,     \* global warehouses
    warehouse, \* the tenant's warehouses
    stock,     \* warehouses that hold stock
    addOn,     \* quantities of the add-ons the tenant is billed for
    invoices,  \* calendar month -> invoice numbers given
    now,       \* the clock
    task,        \* what each worker has read and is about to write
    begun, overlapped, cut, \* requests begun; history: two overlapped, one was cut off
    stale,     \* history: add-ons whose count a later change did not redo
    rolled     \* history: a month ended while a payment was under way

logins == <<login, user, member>>
places == <<outlet, shop, depot, warehouse, stock>>
bills  == <<sub, logged, addOn, invoices>>
ghosts == <<stale, rolled>>
tenantVars   == <<duty, vertical, tenant, logins, places, bills, now, task, begun, overlapped, cut, ghosts>>

Lives    == {"absent", "live", "closed"}
LoginRow == [life: Lives, word: 0..MaxRequests]
NoLogin  == [life |-> "absent", word |-> 0]
SubRow   == [plan: Plans, status: {"none", "Active", "trial", "expired"}, until: Int,
             price: Customs \cup {NoPrice}, offer: Offers \cup {NoOffer}]
NoSub    == [plan |-> "Basic", status |-> "none", until |-> 0, price |-> NoPrice, offer |-> NoOffer]

Steps == {"idle", "asked", "open", "half", "made", "both", "placed", "counted", "subs", "seats"}
\* n: a price, months, or a fresh password; todo: outlets still to move to the
\* new plan; saw: subscriptions as read; found: whether a row was there when
\* read; held: warehouses as read; seq, month: an invoice number and its month;
\* over: logins that are over the seats, as counted.
NoTask == [op |-> "pay", step |-> "idle", login |-> None, outlet |-> 0, warehouse |-> None,
           plan |-> "Basic", n |-> 0, todo |-> {}, saw |-> [o \in Outlets |-> NoSub],
           found |-> FALSE, held |-> {}, seq |-> 0, month |-> 0, over |-> 0]
Task == [op: Chores, step: Steps, login: Logins \cup {None}, outlet: Outlets \cup {0},
         warehouse: Warehouses \cup {None}, plan: Plans, n: Int, todo: SUBSET Outlets,
         saw: [Outlets -> SubRow], found: BOOLEAN, held: SUBSET Warehouses,
         seq: Nat, month: Nat, over: Nat]

TenantTypeOK ==
    /\ duty \in Duties /\ vertical \in {"Retail", "Laundry"} /\ tenant \in BOOLEAN
    /\ login \in [Logins -> LoginRow] /\ user \in [Logins -> LoginRow]
    /\ member \in [Logins -> [Outlets -> Lives]]
    /\ outlet \in [Outlets -> Lives] /\ shop \in [Outlets -> Lives]
    /\ sub \in [Outlets -> SubRow] /\ logged \in [Outlets -> Customs \cup {NoPrice}]
    /\ depot \in [Warehouses -> Lives] /\ warehouse \in [Warehouses -> Lives]
    /\ stock \subseteq Warehouses
    /\ addOn \in [{"user", "warehouse", "loyalty"} -> Nat]
    /\ invoices \in [0..(Horizon \div Month) -> Nat] /\ now \in 0..Horizon
    /\ task \in [Admins -> Task] /\ begun \in 0..MaxRequests
    /\ overlapped \in BOOLEAN /\ cut \in BOOLEAN /\ stale \subseteq {"user", "warehouse"} /\ rolled \in BOOLEAN

\* A tenant that stands has outlets O on one plan, its owner, the main warehouse
\* if it is on Pro, and nothing over; or there is none yet.
Stands(O, plan, status, offer) ==
    LET life(here) == IF here THEN "live" ELSE "absent" IN
    /\ tenant = TRUE
    /\ login = [n \in Logins |-> [life |-> life(n = Owner), word |-> 0]] /\ user = login
    /\ member = [n \in Logins |-> [o \in Outlets |-> life(n = Owner /\ o = 1)]]
    /\ outlet = [o \in Outlets |-> life(o \in O)] /\ shop = outlet
    /\ sub = [o \in Outlets |-> IF o \notin O THEN NoSub
                ELSE [NoSub EXCEPT !.plan = plan, !.status = status, !.until = Month,
                                   !.offer = offer[o]]]
    /\ depot = [k \in Warehouses |-> life(k = Main /\ plan = "Pro" /\ vertical # "Laundry")]
    /\ warehouse = depot
Empty ==
    /\ tenant = FALSE
    /\ login = [n \in Logins |-> NoLogin] /\ user = login
    /\ member = [n \in Logins |-> [o \in Outlets |-> "absent"]]
    /\ outlet = [o \in Outlets |-> "absent"] /\ shop = outlet
    /\ sub = [o \in Outlets |-> NoSub]
    /\ depot = [k \in Warehouses |-> "absent"] /\ warehouse = depot

\* Discounts are put on subscriptions by hand.
TenantInit ==
    /\ duty \in Duties
    /\ \E start \in Starts, offer \in [Outlets -> Offers \cup {NoOffer}] :
          /\ vertical = start.vertical
          /\ duty = {"customPrice"} \/ \A o \in Outlets : offer[o] = NoOffer
          /\ IF "signUp" \in duty THEN Empty
             ELSE Stands(IF duty \cap {"addOutlet", "dropLogin"} # {} THEN {1} ELSE Outlets,
                         start.plan, start.status, offer)
    /\ logged = [o \in Outlets |-> NoPrice] /\ stock = {}
    /\ addOn = [a \in {"user", "warehouse", "loyalty"} |-> 0]
    /\ invoices = [m \in 0..(Horizon \div Month) |-> 0] /\ now = 0
    /\ task = [w \in Admins |-> NoTask] /\ begun = 0 /\ overlapped = FALSE /\ cut = FALSE
    /\ stale = {} /\ rolled = FALSE

----------------------------------------------------------------------------
(* The steps of a request *)

Accept(w, p) ==
    /\ p.op \in duty /\ task[w].step = "idle" /\ begun < MaxRequests
    /\ task' = [task EXCEPT ![w] = p] /\ begun' = begun + 1
    /\ overlapped' = (overlapped \/ \E v \in Admins : task[v].step # "idle")
    /\ UNCHANGED <<duty, vertical, tenant, logins, places, bills, now, cut, ghosts>>

At(w, op, step) == task[w].op = op /\ task[w].step = step
Goes(w, p) == task' = [task EXCEPT ![w] = p] /\ UNCHANGED <<duty, vertical, now, begun, overlapped, cut, rolled>>
Goto(w, step) == Goes(w, [task[w] EXCEPT !.step = step])
Done(w)   == Goes(w, NoTask)

\* The writes of a handler that commit, or fail, together undo themselves; what
\* was written before stays, unless the handler takes it back.
Written(w) == task[w].step \in {"half", "made", "both", "placed", "counted", "subs", "seats"}
Fail(w) ==
    /\ task[w].step # "idle" /\ task' = [task EXCEPT ![w] = NoTask]
    /\ cut' = (cut \/ Written(w))
    /\ UNCHANGED <<duty, vertical, tenant, logins, places, bills, now, begun, overlapped, ghosts>>

Tick ==
    /\ now < Horizon /\ "pay" \in duty /\ now' = now + 1
    /\ rolled' = (rolled \/ (now' \div Month # now \div Month /\ \E w \in Admins : task[w].op = "pay" /\ task[w].step # "idle"))
    /\ UNCHANGED <<duty, vertical, tenant, logins, places, bills, task, begun, overlapped, cut, stale>>

----------------------------------------------------------------------------
(* What a request reads *)

Paying  == {"Active", "trial"}
Charged(subs) == {o \in Outlets : outlet[o] = "live" /\ subs[o].status \in Paying}
\* getPrimarySubscription: the first live outlet's; there must be one.
Primary == sub[Min(Charged(sub))]
HasPrimary == Charged(sub) # {}

Active == {n \in Logins : login[n].life = "live"}
Included(O, subs) == SumOver([o \in O |-> Seats[subs[o].plan]], O)
Over(O, subs) == LET more == Cardinality(Active) - Included(O, subs)
                 IN  IF more > 0 THEN more ELSE 0

\* A login may be added on Lite only while a seat is free.
LiteSeats == {o \in Charged(sub) : sub[o].plan = "Lite"}
SeatFree  == LiteSeats = {} \/ Cardinality(Active) < Included(LiteSeats, sub)

----------------------------------------------------------------------------
(* Sign-up *)

AskSignUp(w, plan, trial) ==
    /\ trial => plan = "Pro"
    /\ Accept(w, [NoTask EXCEPT !.op = "signUp", !.step = "asked", !.plan = plan, !.found = trial])
\* createTenant: the global rows at once, then the tenant's database, row by row.
MakeTenant(w) ==
    /\ At(w, "signUp", "asked") /\ ~tenant /\ Goto(w, "made")
    /\ tenant' = TRUE /\ login' = [login EXCEPT ![Owner].life = "live"]
    /\ outlet' = [outlet EXCEPT ![1] = "live"]
    /\ sub' = [sub EXCEPT ![1] = [NoSub EXCEPT !.plan = task[w].plan, !.until = now + Month,
                                    !.status = IF task[w].found THEN "trial" ELSE "Active"]]
    /\ UNCHANGED <<user, member, shop, depot, warehouse, stock, logged, addOn, invoices, stale>>

\* A user of that name that an earlier try left behind makes it fail.
SetUpUser(w) ==
    /\ At(w, "signUp", "made") /\ user[Owner].life = "absent" /\ Goto(w, "both")
    /\ user' = [user EXCEPT ![Owner].life = "live"]
    /\ UNCHANGED <<tenant, login, member, places, bills, stale>>
SetUpShop(w) ==
    /\ At(w, "signUp", "both") /\ Goto(w, "placed")
    /\ shop' = [shop EXCEPT ![1] = "live"] /\ member' = [member EXCEPT ![Owner][1] = "live"]
    /\ UNCHANGED <<tenant, login, user, outlet, depot, warehouse, stock, bills, stale>>
NeedsMain(plan) == plan = "Pro" /\ vertical # "Laundry"
SetUpDepot(w) ==
    /\ At(w, "signUp", "placed") /\ NeedsMain(task[w].plan) /\ Goto(w, "half")
    /\ depot' = [depot EXCEPT ![Main] = "live"]
    /\ UNCHANGED <<tenant, logins, outlet, shop, warehouse, stock, bills, stale>>
SetUpMain(w) ==
    /\ At(w, "signUp", "half") /\ Done(w)
    /\ warehouse' = [warehouse EXCEPT ![Main] = "live"]
    /\ UNCHANGED <<tenant, logins, outlet, shop, depot, stock, bills, stale>>
EndSignUp(w) ==
    /\ At(w, "signUp", "placed") /\ ~NeedsMain(task[w].plan) /\ Done(w)
    /\ UNCHANGED <<tenant, logins, places, bills, stale>>

\* What failed there takes the global rows back, all at once; the tenant's stay.
UndoSignUp(w) ==
    /\ task[w].op = "signUp" /\ task[w].step \in {"made", "both", "placed", "half"} /\ Done(w)
    /\ tenant' = FALSE /\ login' = [login EXCEPT ![Owner] = NoLogin]
    /\ outlet' = [outlet EXCEPT ![1] = "absent"] /\ sub' = [sub EXCEPT ![1] = NoSub]
    /\ depot' = [depot EXCEPT ![Main] = "absent"]
    /\ addOn' = [a \in DOMAIN addOn |-> 0]
    /\ UNCHANGED <<user, member, shop, warehouse, stock, logged, invoices, stale>>

SignUp(w) ==
    \/ \E plan \in Plans, trial \in BOOLEAN : AskSignUp(w, plan, trial)
    \/ MakeTenant(w) \/ SetUpUser(w) \/ SetUpShop(w) \/ SetUpDepot(w) \/ SetUpMain(w) \/ EndSignUp(w)
    \/ UndoSignUp(w)

----------------------------------------------------------------------------
(* Logins *)

AskLogin(w, n) ==
    /\ tenant /\ n # Owner /\ login[n].life = "absent" /\ HasPrimary /\ SeatFree
    /\ Accept(w, [NoTask EXCEPT !.op = "addLogin", !.step = "asked", !.login = n, !.n = begun + 1])
MakeLogin(w, n) ==
    /\ At(w, "addLogin", "asked") /\ task[w].login = n /\ login[n].life = "absent" /\ Goto(w, "made")
    /\ login' = [login EXCEPT ![n] = [life |-> "live", word |-> task[w].n]]
    /\ UNCHANGED <<tenant, user, member, places, bills, stale>>
MakeUser(w, n) ==
    /\ At(w, "addLogin", "made") /\ task[w].login = n /\ user[n].life = "absent" /\ Goto(w, "both")
    /\ user' = [user EXCEPT ![n] = [life |-> "live", word |-> task[w].n]]
    /\ UNCHANGED <<tenant, login, member, places, bills, stale>>

\* Mutant: the new user is assigned nowhere.
NotPlaced(n) == member
\* The first live outlet of the tenant's own.
Placed(n) ==
    LET O == {o \in Outlets : shop[o] = "live"}
    IN  IF O = {} THEN member ELSE [member EXCEPT ![n][Min(O)] = "live"]
PlaceLogin(w, n) ==
    /\ At(w, "addLogin", "both") /\ task[w].login = n /\ Goto(w, "placed") /\ member' = Placed(n)
    /\ UNCHANGED <<tenant, login, user, places, bills, stale>>

\* Taken back: the user's row cannot go while an assignment refers to it, and
\* the login goes in any case.
UndoAddLogin(w, n) ==
    /\ task[w].op = "addLogin" /\ task[w].step \in {"made", "both", "placed", "counted"} /\ Done(w)
    /\ task[w].login = n /\ login' = [login EXCEPT ![n] = NoLogin]
    /\ user' = IF task[w].step # "made" /\ \A o \in Outlets : member[n][o] = "absent"
               THEN [user EXCEPT ![n] = NoLogin] ELSE user
    /\ UNCHANGED <<tenant, member, places, bills, stale>>

AskDropLogin(w, n) ==
    /\ tenant /\ n # Owner /\ login[n].life = "live"
    /\ Accept(w, [NoTask EXCEPT !.op = "dropLogin", !.step = "asked", !.login = n,
                                !.found = user[n].life # "absent"])
CloseLogin(w, n) ==
    /\ At(w, "dropLogin", "asked") /\ task[w].login = n /\ Goto(w, "made")
    /\ login' = [login EXCEPT ![n].life = "closed"]
    /\ UNCHANGED <<tenant, user, member, places, bills, stale>>
CloseUser(w, n) ==
    /\ At(w, "dropLogin", "made") /\ task[w].login = n /\ Goto(w, "both")
    /\ user' = IF task[w].found THEN [user EXCEPT ![n].life = "closed"] ELSE user
    /\ UNCHANGED <<tenant, login, member, places, bills, stale>>
UndoDropLogin(w, n) ==
    /\ task[w].op = "dropLogin" /\ task[w].step \in {"made", "both", "counted"} /\ Done(w)
    /\ task[w].login = n /\ login' = [login EXCEPT ![n].life = "live"]
    /\ user' = IF task[w].found THEN [user EXCEPT ![n].life = "live"] ELSE user
    /\ UNCHANGED <<tenant, member, places, bills, stale>>

\* Both count the logins over the seats of every outlet, then write it.
CountLogins(w) ==
    /\ At(w, "addLogin", "placed") \/ At(w, "dropLogin", "both")
    /\ HasPrimary
    /\ Goes(w, [task[w] EXCEPT !.step = "counted", !.over = Over(Charged(sub), sub)])
    /\ UNCHANGED <<tenant, logins, places, bills, stale>>

\* Mutant: a deletion leaves the add-on.
BillKept(op, over, billed) == IF op = "addLogin" /\ over > 0 THEN over ELSE billed
\* A new login raises the add-on if any are over; a deletion lowers or removes it.
LoginsBilled(op, over, billed) ==
    IF op = "addLogin" THEN IF over > 0 THEN over ELSE billed
    ELSE IF over = 0 \/ billed > over THEN over ELSE billed
BillLogins(w) ==
    /\ task[w].step = "counted" /\ task[w].op \in {"addLogin", "dropLogin"} /\ Done(w)
    /\ addOn' = [addOn EXCEPT !["user"] = LoginsBilled(task[w].op, task[w].over, @)]
    /\ UNCHANGED <<tenant, logins, places, sub, logged, invoices, stale>>

AskPassword(w, n) ==
    /\ tenant /\ login[n].life # "absent"
    /\ Accept(w, [NoTask EXCEPT !.op = "password", !.step = "asked", !.login = n, !.n = begun + 1])
SetPassword(w, n) ==
    /\ At(w, "password", "asked") /\ task[w].login = n /\ Goto(w, "made")
    /\ login[n].life # "absent" /\ login' = [login EXCEPT ![n].word = task[w].n]
    /\ UNCHANGED <<tenant, user, member, places, bills, stale>>
CopyPassword(w, n) ==
    /\ At(w, "password", "made") /\ task[w].login = n /\ Done(w)
    /\ user' = IF user[n].life = "absent" THEN user ELSE [user EXCEPT ![n].word = task[w].n]
    /\ UNCHANGED <<tenant, login, member, places, bills, stale>>

AskAssign(w, n, o) ==
    /\ login[n].life # "absent" /\ user[n].life # "absent" /\ shop[o] = "live"
    /\ \E op \in {"assign", "unassign"} :
          Accept(w, [NoTask EXCEPT !.op = op, !.step = "asked", !.login = n, !.outlet = o])
Assign(w, n, o) ==
    /\ At(w, "assign", "asked") /\ task[w].login = n /\ task[w].outlet = o /\ Done(w)
    /\ user[n].life # "absent" /\ member' = [member EXCEPT ![n][o] = "live"]
    /\ UNCHANGED <<tenant, login, user, places, bills, stale>>
Unassign(w, n, o) ==
    /\ At(w, "unassign", "asked") /\ task[w].login = n /\ task[w].outlet = o /\ Done(w)
    /\ member[n][o] # "absent" /\ member' = [member EXCEPT ![n][o] = "closed"]
    /\ UNCHANGED <<tenant, login, user, places, bills, stale>>

AddLogin(w, n)  == AskLogin(w, n) \/ MakeLogin(w, n) \/ MakeUser(w, n) \/ PlaceLogin(w, n) \/ UndoAddLogin(w, n)
DropLogin(w, n) == AskDropLogin(w, n) \/ CloseLogin(w, n) \/ CloseUser(w, n) \/ UndoDropLogin(w, n)
Password(w, n)  == AskPassword(w, n) \/ SetPassword(w, n) \/ CopyPassword(w, n)

----------------------------------------------------------------------------
(* Warehouses.  The tenant's half commits inside the global transaction,   *)
(* whose own commit may still fail; the row of their add-on keeps two of   *)
(* them from being there at once.                                          *)

Free(w) == \A v \in Admins \ {w} :
              ~(task[v].step = "half" /\ task[v].op \in {"addWarehouse", "dropWarehouse", "changePlan"})
LiveDepots == {k \in Warehouses : depot[k] = "live"}
\* The first warehouse is free.
Billable(K) == IF K = {} THEN 0 ELSE Cardinality(K) - 1

AskWarehouse(w, k) ==
    /\ tenant /\ HasPrimary /\ vertical # "Laundry"
    /\ Accept(w, [NoTask EXCEPT !.op = "addWarehouse", !.step = "asked", !.warehouse = k])
FindWarehouse(w, k) ==
    /\ At(w, "addWarehouse", "asked") /\ task[w].warehouse = k
    /\ Goes(w, [task[w] EXCEPT !.step = "open", !.held = LiveDepots, !.found = depot[k] = "closed"])
    /\ UNCHANGED <<tenant, logins, places, bills, stale>>
OpenWarehouse(w, k) ==
    /\ At(w, "addWarehouse", "open") /\ task[w].warehouse = k /\ Free(w) /\ Goto(w, "half")
    /\ task[w].found \/ depot[k] = "absent"
    /\ warehouse' = [warehouse EXCEPT ![k] = "live"]
    /\ UNCHANGED <<tenant, logins, outlet, shop, depot, stock, bills, stale>>
OpenDepot(w, k) ==
    /\ At(w, "addWarehouse", "half") /\ task[w].warehouse = k /\ Done(w)
    /\ depot' = [depot EXCEPT ![k] = "live"] /\ stale' = stale \ {"warehouse"}
    /\ LET n == Billable(task[w].held \cup {k})
       IN  addOn' = IF n > 0 THEN [addOn EXCEPT !["warehouse"] = n] ELSE addOn
    /\ UNCHANGED <<tenant, logins, outlet, shop, warehouse, stock, sub, logged, invoices>>

\* Mutant: a warehouse is closed with what it holds.
Unchecked(k) == TRUE
HoldsNothing(k) == k \notin stock
AskDropWarehouse(w, k) ==
    tenant /\ Accept(w, [NoTask EXCEPT !.op = "dropWarehouse", !.step = "asked", !.warehouse = k])
CheckWarehouse(w, k) ==
    /\ At(w, "dropWarehouse", "asked") /\ task[w].warehouse = k
    /\ warehouse[k] # "absent" /\ HoldsNothing(k)
    /\ Goes(w, [task[w] EXCEPT !.step = "open", !.held = LiveDepots])
    /\ UNCHANGED <<tenant, logins, places, bills, stale>>
CloseWarehouse(w, k) ==
    /\ At(w, "dropWarehouse", "open") /\ task[w].warehouse = k /\ Free(w) /\ Goto(w, "half")
    /\ depot[k] # "absent" /\ warehouse' = [warehouse EXCEPT ![k] = "closed"]
    /\ UNCHANGED <<tenant, logins, outlet, shop, depot, stock, bills, stale>>
CloseDepot(w, k) ==
    /\ At(w, "dropWarehouse", "half") /\ task[w].warehouse = k /\ Done(w)
    /\ depot' = [depot EXCEPT ![k] = "closed"] /\ stale' = stale \ {"warehouse"}
    /\ addOn' = [addOn EXCEPT !["warehouse"] = Billable(task[w].held \ {k})]
    /\ UNCHANGED <<tenant, logins, outlet, shop, warehouse, stock, sub, logged, invoices>>

\* Stock goes into a warehouse that is live, and out of one that has it.
AskStock(w, k) ==
    \/ /\ warehouse[k] = "live"
       /\ Accept(w, [NoTask EXCEPT !.op = "stockIn", !.step = "asked", !.warehouse = k])
    \/ /\ k \in stock
       /\ Accept(w, [NoTask EXCEPT !.op = "stockOut", !.step = "asked", !.warehouse = k])
StockIn(w, k) ==
    /\ At(w, "stockIn", "asked") /\ task[w].warehouse = k /\ Done(w) /\ stock' = stock \cup {k}
    /\ UNCHANGED <<tenant, logins, outlet, shop, depot, warehouse, bills, stale>>
StockOut(w, k) ==
    /\ At(w, "stockOut", "asked") /\ task[w].warehouse = k /\ Done(w) /\ stock' = stock \ {k}
    /\ UNCHANGED <<tenant, logins, outlet, shop, depot, warehouse, bills, stale>>

AddWarehouse(w, k)  == AskWarehouse(w, k) \/ FindWarehouse(w, k) \/ OpenWarehouse(w, k) \/ OpenDepot(w, k)
DropWarehouse(w, k) ==
    AskDropWarehouse(w, k) \/ CheckWarehouse(w, k) \/ CloseWarehouse(w, k) \/ CloseDepot(w, k)

----------------------------------------------------------------------------
(* Outlets *)

NextOutlet == {o \in Outlets : outlet[o] = "absent" /\ shop[o] = "absent"}
JoinsTrial(seen) == seen.status = "trial"
\* The plan, and whether it is a trial, are read before the transaction.
AskOutlet(w) ==
    /\ tenant /\ HasPrimary
    /\ Accept(w, [NoTask EXCEPT !.op = "addOutlet", !.step = "asked", !.saw[1] = Primary])
OpenShop(w) ==
    /\ At(w, "addOutlet", "asked") /\ NextOutlet # {}
    /\ Goes(w, [task[w] EXCEPT !.step = "half", !.outlet = Min(NextOutlet)])
    /\ shop' = [shop EXCEPT ![Min(NextOutlet)] = "live"]
    /\ UNCHANGED <<tenant, logins, outlet, depot, warehouse, stock, bills, stale>>
OpenOutlet(w) ==
    LET seen == task[w].saw[1] IN
    /\ At(w, "addOutlet", "half") /\ Done(w) /\ stale' = stale \cup {"user"}
    /\ outlet' = [outlet EXCEPT ![task[w].outlet] = "live"]
    /\ sub' = [sub EXCEPT ![task[w].outlet] =
                 [NoSub EXCEPT !.plan = seen.plan,
                     !.status = IF JoinsTrial(seen) THEN "trial" ELSE "Active",
                     !.until = IF JoinsTrial(seen) THEN seen.until ELSE now + Month]]
    /\ UNCHANGED <<tenant, logins, shop, depot, warehouse, stock, logged, addOn, invoices>>

LiveOutlets == {o \in Outlets : outlet[o] = "live"}
AskDropOutlet(w, o) ==
    /\ Cardinality(LiveOutlets) > 1 /\ outlet[o] # "absent"
    /\ Accept(w, [NoTask EXCEPT !.op = "dropOutlet", !.step = "asked", !.outlet = o])
CloseShop(w, o) ==
    /\ At(w, "dropOutlet", "asked") /\ task[w].outlet = o /\ Goto(w, "half")
    /\ shop' = [shop EXCEPT ![o] = "closed"]
    /\ UNCHANGED <<tenant, logins, outlet, depot, warehouse, stock, bills, stale>>
CloseOutlet(w, o) ==
    /\ At(w, "dropOutlet", "half") /\ task[w].outlet = o /\ Done(w) /\ stale' = stale \cup {"user"}
    /\ outlet' = [outlet EXCEPT ![o] = "closed"]
    /\ sub' = [sub EXCEPT ![o].status = IF @ \in Paying THEN "expired" ELSE @]
    /\ UNCHANGED <<tenant, logins, shop, depot, warehouse, stock, logged, addOn, invoices>>

AddOutlet(w)     == AskOutlet(w) \/ OpenShop(w) \/ OpenOutlet(w)
DropOutlet(w, o) == AskDropOutlet(w, o) \/ CloseShop(w, o) \/ CloseOutlet(w, o)

----------------------------------------------------------------------------
(* The plan *)

Read(seen)  == {o \in Outlets : seen[o].status # "none"}
Was(seen)   == seen[Min(Read(seen))].plan
Leaves(p)   == Was(p.saw) = "Pro" /\ p.plan # "Pro"
Arrives(p)  == Was(p.saw) # "Pro" /\ p.plan = "Pro" /\ vertical # "Laundry"

\* changeTenantPlan: what it reads, and what it refuses.
AskPlan(w, plan) ==
    /\ tenant /\ HasPrimary /\ Primary.plan # plan
    /\ plan = "Lite" => Cardinality(Active) <= Seats["Lite"]
    /\ LET seen == [o \in Outlets |-> IF o \in Charged(sub) THEN sub[o] ELSE NoSub]
       IN  Accept(w, [NoTask EXCEPT !.op = "changePlan", !.step = "asked", !.plan = plan,
                                    !.saw = seen, !.todo = Charged(sub)])

\* handleDowngradeToBasic, in a tenant transaction inside the global one: all
\* stock goes to the first live outlet; without one it is refused.
CloseWarehouses(w) ==
    /\ At(w, "changePlan", "asked") /\ Leaves(task[w]) /\ Free(w) /\ Goto(w, "half")
    /\ stock = {} \/ \E o \in Outlets : shop[o] = "live"
    /\ stock' = {}
    /\ warehouse' = [k \in Warehouses |-> IF warehouse[k] = "live" THEN "closed" ELSE warehouse[k]]
    /\ UNCHANGED <<tenant, logins, outlet, shop, depot, bills, stale>>
CloseDepots(w) ==
    /\ At(w, "changePlan", "half") /\ Leaves(task[w]) /\ Goto(w, "subs")
    /\ depot' = [k \in Warehouses |-> IF depot[k] = "live" THEN "closed" ELSE depot[k]]
    /\ addOn' = [addOn EXCEPT !["warehouse"] = 0, !["loyalty"] = 0]
    /\ stale' = stale \ {"warehouse"}
    /\ UNCHANGED <<tenant, logins, outlet, shop, warehouse, stock, sub, logged, invoices>>
\* A main warehouse that is live already makes it fail.
OpenMain(w) ==
    /\ At(w, "changePlan", "asked") /\ Arrives(task[w]) /\ Free(w) /\ Goto(w, "half")
    /\ depot[Main] # "live" /\ warehouse' = [warehouse EXCEPT ![Main] = "live"]
    /\ UNCHANGED <<tenant, logins, outlet, shop, depot, stock, bills, stale>>
OpenMainDepot(w) ==
    /\ At(w, "changePlan", "half") /\ Arrives(task[w]) /\ Goto(w, "subs")
    /\ depot' = [depot EXCEPT ![Main] = "live"] /\ stale' = stale \cup {"warehouse"}
    /\ UNCHANGED <<tenant, logins, outlet, shop, warehouse, stock, bills>>
Sideways(w) ==
    /\ At(w, "changePlan", "asked") /\ ~Leaves(task[w]) /\ ~Arrives(task[w]) /\ Goto(w, "subs")
    /\ UNCHANGED <<tenant, logins, places, bills, stale>>

\* Mutant: the trial goes on under the new plan.
TrialGoesOn(seen, plan) == FALSE
EndsTrial(seen, plan) == seen.status = "trial" /\ plan # "Pro"
\* The subscriptions that were read, one after the other, outside a transaction.
MoveSubscription(w) ==
    LET o == Min(task[w].todo)  seen == task[w].saw[o] IN
    /\ At(w, "changePlan", "subs") /\ task[w].todo # {}
    /\ Goes(w, [task[w] EXCEPT !.todo = @ \ {o}])
    /\ sub' = [sub EXCEPT ![o].plan = task[w].plan, ![o].price = NoPrice,
                          ![o].status = IF EndsTrial(seen, task[w].plan) THEN "Active" ELSE @]
    /\ logged' = IF seen.price = NoPrice THEN logged ELSE [logged EXCEPT ![o] = NoPrice]
    /\ UNCHANGED <<tenant, logins, places, addOn, invoices, stale>>
\* syncExtraUserAddOn, over the subscriptions that were moved.
CountSeats(w) ==
    /\ At(w, "changePlan", "subs") /\ task[w].todo = {}
    /\ Goes(w, [task[w] EXCEPT !.step = "seats", !.over =
                   Over(Read(task[w].saw), [o \in Outlets |-> [plan |-> task[w].plan]])])
    /\ UNCHANGED <<tenant, logins, places, bills, stale>>
BillSeats(w) ==
    /\ At(w, "changePlan", "seats") /\ Done(w) /\ stale' = stale \ {"user"}
    /\ addOn' = [addOn EXCEPT !["user"] = task[w].over]
    /\ UNCHANGED <<tenant, logins, places, sub, logged, invoices>>

\* Loyalty is sold on Pro only, once.
AskLoyalty(w) ==
    \/ /\ tenant /\ HasPrimary /\ Primary.plan = "Pro" /\ addOn["loyalty"] = 0
       /\ Accept(w, [NoTask EXCEPT !.op = "loyaltyOn", !.step = "asked"])
    \/ /\ addOn["loyalty"] = 1
       /\ Accept(w, [NoTask EXCEPT !.op = "loyaltyOff", !.step = "asked"])
LoyaltyOn(w) ==
    /\ At(w, "loyaltyOn", "asked") /\ addOn["loyalty"] = 0 /\ Done(w)
    /\ addOn' = [addOn EXCEPT !["loyalty"] = 1]
    /\ UNCHANGED <<tenant, logins, places, sub, logged, invoices, stale>>
LoyaltyOff(w) ==
    /\ At(w, "loyaltyOff", "asked") /\ addOn["loyalty"] = 1 /\ Done(w)
    /\ addOn' = [addOn EXCEPT !["loyalty"] = 0]
    /\ UNCHANGED <<tenant, logins, places, sub, logged, invoices, stale>>

ChangePlan(w) ==
    \/ \E plan \in Plans : AskPlan(w, plan)
    \/ CloseWarehouses(w) \/ CloseDepots(w) \/ OpenMain(w) \/ OpenMainDepot(w) \/ Sideways(w)
    \/ MoveSubscription(w) \/ CountSeats(w) \/ BillSeats(w)

----------------------------------------------------------------------------
(* Payments and prices *)

\* getSubscriptionStatus
PaidUp(until) == IF now <= until THEN "Active" ELSE IF now <= until + Grace THEN "Grace" ELSE "Expired"

\* Mutant: a number another payment has taken meanwhile is taken again.
AnyNumber(month, seq) == TRUE
\* generateInvoiceNumber reads the last one; the column is unique.
NumberFree(month, seq) == invoices[month] < seq
AskPay(w, o, months) ==
    tenant /\ Accept(w, [NoTask EXCEPT !.op = "pay", !.step = "asked", !.outlet = o, !.n = months])
\* recordPayment, in one transaction: what it buys starts at the end of what is
\* paid for, or now if the grace period is over.
ReadPaid(w, o) ==
    LET months == task[w].n
        from == IF months > 0 /\ PaidUp(sub[o].until) = "Expired" THEN now ELSE sub[o].until IN
    /\ At(w, "pay", "asked") /\ task[w].outlet = o /\ sub[o].status # "none"
    /\ Goes(w, [task[w] EXCEPT !.step = "open", !.month = now \div Month,
                   !.seq = invoices[now \div Month] + 1,
                   !.saw[o] = [sub[o] EXCEPT !.until = from + months * Month]])
    /\ UNCHANGED <<tenant, logins, places, bills, stale>>
Pay(w, o) ==
    /\ At(w, "pay", "open") /\ task[w].outlet = o /\ Done(w)
    /\ NumberFree(task[w].month, task[w].seq)
    /\ invoices' = [invoices EXCEPT ![task[w].month] = task[w].seq]
    /\ sub' = IF task[w].n = 0 THEN sub
              ELSE [sub EXCEPT ![o].until = task[w].saw[o].until, ![o].status = "Active"]
    /\ UNCHANGED <<tenant, logins, places, logged, addOn, stale>>

\* setCustomPrice logs it, then writes it.
AskPrice(w, o, c) ==
    /\ sub[o].status \in Paying
    /\ Accept(w, [NoTask EXCEPT !.op = "customPrice", !.step = "asked", !.outlet = o, !.n = c])
LogPrice(w, o) ==
    /\ At(w, "customPrice", "asked") /\ task[w].outlet = o /\ Goto(w, "made")
    /\ logged' = [logged EXCEPT ![o] = task[w].n]
    /\ UNCHANGED <<tenant, logins, places, sub, addOn, invoices, stale>>
SetPrice(w, o) ==
    /\ At(w, "customPrice", "made") /\ task[w].outlet = o /\ Done(w)
    /\ sub' = [sub EXCEPT ![o].price = task[w].n]
    /\ UNCHANGED <<tenant, logins, places, logged, addOn, invoices, stale>>

RecordPayment(w, o) == (\E m \in 0..MaxMonths : AskPay(w, o, m)) \/ ReadPaid(w, o) \/ Pay(w, o)
CustomPrice(w, o) ==
    (\E c \in Customs \cup {NoPrice} : AskPrice(w, o, c)) \/ LogPrice(w, o) \/ SetPrice(w, o)

----------------------------------------------------------------------------
(* What the portal says it costs *)

FullPrice(s) == IF s.price = NoPrice THEN Price[s.plan] ELSE s.price
\* A trial is free.
PlanCost(s) == IF s.status = "trial" THEN 0 ELSE FullPrice(s)

\* Loyalty comes with a Laundry plan; what is no longer sold is never billed.
AddOnCost ==
    LET bundled == vertical = "Laundry" /\ HasPrimary
        sold    == IF bundled THEN {"user", "warehouse"} ELSE {"user", "warehouse", "loyalty"}
    IN  SumOver([a \in sold |-> Fee[a] * addOn[a]], sold)

Less(a, b) == IF a > b THEN a - b ELSE 0
Smaller(a, b) == IF a < b THEN a ELSE b
Share(s) == IF s.offer.kind = "percentage" THEN (PlanCost(s) * s.offer.value) \div 100 ELSE 0
Portion(s) == IF s.offer.onPlan THEN Share(s) ELSE 0

Used(whole, before, cost) == Smaller(Less(whole, before), cost)
\* getTenantCost: the first fixed discount found is spent outlet by outlet.
TenantCost ==
    LET O      == Charged(sub)
        fixed  == {o \in O : sub[o].offer.kind = "fixed"}
        whole  == IF fixed = {} THEN 0 ELSE sub[Min(fixed)].offer.value
        before(o) == SumOver([p \in O |-> PlanCost(sub[p])], {p \in O : p < o})
        spent(o)  == Used(whole, before(o), PlanCost(sub[o]))
    IN  AddOnCost + SumOver([o \in O |-> Less(PlanCost(sub[o]), Portion(sub[o]) + spent(o))], O)

\* getAllTenantCost: a fixed discount counts at the first outlet that carries it.
DashboardCost ==
    LET O == Charged(sub)
        first(o)  == \A p \in O : sub[p].offer = sub[o].offer => o <= p
        spent(o) == IF sub[o].offer.kind = "fixed" /\ first(o)
                    THEN Smaller(sub[o].offer.value, PlanCost(sub[o])) ELSE 0
    IN  AddOnCost + SumOver([o \in O |-> Less(PlanCost(sub[o]), Portion(sub[o]) + spent(o))], O)

\* What a discount takes off one subscription, whatever it applies to.
OffOne(s) == IF s.offer.kind = "fixed" THEN Smaller(s.offer.value, PlanCost(s)) ELSE Share(s)
\* getTenantBillingSummary: every outlet's discount counts, and no status hides one.
SummaryCost ==
    AddOnCost + SumOver([o \in Outlets |-> Less(PlanCost(sub[o]), OffOne(sub[o]))],
                        {o \in LiveOutlets : sub[o].status # "none"})
\* buildCostSnapshot: what a payment records; one that buys time pays the plan.
SnapshotCost(s, months) ==
    LET paid == IF months > 0 THEN [s EXCEPT !.status = "Active"] ELSE s
    IN  Less(PlanCost(paid) + AddOnCost, OffOne(paid))
\* getUpcomingPayments, of all that end by a day: discounts are left out.
UpcomingCost(day) ==
    AddOnCost + SumOver([o \in Outlets |-> PlanCost(sub[o])], {o \in Charged(sub) : sub[o].until <= day})
\* getUpcomingPaymentsSummary: the same outlets, by how late they are.
UpcomingAs(class, day) ==
    {o \in Charged(sub) : sub[o].until <= day /\
        class = (IF sub[o].until >= now THEN "Active"
                 ELSE IF sub[o].until >= now - Grace THEN "Grace" ELSE "Expired")}

----------------------------------------------------------------------------

AnyLogin(w) ==
    \/ \E n \in Logins : \/ AddLogin(w, n) \/ DropLogin(w, n) \/ Password(w, n)
                         \/ \E o \in Outlets : AskAssign(w, n, o) \/ Assign(w, n, o) \/ Unassign(w, n, o)
    \/ CountLogins(w) \/ BillLogins(w)
AnyWarehouse(w) == \E k \in Warehouses :
    AddWarehouse(w, k) \/ DropWarehouse(w, k) \/ AskStock(w, k) \/ StockIn(w, k) \/ StockOut(w, k)
AnyOutlet(w) ==
    AddOutlet(w) \/ \E o \in Outlets : DropOutlet(w, o) \/ RecordPayment(w, o) \/ CustomPrice(w, o)
AnyPlan(w) == ChangePlan(w) \/ AskLoyalty(w) \/ LoyaltyOn(w) \/ LoyaltyOff(w)

TenantNext ==
    \/ Tick
    \/ \E w \in Admins : SignUp(w) \/ AnyLogin(w) \/ AnyWarehouse(w) \/ AnyOutlet(w) \/ AnyPlan(w) \/ Fail(w)

TenantSpec == TenantInit /\ [][TenantNext]_tenantVars

----------------------------------------------------------------------------
(* What is promised *)

Idle == \A w \in Admins : task[w].step = "idle"
Tidy == Idle /\ ~overlapped /\ ~cut

\* The two databases agree: whoever may sign in is a user of the shop with the
\* same password, assigned to an outlet, and whoever was removed is gone from
\* both; outlets and warehouses live and close together; and a sign-up that was
\* taken back leaves nothing in the global one.
DatabasesAgree ==
    Tidy =>
    /\ \A n \in Logins : login[n].life # "absent" =>
          user[n] = login[n] /\ \E o \in Outlets : member[n][o] # "absent"
    /\ tenant => outlet = shop /\ depot = warehouse
    /\ ~tenant => /\ \A n \in Logins : login[n] = NoLogin
                  /\ \A o \in Outlets : outlet[o] = "absent" /\ sub[o] = NoSub
                  /\ \A k \in Warehouses : depot[k] = "absent"

\* Every variable has its type, and the databases agree.
BothAgree == TenantTypeOK /\ DatabasesAgree

\* The tenant is billed for the logins beyond its seats and the warehouses
\* beyond the first, neither more nor less, on one plan for all its outlets, and
\* for loyalty on Pro only.  Two changes do not redo a count: an outlet's coming
\* or going that of the logins, an upgrade that of the warehouses.
BilledRight ==
    Tidy /\ tenant =>
    /\ "user" \notin stale => addOn["user"] = Over(Charged(sub), sub)
    /\ "warehouse" \notin stale =>
          addOn["warehouse"] = IF LiveDepots = {} THEN 0 ELSE Cardinality(LiveDepots) - 1
    /\ \A o, p \in Charged(sub) : sub[o].plan = sub[p].plan
    /\ addOn["loyalty"] = 1 => Primary.plan = "Pro"

\* A payment never buys less than its months on top of what is paid for when it
\* commits, however many are recorded at once: unless a calendar month ended
\* meanwhile, two of them take the same invoice number and one is refused.
MonthsGranted ==
    [][\A w \in Admins : At(w, "pay", "open") /\ task'[w].step = "idle" /\ invoices' # invoices /\ ~rolled
         => LET o == task[w].outlet IN
            /\ sub'[o].until >= sub[o].until + task[w].n * Month
            /\ task[w].n > 0 => sub'[o].status = "Active"]_tenantVars

\* Nothing is on a trial but Pro, whatever overlaps or fails: a plan below it
\* that kept the status would be billed nothing.
TrialEndsWithPro == \A o \in Outlets : sub[o].status = "trial" => sub[o].plan = "Pro"

\* No stock is left in a warehouse that was closed, and no tenant without an
\* outlet, even if a change of plan or a deletion is cut off.
NothingLost ==
    ~overlapped =>
    /\ \A k \in stock : warehouse[k] = "live"
    /\ tenant => LiveOutlets # {}

\* The screens that price a tenant agree where the rules they were written from
\* coincide: no discount, a percentage of the plan, one fixed discount that the
\* first outlet can bear; the summary never exceeds the dashboard, nor that the
\* reminder of all that ends by the last day any does; every subscription is listed as late as its outlet's page says.
ScreensAgree ==
    LET O       == Charged(sub)
        offers  == {sub[o].offer : o \in O}
        fixed   == {o \in O : sub[o].offer.kind = "fixed"}
        Same(S) == \A a, b \in S : a = b
    IN  \A last \in {sub[o].until : o \in O} :
    ({o \in LiveOutlets : sub[o].status # "none"} = O /\ \A o \in O : sub[o].until <= last) =>
    /\ offers = {NoOffer} => Same({TenantCost, DashboardCost, SummaryCost, UpcomingCost(last)})
    /\ (\A f \in offers : f.onPlan /\ f.kind = "percentage") => Same({TenantCost, DashboardCost, SummaryCost})
    /\ (fixed = {Min(O)} /\ sub[Min(O)].offer.value <= PlanCost(sub[Min(O)])
          /\ \A o \in O \ fixed : sub[o].offer = NoOffer)
         => Same({TenantCost, DashboardCost, SummaryCost})
    /\ SummaryCost <= DashboardCost /\ DashboardCost <= UpcomingCost(last)
    /\ \A o \in O : O = {o} => SnapshotCost(sub[o], 0) = SummaryCost
    /\ \A o \in O : o \in UpcomingAs(PaidUp(sub[o].until), last)

\* The price a subscription is billed at is the last one the log recorded.
PriceLogged == Tidy => \A o \in Outlets : sub[o].price = logged[o]

\* What a tenant is charged, counted and priced.
ChargedRight == BilledRight /\ ScreensAgree /\ PriceLogged
=============================================================================
