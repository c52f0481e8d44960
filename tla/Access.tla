------------------------------- MODULE Access -------------------------------
(***************************************************************************)
(* Who may do what: roles and the permissions a request is granted         *)
(* (role.service.ts, user.service.ts, permission-cache.ts), logins, their  *)
(* tokens and the plan a token claims (auth.service.ts,                    *)
(* token-invalidation.service.ts, plan-check.service.ts), push devices     *)
(* (pushy/device.controller.ts) and terminal numbers                       *)
(* (device/device.service.ts).                                             *)
(*                                                                         *)
(* None of these handlers holds a transaction across its reads and writes: *)
(* every statement that can be told apart is a step of its own, and a      *)
(* request may fail or be cut off between any two.                         *)
(***************************************************************************)
EXTENDS Integers, FiniteSets

CONSTANTS
    Users,       \* logins of the tenant
    Roles,       \* roles there are or may be
    Super,       \* the role of id 1, which matches every permission
    Standing,    \* roles there are at first, all carrying First
    First,       \* permissions of a role at first
    Legacy,      \* devices of before fingerprints, known by their push token
    Perms,       \* permissions a role may carry, all to receive notifications
    Outlets,     \* outlets of the tenant
    Outlet1,     \* the outlet of id 1
    PerOutlet,   \* permissions whose notifications are those of an outlet
    Tokens,      \* refresh tokens that may be issued
    Phones,      \* devices, told apart by their fingerprint
    Workers,     \* requests in flight at once
    PermTTL,     \* ticks a resolved permission set is served for
    PlanTTL,     \* ticks a plan check is served for
    JwtLife,     \* ticks an access token lives
    RefreshLife, \* ticks a refresh token lives
    Mixes,       \* sets of operations to consider together
    MaxRequests  \* bound: requests of a behaviour

RoleOps   == {"createRole", "updateRole", "assign", "unassign", "setRoles"}
LoginOps  == {"login", "refresh", "logout", "deleteLogin"}
PlanOps   == {"changePlan", "checkPlan"}
DeviceOps == {"register", "unregister", "removeDevice", "listen", "terminal"}
Ops == RoleOps \cup LoginOps \cup PlanOps \cup DeviceOps \cup {"check"}

None  == "none"
Plans == {"none", "Basic", "Pro"}

ASSUME AccessAssumption ==
    /\ Super \in Standing /\ Standing \subseteq Roles
    /\ None \notin Users \cup Roles \cup Tokens \cup Phones
    /\ IsFiniteSet(Phones)
    /\ {PermTTL, PlanTTL, JwtLife, RefreshLife} \subseteq Nat \ {0}
    /\ First \subseteq Perms /\ PerOutlet \subseteq Perms /\ Outlet1 \in Outlets /\ Legacy \subseteq Phones
    /\ Mixes \subseteq SUBSET Ops /\ MaxRequests \in Nat

VARIABLES
    mix,       \* the operations of this behaviour
    made,      \* roles that exist
    carries,   \* role -> permissions of its rows
    held,      \* user -> roles
    cache,     \* user -> permissions resolved, and the ticks they are still served
    plan,      \* the plan of the tenant's live subscription
    planKnown, \* the cached plan check
    login,     \* user -> whether the login is live
    token,     \* refresh tokens
    given,     \* refresh tokens a client was handed
    jwt,       \* user -> the last access token
    device,    \* push devices
    push,      \* device -> the topics it listens to, and the users they were for
    site,      \* device -> its terminal number, 0 for none
    tx,        \* what each worker is doing
    begun, raced, cut, \* requests begun; history: two overlapped, one was cut off
    lost,      \* history: ticks until a role taken from a user, or a
               \* permission taken from a role, was taken PermTTL ago
    answer,    \* the grant or plan check this step answered
    told       \* history: the terminal numbers a device was told

roles   == <<made, carries, held, lost>>
logins  == <<login, token, given, jwt>>
devices == <<device, push, site, told>>
caches  == <<cache, planKnown>>
vars    == <<mix, roles, plan, logins, devices, caches, tx, begun, raced, cut, answer>>

NoEntry == [perms |-> {}, left |-> 0]
Entry   == [perms: SUBSET Perms, left: 0..PermTTL]
PlanRow == [pro: BOOLEAN, left: 0..PlanTTL]
TokenRow  == [user: Users \cup {None}, left: 0..RefreshLife, life: {"absent", "live", "revoked"}]
JwtRow    == [perms: SUBSET Perms, plan: Plans, left: 0..JwtLife]
DeviceRow == [known: {"absent", "token", "print"}, owner: Users \cup {None},
              active: BOOLEAN, allocated: BOOLEAN]
NoDevice  == [known |-> "absent", owner |-> None, active |-> FALSE, allocated |-> FALSE]

\* Names of topics: the tenant's, a user's, a permission's, a permission's at an outlet.
Topics == {<<"tenant">>} \cup ({"user"} \X Users) \cup ({"perm"} \X Perms)
          \cup ({"outlet"} \X Outlets \X Perms)

Steps == {"idle", "make", "clear", "grant", "link", "flush", "plan", "roles", "perms", "store",
          "issue", "login", "new", "check", "revoke", "mark", "sessions", "tenant", "write",
          "forget", "claim", "allocate", "silence", "free", "shut", "pick", "take"}

\* seen: a device as read; n: a terminal number picked, or how a removal
\* unsubscribed (Outcome); age: ticks since the request began; dead: history,
\* its login was deleted then, and since.
NoPlan == [op |-> "check", step |-> "idle", user |-> None, role |-> None, roles |-> {},
           perms |-> {}, plan |-> "none", tok |-> None, next |-> None, phone |-> None,
           seen |-> NoDevice, n |-> 0, age |-> 0, dead |-> FALSE]
Plan == [op: Ops, step: Steps, user: Users \cup {None}, role: Roles \cup {None},
         roles: SUBSET Roles, perms: SUBSET Perms, plan: Plans, tok: Tokens \cup {None},
         next: Tokens \cup {None}, phone: Phones \cup {None}, seen: DeviceRow, n: Nat,
         age: 0..PermTTL, dead: BOOLEAN]

TypeOK ==
    /\ mix \in Mixes /\ begun \in 0..MaxRequests
    /\ raced \in BOOLEAN /\ cut \in BOOLEAN
    /\ made \subseteq Roles /\ carries \in [Roles -> SUBSET Perms]
    /\ held \in [Users -> SUBSET made] /\ cache \in [Users -> Entry]
    /\ plan \in Plans /\ planKnown \in PlanRow
    /\ login \in [Users -> {"live", "deleted"}] /\ token \in [Tokens -> TokenRow]
    /\ given \subseteq Tokens /\ jwt \in [Users -> JwtRow]
    /\ device \in [Phones -> DeviceRow]
    /\ push \in [Phones -> [topics: SUBSET Topics, of: SUBSET Users]]
    /\ site \in [Phones -> 0..Cardinality(Phones)]
    /\ tx \in [Workers -> Plan]

Silent == [by |-> None, user |-> None, perms |-> {}, right |-> TRUE]

Init ==
    /\ mix \in Mixes /\ made = Standing
    /\ carries = [r \in Roles |-> IF r \in Standing \ {Super} THEN First ELSE {}]
    /\ held \in {[u \in Users |-> R] : R \in {{}, Standing \ {Super}}}
    /\ cache = [u \in Users |-> NoEntry] /\ planKnown = [pro |-> FALSE, left |-> 0]
    /\ plan = "Pro" /\ login = [u \in Users |-> "live"]
    /\ token = [t \in Tokens |-> [user |-> None, left |-> 0, life |-> "absent"]]
    /\ given = {} /\ jwt = [u \in Users |-> [perms |-> {}, plan |-> "none", left |-> 0]]
    /\ \E u \in Users :
            device = [d \in Phones |-> IF d \notin Legacy THEN NoDevice
                        ELSE [known |-> "token", owner |-> u, active |-> TRUE, allocated |-> TRUE]]
    /\ push = [d \in Phones |-> [topics |-> {}, of |-> {}]]
    /\ site = [d \in Phones |-> 0] /\ told = [d \in Phones |-> {}]
    /\ tx = [w \in Workers |-> NoPlan] /\ begun = 0 /\ raced = FALSE /\ cut = FALSE
    /\ lost = [held |-> [u \in Users |-> [r \in Roles |-> 0]],
               carried |-> [r \in Roles |-> [p \in Perms |-> 0]]]
    /\ answer = Silent

----------------------------------------------------------------------------
(* The steps of a request *)

Overlaps(w) == raced' = (raced \/ \E v \in Workers \ {w} : tx[v].step # "idle")

Begin(w, p) ==
    /\ p.op \in mix /\ tx[w].step = "idle" /\ begun < MaxRequests
    /\ tx' = [tx EXCEPT ![w] = [p EXCEPT !.dead = p.user \in Users /\ login[p.user] = "deleted"]]
    /\ begun' = begun + 1 /\ Overlaps(w) /\ answer' = Silent
    /\ UNCHANGED <<mix, roles, plan, logins, devices, caches, cut>>

At(w, op, step) == tx[w].op = op /\ tx[w].step = step
Goes(w, p)  == /\ tx' = [tx EXCEPT ![w] = p] /\ answer' = Silent
               /\ UNCHANGED <<mix, begun, raced, cut>>
Go(w, step) == Goes(w, [tx[w] EXCEPT !.step = step])
Done(w)     == Goes(w, NoPlan)
Answers(w, a) == /\ tx' = [tx EXCEPT ![w] = NoPlan] /\ answer' = a
                 /\ UNCHANGED <<mix, begun, raced, cut>>
\* answered at once, from a cache
Hits(w, op, a) == /\ op \in mix /\ tx[w].step = "idle" /\ Overlaps(w) /\ answer' = a
                  /\ UNCHANGED <<mix, tx, begun, cut>>

\* A statement that fails, or a crash: what was written stays.
Cut(w) == /\ tx[w].step # "idle" /\ tx' = [tx EXCEPT ![w] = NoPlan] /\ cut' = TRUE
          /\ answer' = Silent
          /\ UNCHANGED <<mix, begun, raced, roles, plan, logins, devices, caches>>

Less(n)  == IF n = 0 THEN 0 ELSE n - 1
Aged(e)  == [e EXCEPT !.left = Less(@)]

Tick ==
    /\ cache' = [u \in Users |-> IF cache[u].left <= 1 THEN NoEntry ELSE Aged(cache[u])]
    /\ planKnown' = Aged(planKnown)
    /\ token' = [t \in Tokens |-> Aged(token[t])] /\ jwt' = [u \in Users |-> Aged(jwt[u])]
    /\ tx' = [w \in Workers |-> IF tx[w].op = "check" /\ tx[w].step # "idle"
                                   /\ tx[w].age < PermTTL
                                THEN [tx[w] EXCEPT !.age = @ + 1] ELSE tx[w]]
    /\ lost' = [held |-> [u \in Users |-> [r \in Roles |-> Less(lost.held[u][r])]],
                carried |-> [r \in Roles |-> [p \in Perms |-> Less(lost.carried[r][p])]]]
    /\ answer' = Silent
    /\ UNCHANGED <<mix, made, carries, held, plan, login, given, devices, begun, raced, cut>>

----------------------------------------------------------------------------
(* Roles *)

Granted(R) == IF Super \in R THEN Perms ELSE UNION {carries[r] : r \in R}

\* invalidatePermissions drops every entry of the tenant.
Flushed(w) == [u \in Users |-> NoEntry]

Flush(w) == /\ tx[w].step = "flush" /\ Done(w) /\ cache' = Flushed(w)
            /\ UNCHANGED <<roles, plan, logins, devices, planKnown>>

\* The rows of a role are unique: rows that were inserted meanwhile make the
\* insertion fail.
Grant(w) ==
    /\ tx[w].step = "grant" /\ carries[tx[w].role] \cap tx[w].perms = {} /\ Go(w, "flush")
    /\ carries' = [carries EXCEPT ![tx[w].role] = @ \cup tx[w].perms]
    /\ UNCHANGED <<made, held, lost, plan, logins, devices, caches>>

CreateRole(w, r, P) ==
    \/ /\ r \notin made
       /\ Begin(w, [NoPlan EXCEPT !.op = "createRole", !.step = "make", !.role = r, !.perms = P])
    \/ /\ At(w, "createRole", "make") /\ tx[w].role = r /\ r \notin made /\ Go(w, "grant")
       /\ tx[w].perms = P /\ made' = made \cup {r}
       /\ UNCHANGED <<carries, held, lost, plan, logins, devices, caches>>

\* The rows of the role are deleted and inserted anew.
UpdateRole(w, r, P) ==
    \/ /\ r \in made
       /\ Begin(w, [NoPlan EXCEPT !.op = "updateRole", !.step = "clear", !.role = r, !.perms = P])
    \/ /\ At(w, "updateRole", "clear") /\ tx[w].role = r /\ tx[w].perms = P /\ Go(w, "grant")
       /\ carries' = [carries EXCEPT ![r] = {}]
       /\ lost' = [lost EXCEPT !.carried[r] = [p \in Perms |-> IF p \in carries[r] THEN PermTTL
                                                               ELSE @[p]]]
       /\ UNCHANGED <<made, held, plan, logins, devices, caches>>

\* assignRoleToUser, removeRoleFromUser, and update with the roles to set.
Linked(op, have, R) == CASE op = "assign"   -> have \cup R
                         [] op = "unassign" -> have \ R
                         [] OTHER           -> R

Exist(R) == R \subseteq made

ChangeRoles(w, op, u, R) ==
    \/ /\ R # {} /\ Exist(R)
       /\ op = "assign" => R \cap held[u] = {}
       /\ op = "unassign" => R \subseteq held[u]
       /\ Begin(w, [NoPlan EXCEPT !.op = op, !.step = "link", !.user = u, !.roles = R])
    \/ LET have == Linked(op, held[u], R) IN
       /\ At(w, op, "link") /\ tx[w].user = u /\ tx[w].roles = R /\ Go(w, "flush")
       /\ held' = [held EXCEPT ![u] = have]
       /\ lost' = [lost EXCEPT !.held[u] = [r \in Roles |-> IF r \in held[u] \ have THEN PermTTL
                                                            ELSE @[r]]]
       /\ UNCHANGED <<made, carries, plan, logins, devices, caches>>

----------------------------------------------------------------------------
(* What a request is granted *)

Grants(by, u, P) == [by |-> by, user |-> u, perms |-> P, right |-> P = Granted(held[u])]

\* Mutant: the entry lives from when it is stored.
FromStore(w) == PermTTL
\* The entry lives from when the request found no fresh one.
Lives(w) == PermTTL - tx[w].age

\* The resolver reads the user's roles, their permissions, and the names of
\* those in the global database, and then stores.
Check(w, u) ==
    \/ /\ cache[u].left > 0 /\ Hits(w, "check", Grants("cached", u, cache[u].perms))
       /\ UNCHANGED <<roles, plan, logins, devices, caches>>
    \/ /\ cache[u].left = 0
       /\ Begin(w, [NoPlan EXCEPT !.op = "check", !.step = "roles", !.user = u])
    \/ /\ At(w, "check", "store") /\ tx[w].user = u
       /\ Answers(w, Grants("live", u, tx[w].perms))
       /\ cache' = [cache EXCEPT ![u] = IF Lives(w) = 0 THEN NoEntry
                                        ELSE [perms |-> tx[w].perms, left |-> Lives(w)]]
       /\ UNCHANGED <<roles, plan, logins, devices, planKnown>>
    \* a resolve that fails leaves the permissions of the token
    \/ /\ tx[w].op = "check" /\ tx[w].step # "idle" /\ tx[w].user = u /\ jwt[u].left > 0
       /\ Answers(w, Grants("token", u, jwt[u].perms))
       /\ UNCHANGED <<roles, plan, logins, devices, caches>>

\* A check stores what it resolves; a token is issued with it, or with nothing
\* when the lookup failed.
Resolve(w) ==
    \/ /\ tx[w].step = "roles" /\ Goes(w, [tx[w] EXCEPT !.step = "perms", !.roles = held[tx[w].user]])
       /\ UNCHANGED <<roles, plan, logins, devices, caches>>
    \/ /\ tx[w].step = "perms"
       /\ IF tx[w].op = "check"
          THEN Goes(w, [tx[w] EXCEPT !.step = "store", !.perms = Granted(tx[w].roles)])
          ELSE \E P \in {Granted(tx[w].roles), {}} :
                    Goes(w, [tx[w] EXCEPT !.step = "issue", !.perms = P])
       /\ UNCHANGED <<roles, plan, logins, devices, caches>>

----------------------------------------------------------------------------
(* Logins and tokens *)

Active(t) == token[t].life = "live" /\ token[t].left > 0

\* A new token is unlike all that were; which of the rest stands for it is all one.
Fresh(t) == /\ token[t].life = "absent"
            /\ t = CHOOSE x \in Tokens : token[x].life = "absent"
Issued(t, u) == [token EXCEPT ![t] = [user |-> u, left |-> RefreshLife, life |-> "live"]]
Signed(w) == [jwt EXCEPT ![tx[w].user] =
                [perms |-> tx[w].perms, plan |-> tx[w].plan, left |-> JwtLife]]

\* getTenantSubscriptionInfo: a lookup that fails ends the request.
ReadPlan(w) ==
    /\ tx[w].step = "plan" /\ tx[w].op \in LoginOps
    /\ Goes(w, [tx[w] EXCEPT !.step = "roles", !.plan = plan])
    /\ UNCHANGED <<roles, plan, logins, devices, caches>>

\* Mutant: the login of a refresh token is not looked at.
AnyLogin(u) == TRUE
\* A deleted login neither signs in nor refreshes.
Admitted(u) == login[u] = "live"

\* The access token is signed, then the refresh token is created.
Login(w, u, t) ==
    \/ /\ login[u] = "live"
       /\ Begin(w, [NoPlan EXCEPT !.op = "login", !.step = "plan", !.user = u])
    \/ /\ At(w, "login", "issue") /\ tx[w].user = u /\ Fresh(t) /\ Done(w)
       /\ jwt' = Signed(w) /\ token' = Issued(t, u) /\ given' = given \cup {t}
       /\ UNCHANGED <<login, roles, plan, devices, caches>>

\* refreshToken: the new token is created before the old one is checked again
\* and revoked, and is answered only at the end.
Refresh(w, t, new) ==
    LET u == tx[w].user IN
    \/ /\ t \in given /\ Active(t)
       /\ Begin(w, [NoPlan EXCEPT !.op = "refresh", !.step = "login", !.user = token[t].user,
                                  !.tok = t])
    \/ /\ At(w, "refresh", "login") /\ tx[w].tok = t /\ Admitted(u) /\ Go(w, "new")
       /\ UNCHANGED <<roles, plan, logins, devices, caches>>
    \/ /\ At(w, "refresh", "new") /\ tx[w].tok = t /\ Fresh(new)
       /\ Goes(w, [tx[w] EXCEPT !.step = "check", !.next = new])
       /\ token' = Issued(new, u)
       /\ UNCHANGED <<login, given, jwt, roles, plan, devices, caches>>
    \/ /\ At(w, "refresh", "check") /\ tx[w].tok = t /\ Active(t) /\ Go(w, "revoke")
       /\ UNCHANGED <<roles, plan, logins, devices, caches>>
    \/ /\ At(w, "refresh", "issue") /\ tx[w].tok = t /\ tx[w].next = new /\ Done(w)
       /\ jwt' = Signed(w) /\ given' = given \cup {new}
       /\ UNCHANGED <<login, token, roles, plan, devices, caches>>

\* revokeToken, of a logout or of a refresh.
Revoke(w, t) ==
    \/ t \in given /\ Active(t) /\ Begin(w, [NoPlan EXCEPT !.op = "logout", !.step = "revoke",
                                                           !.tok = t])
    \/ /\ tx[w].step = "revoke" /\ tx[w].tok = t
       /\ IF tx[w].op = "refresh" THEN Go(w, "plan") ELSE Done(w)
       /\ token' = [token EXCEPT ![t].life = "revoked"]
       /\ UNCHANGED <<login, given, jwt, roles, plan, devices, caches>>

\* deleteTenantUser, as far as the login goes: a later step that fails makes
\* the login live again.
DeleteLogin(w, u) ==
    \/ /\ login[u] = "live"
       /\ Begin(w, [NoPlan EXCEPT !.op = "deleteLogin", !.step = "mark", !.user = u])
    \/ /\ At(w, "deleteLogin", "mark") /\ tx[w].user = u /\ Go(w, "sessions")
       /\ login' = [login EXCEPT ![u] = "deleted"]
       /\ UNCHANGED <<token, given, jwt, roles, plan, devices, caches>>
    \/ /\ At(w, "deleteLogin", "sessions") /\ tx[w].user = u /\ Go(w, "tenant")
       /\ token' = [t \in Tokens |-> IF token[t].user = u /\ token[t].life = "live"
                                     THEN [token[t] EXCEPT !.life = "revoked"] ELSE token[t]]
       /\ UNCHANGED <<login, given, jwt, roles, plan, devices, caches>>
    \/ /\ At(w, "deleteLogin", "tenant") /\ tx[w].user = u /\ Done(w)
       /\ UNCHANGED <<roles, plan, logins, devices, caches>>
    \/ /\ tx[w].op = "deleteLogin" /\ tx[w].step \in {"sessions", "tenant"} /\ tx[w].user = u
       /\ login' = [login EXCEPT ![u] = "live"]
       /\ tx' = [v \in Workers |-> IF v = w THEN NoPlan
                                   ELSE [tx[v] EXCEPT !.dead = @ /\ tx[v].user # u]]
       /\ answer' = Silent
       /\ UNCHANGED <<mix, begun, raced, cut, token, given, jwt, roles, plan, devices, caches>>

----------------------------------------------------------------------------
(* The plan *)

\* Mutant: the check cached before the change stays.
PlanStays == planKnown
\* onPlanChange: the next check reads the database.
PlanForgotten == [pro |-> FALSE, left |-> 0]

ChangePlan(w, to) ==
    \/ /\ to # plan
       /\ Begin(w, [NoPlan EXCEPT !.op = "changePlan", !.step = "write", !.plan = to])
    \/ /\ At(w, "changePlan", "write") /\ tx[w].plan = to /\ Go(w, "forget") /\ plan' = to
       /\ UNCHANGED <<roles, logins, devices, caches>>
    \/ /\ At(w, "changePlan", "forget") /\ tx[w].plan = to /\ Done(w)
       /\ planKnown' = PlanForgotten
       /\ UNCHANGED <<roles, plan, logins, devices, cache>>

Pro(pro) == [by |-> "plan", user |-> None, perms |-> {}, right |-> pro = (plan = "Pro")]

\* isProPlan: the entry lives from when it is stored.
CheckPlan(w) ==
    \/ /\ planKnown.left > 0 /\ Hits(w, "checkPlan", Pro(planKnown.pro))
       /\ UNCHANGED <<roles, plan, logins, devices, caches>>
    \/ /\ planKnown.left = 0
       /\ Begin(w, [NoPlan EXCEPT !.op = "checkPlan", !.step = "plan"])
    \/ /\ At(w, "checkPlan", "plan") /\ Goes(w, [tx[w] EXCEPT !.step = "store", !.plan = plan])
       /\ UNCHANGED <<roles, plan, logins, devices, caches>>
    \/ LET pro == tx[w].plan = "Pro" IN
       /\ At(w, "checkPlan", "store") /\ Answers(w, Pro(pro))
       /\ planKnown' = [pro |-> pro, left |-> PlanTTL]
       /\ UNCHANGED <<roles, plan, logins, devices, cache>>

----------------------------------------------------------------------------
(* Devices *)

\* Mutant: only a new device needs an allocation.
NewOnly(row) == row.known = "absent"
\* A device that is new, or was released, takes an allocation.
Takes(row) == row.known = "absent" \/ ~row.active

Personal(u) == {<<"tenant">>, <<"user", u>>}

\* getUserTopics, of a registration: permissions at tenant level, of the rows
\* of the roles; the app listens to these too.
Hears(d, u) ==
    push' = [push EXCEPT ![d] =
        [topics |-> @.topics \cup Personal(u)
                    \cup ({"perm"} \X UNION {carries[r] : r \in held[u]}),
         of |-> @.of \cup {u}]]

\* getNotificationTopics of a login, for the outlets of the user, and
\* generateNotificationTopics of a delta of the roles, for the outlet at hand.
TopicsAt(u, O) ==
    LET P == Granted(held[u]) IN
    Personal(u) \cup ({"outlet"} \X O \X (P \cap PerOutlet)) \cup ({"perm"} \X (P \ PerOutlet))

\* getAllPossibleTopics, of a device's owner: outlet 1 only when the lookup of
\* the outlets fails. (Also the mutant of AllPossible: topics of before there
\* were outlets.)
PossibleAtFirst(u) == Personal(u) \cup ({"perm"} \X Perms) \cup ({"outlet"} \X {Outlet1} \X Perms)
AllPossible(u) == Personal(u) \cup ({"perm"} \X Perms) \cup ({"outlet"} \X Outlets \X Perms)
AskedFor(u, read) == IF read THEN AllPossible(u) ELSE PossibleAtFirst(u)

\* getAllTenantDevices, getUserDevices, checkUserHasActiveDevice
Listed    == {d \in Phones : device[d].active /\ device[d].allocated}
Own(u)    == {d \in Phones : device[d].active /\ device[d].owner = u}
HasOne(u) == \E d \in Listed : device[d].owner = u

\* What the app is told to listen to, when u signs in on a device and whenever
\* it fetches the roles; below Pro, and without a device in use, nothing.
Listen(w, u, d, O) ==
    /\ "listen" \in mix /\ tx[w].step = "idle" /\ begun < MaxRequests /\ begun' = begun + 1
    /\ Overlaps(w) /\ answer' = Silent
    /\ push' = [push EXCEPT ![d] =
            [topics |-> IF plan = "Pro" /\ (HasOne(u) \/ O = Outlets) THEN TopicsAt(u, O) ELSE {},
             of |-> {u}]]
    /\ UNCHANGED <<mix, tx, cut, device, site, told, roles, plan, logins, caches>>

\* registerDevice: by fingerprint whoever owned the device, by push token only
\* for its owner; a plan must be live where an allocation is taken.
Register(w, u, d) ==
    \/ /\ device[d].known = "token" => device[d].owner = u
       /\ Takes(device[d]) => plan # "none"
       /\ Begin(w, [NoPlan EXCEPT !.op = "register", !.step = "claim", !.user = u, !.phone = d,
                                  !.seen = device[d]])
    \/ /\ At(w, "register", "claim") /\ tx[w].user = u /\ tx[w].phone = d
       /\ tx[w].seen.known = "absent" => device[d].known = "absent"
       /\ device' = [device EXCEPT ![d].known = "print", ![d].active = TRUE,
                        ![d].owner = IF tx[w].seen.known = "token" THEN @ ELSE u]
       /\ IF Takes(tx[w].seen) THEN Go(w, "allocate") /\ UNCHANGED push
          ELSE Done(w) /\ Hears(d, u)
       /\ UNCHANGED <<site, told, roles, plan, logins, caches>>
    \/ /\ At(w, "register", "allocate") /\ tx[w].user = u /\ tx[w].phone = d
       /\ ~device[d].allocated /\ Done(w) /\ Hears(d, u)
       /\ device' = [device EXCEPT ![d].allocated = TRUE]
       /\ UNCHANGED <<site, told, roles, plan, logins, caches>>

\* unregisterDevice is the owner's; deleteDeviceById also serves whoever may
\* manage devices, by a permission that is resolved like any other.
MayRelease(op, u, d) == \/ device[d].owner = u
                        \/ op = "removeDevice" /\ Granted(held[u]) # {}

\* How a removal unsubscribed: from all it asked for, with the outlets read (1)
\* or not (2), or kept some that it had (0).
Outcome(read, all) == IF ~all THEN 0 ELSE IF read THEN 1 ELSE 2

\* unsubscribeDevice asks for one topic after the other: each may fail, or FCM may
\* not be configured, and the removal goes on. That a topic the device never
\* joined fails makes no difference.
Unsubscribes(w, d) ==
    \E read \in BOOLEAN :
        LET asked == AskedFor(tx[w].seen.owner, read)
        IN \E kept \in SUBSET (asked \cap push[d].topics) :
            /\ Goes(w, [tx[w] EXCEPT !.step = "free", !.n = Outcome(read, kept = {})])
            /\ push' = [push EXCEPT ![d].topics = @ \ (asked \ kept)]

Release(w, op, u, d) ==
    \/ /\ device[d].known # "absent" /\ MayRelease(op, u, d)
       /\ Begin(w, [NoPlan EXCEPT !.op = op, !.user = u, !.phone = d, !.seen = device[d],
                        !.step = IF op = "removeDevice" THEN "silence" ELSE "free"])
    \/ /\ At(w, op, "silence") /\ tx[w].user = u /\ tx[w].phone = d /\ Unsubscribes(w, d)
       /\ UNCHANGED <<device, site, told, roles, plan, logins, caches>>
    \/ /\ At(w, op, "free") /\ tx[w].user = u /\ tx[w].phone = d /\ Go(w, "shut")
       /\ device' = [device EXCEPT ![d].allocated = FALSE]
       /\ UNCHANGED <<push, site, told, roles, plan, logins, caches>>
    \/ /\ At(w, op, "shut") /\ tx[w].user = u /\ tx[w].phone = d /\ Done(w)
       /\ device' = [device EXCEPT ![d].active = FALSE]
       /\ UNCHANGED <<push, site, told, roles, plan, logins, caches>>

\* computeLowestFreeSiteId
LowestFree == CHOOSE n \in 1..(Cardinality(Phones) + 1) :
                /\ \A d \in Phones : site[d] # n
                /\ \A m \in 1..(n - 1) : \E d \in Phones : site[d] = m

\* Both the device and the number are unique.
Taken(d, n) == site[d] # 0 \/ \E e \in Phones : site[e] = n

Tells(d, n) == told' = [told EXCEPT ![d] = @ \cup {n}]

\* registerTerminal: a device that has a number is told it; a new one takes the
\* lowest it found free, looks again if another device took it, and is told its
\* own if it was registered meanwhile.
Terminal(w, d) ==
    \/ /\ site[d] # 0 /\ Hits(w, "terminal", Silent) /\ Tells(d, site[d])
       /\ UNCHANGED <<device, push, site, roles, plan, logins, caches>>
    \/ /\ site[d] = 0
       /\ Begin(w, [NoPlan EXCEPT !.op = "terminal", !.step = "pick", !.phone = d])
    \/ /\ At(w, "terminal", "pick") /\ tx[w].phone = d
       /\ Goes(w, [tx[w] EXCEPT !.step = "take", !.n = LowestFree])
       /\ UNCHANGED <<roles, plan, logins, devices, caches>>
    \/ LET n == tx[w].n IN
       /\ At(w, "terminal", "take") /\ tx[w].phone = d
       /\ \/ /\ ~Taken(d, n) /\ site' = [site EXCEPT ![d] = n] /\ Tells(d, n) /\ Done(w)
          \/ /\ Taken(d, n) /\ site[d] # 0 /\ Tells(d, site[d]) /\ Done(w) /\ UNCHANGED site
          \/ /\ Taken(d, n) /\ site[d] = 0 /\ Go(w, "pick") /\ UNCHANGED <<site, told>>
       /\ UNCHANGED <<device, push, roles, plan, logins, caches>>

Request(w) ==
    \/ \E r \in Roles, P \in SUBSET Perms : CreateRole(w, r, P) \/ UpdateRole(w, r, P)
    \/ \E op \in {"assign", "unassign", "setRoles"}, u \in Users, R \in SUBSET Roles :
            ChangeRoles(w, op, u, R)
    \/ Grant(w) \/ Flush(w) \/ Resolve(w) \/ ReadPlan(w) \/ CheckPlan(w)
    \/ \E u \in Users : \/ Check(w, u) \/ DeleteLogin(w, u)
                        \/ \E t \in Tokens : Login(w, u, t)
                        \/ \E d \in Phones : \/ Register(w, u, d)
                                             \/ Release(w, "unregister", u, d)
                                             \/ Release(w, "removeDevice", u, d)
                                             \/ \E O \in SUBSET Outlets \ {{}} : Listen(w, u, d, O)
    \/ \E t \in Tokens : Revoke(w, t) \/ \E new \in Tokens : Refresh(w, t, new)
    \/ \E to \in Plans : ChangePlan(w, to)
    \/ \E d \in Phones : Terminal(w, d)
    \/ Cut(w)

Next == Tick \/ \E w \in Workers : Request(w)

Spec == Init /\ [][Next]_vars

----------------------------------------------------------------------------
(* Properties *)

LatelyHeld(u, r)    == r \in held[u] \/ lost.held[u][r] > 0
LatelyCarried(r, p) == r = Super \/ p \in carries[r] \/ lost.carried[r][p] > 0

\* However resolves and role changes overlap or break off, a permission granted
\* from the cache was carried, within the last PermTTL ticks, by a role that the
\* user held within the last PermTTL ticks: a slow resolve does not lengthen the
\* time for which a grant may be stale.
GrantsBacked ==
    answer.by = "cached" => \A p \in answer.perms : \E r \in Roles :
        LatelyHeld(answer.user, r) /\ LatelyCarried(r, p)

\* While no two requests overlap and none breaks off, what the caches answer is
\* what the databases say: a change of a role, of a user's roles or of the plan
\* takes effect with the next request.
CachesExact == ~raced /\ ~cut /\ answer.by \in {"cached", "live", "plan"} => answer.right

\* What the caches grant, however requests overlap, and while they do not.
GrantsSound == TypeOK /\ GrantsBacked /\ CachesExact

\* A request that began after its login was deleted ends with no access token,
\* whatever refresh token it holds and however the deletion and the requests of
\* before overlapped.
SignedOut ==
    [][\A u \in Users : jwt'[u] # jwt[u] /\ jwt'[u].left = JwtLife =>
            \E w \in Workers : tx[w].user = u /\ tx[w].step = "issue" /\ ~tx[w].dead]_vars

\* While no two requests overlap and none breaks off, a push device is active
\* exactly when it has an allocation, so that the owner's list, the tenant's
\* list and the count of devices agree.
DevicesAllocated ==
    ~raced /\ ~cut /\ (\A w \in Workers : tx[w].step = "idle") =>
        /\ \A d \in Phones : device[d].active = device[d].allocated
        /\ UNION {Own(u) : u \in Users} = Listed

\* The removal of a device by id leaves it no topic, whatever its user's roles
\* and outlets were when it was told what to listen to, as long as all of that
\* was told to the user it belongs to, the outlets could be read and every
\* unsubscription succeeded. Where only the lookup of the outlets failed, what
\* stays are topics of outlets other than the first; where an unsubscription
\* failed, the removal goes on and promises nothing.
RemovalSilences ==
    [][\A w \in Workers : LET d == tx[w].phone IN
        tx[w].step = "silence" /\ tx'[w].step = "free" /\ push[d].of \subseteq {tx[w].seen.owner}
            => /\ tx'[w].n = 1 => push'[d].topics = {}
               /\ tx'[w].n = 2 => push'[d].topics \subseteq
                                     {"outlet"} \X (Outlets \ {Outlet1}) \X Perms]_vars

\* However registrations overlap, a terminal is told one number, always the
\* same, and no two terminals are told the same one.
TerminalSettled ==
    \A d \in Phones : /\ told[d] \subseteq {site[d]}
                      /\ \A e \in Phones \ {d} : told[d] \cap told[e] = {}

\* The push devices and the terminals of a tenant, together.
DevicesSound == DevicesAllocated /\ TerminalSettled

=============================================================================
