---------------------------- MODULE AccessProofs ----------------------------
(***************************************************************************)
(* Proofs about Access, for any users, roles, permissions, devices and     *)
(* requests in flight, and any lifetimes of the caches and tokens.         *)
(***************************************************************************)
EXTENDS Access, SumLemmas

----------------------------------------------------------------------------
(* Types, with what a request knows at each of its steps. *)

LostRow == [held: [Users -> [Roles -> Nat]], carried: [Roles -> [Perms -> Nat]]]

RolesOK == /\ made \subseteq Roles /\ carries \in [Roles -> SUBSET Perms]
           /\ held \in [Users -> SUBSET made] /\ lost \in LostRow
LoginsOK == /\ login \in [Users -> {"live", "deleted"}] /\ token \in [Tokens -> TokenRow]
            /\ given \subseteq Tokens /\ jwt \in [Users -> JwtRow]
            /\ \A t \in Tokens : token[t].life = "live" => token[t].user \in Users
DevicesOK == /\ device \in [Phones -> DeviceRow]
             /\ push \in [Phones -> [topics: SUBSET Topics, of: SUBSET Users]]
             /\ site \in [Phones -> Nat] /\ told \in [Phones -> SUBSET Nat]
CachesOK == cache \in [Users -> Entry] /\ planKnown \in PlanRow /\ plan \in Plans
RunOK == mix \in Mixes /\ begun \in 0..MaxRequests /\ raced \in BOOLEAN /\ cut \in BOOLEAN

\* What a request in flight knows, where R are the roles there are.
Formed(p, R) ==
    /\ p.step = "link" => p.roles \subseteq R
    /\ p.op \in {"login", "refresh", "check", "deleteLogin"} /\ p.step # "idle" => p.user \in Users
    /\ p.step = "plan" => p.op \in {"login", "refresh", "checkPlan"}
    /\ p.step \in {"roles", "perms"} => p.op \in {"login", "refresh", "check"}
    /\ p.step = "issue" => p.op \in {"login", "refresh"}
    /\ p.step = "revoke" => p.op \in {"logout", "refresh"}
    /\ p.step \in {"grant", "flush"} => p.op \in RoleOps
    /\ p.step = "silence" => p.op = "removeDevice"
RowsOK == tx \in [Workers -> Plan] /\ \A w \in Workers : Formed(tx[w], made)

Typed == RolesOK /\ LoginsOK /\ DevicesOK /\ CachesOK /\ RunOK /\ RowsOK

LEMMA FreshRow == NoPlan \in Plan /\ NoDevice \in DeviceRow
  BY AccessAssumption DEF NoPlan, Plan, Ops, Steps, Plans, NoDevice, DeviceRow

LEMMA RowsSet ==
  ASSUME RowsOK, NEW w \in Workers, NEW p \in Plan, made \subseteq made', Formed(p, made'),
         tx' = [tx EXCEPT ![w] = p]
  PROVE  RowsOK'
  BY DEF RowsOK, Formed

LEMMA RowsKept == ASSUME RowsOK, UNCHANGED <<tx, made>> PROVE RowsOK'
  BY DEF RowsOK

\* A request that begins.
LEMMA Begins ==
  ASSUME RowsOK, RunOK, NEW w \in Workers, NEW p \in Plan, Formed(p, made), Begin(w, p)
  PROVE  RowsOK' /\ RunOK' /\ UNCHANGED <<roles, plan, logins, devices, caches>>
  <1> DEFINE b == p.user \in Users /\ login[p.user] = "deleted"
             q == [p EXCEPT !.dead = b]
  <1>1. b \in BOOLEAN
    OBVIOUS
  <1>2. tx' = [tx EXCEPT ![w] = q] /\ made' = made
    BY DEF Begin, roles
  <1> HIDE DEF b
  <1>3. q \in Plan
    BY <1>1 DEF Plan
  <1>4. Formed(q, made)
    BY DEF Formed, Plan
  <1> HIDE DEF q
  <1>5. RowsOK'
    BY <1>2, <1>3, <1>4, RowsSet
  <1>6. RunOK'
    BY AccessAssumption DEF RunOK, Begin, Overlaps
  <1>. QED
    BY <1>5, <1>6 DEF Begin

\* A request that goes on to p, or ends.
LEMMA GoesOn ==
  ASSUME RowsOK, RunOK, NEW w \in Workers, NEW p \in Plan, made \subseteq made', Formed(p, made'),
         Goes(w, p)
  PROVE  RowsOK' /\ RunOK'
  BY RowsSet DEF Goes, RunOK

LEMMA Ends ==
  ASSUME RowsOK, RunOK, NEW w \in Workers, made \subseteq made', Done(w)
  PROVE  RowsOK' /\ RunOK'
  BY GoesOn, FreshRow DEF Done, NoPlan, Formed

\* A request that goes on to a step at which it needs nothing more.
LEMMA StepsOn ==
  ASSUME RowsOK, RunOK, NEW w \in Workers, made \subseteq made', tx[w].step # "idle",
         NEW s \in Steps \ {"link", "roles", "perms", "issue", "silence"},
         s \in {"plan", "revoke"} => tx[w].op = "refresh", s \in {"grant", "flush"} => tx[w].op \in RoleOps,
         Go(w, s)
  PROVE  RowsOK' /\ RunOK'
  <1> DEFINE q == [tx[w] EXCEPT !.step = s]
  <1>a. tx[w] \in Plan /\ Formed(tx[w], made)
    BY DEF RowsOK
  <1>b. q \in Plan
    BY <1>a DEF Plan
  <1>c. q.step = s /\ q.op = tx[w].op /\ q.user = tx[w].user
    BY <1>a DEF Plan
  <1>1. q \in Plan /\ Formed(q, made')
    BY <1>a, <1>b, <1>c, tx[w].step # "idle" DEF Formed
  <1> HIDE DEF q
  <1>2. Goes(w, q)
    BY DEF Go, q
  <1>. QED
    BY <1>1, <1>2, GoesOn

\* What becomes of a removal that unsubscribed.
Unsubscribing(w, d, q, read) ==
    /\ Goes(w, q) /\ q.step = "free" /\ q.op = tx[w].op /\ q.phone = tx[w].phone
    /\ q.seen = tx[w].seen
    /\ \E gone \in SUBSET AskedFor(tx[w].seen.owner, read) :
          /\ push' = [push EXCEPT ![d].topics = @ \ gone]
          /\ q.n = 1 => read /\ gone = AskedFor(tx[w].seen.owner, read)
          /\ q.n = 2 => ~read /\ gone = AskedFor(tx[w].seen.owner, read)

\* A removal that unsubscribed goes on with the outcome noted.
LEMMA Unsubscribed ==
  ASSUME RowsOK, NEW w \in Workers, NEW d, Unsubscribes(w, d)
  PROVE  \E q \in Plan, read \in BOOLEAN :
            Unsubscribing(w, d, q, read)
  <1>1. PICK read \in BOOLEAN :
            \E kept \in SUBSET (AskedFor(tx[w].seen.owner, read) \cap push[d].topics) :
              /\ Goes(w, [tx[w] EXCEPT !.step = "free", !.n = Outcome(read, kept = {})])
              /\ push' = [push EXCEPT ![d].topics = @ \ (AskedFor(tx[w].seen.owner, read) \ kept)]
    BY Zenon DEF Unsubscribes
  <1>2. PICK kept \in SUBSET (AskedFor(tx[w].seen.owner, read) \cap push[d].topics) :
              /\ Goes(w, [tx[w] EXCEPT !.step = "free", !.n = Outcome(read, kept = {})])
              /\ push' = [push EXCEPT ![d].topics = @ \ (AskedFor(tx[w].seen.owner, read) \ kept)]
    BY <1>1, Zenon
  <1> DEFINE all == kept = {}
             gone == AskedFor(tx[w].seen.owner, read) \ kept
             n == Outcome(read, all)
             q == [tx[w] EXCEPT !.step = "free", !.n = n]
  <1>3. Goes(w, q)
    BY <1>2
  <1>4. n \in Nat /\ (n = 1 => read /\ all) /\ (n = 2 => ~read /\ all)
    BY DEF Outcome
  <1> HIDE DEF n
  <1>5. tx[w] \in Plan /\ "free" \in Steps
    BY DEF RowsOK, Steps
  <1>6. /\ q \in Plan /\ q.step = "free" /\ q.op = tx[w].op /\ q.phone = tx[w].phone
        /\ q.seen = tx[w].seen /\ q.n = n
    BY <1>4, <1>5 DEF Plan
  <1> HIDE DEF q
  <1>7. /\ gone \in SUBSET AskedFor(tx[w].seen.owner, read)
        /\ all => gone = AskedFor(tx[w].seen.owner, read)
    OBVIOUS
  <1>8. /\ push' = [push EXCEPT ![d].topics = @ \ gone]
        /\ q.n = 1 => read /\ gone = AskedFor(tx[w].seen.owner, read)
        /\ q.n = 2 => ~read /\ gone = AskedFor(tx[w].seen.owner, read)
    BY <1>2, <1>4, <1>6, <1>7
  <1> HIDE DEF gone
  <1>9. Unsubscribing(w, d, q, read)
    BY <1>3, <1>6, <1>7, <1>8, Zenon DEF Unsubscribing
  <1>. QED
    BY <1>6, <1>9

LEMMA VarsKept ==
  /\ RolesOK /\ UNCHANGED roles => RolesOK'
  /\ LoginsOK /\ UNCHANGED logins => LoginsOK'
  /\ DevicesOK /\ UNCHANGED devices => DevicesOK'
  /\ CachesOK /\ UNCHANGED <<caches, plan>> => CachesOK'
  BY DEF RolesOK, LoginsOK, DevicesOK, CachesOK, roles, logins, devices, caches

LEMMA NoCache == NoEntry \in Entry /\ [pro |-> FALSE, left |-> 0] \in PlanRow
  BY AccessAssumption DEF NoEntry, Entry, PlanRow

LEMMA TypedInit == Init => Typed
  <1> SUFFICES ASSUME Init PROVE Typed
    OBVIOUS
  <1>1. RolesOK
    BY AccessAssumption DEF Init, RolesOK, LostRow
  <1>2. LoginsOK
    <2>1. [user |-> None, left |-> 0, life |-> "absent"] \in TokenRow
      BY AccessAssumption DEF TokenRow
    <2>2. [perms |-> {}, plan |-> "none", left |-> 0] \in JwtRow
      BY AccessAssumption DEF JwtRow, Plans
    <2>. QED
      BY <2>1, <2>2 DEF Init, LoginsOK
  <1>3. DevicesOK
    <2>1. device \in [Phones -> DeviceRow]
      <3>1. PICK u \in Users :
              device = [d \in Phones |-> IF d \notin Legacy THEN NoDevice
                          ELSE [known |-> "token", owner |-> u, active |-> TRUE, allocated |-> TRUE]]
        BY Zenon DEF Init
      <3>2. [known |-> "token", owner |-> u, active |-> TRUE, allocated |-> TRUE] \in DeviceRow
        BY DEF DeviceRow
      <3>. QED
        BY <3>1, <3>2, FreshRow
    <2>. QED
      BY <2>1 DEF Init, DevicesOK
  <1>4. CachesOK
    <2>1. planKnown \in PlanRow
      BY NoCache, Zenon DEF Init
    <2>2. cache \in [Users -> Entry] /\ plan \in Plans
      BY NoCache DEF Init, Plans
    <2>. QED
      BY <2>1, <2>2 DEF CachesOK
  <1>5. RunOK
    <2>1. begun \in 0..MaxRequests
      BY AccessAssumption DEF Init
    <2>. QED
      BY <2>1, Zenon DEF Init, RunOK
  <1>6. RowsOK
    BY FreshRow DEF Init, RowsOK, Formed, NoPlan
  <1>. QED
    BY <1>1, <1>2, <1>3, <1>4, <1>5, <1>6 DEF Typed

LEMMA TypedTick == Typed /\ Tick => Typed'
  <1> SUFFICES ASSUME Typed, Tick PROVE Typed'
    OBVIOUS
  <1>0. Less(0) = 0 /\ \A n \in Nat : Less(n) \in 0..n
    BY DEF Less
  <1>1. RolesOK'
    <2>1. \A u \in Users, r \in Roles : lost.held[u][r] \in Nat
      BY DEF Typed, RolesOK, LostRow
    <2>2. \A r \in Roles, p \in Perms : lost.carried[r][p] \in Nat
      BY DEF Typed, RolesOK, LostRow
    <2>3. lost' \in LostRow
      BY <1>0, <2>1, <2>2 DEF Tick, LostRow
    <2>. QED
      BY <2>3 DEF Typed, Tick, RolesOK
  <1>2. LoginsOK'
    <2>1. ASSUME NEW t \in Tokens
          PROVE  Aged(token[t]) \in TokenRow /\ Aged(token[t]).life = token[t].life
                 /\ Aged(token[t]).user = token[t].user
      <3>1. token[t] \in TokenRow
        BY DEF Typed, LoginsOK
      <3>2. Less(token[t].left) \in 0..RefreshLife
        BY <1>0, <3>1, AccessAssumption DEF TokenRow
      <3>. QED
        BY <3>1, <3>2 DEF Aged, TokenRow
    <2>2. ASSUME NEW u \in Users PROVE Aged(jwt[u]) \in JwtRow
      <3>1. jwt[u] \in JwtRow
        BY DEF Typed, LoginsOK
      <3>2. Less(jwt[u].left) \in 0..JwtLife
        BY <1>0, <3>1, AccessAssumption DEF JwtRow
      <3>. QED
        BY <3>1, <3>2 DEF Aged, JwtRow
    <2>. QED
      BY <2>1, <2>2 DEF Typed, Tick, LoginsOK
  <1>3. CachesOK'
    <2>1. cache' \in [Users -> Entry]
      <3>1. ASSUME NEW u \in Users PROVE Aged(cache[u]) \in Entry
        <4>1. cache[u] \in Entry
          BY DEF Typed, CachesOK
        <4>2. Less(cache[u].left) \in 0..PermTTL
          BY <1>0, <4>1, AccessAssumption DEF Entry
        <4>. QED
          BY <4>1, <4>2 DEF Aged, Entry
      <3>. QED
        BY <3>1, NoCache DEF Tick
    <2>2. planKnown' \in PlanRow
      <3> DEFINE l == Less(planKnown.left)
      <3>1. planKnown \in PlanRow /\ planKnown' = [planKnown EXCEPT !.left = l]
        BY DEF Typed, CachesOK, Tick, Aged
      <3>2. l \in 0..PlanTTL
        BY <1>0, <3>1, AccessAssumption DEF PlanRow
      <3> HIDE DEF l
      <3>. QED
        BY <3>1, <3>2 DEF PlanRow
    <2>. QED
      BY <2>1, <2>2 DEF Typed, Tick, CachesOK
  <1>4. RowsOK'
    <2> SUFFICES ASSUME NEW w \in Workers
                 PROVE  tx'[w] \in Plan /\ Formed(tx'[w], made)
      BY DEF Tick, RowsOK
    <2> DEFINE p == tx[w]
    <2>1. p \in Plan /\ Formed(p, made)
      BY DEF Typed, RowsOK
    <2>2. CASE tx'[w] = p
      BY <2>1, <2>2
    <2>3. CASE p.age < PermTTL /\ tx'[w] = [p EXCEPT !.age = @ + 1]
      <3>1. p.age + 1 \in 0..PermTTL
        BY <2>1, <2>3, AccessAssumption DEF Plan
      <3>. QED
        BY <2>1, <2>3, <3>1 DEF Plan, Formed
    <2>. QED
      BY <2>2, <2>3 DEF Tick
  <1>. QED
    BY <1>1, <1>2, <1>3, <1>4, VarsKept DEF Typed, Tick, RunOK

LEMMA Hit ==
  ASSUME RowsOK, RunOK, NEW w \in Workers, NEW op, NEW a, Hits(w, op, a), UNCHANGED made
  PROVE  RowsOK' /\ RunOK'
  BY DEF Hits, Overlaps, RunOK, RowsOK

LEMMA LostTo ==
  ASSUME NEW H \in [Users -> [Roles -> Nat]], NEW C \in [Roles -> [Perms -> Nat]],
         lost' = [held |-> H, carried |-> C]
  PROVE  lost' \in LostRow /\ lost'.held = H /\ lost'.carried = C
  BY DEF LostRow

\* What was taken, once u gave up the roles that are not in f, or a role its
\* permissions.
LEMMA LostHeld ==
  ASSUME lost \in LostRow, NEW u \in Users, NEW have,
         lost' = [lost EXCEPT !.held[u] = [r \in Roles |-> IF r \in held[u] \ have THEN PermTTL
                                                            ELSE @[r]]]
  PROVE  /\ lost' \in LostRow /\ lost'.carried = lost.carried
         /\ \A v \in Users, r \in Roles :
                lost'.held[v][r] = IF v = u /\ r \in held[u] \ have THEN PermTTL ELSE lost.held[v][r]
  <1> DEFINE f == [r \in Roles |-> IF r \in held[u] \ have THEN PermTTL ELSE lost.held[u][r]]
             H == [lost.held EXCEPT ![u] = f]
  <1>1. lost.held \in [Users -> [Roles -> Nat]] /\ lost.carried \in [Roles -> [Perms -> Nat]]
    BY DEF LostRow
  <1>2. lost' = [lost EXCEPT !.held = H]
    BY <1>1
  <1>3. f \in [Roles -> Nat]
    BY <1>1, AccessAssumption
  <1>4. H \in [Users -> [Roles -> Nat]]
    BY <1>1, <1>3
  <1>5. \A v \in Users, r \in Roles :
            H[v][r] = IF v = u /\ r \in held[u] \ have THEN PermTTL ELSE lost.held[v][r]
    BY <1>1
  <1> HIDE DEF H, f
  <1>6. lost' = [held |-> H, carried |-> lost.carried]
    BY <1>2 DEF LostRow
  <1>7. lost' \in LostRow /\ lost'.held = H /\ lost'.carried = lost.carried
    BY <1>1, <1>4, <1>6, LostTo
  <1>. QED
    BY <1>5, <1>7, Zenon

LEMMA LostCarried ==
  ASSUME lost \in LostRow, NEW r \in Roles,
         lost' = [lost EXCEPT !.carried[r] = [q \in Perms |-> IF q \in carries[r] THEN PermTTL
                                                               ELSE @[q]]]
  PROVE  /\ lost' \in LostRow /\ lost'.held = lost.held
         /\ \A s \in Roles, q \in Perms :
                lost'.carried[s][q] = IF s = r /\ q \in carries[r] THEN PermTTL ELSE lost.carried[s][q]
  <1> DEFINE f == [q \in Perms |-> IF q \in carries[r] THEN PermTTL ELSE lost.carried[r][q]]
             C == [lost.carried EXCEPT ![r] = f]
  <1>1. lost.held \in [Users -> [Roles -> Nat]] /\ lost.carried \in [Roles -> [Perms -> Nat]]
    BY DEF LostRow
  <1>2. lost' = [lost EXCEPT !.carried = C]
    BY <1>1
  <1>3. f \in [Perms -> Nat]
    BY <1>1, AccessAssumption
  <1>4. C \in [Roles -> [Perms -> Nat]]
    BY <1>1, <1>3
  <1>5. \A s \in Roles, q \in Perms :
            C[s][q] = IF s = r /\ q \in carries[r] THEN PermTTL ELSE lost.carried[s][q]
    BY <1>1
  <1> HIDE DEF C, f
  <1>6. lost' = [held |-> lost.held, carried |-> C]
    BY <1>2 DEF LostRow
  <1>7. lost' \in LostRow /\ lost'.held = lost.held /\ lost'.carried = C
    BY <1>1, <1>4, <1>6, LostTo
  <1>. QED
    BY <1>5, <1>7, Zenon

LEMMA RolesTyped ==
  ASSUME Typed, NEW w \in Workers,
         \/ \E r \in Roles, P \in SUBSET Perms : CreateRole(w, r, P) \/ UpdateRole(w, r, P)
         \/ \E op \in {"assign", "unassign", "setRoles"}, u \in Users, R \in SUBSET Roles :
                 ChangeRoles(w, op, u, R)
         \/ Grant(w) \/ Flush(w)
  PROVE  Typed'
  <1> USE DEF Typed
  <1>1. tx[w] \in Plan /\ RowsOK /\ RunOK
    BY DEF RowsOK
  <1>2. ASSUME NEW r \in Roles, NEW P \in SUBSET Perms, CreateRole(w, r, P) PROVE Typed'
    <2> DEFINE p == [NoPlan EXCEPT !.op = "createRole", !.step = "make", !.role = r, !.perms = P]
    <2>1. CASE Begin(w, p)
      <3>1. p \in Plan /\ Formed(p, made)
        BY FreshRow DEF Plan, NoPlan, Ops, RoleOps, Steps, Formed
      <3> HIDE DEF p
      <3>. QED
        BY <1>1, <2>1, <3>1, Begins, VarsKept
    <2>2. CASE /\ At(w, "createRole", "make") /\ Go(w, "grant") /\ made' = made \cup {r}
               /\ UNCHANGED <<carries, held, lost, plan, logins, devices, caches>>
      <3>1. RowsOK' /\ RunOK'
        BY <1>1, <2>2, StepsOn DEF At, Steps, RoleOps
      <3>. QED
        BY <2>2, <3>1, VarsKept DEF RolesOK
    <2>. QED
      BY <1>2, <2>1, <2>2 DEF CreateRole
  <1>3. ASSUME NEW r \in Roles, NEW P \in SUBSET Perms, UpdateRole(w, r, P) PROVE Typed'
    <2> DEFINE p == [NoPlan EXCEPT !.op = "updateRole", !.step = "clear", !.role = r, !.perms = P]
    <2>1. CASE Begin(w, p)
      <3>1. p \in Plan /\ Formed(p, made)
        BY FreshRow DEF Plan, NoPlan, Ops, RoleOps, Steps, Formed
      <3> HIDE DEF p
      <3>. QED
        BY <1>1, <2>1, <3>1, Begins, VarsKept
    <2>2. CASE /\ At(w, "updateRole", "clear") /\ Go(w, "grant")
               /\ carries' = [carries EXCEPT ![r] = {}]
               /\ lost' = [lost EXCEPT !.carried[r] = [q \in Perms |-> IF q \in carries[r] THEN PermTTL
                                                                       ELSE @[q]]]
               /\ UNCHANGED <<made, held, plan, logins, devices, caches>>
      <3>1. RowsOK' /\ RunOK'
        BY <1>1, <2>2, StepsOn DEF At, Steps, RoleOps
      <3>2. lost' \in LostRow
        BY <2>2, LostCarried DEF RolesOK
      <3>. QED
        BY <2>2, <3>1, <3>2, VarsKept DEF RolesOK
    <2>. QED
      BY <1>3, <2>1, <2>2 DEF UpdateRole
  <1>4. ASSUME NEW op \in {"assign", "unassign", "setRoles"}, NEW u \in Users,
               NEW R \in SUBSET Roles, ChangeRoles(w, op, u, R)
        PROVE  Typed'
    <2> DEFINE p == [NoPlan EXCEPT !.op = op, !.step = "link", !.user = u, !.roles = R]
               have == Linked(op, held[u], R)
    <2>1. CASE Exist(R) /\ Begin(w, p)
      <3>1. p \in Plan /\ Formed(p, made)
        BY <2>1, FreshRow DEF Plan, NoPlan, Ops, RoleOps, Steps, Formed, Exist
      <3> HIDE DEF p
      <3>. QED
        BY <1>1, <2>1, <3>1, Begins, VarsKept
    <2>2. CASE /\ At(w, op, "link") /\ tx[w].roles = R /\ Go(w, "flush")
               /\ held' = [held EXCEPT ![u] = have]
               /\ lost' = [lost EXCEPT !.held[u] = [r \in Roles |-> IF r \in held[u] \ have THEN PermTTL
                                                                    ELSE @[r]]]
               /\ UNCHANGED <<made, carries, plan, logins, devices, caches>>
      <3>1. RowsOK' /\ RunOK'
        BY <1>1, <2>2, StepsOn DEF At, Steps, RoleOps
      <3>2. have \subseteq made
        BY <2>2 DEF Linked, RowsOK, Formed, RolesOK, At
      <3> HIDE DEF have
      <3>3. lost' \in LostRow
        BY <2>2, LostHeld DEF RolesOK
      <3>. QED
        BY <2>2, <3>1, <3>2, <3>3, VarsKept DEF RolesOK
    <2>. QED
      BY <1>4, <2>1, <2>2 DEF ChangeRoles
  <1>5. CASE Grant(w)
    <2>1. RowsOK' /\ RunOK'
      BY <1>1, <1>5, StepsOn DEF Grant, Steps, RowsOK, Formed
    <2>. QED
      BY <1>1, <1>5, <2>1, VarsKept DEF Grant, RolesOK, Plan
  <1>6. CASE Flush(w)
    <2>1. made \subseteq made'
      BY <1>6 DEF Flush, roles
    <2>2. RowsOK' /\ RunOK'
      BY <1>1, <1>6, <2>1, Ends DEF Flush
    <2>3. CachesOK'
      BY <1>6, NoCache DEF Flush, Flushed, CachesOK
    <2>. QED
      BY <1>6, <2>2, <2>3, VarsKept DEF Flush
  <1>. QED
    BY <1>2, <1>3, <1>4, <1>5, <1>6

LEMMA GrantsTyped ==
  ASSUME Typed, NEW w \in Workers,
         Resolve(w) \/ ReadPlan(w) \/ \E u \in Users : Check(w, u)
  PROVE  Typed'
  <1> USE DEF Typed
  <1> DEFINE p == tx[w]
  <1>1. p \in Plan /\ RowsOK /\ RunOK /\ Formed(p, made)
    BY DEF RowsOK
  <1> HIDE DEF p
  <1>0. p = tx[w]
    BY DEF p
  <1>g. \A R \in SUBSET Roles : Granted(R) \subseteq Perms
    BY DEF Granted, RolesOK
  <1>2. CASE Resolve(w)
    <2>1. CASE p.step = "roles"
      <3> DEFINE q == [p EXCEPT !.step = "perms", !.roles = held[p.user]]
      <3>1. p.user \in Users
        BY <1>1, <2>1 DEF Formed
      <3>2. held[p.user] \subseteq made /\ made \subseteq Roles
        BY <3>1 DEF RolesOK
      <3>a. q \in Plan
        BY <1>1, <3>2 DEF Plan, Steps
      <3>3. q \in Plan /\ Formed(q, made)
        BY <1>1, <2>1, <3>1, <3>a DEF Plan, Formed
      <3> HIDE DEF q
      <3>4. Goes(w, q) /\ UNCHANGED <<roles, plan, logins, devices, caches>>
        BY <1>0, <1>2, <2>1 DEF Resolve, q
      <3>5. RowsOK' /\ RunOK'
        BY <1>1, <3>3, <3>4, GoesOn DEF roles
      <3>. QED
        BY <3>4, <3>5, VarsKept
    <2>2. CASE p.step = "perms"
      <3>1. PICK P \in SUBSET Perms, s \in {"store", "issue"} :
               /\ Goes(w, [p EXCEPT !.step = s, !.perms = P]) /\ (s = "issue" => p.op # "check")
               /\ UNCHANGED <<roles, plan, logins, devices, caches>>
        BY <1>0, <1>1, <1>2, <1>g, <2>2 DEF Resolve, Plan
      <3> DEFINE q == [p EXCEPT !.step = s, !.perms = P]
      <3>a. s \in Steps /\ (s = "issue" => p.op \in {"login", "refresh"})
        BY <1>1, <2>2, <3>1 DEF Formed, Steps
      <3>b. q \in Plan
        BY <1>1, <3>a DEF Plan
      <3>2. q \in Plan /\ Formed(q, made)
        BY <1>1, <2>2, <3>a, <3>b DEF Plan, Formed
      <3> HIDE DEF q
      <3>3. Goes(w, q)
        BY <3>1 DEF q
      <3>4. RowsOK' /\ RunOK'
        BY <1>1, <3>1, <3>2, <3>3, GoesOn DEF roles
      <3>. QED
        BY <3>1, <3>4, VarsKept
    <2>. QED
      BY <1>0, <1>2, <2>1, <2>2 DEF Resolve
  <1>3. CASE ReadPlan(w)
    <2> DEFINE q == [p EXCEPT !.step = "roles", !.plan = plan]
    <2>a. "roles" \in Steps /\ plan \in Plans
      BY DEF Steps, CachesOK
    <2>b. p.step = "plan" /\ p.op \in LoginOps
      BY <1>0, <1>3 DEF ReadPlan
    <2>1. q \in Plan /\ Formed(q, made)
      BY <1>1, <2>a, <2>b DEF Plan, Formed, LoginOps
    <2> HIDE DEF q
    <2>2. Goes(w, q) /\ UNCHANGED <<roles, plan, logins, devices, caches>>
      BY <1>0, <1>3 DEF ReadPlan, q
    <2>3. RowsOK' /\ RunOK'
      BY <1>1, <2>1, <2>2, GoesOn DEF roles
    <2>. QED
      BY <2>2, <2>3, VarsKept
  <1>4. ASSUME NEW u \in Users, Check(w, u) PROVE Typed'
    <2> DEFINE q == [NoPlan EXCEPT !.op = "check", !.step = "roles", !.user = u]
    <2>1. CASE Begin(w, q)
      <3>1. q \in Plan /\ Formed(q, made)
        BY FreshRow DEF Plan, NoPlan, Ops, Steps, Formed
      <3> HIDE DEF q
      <3>. QED
        BY <1>1, <2>1, <3>1, Begins, VarsKept
    <2>2. CASE /\ Hits(w, "check", Grants("cached", u, cache[u].perms))
               /\ UNCHANGED <<roles, plan, logins, devices, caches>>
      <3>1. RowsOK' /\ RunOK'
        BY <1>1, <2>2, Hit DEF roles
      <3>. QED
        BY <2>2, <3>1, VarsKept
    <2>3. ASSUME NEW a, Answers(w, a), UNCHANGED <<roles, plan, logins, devices>>, CachesOK'
          PROVE  Typed'
      <3>1. RowsOK' /\ RunOK'
        BY <1>1, <2>3, FreshRow, RowsSet DEF Answers, RunOK, NoPlan, Formed, roles
      <3>. QED
        BY <2>3, <3>1, VarsKept
    <2>4. CASE /\ Answers(w, Grants("live", u, tx[w].perms))
               /\ cache' = [cache EXCEPT ![u] = IF Lives(w) = 0 THEN NoEntry
                                                ELSE [perms |-> tx[w].perms, left |-> Lives(w)]]
               /\ UNCHANGED <<roles, plan, logins, devices, planKnown>>
      <3>1. Lives(w) \in 0..PermTTL /\ p.perms \subseteq Perms
        BY <1>0, <1>1, AccessAssumption DEF Plan, Lives
      <3>2. [perms |-> p.perms, left |-> Lives(w)] \in Entry
        BY <3>1 DEF Entry
      <3>3. CachesOK'
        BY <1>0, <2>4, <3>2, NoCache DEF CachesOK
      <3>. QED
        BY <2>3, <2>4, <3>3
    <2>5. CASE /\ Answers(w, Grants("token", u, jwt[u].perms))
               /\ UNCHANGED <<roles, plan, logins, devices, caches>>
      BY <2>3, <2>5, VarsKept
    <2>. QED
      BY <1>4, <2>1, <2>2, <2>4, <2>5 DEF Check
  <1>. QED
    BY <1>2, <1>3, <1>4

LEMMA SignedTyped ==
  ASSUME LoginsOK, NEW w \in Workers, tx[w] \in Plan
  PROVE  Signed(w) \in [Users -> JwtRow]
  <1> DEFINE row == [perms |-> tx[w].perms, plan |-> tx[w].plan, left |-> JwtLife]
  <1>1. row \in JwtRow
    BY AccessAssumption DEF Plan, JwtRow
  <1> HIDE DEF row
  <1>2. Signed(w) = [jwt EXCEPT ![tx[w].user] = row]
    BY DEF Signed, row
  <1>. QED
    BY <1>1, <1>2 DEF LoginsOK

LEMMA IssuedTyped ==
  ASSUME LoginsOK, NEW t \in Tokens, NEW u \in Users
  PROVE  /\ Issued(t, u) \in [Tokens -> TokenRow]
         /\ \A s \in Tokens : Issued(t, u)[s].life = "live" => Issued(t, u)[s].user \in Users
  <1> DEFINE row == [user |-> u, left |-> RefreshLife, life |-> "live"]
  <1>1. row \in TokenRow /\ row.user = u
    BY AccessAssumption DEF TokenRow
  <1> HIDE DEF row
  <1>2. Issued(t, u) = [token EXCEPT ![t] = row]
    BY DEF Issued, row
  <1>. QED
    BY <1>1, <1>2 DEF LoginsOK

LEMMA RevokedTyped ==
  ASSUME LoginsOK, NEW t \in Tokens
  PROVE  /\ [token[t] EXCEPT !.life = "revoked"] \in TokenRow
         /\ [token[t] EXCEPT !.life = "revoked"].life = "revoked"
  <1>1. PICK r \in TokenRow : r = token[t]
    BY DEF LoginsOK
  <1> DEFINE q == [r EXCEPT !.life = "revoked"]
  <1>2. q \in TokenRow
    BY <1>1 DEF TokenRow
  <1>3. q.life = "revoked"
    BY <1>1 DEF TokenRow
  <1>. QED
    BY <1>1, <1>2, <1>3

LEMMA LoginsTyped ==
  ASSUME Typed, NEW w \in Workers,
         \/ \E u \in Users, t \in Tokens : Login(w, u, t)
         \/ \E t \in Tokens : Revoke(w, t) \/ \E new \in Tokens : Refresh(w, t, new)
  PROVE  Typed'
  <1> USE DEF Typed
  <1>1. tx[w] \in Plan /\ RowsOK /\ RunOK /\ LoginsOK /\ Formed(tx[w], made)
    BY DEF RowsOK
  <1>2. ASSUME NEW u \in Users, NEW t \in Tokens, Login(w, u, t) PROVE Typed'
    <2> DEFINE p == [NoPlan EXCEPT !.op = "login", !.step = "plan", !.user = u]
    <2>1. CASE Begin(w, p)
      <3>1. p \in Plan /\ Formed(p, made)
        BY FreshRow DEF Plan, NoPlan, Ops, LoginOps, Steps, Formed
      <3> HIDE DEF p
      <3>. QED
        BY <1>1, <2>1, <3>1, Begins, VarsKept
    <2>2. CASE /\ Done(w) /\ jwt' = Signed(w) /\ token' = Issued(t, u) /\ given' = given \cup {t}
               /\ UNCHANGED <<login, roles, plan, devices, caches>>
      <3>1. RowsOK' /\ RunOK'
        BY <1>1, <2>2, Ends DEF roles
      <3>2. LoginsOK'
        BY <1>1, <2>2, SignedTyped, IssuedTyped DEF LoginsOK
      <3>. QED
        BY <2>2, <3>1, <3>2, VarsKept
    <2>. QED
      BY <1>2, <2>1, <2>2 DEF Login
  <1>3. ASSUME NEW t \in Tokens, NEW new \in Tokens, Refresh(w, t, new) PROVE Typed'
    <2> DEFINE p == [NoPlan EXCEPT !.op = "refresh", !.step = "login", !.user = token[t].user,
                                   !.tok = t]
    <2>1. CASE Active(t) /\ Begin(w, p)
      <3>1. token[t].user \in Users
        BY <1>1, <2>1 DEF Active, LoginsOK
      <3>2. p \in Plan /\ Formed(p, made)
        BY <3>1, FreshRow DEF Plan, NoPlan, Ops, LoginOps, Steps, Formed
      <3>3. Begin(w, p)
        BY <2>1
      <3> HIDE DEF p
      <3>. QED
        BY <1>1, <3>2, <3>3, Begins, VarsKept
    <2>2. ASSUME NEW s \in {"new", "revoke"}, NEW at \in Steps \ {"idle"}, At(w, "refresh", at), Go(w, s),
                 UNCHANGED <<roles, plan, logins, devices, caches>>
          PROVE  Typed'
      <3>1. RowsOK' /\ RunOK'
        BY <1>1, <2>2, StepsOn DEF Steps, roles, At
      <3>. QED
        BY <2>2, <3>1, VarsKept
    <2>3. CASE /\ At(w, "refresh", "new") /\ Goes(w, [tx[w] EXCEPT !.step = "check", !.next = new])
               /\ token' = Issued(new, tx[w].user)
               /\ UNCHANGED <<login, given, jwt, roles, plan, devices, caches>>
      <3> DEFINE q == [tx[w] EXCEPT !.step = "check", !.next = new]
      <3>1. q \in Plan /\ Formed(q, made) /\ tx[w].user \in Users
        BY <1>1, <2>3 DEF At, Plan, Steps, Formed
      <3>2. Goes(w, q)
        BY <2>3
      <3> HIDE DEF q
      <3>3. RowsOK' /\ RunOK'
        BY <1>1, <2>3, <3>1, <3>2, GoesOn DEF roles
      <3>4. LoginsOK'
        BY <1>1, <2>3, <3>1, IssuedTyped DEF LoginsOK
      <3>. QED
        BY <2>3, <3>3, <3>4, VarsKept
    <2>4. CASE /\ Done(w) /\ jwt' = Signed(w) /\ given' = given \cup {new}
               /\ UNCHANGED <<login, token, roles, plan, devices, caches>>
      <3>1. RowsOK' /\ RunOK'
        BY <1>1, <2>4, Ends DEF roles
      <3>2. LoginsOK'
        BY <1>1, <2>4, SignedTyped DEF LoginsOK
      <3>. QED
        BY <2>4, <3>1, <3>2, VarsKept
    <2>. QED
      BY <1>3, <2>1, <2>2, <2>3, <2>4 DEF Refresh, Steps
  <1>4. ASSUME NEW t \in Tokens, Revoke(w, t) PROVE Typed'
    <2> DEFINE p == [NoPlan EXCEPT !.op = "logout", !.step = "revoke", !.tok = t]
    <2>1. CASE Begin(w, p)
      <3>1. p \in Plan /\ Formed(p, made)
        BY FreshRow DEF Plan, NoPlan, Ops, LoginOps, Steps, Formed
      <3> HIDE DEF p
      <3>. QED
        BY <1>1, <2>1, <3>1, Begins, VarsKept
    <2>2. CASE /\ tx[w].step = "revoke"
               /\ IF tx[w].op = "refresh" THEN Go(w, "plan") ELSE Done(w)
               /\ token' = [token EXCEPT ![t].life = "revoked"]
               /\ UNCHANGED <<login, given, jwt, roles, plan, devices, caches>>
      <3>1. RowsOK' /\ RunOK'
        BY <1>1, <2>2, StepsOn, Ends DEF Steps, roles
      <3> DEFINE row == [token[t] EXCEPT !.life = "revoked"]
      <3>2. row \in TokenRow /\ row.life = "revoked"
        BY <1>1, RevokedTyped
      <3> HIDE DEF row
      <3>. QED
        <4>1. token' = [token EXCEPT ![t] = row]
          BY <2>2 DEF row
        <4>2. LoginsOK'
          BY <1>1, <2>2, <3>2, <4>1 DEF LoginsOK
        <4>. QED
          BY <2>2, <3>1, <4>2, VarsKept
    <2>. QED
      BY <1>4, <2>1, <2>2 DEF Revoke
  <1>. QED
    BY <1>2, <1>3, <1>4

LEMMA DeletionTyped ==
  ASSUME Typed, NEW w \in Workers, NEW u \in Users, DeleteLogin(w, u)
  PROVE  Typed'
  <1> USE DEF Typed
  <1>1. tx[w] \in Plan /\ RowsOK /\ RunOK /\ LoginsOK /\ Formed(tx[w], made)
    BY DEF RowsOK
  <1> DEFINE p == [NoPlan EXCEPT !.op = "deleteLogin", !.step = "mark", !.user = u]
  <1>2. CASE Begin(w, p)
    <2>1. p \in Plan /\ Formed(p, made)
      BY FreshRow DEF Plan, NoPlan, Ops, LoginOps, Steps, Formed
    <2> HIDE DEF p
    <2>. QED
      BY <1>1, <1>2, <2>1, Begins, VarsKept
  <1> HIDE DEF p
  <1>3. CASE /\ At(w, "deleteLogin", "mark") /\ Go(w, "sessions")
             /\ login' = [login EXCEPT ![u] = "deleted"]
             /\ UNCHANGED <<token, given, jwt, roles, plan, devices, caches>>
    <2>1. RowsOK' /\ RunOK'
      BY <1>1, <1>3, StepsOn DEF At, Steps, roles, RoleOps
    <2>2. LoginsOK'
      BY <1>1, <1>3 DEF LoginsOK
    <2>. QED
      BY <1>3, <2>1, <2>2, VarsKept
  <1>4. CASE /\ At(w, "deleteLogin", "sessions") /\ Go(w, "tenant")
             /\ token' = [t \in Tokens |-> IF token[t].user = u /\ token[t].life = "live"
                                           THEN [token[t] EXCEPT !.life = "revoked"] ELSE token[t]]
             /\ UNCHANGED <<login, given, jwt, roles, plan, devices, caches>>
    <2>1. RowsOK' /\ RunOK'
      BY <1>1, <1>4, StepsOn DEF At, Steps, roles, RoleOps
    <2>2. LoginsOK'
      BY <1>1, <1>4, RevokedTyped DEF LoginsOK
    <2>. QED
      BY <1>4, <2>1, <2>2, VarsKept
  <1>5. CASE Done(w) /\ UNCHANGED <<roles, plan, logins, devices, caches>>
    <2>1. RowsOK' /\ RunOK'
      BY <1>1, <1>5, Ends DEF roles
    <2>. QED
      BY <1>5, <2>1, VarsKept
  <1>6. CASE /\ login' = [login EXCEPT ![u] = "live"]
             /\ tx' = [v \in Workers |-> IF v = w THEN NoPlan
                                         ELSE [tx[v] EXCEPT !.dead = @ /\ tx[v].user # u]]
             /\ UNCHANGED <<mix, begun, raced, cut, token, given, jwt, roles, plan, devices, caches>>
    <2>1. ASSUME NEW v \in Workers PROVE tx'[v] \in Plan /\ Formed(tx'[v], made)
      <3>1. CASE v = w
        BY <1>6, <3>1, FreshRow DEF Formed, NoPlan
      <3>2. CASE v # w
        <4> DEFINE b == tx[v].dead /\ tx[v].user # u
                   q == [tx[v] EXCEPT !.dead = b]
        <4>1. b \in BOOLEAN
          BY Zenon
        <4>2. tx[v] \in Plan /\ Formed(tx[v], made)
          BY <1>1 DEF RowsOK
        <4>3. tx'[v] = q
          BY <1>6, <3>2
        <4> HIDE DEF b
        <4>4. q \in Plan /\ Formed(q, made)
          BY <4>1, <4>2 DEF Plan, Formed
        <4>. QED
          BY <4>3, <4>4
      <3>. QED
        BY <3>1, <3>2
    <2>2. RowsOK' /\ RunOK'
      BY <1>1, <1>6, <2>1 DEF RowsOK, RunOK, roles
    <2>3. LoginsOK'
      BY <1>1, <1>6 DEF LoginsOK
    <2>. QED
      BY <1>6, <2>2, <2>3, VarsKept
  <1>. QED
    BY <1>2, <1>3, <1>4, <1>5, <1>6, Zenon DEF DeleteLogin, p

LEMMA PlanTyped ==
  ASSUME Typed, NEW w \in Workers,
         CheckPlan(w) \/ \E to \in Plans : ChangePlan(w, to)
  PROVE  Typed'
  <1> USE DEF Typed
  <1>1. tx[w] \in Plan /\ RowsOK /\ RunOK /\ Formed(tx[w], made)
    BY DEF RowsOK
  <1>2. ASSUME NEW to \in Plans, ChangePlan(w, to) PROVE Typed'
    <2> DEFINE p == [NoPlan EXCEPT !.op = "changePlan", !.step = "write", !.plan = to]
    <2>1. CASE Begin(w, p)
      <3>1. p \in Plan /\ Formed(p, made)
        BY FreshRow DEF Plan, NoPlan, Ops, PlanOps, Steps, Formed
      <3> HIDE DEF p
      <3>. QED
        BY <1>1, <2>1, <3>1, Begins, VarsKept
    <2>2. CASE /\ At(w, "changePlan", "write") /\ Go(w, "forget") /\ plan' = to
               /\ UNCHANGED <<roles, logins, devices, caches>>
      <3>1. RowsOK' /\ RunOK'
        BY <1>1, <2>2, StepsOn DEF At, Steps, roles, RoleOps
      <3>. QED
        BY <2>2, <3>1, VarsKept DEF CachesOK, caches
    <2>3. CASE /\ Done(w) /\ planKnown' = PlanForgotten
               /\ UNCHANGED <<roles, plan, logins, devices, cache>>
      <3>1. RowsOK' /\ RunOK'
        BY <1>1, <2>3, Ends DEF roles
      <3>2. planKnown' \in PlanRow
        BY <2>3, NoCache, Zenon DEF PlanForgotten
      <3>. QED
        BY <2>3, <3>1, <3>2, VarsKept DEF CachesOK
    <2>. QED
      BY <1>2, <2>1, <2>2, <2>3 DEF ChangePlan
  <1>3. CASE CheckPlan(w)
    <2> DEFINE p == [NoPlan EXCEPT !.op = "checkPlan", !.step = "plan"]
    <2>1. CASE /\ Hits(w, "checkPlan", Pro(planKnown.pro))
               /\ UNCHANGED <<roles, plan, logins, devices, caches>>
      <3>1. RowsOK' /\ RunOK'
        BY <1>1, <2>1, Hit DEF roles
      <3>. QED
        BY <2>1, <3>1, VarsKept
    <2>2. CASE Begin(w, p)
      <3>1. p \in Plan /\ Formed(p, made)
        BY FreshRow DEF Plan, NoPlan, Ops, PlanOps, Steps, Formed
      <3> HIDE DEF p
      <3>. QED
        BY <1>1, <2>2, <3>1, Begins, VarsKept
    <2>3. CASE /\ At(w, "checkPlan", "plan") /\ Goes(w, [tx[w] EXCEPT !.step = "store", !.plan = plan])
               /\ UNCHANGED <<roles, plan, logins, devices, caches>>
      <3> DEFINE q == [tx[w] EXCEPT !.step = "store", !.plan = plan]
      <3>1. q \in Plan /\ Formed(q, made)
        BY <1>1, <2>3 DEF At, Plan, Steps, Formed, CachesOK
      <3>2. Goes(w, q)
        BY <2>3
      <3> HIDE DEF q
      <3>3. RowsOK' /\ RunOK'
        BY <1>1, <2>3, <3>1, <3>2, GoesOn DEF roles
      <3>. QED
        BY <2>3, <3>3, VarsKept
    <2>4. CASE /\ Answers(w, Pro(tx[w].plan = "Pro"))
               /\ planKnown' = [pro |-> tx[w].plan = "Pro", left |-> PlanTTL]
               /\ UNCHANGED <<roles, plan, logins, devices, cache>>
      <3>1. RowsOK' /\ RunOK'
        BY <1>1, <2>4, FreshRow, RowsSet DEF Answers, RunOK, NoPlan, Formed, roles
      <3> DEFINE b == tx[w].plan = "Pro"
      <3>2. b \in BOOLEAN /\ planKnown' = [pro |-> b, left |-> PlanTTL]
        BY <2>4
      <3> HIDE DEF b
      <3>3. planKnown' \in PlanRow
        BY <3>2, AccessAssumption DEF PlanRow
      <3>. QED
        BY <2>4, <3>1, <3>3, VarsKept DEF CachesOK
    <2>. QED
      BY <1>3, <2>1, <2>2, <2>3, <2>4 DEF CheckPlan
  <1>. QED
    BY <1>2, <1>3

\* What a registration makes of the row of a device, and of its claim.
Claimed(r, o) == [r EXCEPT !.known = "print", !.active = TRUE, !.owner = o]

LEMMA ClaimedRow ==
  ASSUME NEW r \in DeviceRow, NEW o \in Users \cup {None}
  PROVE  /\ Claimed(r, o) \in DeviceRow /\ Claimed(r, o).known = "print"
         /\ Claimed(r, o).active = TRUE /\ Claimed(r, o).allocated = r.allocated
         /\ Claimed(r, o).owner = o
  <1>1. Claimed(r, o) = [known |-> "print", owner |-> o, active |-> TRUE, allocated |-> r.allocated]
    <2>1. Claimed(r, o) = [r EXCEPT !.known = "print", !.active = TRUE, !.owner = o]
      BY DEF Claimed
    <2>. QED
      BY <2>1 DEF DeviceRow
  <1>2. r.allocated \in BOOLEAN
    BY DEF DeviceRow
  <1>3. [known |-> "print", owner |-> o, active |-> TRUE, allocated |-> r.allocated] \in DeviceRow
    BY <1>2 DEF DeviceRow
  <1>4. Claimed(r, o) \in DeviceRow
    BY <1>1, <1>3, Zenon
  <1>5. Claimed(r, o).known = "print" /\ Claimed(r, o).owner = o
    BY <1>1
  <1>6. Claimed(r, o).active = TRUE
    BY <1>1
  <1>7. Claimed(r, o).allocated = r.allocated
    BY <1>1
  <1>. QED
    BY <1>4, <1>5, <1>6, <1>7, Zenon

LEMMA AllocatedRow ==
  ASSUME NEW r \in DeviceRow, NEW b \in BOOLEAN
  PROVE  /\ [r EXCEPT !.allocated = b] \in DeviceRow /\ [r EXCEPT !.allocated = b].known = r.known
         /\ [r EXCEPT !.allocated = b].owner = r.owner /\ [r EXCEPT !.allocated = b].active = r.active
         /\ [r EXCEPT !.allocated = b].allocated = b
  BY DEF DeviceRow

LEMMA ActiveRow ==
  ASSUME NEW r \in DeviceRow, NEW b \in BOOLEAN
  PROVE  /\ [r EXCEPT !.active = b] \in DeviceRow /\ [r EXCEPT !.active = b].known = r.known
         /\ [r EXCEPT !.active = b].owner = r.owner /\ [r EXCEPT !.active = b].active = b
         /\ [r EXCEPT !.active = b].allocated = r.allocated
  BY DEF DeviceRow

(* The lowest free number exists: the devices are too few to take them all. *)
LEMMA LowestFreeIs ==
  ASSUME site \in [Phones -> Nat]
  PROVE  /\ LowestFree \in 1..(Cardinality(Phones) + 1)
         /\ \A d \in Phones : site[d] # LowestFree
         /\ LowestFree > Cardinality(Phones) => \A d \in Phones : site[d] # 0
  <1> DEFINE c == Cardinality(Phones)
             Numbers == {site[d] : d \in Phones}
             T == {n \in 1..(c + 1) : \A d \in Phones : site[d] # n}
             IsLowest(n) == /\ \A d \in Phones : site[d] # n
                            /\ \A m \in 1..(n - 1) : \E d \in Phones : site[d] = m
  <1>1. IsFiniteSet(Phones) /\ c \in Nat
    BY AccessAssumption, FS_CardinalityType
  <1>2. site \in Surjection(Phones, Numbers)
    BY DEF Surjection
  <1>3. IsFiniteSet(Numbers) /\ Cardinality(Numbers) <= c /\ Cardinality(Numbers) \in Nat
    BY <1>1, <1>2, FS_Surjection, FS_CardinalityType
  <1> HIDE DEF c
  <1>4. ASSUME NEW a \in {0, 1}, a..(a + c) \subseteq Numbers PROVE FALSE
    <2> DEFINE I == a..(a + c)
    <2>1. Cardinality(I) <= Cardinality(Numbers)
      <3>1. I \in SUBSET Numbers
        BY <1>4
      <3> HIDE DEF I, Numbers
      <3>. QED
        BY <1>3, <3>1, FS_Subset
    <2>2. Cardinality(I) = c + 1
      <3>1. a \in Int /\ a + c \in Int /\ ~(a > a + c) /\ (a + c) - a + 1 = c + 1
        BY <1>1
      <3>2. Cardinality(I) = IF a > a + c THEN 0 ELSE (a + c) - a + 1
        BY <3>1, FS_Interval
      <3>. QED
        BY <3>1, <3>2
    <2> HIDE DEF I, Numbers
    <2>. QED
      BY <1>1, <1>3, <2>1, <2>2
  <1>5. T # {}
    <2>1. SUFFICES ASSUME T = {} PROVE FALSE
      OBVIOUS
    <2>2. ASSUME NEW n \in 1..(1 + c) PROVE \E d \in Phones : site[d] = n
      <3>1. n \in 1..(c + 1)
        BY <1>1
      <3>2. n \notin T
        BY <2>1, Zenon
      <3>. QED
        BY <3>1, <3>2
    <2>3. 1..(1 + c) \subseteq Numbers
      BY <2>2
    <2>. QED
      BY <1>4, <2>3
  <1>6. PICK n \in T : \A m \in T : n <= m
    <2>1. T \subseteq Nat
      BY <1>1
    <2> HIDE DEF T
    <2>. QED
      BY <1>5, <2>1, LeastNat
  <1>7. n \in 1..(c + 1) /\ IsLowest(n)
    BY <1>1, <1>6
  <1>8. LowestFree \in 1..(c + 1) /\ IsLowest(LowestFree)
    BY <1>7 DEF LowestFree, c
  <1>9. ASSUME LowestFree > c, NEW d \in Phones, site[d] = 0 PROVE FALSE
    <2>1. \A m \in 1..c : m \in Numbers
      BY <1>1, <1>8, <1>9
    <2>2. 0..(0 + c) \subseteq Numbers
      BY <1>1, <1>9, <2>1
    <2>. QED
      BY <1>4, <2>2
  <1>. QED
    BY <1>8, <1>9 DEF c

LEMMA DeviceRows ==
  ASSUME NEW op \in DeviceOps, NEW s \in {"claim", "silence", "free"}, NEW u \in Users,
         NEW d \in Phones, NEW r \in DeviceRow, NEW R, s = "silence" => op = "removeDevice"
  PROVE  LET p == [NoPlan EXCEPT !.op = op, !.step = s, !.user = u, !.phone = d, !.seen = r]
         IN  p \in Plan /\ Formed(p, R)
  <1> DEFINE p == [NoPlan EXCEPT !.op = op, !.step = s, !.user = u, !.phone = d, !.seen = r]
  <1>1. op \in Ops /\ s \in Steps
    BY DEF DeviceOps, Ops, Steps
  <1>2. p \in Plan
    BY <1>1, FreshRow DEF Plan
  <1>3. p.step = s /\ p.op = op
    BY DEF NoPlan
  <1> HIDE DEF p
  <1>4. Formed(p, R)
    BY <1>3 DEF Formed, DeviceOps
  <1>. QED
    BY <1>2, <1>4 DEF p

LEMMA DevicesTyped ==
  ASSUME Typed, NEW w \in Workers, NEW d \in Phones,
         \/ \E u \in Users : \/ Register(w, u, d)
                            \/ Release(w, "unregister", u, d)
                            \/ Release(w, "removeDevice", u, d)
                            \/ \E O \in SUBSET Outlets \ {{}} : Listen(w, u, d, O)
         \/ Terminal(w, d)
  PROVE  Typed'
  <1> USE DEF Typed
  <1>1. tx[w] \in Plan /\ RowsOK /\ RunOK /\ Formed(tx[w], made) /\ device[d] \in DeviceRow
    BY DEF RowsOK, DevicesOK
  <1>2. \A u \in Users : Personal(u) \subseteq Topics
    BY DEF Personal, Topics
  <1>3. \A u \in Users : \A r \in held[u] : carries[r] \subseteq Perms /\ r \in Roles
    BY DEF RolesOK
  <1>4. ASSUME NEW u \in Users, Hears(d, u) PROVE push' \in [Phones -> [topics: SUBSET Topics, of: SUBSET Users]]
    <2> DEFINE T == Personal(u) \cup ({"perm"} \X UNION {carries[r] : r \in held[u]})
    <2>1. T \subseteq Topics
      BY <1>2, <1>3 DEF Topics
    <2> HIDE DEF T
    <2>2. push' = [push EXCEPT ![d] = [topics |-> @.topics \cup T, of |-> @.of \cup {u}]]
      BY <1>4 DEF Hears, T
    <2>. QED
      BY <2>1, <2>2 DEF DevicesOK
  <1>5. ASSUME NEW u \in Users, NEW O \in SUBSET Outlets PROVE TopicsAt(u, O) \subseteq Topics
    <2>1. Granted(held[u]) \subseteq Perms
      BY <1>3 DEF Granted
    <2>. QED
      BY <1>2, <2>1 DEF TopicsAt, Topics
  <1>6. ASSUME NEW s \in {"free", "shut", "allocate", "pick"}, tx[w].step # "idle", Go(w, s),
               UNCHANGED <<roles, plan, logins, caches>>, DevicesOK'
        PROVE  Typed'
    <2>1. RowsOK' /\ RunOK'
      BY <1>1, <1>6, StepsOn DEF Steps, roles
    <2>. QED
      BY <1>6, <2>1, VarsKept
  <1>7. ASSUME Done(w), UNCHANGED <<roles, plan, logins, caches>>, DevicesOK' PROVE Typed'
    <2>1. RowsOK' /\ RunOK'
      BY <1>1, <1>7, Ends DEF roles
    <2>. QED
      BY <1>7, <2>1, VarsKept
  <1>8. ASSUME NEW u \in Users, Register(w, u, d) PROVE Typed'
    <2> DEFINE p == [NoPlan EXCEPT !.op = "register", !.step = "claim", !.user = u, !.phone = d,
                                   !.seen = device[d]]
    <2>1. CASE Begin(w, p)
      <3>1. p \in Plan /\ Formed(p, made)
        BY <1>1, DeviceRows DEF DeviceOps, Steps
      <3> HIDE DEF p
      <3>. QED
        BY <1>1, <2>1, <3>1, Begins, VarsKept
    <2> HIDE DEF p
    <2>2. CASE /\ At(w, "register", "claim")
               /\ device' = [device EXCEPT ![d].known = "print", ![d].active = TRUE,
                        ![d].owner = IF tx[w].seen.known = "token" THEN @ ELSE u]
               /\ IF Takes(tx[w].seen) THEN Go(w, "allocate") /\ UNCHANGED push
                  ELSE Done(w) /\ Hears(d, u)
               /\ UNCHANGED <<site, told, roles, plan, logins, caches>>
      <3> DEFINE o == IF tx[w].seen.known = "token" THEN device[d].owner ELSE u
      <3>a. o \in Users \cup {None}
        BY <1>1 DEF DeviceRow
      <3>1. device' = [device EXCEPT ![d] = Claimed(device[d], o)]
        BY <2>2, Zenon DEF Claimed
      <3> HIDE DEF o
      <3>2. device' \in [Phones -> DeviceRow]
        BY <1>1, <3>a, <3>1, ClaimedRow DEF DevicesOK
      <3>3. DevicesOK'
        BY <1>4, <2>2, <3>2 DEF DevicesOK
      <3>. QED
        BY <1>6, <1>7, <2>2, <3>3 DEF At
    <2>3. CASE /\ Done(w) /\ Hears(d, u) /\ device' = [device EXCEPT ![d].allocated = TRUE]
               /\ UNCHANGED <<site, told, roles, plan, logins, caches>>
      <3>1. device' \in [Phones -> DeviceRow]
        BY <1>1, <2>3, AllocatedRow DEF DevicesOK
      <3>2. DevicesOK'
        BY <1>4, <2>3, <3>1 DEF DevicesOK
      <3>. QED
        BY <1>7, <2>3, <3>2
    <2>. QED
      BY <1>8, <2>1, <2>2, <2>3, Zenon DEF Register, p
  <1>9. ASSUME NEW op \in {"unregister", "removeDevice"}, NEW u \in Users, Release(w, op, u, d)
        PROVE  Typed'
    <2> DEFINE first == IF op = "removeDevice" THEN "silence" ELSE "free"
               p == [NoPlan EXCEPT !.op = op, !.user = u, !.phone = d, !.seen = device[d],
                        !.step = first]
    <2>1. CASE Begin(w, p)
      <3>1. p = [NoPlan EXCEPT !.op = op, !.step = first, !.user = u, !.phone = d, !.seen = device[d]]
        BY DEF NoPlan
      <3>2. op \in DeviceOps /\ first \in {"claim", "silence", "free"}
        BY DEF DeviceOps
      <3>a. first = "silence" => op = "removeDevice"
        OBVIOUS
      <3> HIDE DEF p, first
      <3>3. p \in Plan /\ Formed(p, made)
        BY <1>1, <3>1, <3>2, <3>a, DeviceRows
      <3>. QED
        BY <1>1, <2>1, <3>3, Begins, VarsKept
    <2> HIDE DEF p
    <2>2. CASE /\ At(w, op, "silence") /\ Unsubscribes(w, d)
               /\ UNCHANGED <<device, site, told, roles, plan, logins, caches>>
      <3>1. PICK q \in Plan :
                /\ Goes(w, q) /\ q.step = "free" /\ q.op = tx[w].op
                /\ \E gone : push' = [push EXCEPT ![d].topics = @ \ gone]
        BY <1>1, <2>2, Unsubscribed DEF Unsubscribing
      <3>2. DevicesOK'
        BY <2>2, <3>1 DEF DevicesOK
      <3>3. Formed(q, made')
        BY <2>2, <3>1 DEF Formed, At, RoleOps
      <3>4. RowsOK' /\ RunOK'
        BY <1>1, <2>2, <3>1, <3>3, GoesOn DEF roles
      <3>. QED
        BY <2>2, <3>2, <3>4, VarsKept
    <2>3. CASE /\ At(w, op, "free") /\ Go(w, "shut")
               /\ device' = [device EXCEPT ![d].allocated = FALSE]
               /\ UNCHANGED <<push, site, told, roles, plan, logins, caches>>
      <3>1. DevicesOK'
        BY <1>1, <2>3, AllocatedRow DEF DevicesOK
      <3>. QED
        BY <1>6, <2>3, <3>1 DEF At
    <2>4. CASE /\ Done(w) /\ device' = [device EXCEPT ![d].active = FALSE]
               /\ UNCHANGED <<push, site, told, roles, plan, logins, caches>>
      <3>1. DevicesOK'
        BY <1>1, <2>4, ActiveRow DEF DevicesOK
      <3>. QED
        BY <1>7, <2>4, <3>1
    <2>. QED
      BY <1>9, <2>1, <2>2, <2>3, <2>4, Zenon DEF Release, p
  <1>10. ASSUME NEW u \in Users, NEW O \in SUBSET Outlets, Listen(w, u, d, O) PROVE Typed'
    <2>1. RowsOK' /\ RunOK' /\ UNCHANGED <<device, site, told, roles, plan, logins, caches>>
      BY <1>1, <1>10, AccessAssumption DEF Listen, Overlaps, RunOK, RowsOK, roles
    <2> DEFINE T == IF plan = "Pro" /\ (HasOne(u) \/ O = Outlets) THEN TopicsAt(u, O) ELSE {}
    <2>2. T \subseteq Topics
      BY <1>5
    <2>3. push' = [push EXCEPT ![d] = [topics |-> T, of |-> {u}]]
      BY <1>10 DEF Listen
    <2> HIDE DEF T
    <2>4. DevicesOK'
      BY <2>1, <2>2, <2>3 DEF DevicesOK
    <2>. QED
      BY <2>1, <2>4, VarsKept
  <1>11. CASE Terminal(w, d)
    <2> DEFINE p == [NoPlan EXCEPT !.op = "terminal", !.step = "pick", !.phone = d]
               q == [tx[w] EXCEPT !.step = "take", !.n = LowestFree]
    <2>1. CASE /\ Hits(w, "terminal", Silent) /\ Tells(d, site[d])
               /\ UNCHANGED <<device, push, site, roles, plan, logins, caches>>
      <3>1. RowsOK' /\ RunOK'
        BY <1>1, <2>1, Hit DEF roles
      <3>2. DevicesOK'
        BY <2>1 DEF DevicesOK, Tells
      <3>. QED
        BY <2>1, <3>1, <3>2, VarsKept
    <2>2. CASE Begin(w, p)
      <3>a. p \in Plan
        BY <1>1, FreshRow DEF Plan, NoPlan, Ops, DeviceOps, Steps
      <3>1. p \in Plan /\ Formed(p, made)
        BY <3>a DEF NoPlan, Formed
      <3> HIDE DEF p
      <3>. QED
        BY <1>1, <2>2, <3>1, Begins, VarsKept
    <2>3. CASE At(w, "terminal", "pick") /\ Goes(w, q) /\ UNCHANGED <<roles, plan, logins, devices, caches>>
      <3>1. LowestFree \in Nat /\ "take" \in Steps
        <4>1. Cardinality(Phones) \in Nat
          BY AccessAssumption, FS_CardinalityType
        <4>. QED
          BY <4>1, LowestFreeIs DEF DevicesOK, Steps
      <3>a. q \in Plan
        BY <1>1, <3>1 DEF Plan
      <3>b. tx[w].op = "terminal" /\ q.op = tx[w].op /\ q.step = "take"
        BY <1>1, <2>3 DEF At, Plan
      <3>2. q \in Plan /\ Formed(q, made)
        BY <3>a, <3>b DEF Formed
      <3> HIDE DEF q
      <3>3. RowsOK' /\ RunOK'
        BY <1>1, <2>3, <3>2, GoesOn DEF roles
      <3>. QED
        BY <2>3, <3>3, VarsKept
    <2> HIDE DEF p, q
    <2>4. ASSUME NEW n \in Nat, Tells(d, n), Done(w), site' \in [Phones -> Nat],
                 UNCHANGED <<device, push, roles, plan, logins, caches>>
          PROVE  Typed'
      <3>1. DevicesOK'
        BY <2>4 DEF DevicesOK, Tells
      <3>. QED
        BY <1>7, <2>4, <3>1
    <2>5. CASE /\ At(w, "terminal", "take") /\ Go(w, "pick")
               /\ UNCHANGED <<site, told, device, push, roles, plan, logins, caches>>
      <3>1. DevicesOK'
        BY <2>5 DEF DevicesOK
      <3>. QED
        BY <1>6, <2>5, <3>1 DEF At
    <2>6. tx[w].n \in Nat /\ site[d] \in Nat /\ site \in [Phones -> Nat]
      BY <1>1 DEF Plan, DevicesOK
    <2>. QED
      BY <1>11, <2>1, <2>2, <2>3, <2>4, <2>5, <2>6 DEF Terminal, p, q
  <1>. QED
    BY <1>8, <1>9, <1>10, <1>11

LEMMA CutTyped == ASSUME Typed, NEW w \in Workers, Cut(w) PROVE Typed'
  <1>1. RowsOK' /\ RunOK'
    BY FreshRow, RowsSet DEF Typed, Cut, RunOK, NoPlan, Formed, roles
  <1>. QED
    BY <1>1, VarsKept DEF Typed, Cut

LEMMA TypedStep == Typed /\ [Next]_vars => Typed'
  <1>1. ASSUME Typed, UNCHANGED vars PROVE Typed'
    <2>1. RowsOK' /\ RunOK'
      BY <1>1, RowsKept DEF Typed, vars, RunOK, roles
    <2>. QED
      BY <1>1, <2>1, VarsKept DEF Typed, vars
  <1>2. ASSUME Typed, NEW w \in Workers, Request(w) PROVE Typed'
    BY <1>2, RolesTyped, GrantsTyped, LoginsTyped, DeletionTyped, PlanTyped, DevicesTyped, CutTyped
       DEF Request
  <1>. QED
    BY <1>1, <1>2, TypedTick DEF Next

----------------------------------------------------------------------------
(* The kinds of requests, and what those of a kind leave alone: the other  *)
(* requests, but for what is remembered of them, and the state of the other*)
(* kinds.                                                                  *)

RoleRequest(w) ==
    \/ \E r \in Roles, P \in SUBSET Perms : CreateRole(w, r, P) \/ UpdateRole(w, r, P)
    \/ \E op \in {"assign", "unassign", "setRoles"}, u \in Users, R \in SUBSET Roles :
            ChangeRoles(w, op, u, R)
    \/ Grant(w) \/ Flush(w)
CheckRequest(w) ==
    (\E u \in Users : Check(w, u)) \/ (tx[w].op = "check" /\ Resolve(w))
LoginRequest(w) ==
    \/ ReadPlan(w) \/ (tx[w].op # "check" /\ Resolve(w))
    \/ \E u \in Users : DeleteLogin(w, u) \/ \E t \in Tokens : Login(w, u, t)
    \/ \E t \in Tokens : Revoke(w, t) \/ \E new \in Tokens : Refresh(w, t, new)
PlanRequest(w) == CheckPlan(w) \/ \E to \in Plans : ChangePlan(w, to)
PushRequest(w) ==
    \E u \in Users, d \in Phones :
        \/ Register(w, u, d) \/ Release(w, "unregister", u, d) \/ Release(w, "removeDevice", u, d)
        \/ \E O \in SUBSET Outlets \ {{}} : Listen(w, u, d, O)
TerminalRequest(w) == \E d \in Phones : Terminal(w, d)

LEMMA Requests ==
  ASSUME NEW w \in Workers, Request(w)
  PROVE  \/ RoleRequest(w) \/ CheckRequest(w) \/ LoginRequest(w) \/ PlanRequest(w)
         \/ PushRequest(w) \/ TerminalRequest(w) \/ Cut(w)
  BY DEF Request, RoleRequest, CheckRequest, LoginRequest, PlanRequest, PushRequest, TerminalRequest

PushOps == DeviceOps \ {"terminal"}

Same(p, q) == /\ q.op = p.op /\ q.step = p.step /\ q.user = p.user /\ q.roles = p.roles
              /\ q.perms = p.perms /\ q.plan = p.plan /\ q.phone = p.phone /\ q.seen = p.seen
              /\ q.n = p.n /\ q.age = p.age /\ (q.dead = p.dead \/ q.dead = FALSE)

Others(w) == \A v \in Workers \ {w} : Same(tx[v], tx'[v])

\* A step of a request of one of these operations.
Frame(w, ops) ==
    /\ Others(w)
    /\ tx[w].step = "idle" \/ tx[w].op \in ops
    /\ tx'[w].step = "idle" \/ tx'[w].op \in ops
    /\ cut' = cut
    /\ IF tx[w].step = "idle" THEN Overlaps(w) ELSE raced' = raced

LEMMA BeginFrame ==
  ASSUME RowsOK, NEW w \in Workers, NEW p \in Plan, NEW ops, p.op \in ops, Begin(w, p)
  PROVE  Frame(w, ops) /\ answer' = Silent /\ tx'[w].step = p.step
  <1> DEFINE b == p.user \in Users /\ login[p.user] = "deleted"
             q == [p EXCEPT !.dead = b]
  <1>1. tx' = [tx EXCEPT ![w] = q]
    BY DEF Begin
  <1>2. q.op = p.op /\ q.step = p.step
    BY DEF Plan
  <1> HIDE DEF q
  <1>3. Others(w) /\ tx'[w] = q
    BY <1>1 DEF RowsOK, Others, Same
  <1>. QED
    BY <1>2, <1>3 DEF Begin, Frame

LEMMA GoesFrame ==
  ASSUME RowsOK, NEW w \in Workers, NEW p, NEW ops, Goes(w, p), tx[w].step # "idle",
         tx[w].op \in ops, p.op \in ops \/ p.step = "idle"
  PROVE  Frame(w, ops) /\ answer' = Silent
  BY DEF RowsOK, Goes, Frame, Others, Same

LEMMA GoFrame ==
  ASSUME RowsOK, NEW w \in Workers, NEW s, NEW ops, Go(w, s), tx[w].step # "idle", tx[w].op \in ops
  PROVE  Frame(w, ops) /\ answer' = Silent
  <1> DEFINE q == [tx[w] EXCEPT !.step = s]
  <1>1. q.op = tx[w].op
    BY DEF RowsOK, Plan
  <1> HIDE DEF q
  <1>. QED
    BY <1>1, GoesFrame DEF Go, q

LEMMA DoneFrame ==
  ASSUME RowsOK, NEW w \in Workers, NEW ops, Done(w), tx[w].step # "idle", tx[w].op \in ops
  PROVE  Frame(w, ops) /\ answer' = Silent
  BY GoesFrame DEF Done, NoPlan

LEMMA AnswerFrame ==
  ASSUME RowsOK, NEW w \in Workers, NEW ops, NEW a, Answers(w, a), tx[w].step # "idle",
         tx[w].op \in ops
  PROVE  Frame(w, ops) /\ tx'[w] = NoPlan /\ answer' = a
  BY DEF RowsOK, Answers, Frame, Others, Same, NoPlan

LEMMA HitFrame ==
  ASSUME RowsOK, NEW w \in Workers, NEW op, NEW ops, NEW a, Hits(w, op, a)
  PROVE  Frame(w, ops) /\ tx' = tx /\ answer' = a
  BY DEF RowsOK, Hits, Frame, Others, Same

LEMMA RoleFrame ==
  ASSUME Typed, NEW w \in Workers, RoleRequest(w)
  PROVE  Frame(w, RoleOps) /\ answer' = Silent /\ UNCHANGED <<plan, planKnown, logins, devices>>
  <1>1. tx[w] \in Plan /\ RowsOK /\ Formed(tx[w], made)
    BY DEF Typed, RowsOK
  <1>2. ASSUME NEW r \in Roles, NEW P \in SUBSET Perms, CreateRole(w, r, P) \/ UpdateRole(w, r, P)
        PROVE  Frame(w, RoleOps) /\ answer' = Silent /\ UNCHANGED <<plan, planKnown, logins, devices>>
    <2>1. ASSUME NEW op \in {"createRole", "updateRole"}, NEW s \in {"make", "clear"},
                 Begin(w, [NoPlan EXCEPT !.op = op, !.step = s, !.role = r, !.perms = P])
          PROVE  Frame(w, RoleOps) /\ answer' = Silent /\ UNCHANGED <<plan, planKnown, logins, devices>>
      <3> DEFINE p == [NoPlan EXCEPT !.op = op, !.step = s, !.role = r, !.perms = P]
      <3>1. p \in Plan
        BY FreshRow DEF Plan, Ops, RoleOps, Steps
      <3>2. p.op \in RoleOps
        BY DEF NoPlan, RoleOps
      <3>3. Begin(w, p)
        BY <2>1
      <3> HIDE DEF p
      <3>4. Frame(w, RoleOps) /\ answer' = Silent
        BY <1>1, <3>1, <3>2, <3>3, BeginFrame
      <3>. QED
        BY <3>3, <3>4 DEF Begin, caches
    <2>2. ASSUME NEW op \in {"createRole", "updateRole"}, NEW s \in {"make", "clear"}, At(w, op, s),
                 Go(w, "grant"), UNCHANGED <<plan, logins, devices, caches>>
          PROVE  Frame(w, RoleOps) /\ answer' = Silent /\ UNCHANGED <<plan, planKnown, logins, devices>>
      BY <1>1, <2>2, GoFrame DEF At, RoleOps, caches
    <2>. QED
      BY <1>2, <2>1, <2>2 DEF CreateRole, UpdateRole
  <1>3. ASSUME NEW op \in {"assign", "unassign", "setRoles"}, NEW u \in Users, NEW R \in SUBSET Roles,
               ChangeRoles(w, op, u, R)
        PROVE  Frame(w, RoleOps) /\ answer' = Silent /\ UNCHANGED <<plan, planKnown, logins, devices>>
    <2> DEFINE p == [NoPlan EXCEPT !.op = op, !.step = "link", !.user = u, !.roles = R]
    <2>1. CASE Begin(w, p)
      <3>1. p \in Plan
        BY FreshRow DEF Plan, Ops, RoleOps, Steps
      <3>2. p.op \in RoleOps
        BY DEF NoPlan, RoleOps
      <3> HIDE DEF p
      <3>3. Frame(w, RoleOps) /\ answer' = Silent
        BY <1>1, <2>1, <3>1, <3>2, BeginFrame
      <3>. QED
        BY <2>1, <3>3 DEF Begin, caches
    <2>2. CASE At(w, op, "link") /\ Go(w, "flush") /\ UNCHANGED <<plan, logins, devices, caches>>
      BY <1>1, <2>2, GoFrame DEF At, RoleOps, caches
    <2>. QED
      BY <1>3, <2>1, <2>2 DEF ChangeRoles
  <1>4. CASE Grant(w)
    BY <1>1, <1>4, GoFrame DEF Grant, Formed, caches
  <1>5. CASE Flush(w)
    BY <1>1, <1>5, DoneFrame DEF Flush, Formed
  <1>. QED
    BY <1>2, <1>3, <1>4, <1>5 DEF RoleRequest

LEMMA CheckFrame ==
  ASSUME Typed, NEW w \in Workers, CheckRequest(w)
  PROVE  Frame(w, {"check"}) /\ UNCHANGED <<roles, plan, planKnown, logins, devices>>
  <1>1. tx[w] \in Plan /\ RowsOK
    BY DEF Typed, RowsOK
  <1>2. ASSUME NEW u \in Users, Check(w, u)
        PROVE  Frame(w, {"check"}) /\ UNCHANGED <<roles, plan, planKnown, logins, devices>>
    <2> DEFINE p == [NoPlan EXCEPT !.op = "check", !.step = "roles", !.user = u]
    <2>1. CASE Begin(w, p)
      <3>1. p \in Plan
        BY FreshRow DEF Plan, Ops, Steps
      <3>2. p.op \in {"check"}
        BY DEF NoPlan
      <3> HIDE DEF p
      <3>3. Frame(w, {"check"}) /\ answer' = Silent
        BY <1>1, <2>1, <3>1, <3>2, BeginFrame
      <3>. QED
        BY <2>1, <3>3 DEF Begin, caches
    <2>2. CASE /\ Hits(w, "check", Grants("cached", u, cache[u].perms))
               /\ UNCHANGED <<roles, plan, logins, devices, caches>>
      BY <1>1, <2>2, HitFrame DEF caches
    <2>3. ASSUME NEW a, Answers(w, a), tx[w].op = "check", tx[w].step # "idle",
                 UNCHANGED <<roles, plan, planKnown, logins, devices>>
          PROVE  Frame(w, {"check"}) /\ UNCHANGED <<roles, plan, planKnown, logins, devices>>
      BY <1>1, <2>3, AnswerFrame
    <2>. QED
      BY <1>2, <2>1, <2>2, <2>3 DEF Check, At, caches
  <1>3. CASE tx[w].op = "check" /\ Resolve(w)
    <2>1. PICK p : Goes(w, p) /\ p.op = "check" /\ tx[w].step # "idle"
                   /\ UNCHANGED <<roles, plan, logins, devices, caches>>
      BY <1>1, <1>3 DEF Resolve, Plan
    <2>2. Frame(w, {"check"})
      BY <1>1, <1>3, <2>1, GoesFrame
    <2>. QED
      BY <2>1, <2>2 DEF caches
  <1>. QED
    BY <1>2, <1>3 DEF CheckRequest

LEMMA LoginFrame ==
  ASSUME Typed, NEW w \in Workers, LoginRequest(w)
  PROVE  Frame(w, LoginOps) /\ answer' = Silent /\ UNCHANGED <<roles, plan, caches, devices>>
  <1>1. tx[w] \in Plan /\ RowsOK /\ Formed(tx[w], made)
    BY DEF Typed, RowsOK
  <1> DEFINE Framed == Frame(w, LoginOps) /\ answer' = Silent /\ UNCHANGED <<roles, plan, caches, devices>>
  <1>2. ASSUME NEW p \in Plan, p.op \in LoginOps, Begin(w, p) PROVE Framed
    BY <1>1, <1>2, BeginFrame DEF Begin
  <1>4. ASSUME NEW s, Go(w, s), tx[w].step # "idle", tx[w].op \in LoginOps,
               UNCHANGED <<roles, plan, caches, devices>>
        PROVE  Framed
    BY <1>1, <1>4, GoFrame
  <1>5. ASSUME Done(w), tx[w].step # "idle", tx[w].op \in LoginOps,
               UNCHANGED <<roles, plan, caches, devices>>
        PROVE  Framed
    BY <1>1, <1>5, DoneFrame
  <1> HIDE DEF Framed
  <1>6. CASE ReadPlan(w)
    <2> DEFINE p == [tx[w] EXCEPT !.step = "roles", !.plan = plan]
    <2>1. p.op = tx[w].op
      BY <1>1 DEF Plan
    <2>2. Goes(w, p) /\ tx[w].step # "idle" /\ tx[w].op \in LoginOps
          /\ UNCHANGED <<roles, plan, caches, devices>>
      BY <1>6 DEF ReadPlan
    <2> HIDE DEF p
    <2>3. Frame(w, LoginOps) /\ answer' = Silent
      BY <1>1, <2>1, <2>2, GoesFrame
    <2>. QED
      BY <2>2, <2>3 DEF Framed
  <1>7. CASE tx[w].op # "check" /\ Resolve(w)
    <2>1. PICK p : Goes(w, p) /\ p.op = tx[w].op /\ tx[w].step \in {"roles", "perms"}
                   /\ UNCHANGED <<roles, plan, logins, devices, caches>>
      BY <1>1, <1>7 DEF Resolve, Plan
    <2>2. tx[w].op \in LoginOps /\ tx[w].step # "idle"
      BY <1>1, <1>7, <2>1 DEF Formed, LoginOps
    <2>3. Frame(w, LoginOps) /\ answer' = Silent
      BY <1>1, <2>1, <2>2, GoesFrame
    <2>. QED
      BY <2>1, <2>3 DEF Framed
  <1>8. ASSUME NEW u \in Users, NEW t \in Tokens, Login(w, u, t) PROVE Framed
    <2> DEFINE p == [NoPlan EXCEPT !.op = "login", !.step = "plan", !.user = u]
    <2>1. p \in Plan /\ p.op \in LoginOps
      BY FreshRow DEF Plan, NoPlan, Ops, LoginOps, Steps
    <2> HIDE DEF p
    <2>2. CASE Begin(w, p)
      BY <1>2, <2>1, <2>2
    <2>. QED
      BY <1>5, <1>8, <2>2 DEF Login, At, LoginOps, p
  <1>9. ASSUME NEW t \in Tokens, Revoke(w, t) PROVE Framed
    <2> DEFINE p == [NoPlan EXCEPT !.op = "logout", !.step = "revoke", !.tok = t]
    <2>1. p \in Plan /\ p.op \in LoginOps
      BY FreshRow DEF Plan, NoPlan, Ops, LoginOps, Steps
    <2> HIDE DEF p
    <2>2. CASE Begin(w, p)
      BY <1>2, <2>1, <2>2
    <2>3. tx[w].step = "revoke" => tx[w].op \in LoginOps
      BY <1>1 DEF Formed, LoginOps
    <2>. QED
      BY <1>4, <1>5, <1>9, <2>2, <2>3 DEF Revoke, p
  <1>10. ASSUME NEW t \in Tokens, NEW new \in Tokens, Refresh(w, t, new) PROVE Framed
    <2> DEFINE p == [NoPlan EXCEPT !.op = "refresh", !.step = "login", !.user = token[t].user,
                                   !.tok = t]
               q == [tx[w] EXCEPT !.step = "check", !.next = new]
    <2>0. q.op = tx[w].op
      BY <1>1 DEF Plan
    <2>1. p \in Plan /\ p.op \in LoginOps
      <3>1. token[t].user \in Users \cup {None}
        BY DEF Typed, LoginsOK, TokenRow
      <3>2. p \in Plan
        BY <3>1, FreshRow DEF Plan, Ops, LoginOps, Steps
      <3>. QED
        BY <3>2 DEF NoPlan, LoginOps
    <2> HIDE DEF p, q
    <2>2. CASE Begin(w, p)
      BY <1>2, <2>1, <2>2
    <2>3. CASE At(w, "refresh", "new") /\ Goes(w, q) /\ UNCHANGED <<roles, plan, caches, devices>>
      <3>1. tx[w].step # "idle" /\ tx[w].op \in LoginOps
        BY <2>3 DEF At, LoginOps
      <3>2. Frame(w, LoginOps) /\ answer' = Silent
        BY <1>1, <2>0, <2>3, <3>1, GoesFrame
      <3>. QED
        BY <2>3, <3>2 DEF Framed
    <2>. QED
      BY <1>4, <1>5, <1>10, <2>2, <2>3 DEF Refresh, At, LoginOps, p, q
  <1>11. ASSUME NEW u \in Users, DeleteLogin(w, u) PROVE Framed
    <2> DEFINE p == [NoPlan EXCEPT !.op = "deleteLogin", !.step = "mark", !.user = u]
    <2>1. p \in Plan /\ p.op \in LoginOps
      BY FreshRow DEF Plan, NoPlan, Ops, LoginOps, Steps
    <2> HIDE DEF p
    <2>2. CASE Begin(w, p)
      BY <1>2, <2>1, <2>2
    <2>3. CASE /\ tx[w].op = "deleteLogin" /\ tx[w].step \in {"sessions", "tenant"}
               /\ tx' = [v \in Workers |-> IF v = w THEN NoPlan
                                           ELSE [tx[v] EXCEPT !.dead = @ /\ tx[v].user # u]]
               /\ answer' = Silent
               /\ UNCHANGED <<mix, begun, raced, cut, token, given, jwt, roles, plan, devices, caches>>
      <3>1. ASSUME NEW v \in Workers \ {w} PROVE Same(tx[v], tx'[v])
        <4> DEFINE b == tx[v].dead /\ tx[v].user # u
        <4>1. tx'[v] = [tx[v] EXCEPT !.dead = b] /\ tx[v] \in Plan
          BY <1>1, <2>3 DEF RowsOK
        <4>2. tx[v].dead \in BOOLEAN
          BY <4>1 DEF Plan
        <4>3. b = tx[v].dead \/ b = FALSE
          BY <4>2, Zenon
        <4> HIDE DEF b
        <4>4. tx'[v].dead = b
          BY <4>1 DEF Plan
        <4>5. tx'[v].dead = tx[v].dead \/ tx'[v].dead = FALSE
          BY <4>3, <4>4, Zenon
        <4>. QED
          BY <4>1, <4>5 DEF Plan, Same
      <3>. QED
        BY <2>3, <3>1 DEF Framed, Frame, Others, NoPlan, LoginOps
    <2>4. CASE /\ At(w, "deleteLogin", "mark") /\ Go(w, "sessions")
               /\ UNCHANGED <<token, given, jwt, roles, plan, devices, caches>>
      BY <1>4, <2>4 DEF At, LoginOps
    <2>5. CASE /\ At(w, "deleteLogin", "sessions") /\ Go(w, "tenant")
               /\ UNCHANGED <<login, given, jwt, roles, plan, devices, caches>>
      BY <1>4, <2>5 DEF At, LoginOps
    <2>6. CASE /\ At(w, "deleteLogin", "tenant") /\ Done(w)
               /\ UNCHANGED <<roles, plan, logins, devices, caches>>
      BY <1>5, <2>6 DEF At, LoginOps
    <2>. QED
      BY <1>11, <2>2, <2>3, <2>4, <2>5, <2>6, Zenon DEF DeleteLogin, p
  <1>. QED
    BY <1>6, <1>7, <1>8, <1>9, <1>10, <1>11 DEF LoginRequest, Framed

LEMMA PlanFrame ==
  ASSUME Typed, NEW w \in Workers, PlanRequest(w)
  PROVE  Frame(w, PlanOps) /\ UNCHANGED <<roles, cache, logins, devices>>
  <1>1. tx[w] \in Plan /\ RowsOK
    BY DEF Typed, RowsOK
  <1>2. ASSUME NEW p \in Plan, p.op \in PlanOps, Begin(w, p)
        PROVE  Frame(w, PlanOps) /\ UNCHANGED <<roles, cache, logins, devices>>
    BY <1>1, <1>2, BeginFrame DEF Begin, caches
  <1>3. CASE CheckPlan(w)
    <2> DEFINE p == [NoPlan EXCEPT !.op = "checkPlan", !.step = "plan"]
               q == [tx[w] EXCEPT !.step = "store", !.plan = plan]
    <2>1. p \in Plan /\ p.op \in PlanOps
      BY FreshRow DEF Plan, NoPlan, Ops, PlanOps, Steps
    <2>2. q.op = tx[w].op
      BY <1>1 DEF Plan
    <2> HIDE DEF p, q
    <2>3. CASE Begin(w, p)
      BY <1>2, <2>1, <2>3
    <2>4. CASE Hits(w, "checkPlan", Pro(planKnown.pro)) /\ UNCHANGED <<roles, plan, logins, devices, caches>>
      BY <1>1, <2>4, HitFrame DEF caches
    <2>5. CASE At(w, "checkPlan", "plan") /\ Goes(w, q) /\ UNCHANGED <<roles, plan, logins, devices, caches>>
      BY <1>1, <2>2, <2>5, GoesFrame DEF At, PlanOps, caches
    <2>6. CASE /\ At(w, "checkPlan", "store") /\ Answers(w, Pro(tx[w].plan = "Pro"))
               /\ UNCHANGED <<roles, plan, logins, devices, cache>>
      BY <1>1, <2>6, AnswerFrame DEF At, PlanOps
    <2>. QED
      BY <1>3, <2>3, <2>4, <2>5, <2>6 DEF CheckPlan, p, q
  <1>4. ASSUME NEW to \in Plans, ChangePlan(w, to)
        PROVE  Frame(w, PlanOps) /\ UNCHANGED <<roles, cache, logins, devices>>
    <2> DEFINE p == [NoPlan EXCEPT !.op = "changePlan", !.step = "write", !.plan = to]
    <2>1. p \in Plan /\ p.op \in PlanOps
      BY FreshRow DEF Plan, NoPlan, Ops, PlanOps, Steps
    <2> HIDE DEF p
    <2>2. CASE Begin(w, p)
      BY <1>2, <2>1, <2>2
    <2>3. CASE At(w, "changePlan", "write") /\ Go(w, "forget") /\ UNCHANGED <<roles, logins, devices, caches>>
      BY <1>1, <2>3, GoFrame DEF At, PlanOps, caches
    <2>4. CASE At(w, "changePlan", "forget") /\ Done(w) /\ UNCHANGED <<roles, plan, logins, devices, cache>>
      BY <1>1, <2>4, DoneFrame DEF At, PlanOps
    <2>. QED
      BY <1>4, <2>2, <2>3, <2>4 DEF ChangePlan, p
  <1>. QED
    BY <1>3, <1>4 DEF PlanRequest

LEMMA PushFrame ==
  ASSUME Typed, NEW w \in Workers, PushRequest(w)
  PROVE  Frame(w, PushOps) /\ answer' = Silent /\ UNCHANGED <<roles, plan, logins, caches, site, told>>
  <1>1. tx[w] \in Plan /\ RowsOK
    BY DEF Typed, RowsOK
  <1> DEFINE Framed == /\ Frame(w, PushOps) /\ answer' = Silent
                       /\ UNCHANGED <<roles, plan, logins, caches, site, told>>
  <1>2. ASSUME NEW u \in Users, NEW d \in Phones, NEW op \in PushOps,
               NEW s \in {"claim", "silence", "free"}, s = "silence" => op = "removeDevice",
               Begin(w, [NoPlan EXCEPT !.op = op, !.step = s, !.user = u, !.phone = d, !.seen = device[d]])
        PROVE  Framed
    <2> DEFINE p == [NoPlan EXCEPT !.op = op, !.step = s, !.user = u, !.phone = d, !.seen = device[d]]
    <2>1. p \in Plan
      BY <1>2, DeviceRows DEF Typed, DevicesOK, PushOps
    <2>2. p.op \in PushOps
      BY DEF NoPlan
    <2>3. Begin(w, p)
      BY <1>2
    <2> HIDE DEF p
    <2>4. Frame(w, PushOps) /\ answer' = Silent
      BY <1>1, <2>1, <2>2, <2>3, BeginFrame
    <2>. QED
      BY <2>3, <2>4 DEF Begin, devices
  <1>3. ASSUME NEW s, Go(w, s), tx[w].step # "idle", tx[w].op \in PushOps,
               UNCHANGED <<roles, plan, logins, caches, site, told>>
        PROVE  Framed
    BY <1>1, <1>3, GoFrame
  <1>4. ASSUME Done(w), tx[w].step # "idle", tx[w].op \in PushOps,
               UNCHANGED <<roles, plan, logins, caches, site, told>>
        PROVE  Framed
    BY <1>1, <1>4, DoneFrame
  <1>5. \A u \in Users, d \in Phones : \A O \in SUBSET Outlets : Listen(w, u, d, O) => Framed
    BY <1>1 DEF Listen, Frame, Others, Same
  <1> HIDE DEF Framed
  <1>6. ASSUME NEW u \in Users, NEW d \in Phones, Register(w, u, d) PROVE Framed
    <2>1. CASE Begin(w, [NoPlan EXCEPT !.op = "register", !.step = "claim", !.user = u, !.phone = d,
                                       !.seen = device[d]])
      BY <1>2, <2>1 DEF PushOps, DeviceOps
    <2>2. CASE /\ At(w, "register", "claim") \/ At(w, "register", "allocate")
               /\ Go(w, "allocate") \/ Done(w)
               /\ UNCHANGED <<site, told, roles, plan, logins, caches>>
      BY <1>3, <1>4, <2>2 DEF At, PushOps, DeviceOps
    <2>. QED
      BY <1>6, <2>1, <2>2 DEF Register
  <1>7. ASSUME NEW op \in {"unregister", "removeDevice"}, NEW u \in Users, NEW d \in Phones,
               Release(w, op, u, d)
        PROVE  Framed
    <2> DEFINE first == IF op = "removeDevice" THEN "silence" ELSE "free"
               p == [NoPlan EXCEPT !.op = op, !.user = u, !.phone = d, !.seen = device[d], !.step = first]
    <2>1. CASE Begin(w, p)
      <3>1. p = [NoPlan EXCEPT !.op = op, !.step = first, !.user = u, !.phone = d, !.seen = device[d]]
        BY DEF NoPlan
      <3>2. op \in PushOps /\ first \in {"claim", "silence", "free"}
        BY DEF PushOps, DeviceOps
      <3>3. first = "silence" => op = "removeDevice"
        OBVIOUS
      <3> HIDE DEF p, first
      <3>. QED
        BY <1>2, <2>1, <3>1, <3>2, <3>3
    <2> HIDE DEF p
    <2>2. CASE /\ \E s \in {"free", "shut"} : At(w, op, s)
               /\ Go(w, "shut") \/ Done(w)
               /\ UNCHANGED <<site, told, roles, plan, logins, caches>>
      BY <1>3, <1>4, <2>2 DEF At, PushOps, DeviceOps
    <2>3. CASE /\ At(w, op, "silence") /\ Unsubscribes(w, d)
               /\ UNCHANGED <<device, site, told, roles, plan, logins, caches>>
      <3>1. PICK q \in Plan : Goes(w, q) /\ q.op = tx[w].op
        BY <1>1, <2>3, Unsubscribed DEF Unsubscribing
      <3>2. tx[w].step # "idle" /\ tx[w].op \in PushOps
        BY <2>3 DEF At, PushOps, DeviceOps
      <3>3. Frame(w, PushOps) /\ answer' = Silent
        BY <1>1, <3>1, <3>2, GoesFrame
      <3>. QED
        BY <2>3, <3>3 DEF Framed
    <2>. QED
      BY <1>7, <2>1, <2>2, <2>3, Zenon DEF Release, p
  <1>. QED
    BY <1>5, <1>6, <1>7 DEF PushRequest, Framed

LEMMA TerminalFrame ==
  ASSUME Typed, NEW w \in Workers, TerminalRequest(w)
  PROVE  Frame(w, {"terminal"}) /\ answer' = Silent /\ UNCHANGED <<roles, plan, logins, caches, device, push>>
  <1>1. tx[w] \in Plan /\ RowsOK
    BY DEF Typed, RowsOK
  <1>2. PICK d \in Phones : Terminal(w, d)
    BY DEF TerminalRequest
  <1> DEFINE p == [NoPlan EXCEPT !.op = "terminal", !.step = "pick", !.phone = d]
             q == [tx[w] EXCEPT !.step = "take", !.n = LowestFree]
  <1>3. p.op = "terminal"
    BY DEF NoPlan
  <1>4. p \in Plan
    BY FreshRow DEF Plan, Ops, DeviceOps, Steps
  <1>5. q.op = tx[w].op
    BY <1>1 DEF Plan
  <1> HIDE DEF p, q
  <1>6. CASE /\ Hits(w, "terminal", Silent)
             /\ UNCHANGED <<device, push, site, roles, plan, logins, caches>>
    BY <1>1, <1>6, HitFrame
  <1>7. CASE Begin(w, p)
    BY <1>1, <1>3, <1>4, <1>7, BeginFrame DEF Begin, devices
  <1>8. CASE At(w, "terminal", "pick") /\ Goes(w, q) /\ UNCHANGED <<roles, plan, logins, devices, caches>>
    BY <1>1, <1>5, <1>8, GoesFrame DEF At, devices
  <1>9. CASE /\ At(w, "terminal", "take")
             /\ Go(w, "pick") \/ Done(w)
             /\ UNCHANGED <<device, push, roles, plan, logins, caches>>
    BY <1>1, <1>9, GoFrame, DoneFrame DEF At
  <1>. QED
    BY <1>2, <1>6, <1>7, <1>8, <1>9, Zenon DEF Terminal, p, q

\* A request that is cut off, or a tick, leaves the others what they were, but
\* that a tick ages the checks.
LEMMA CutFrame ==
  ASSUME RowsOK, NEW w \in Workers, Cut(w)
  PROVE  Others(w) /\ tx'[w] = NoPlan /\ cut' = TRUE
  BY DEF Cut, RowsOK, Others, Same

----------------------------------------------------------------------------
(* Whom a deletion signs out: a request that began after the deletion of   *)
(* its login, and that login has been deleted since, is a refresh that has *)
(* not looked at the login yet.                                            *)

Alive(p) ==
    p.op \in {"login", "refresh"} /\ p.step # "idle" /\ p.dead = TRUE =>
        p.op = "refresh" /\ p.step = "login" /\ p.user \in Users /\ login[p.user] = "deleted"
LoginInv == \A w \in Workers : Alive(tx[w])

LEMMA LoginOthers ==
  ASSUME LoginInv, NEW w \in Workers, Others(w), Alive(tx[w])',
         \A u \in Users : login[u] = "deleted" => login'[u] = "deleted"
  PROVE  LoginInv'
  <1>1. ASSUME NEW v \in Workers \ {w} PROVE Alive(tx[v])'
    <2>1. Same(tx[v], tx'[v]) /\ Alive(tx[v])
      BY DEF Others, LoginInv
    <2>2. tx'[v].dead = TRUE => tx[v].dead = TRUE
      BY <2>1, Zenon DEF Same
    <2>. QED
      BY <2>1, <2>2 DEF Same, Alive
  <1>. QED
    BY <1>1 DEF LoginInv

LEMMA LoginKept ==
  ASSUME LoginInv, NEW w \in Workers, NEW ops, Frame(w, ops), ops \cap LoginOps = {}, login' = login
  PROVE  LoginInv'
  <1>1. Alive(tx[w])'
    BY DEF Frame, Alive, LoginOps
  <1>. QED
    BY <1>1, LoginOthers DEF Frame

LEMMA LoginRequests ==
  ASSUME Typed, LoginInv, NEW w \in Workers, LoginRequest(w)
  PROVE  LoginInv'
  <1>1. tx[w] \in Plan /\ RowsOK /\ Alive(tx[w]) /\ login \in [Users -> {"live", "deleted"}] /\ Others(w)
    BY LoginFrame DEF Typed, RowsOK, LoginInv, LoginsOK, Frame
  <1>2. ASSUME NEW p \in Plan, Begin(w, p), p.op = "login" => login[p.user] = "live",
               p.op = "refresh" => p.step = "login"
        PROVE  LoginInv'
    <2> DEFINE b == p.user \in Users /\ login[p.user] = "deleted"
               q == [p EXCEPT !.dead = b]
    <2>1. tx'[w] = q /\ login' = login
      BY <1>1, <1>2 DEF Begin, logins, RowsOK
    <2>2. q.op = p.op /\ q.step = p.step /\ q.user = p.user /\ q.dead = b
      BY DEF Plan
    <2>3. q.dead = TRUE => p.user \in Users /\ login[p.user] = "deleted"
      BY <2>2, Zenon
    <2> HIDE DEF b, q
    <2>4. Alive(tx[w])'
      BY <1>2, <2>1, <2>2, <2>3 DEF Alive
    <2>. QED
      BY <1>1, <2>1, <2>4, LoginOthers
  <1>3. ASSUME NEW p, Goes(w, p), p.op = tx[w].op, p.user = tx[w].user, p.dead = tx[w].dead, p.step # "idle",
               tx[w].step # "idle", tx[w].op = "refresh" /\ tx[w].step = "login" => Admitted(tx[w].user),
               \A u \in Users : login[u] = "deleted" => login'[u] = "deleted"
        PROVE  LoginInv'
    <2>1. tx'[w] = p
      BY <1>1, <1>3 DEF Goes, RowsOK
    <2>2. ~(tx[w].op \in {"login", "refresh"} /\ tx[w].dead = TRUE)
      BY <1>1, <1>3 DEF Alive, Admitted
    <2>3. Alive(tx[w])'
      BY <1>3, <2>1, <2>2 DEF Alive
    <2>. QED
      BY <1>1, <1>3, <2>3, LoginOthers
  <1>4. ASSUME NEW s, Go(w, s), s # "idle", tx[w].step # "idle",
               tx[w].op = "refresh" /\ tx[w].step = "login" => Admitted(tx[w].user),
               \A u \in Users : login[u] = "deleted" => login'[u] = "deleted"
        PROVE  LoginInv'
    <2> DEFINE p == [tx[w] EXCEPT !.step = s]
    <2>1. p.op = tx[w].op /\ p.user = tx[w].user /\ p.dead = tx[w].dead /\ p.step = s
      BY <1>1 DEF Plan
    <2>2. Goes(w, p)
      BY <1>4 DEF Go
    <2> HIDE DEF p
    <2>. QED
      BY <1>3, <1>4, <2>1, <2>2
  <1>5. ASSUME Done(w), login' = login PROVE LoginInv'
    <2>1. tx'[w] = NoPlan
      BY <1>1, <1>5 DEF Done, Goes, RowsOK
    <2>2. Alive(tx[w])'
      BY <2>1 DEF Alive, NoPlan
    <2>. QED
      BY <1>1, <1>5, <2>2, LoginOthers
  <1>6. CASE ReadPlan(w) \/ Resolve(w)
    <2>1. PICK p : /\ Goes(w, p) /\ p.op = tx[w].op /\ p.user = tx[w].user /\ p.dead = tx[w].dead
                   /\ p.step \in {"roles", "perms", "store", "issue"}
                   /\ tx[w].step \in {"plan", "roles", "perms"} /\ login' = login
      BY <1>1, <1>6 DEF ReadPlan, Resolve, Plan, logins
    <2>. QED
      BY <1>3, <2>1
  <1>7. ASSUME NEW u \in Users, NEW t \in Tokens, Login(w, u, t) PROVE LoginInv'
    <2> DEFINE p == [NoPlan EXCEPT !.op = "login", !.step = "plan", !.user = u]
    <2>1. p.op = "login" /\ p.user = u
      BY DEF NoPlan
    <2>2. p \in Plan
      BY FreshRow DEF Plan, Ops, LoginOps, Steps
    <2> HIDE DEF p
    <2>3. CASE login[u] = "live" /\ Begin(w, p)
      BY <1>2, <2>1, <2>2, <2>3
    <2>. QED
      BY <1>5, <1>7, <2>3 DEF Login, p
  <1>8. ASSUME NEW t \in Tokens, Revoke(w, t) PROVE LoginInv'
    <2> DEFINE p == [NoPlan EXCEPT !.op = "logout", !.step = "revoke", !.tok = t]
    <2>1. p.op = "logout"
      BY DEF NoPlan
    <2>2. p \in Plan
      BY FreshRow DEF Plan, Ops, LoginOps, Steps
    <2> HIDE DEF p
    <2>3. CASE Begin(w, p)
      BY <1>2, <2>1, <2>2, <2>3
    <2>. QED
      BY <1>4, <1>5, <1>8, <2>3 DEF Revoke, p
  <1>9. ASSUME NEW t \in Tokens, NEW new \in Tokens, Refresh(w, t, new) PROVE LoginInv'
    <2> DEFINE p == [NoPlan EXCEPT !.op = "refresh", !.step = "login", !.user = token[t].user,
                                   !.tok = t]
               q == [tx[w] EXCEPT !.step = "check", !.next = new]
    <2>1. p.op = "refresh" /\ p.step = "login"
      BY DEF NoPlan
    <2>2. p \in Plan
      <3>1. token[t].user \in Users \cup {None}
        BY DEF Typed, LoginsOK, TokenRow
      <3>. QED
        BY <3>1, FreshRow DEF Plan, Ops, LoginOps, Steps
    <2>3. q.op = tx[w].op /\ q.user = tx[w].user /\ q.dead = tx[w].dead /\ q.step = "check"
      BY <1>1 DEF Plan
    <2> HIDE DEF p, q
    <2>4. CASE Begin(w, p)
      BY <1>2, <2>1, <2>2, <2>4
    <2>5. CASE At(w, "refresh", "new") /\ Goes(w, q) /\ login' = login
      <3>1. tx[w].step = "new"
        BY <2>5 DEF At
      <3>. QED
        BY <1>3, <2>3, <2>5, <3>1
    <2>. QED
      BY <1>4, <1>5, <1>9, <2>4, <2>5 DEF Refresh, At, logins, p, q
  <1>10. ASSUME NEW u \in Users, DeleteLogin(w, u) PROVE LoginInv'
    <2> DEFINE p == [NoPlan EXCEPT !.op = "deleteLogin", !.step = "mark", !.user = u]
    <2>1. p.op = "deleteLogin"
      BY DEF NoPlan
    <2>2. p \in Plan
      BY FreshRow DEF Plan, Ops, LoginOps, Steps
    <2> HIDE DEF p
    <2>3. CASE Begin(w, p)
      BY <1>2, <2>1, <2>2, <2>3
    <2>4. CASE /\ At(w, "deleteLogin", "mark") /\ Go(w, "sessions")
               /\ login' = [login EXCEPT ![u] = "deleted"]
      BY <1>1, <1>4, <2>4 DEF At
    <2>5. CASE /\ At(w, "deleteLogin", "sessions") /\ Go(w, "tenant")
               /\ UNCHANGED <<login, given, jwt, roles, plan, devices, caches>>
      BY <1>4, <2>5 DEF At
    <2>6. CASE /\ At(w, "deleteLogin", "tenant") /\ Done(w)
               /\ UNCHANGED <<roles, plan, logins, devices, caches>>
      BY <1>5, <2>6 DEF logins
    <2>7. CASE /\ login' = [login EXCEPT ![u] = "live"]
               /\ tx' = [v \in Workers |-> IF v = w THEN NoPlan
                                           ELSE [tx[v] EXCEPT !.dead = @ /\ tx[v].user # u]]
      <3>1. Alive(tx[w])'
        BY <2>7 DEF Alive, NoPlan
      <3>2. ASSUME NEW v \in Workers \ {w} PROVE Alive(tx[v])'
        <4> DEFINE b == tx[v].dead /\ tx[v].user # u
        <4>1. tx'[v] = [tx[v] EXCEPT !.dead = b] /\ tx[v] \in Plan /\ Alive(tx[v])
          BY <1>1, <2>7 DEF RowsOK, LoginInv
        <4>2. tx[v].dead \in BOOLEAN
          BY <4>1 DEF Plan
        <4>3. b = TRUE => tx[v].dead = TRUE /\ tx[v].user # u
          BY <4>2, Zenon
        <4> HIDE DEF b
        <4>4. PICK q : /\ q = tx'[v] /\ q.dead = b /\ q.op = tx[v].op /\ q.step = tx[v].step
                       /\ q.user = tx[v].user
          BY <4>1 DEF Plan
        <4>. QED
          BY <1>1, <2>7, <4>1, <4>3, <4>4 DEF Alive
      <3>. QED
        BY <3>1, <3>2 DEF LoginInv
    <2>. QED
      BY <1>10, <2>3, <2>4, <2>5, <2>6, <2>7, Zenon DEF DeleteLogin, p
  <1>. QED
    BY <1>6, <1>7, <1>8, <1>9, <1>10 DEF LoginRequest

LEMMA LoginStep == Typed /\ LoginInv /\ [Next]_vars => LoginInv'
  <1> SUFFICES ASSUME Typed, LoginInv, [Next]_vars PROVE LoginInv'
    OBVIOUS
  <1>1. CASE UNCHANGED vars
    BY <1>1 DEF LoginInv, Alive, vars, logins
  <1>2. CASE Tick
    <2>1. ASSUME NEW w \in Workers PROVE Alive(tx[w])'
      <3>1. tx[w] \in Plan /\ Alive(tx[w]) /\ login' = login
        BY <1>2 DEF Typed, RowsOK, LoginInv, Tick
      <3>2. tx'[w] = tx[w] \/ tx'[w].op = "check"
        BY <1>2, <3>1 DEF Tick, Plan
      <3>. QED
        BY <3>1, <3>2 DEF Alive
    <2>. QED
      BY <2>1 DEF LoginInv
  <1>3. ASSUME NEW w \in Workers, Request(w) PROVE LoginInv'
    <2>1. CASE RoleRequest(w)
      BY <2>1, RoleFrame, LoginKept DEF RoleOps, LoginOps, logins
    <2>2. CASE CheckRequest(w)
      BY <2>2, CheckFrame, LoginKept DEF LoginOps, logins
    <2>3. CASE PlanRequest(w)
      BY <2>3, PlanFrame, LoginKept DEF PlanOps, LoginOps, logins
    <2>4. CASE PushRequest(w)
      BY <2>4, PushFrame, LoginKept DEF PushOps, DeviceOps, LoginOps, logins
    <2>5. CASE TerminalRequest(w)
      BY <2>5, TerminalFrame, LoginKept DEF LoginOps, logins
    <2>6. CASE Cut(w)
      <3>1. Others(w) /\ tx'[w] = NoPlan
        BY <2>6, CutFrame DEF Typed
      <3>2. Alive(tx[w])'
        BY <3>1 DEF Alive, NoPlan
      <3>. QED
        BY <2>6, <3>1, <3>2, LoginOthers DEF Cut, logins
    <2>. QED
      BY <1>3, <2>1, <2>2, <2>3, <2>4, <2>5, <2>6, LoginRequests, Requests
  <1>. QED
    BY <1>1, <1>2, <1>3 DEF Next

\* A token is signed by a request that issues one, and only then lives for
\* JwtLife.
SignsOut == \A u \in Users : jwt'[u] # jwt[u] /\ jwt'[u].left = JwtLife =>
                \E w \in Workers : tx[w].user = u /\ tx[w].step = "issue" /\ ~tx[w].dead

LEMMA SignedOutStep == Typed /\ LoginInv /\ [Next]_vars => SignsOut
  <1> SUFFICES ASSUME Typed, LoginInv, [Next]_vars, NEW u \in Users,
                      jwt'[u] # jwt[u], jwt'[u].left = JwtLife
               PROVE  \E w \in Workers : tx[w].user = u /\ tx[w].step = "issue" /\ ~tx[w].dead
    BY DEF SignsOut
  <1>1. ASSUME NEW w \in Workers, tx[w].op \in {"login", "refresh"}, tx[w].step = "issue", jwt' = Signed(w)
        PROVE  \E v \in Workers : tx[v].user = u /\ tx[v].step = "issue" /\ ~tx[v].dead
    <2>1. tx[w].user = u
      BY <1>1 DEF Signed, Typed, LoginsOK
    <2>2. Alive(tx[w]) /\ tx[w].dead \in BOOLEAN
      BY DEF LoginInv, Typed, RowsOK, Plan
    <2>3. tx[w].dead # TRUE
      BY <1>1, <2>2 DEF Alive
    <2>4. ~tx[w].dead
      BY <2>2, <2>3, Zenon
    <2>. QED
      BY <1>1, <2>1, <2>4, Zenon
  <1>2. CASE UNCHANGED jwt
    BY <1>2
  <1>3. CASE Tick
    <2>1. jwt[u] \in JwtRow /\ jwt'[u] = Aged(jwt[u])
      BY <1>3 DEF Typed, LoginsOK, Tick
    <2>2. jwt'[u].left = Less(jwt[u].left)
      BY <2>1 DEF Aged, JwtRow
    <2>3. jwt[u].left \in 0..JwtLife /\ JwtLife \in Nat \ {0}
      BY <2>1, AccessAssumption DEF JwtRow
    <2>. QED
      BY <2>2, <2>3 DEF Less
  <1>4. ASSUME NEW w \in Workers, Request(w)
        PROVE  \E v \in Workers : tx[v].user = u /\ tx[v].step = "issue" /\ ~tx[v].dead
    <2>1. CASE LoginRequest(w)
      <3>1. \/ jwt' = jwt
            \/ \E x \in Users, t \in Tokens : Login(w, x, t)
            \/ \E t, new \in Tokens : Refresh(w, t, new)
        BY <2>1, Zenon DEF LoginRequest, ReadPlan, Resolve, DeleteLogin, Revoke, Begin, logins
      <3>2. ASSUME NEW x \in Users, NEW t \in Tokens, Login(w, x, t)
            PROVE  \E v \in Workers : tx[v].user = u /\ tx[v].step = "issue" /\ ~tx[v].dead
        <4>1. CASE jwt' = jwt
          BY <1>2, <4>1
        <4>2. CASE At(w, "login", "issue") /\ jwt' = Signed(w)
          BY <1>1, <4>2 DEF At
        <4>. QED
          BY <3>2, <4>1, <4>2, Zenon DEF Login, Begin, logins
      <3>3. ASSUME NEW t \in Tokens, NEW new \in Tokens, Refresh(w, t, new)
            PROVE  \E v \in Workers : tx[v].user = u /\ tx[v].step = "issue" /\ ~tx[v].dead
        <4>1. CASE jwt' = jwt
          BY <1>2, <4>1
        <4>2. CASE At(w, "refresh", "issue") /\ jwt' = Signed(w)
          BY <1>1, <4>2 DEF At
        <4>. QED
          BY <3>3, <4>1, <4>2, Zenon DEF Refresh, Begin, logins
      <3>. QED
        BY <1>2, <3>1, <3>2, <3>3
    <2>2. CASE jwt' = jwt
      BY <1>2, <2>2
    <2>. QED
      BY <1>4, <2>1, <2>2, Requests, RoleFrame, CheckFrame, PlanFrame, PushFrame, TerminalFrame
         DEF logins, Cut
  <1>. QED
    BY <1>2, <1>3, <1>4 DEF Next, vars, logins

(***************************************************************************)
(* What a device listens to: topics that one of the users they were for    *)
(* may ever be sent.                                                       *)
(***************************************************************************)
TopicInv == \A d \in Phones : push[d].topics \subseteq UNION {AllPossible(u) : u \in push[d].of}

LEMMA TopicStep == Typed /\ TopicInv /\ [Next]_vars => TopicInv'
  <1> SUFFICES ASSUME Typed, TopicInv, [Next]_vars PROVE TopicInv'
    OBVIOUS
  <1>1. CASE UNCHANGED push
    BY <1>1 DEF TopicInv, AllPossible, Personal
  <1>2. ASSUME NEW d \in Phones, NEW row, push' = [push EXCEPT ![d] = row],
               row.topics \subseteq UNION {AllPossible(u) : u \in row.of}
        PROVE  TopicInv'
    BY <1>2 DEF TopicInv, Typed, DevicesOK, AllPossible, Personal
  <1>3. ASSUME NEW u \in Users, NEW d \in Phones, Hears(d, u) PROVE TopicInv'
    <2> DEFINE T == Personal(u) \cup ({"perm"} \X UNION {carries[r] : r \in held[u]})
               row == [topics |-> push[d].topics \cup T, of |-> push[d].of \cup {u}]
    <2>1. push' = [push EXCEPT ![d] = row]
      BY <1>3 DEF Hears
    <2>2. T \subseteq AllPossible(u)
      BY DEF AllPossible, Typed, RolesOK
    <2> HIDE DEF T
    <2>3. row.topics \subseteq UNION {AllPossible(v) : v \in row.of}
      BY <2>2 DEF TopicInv
    <2> HIDE DEF row
    <2>. QED
      BY <1>2, <2>1, <2>3
  <1>4. ASSUME NEW w \in Workers, NEW u \in Users, NEW d \in Phones, NEW O \in SUBSET Outlets,
               Listen(w, u, d, O)
        PROVE  TopicInv'
    <2> DEFINE T == IF plan = "Pro" /\ (HasOne(u) \/ O = Outlets) THEN TopicsAt(u, O) ELSE {}
               row == [topics |-> T, of |-> {u}]
    <2>1. push' = [push EXCEPT ![d] = row]
      BY <1>4 DEF Listen
    <2>2. T \subseteq AllPossible(u)
      <3>1. Granted(held[u]) \subseteq Perms
        BY DEF Granted, Typed, RolesOK
      <3>. QED
        BY <3>1 DEF AllPossible, TopicsAt
    <2> HIDE DEF T
    <2>3. row.topics \subseteq UNION {AllPossible(v) : v \in row.of}
      BY <2>2
    <2> HIDE DEF row
    <2>. QED
      BY <1>2, <2>1, <2>3
  <1>5. ASSUME NEW d \in Phones, NEW gone,
               push' = [push EXCEPT ![d].topics = @ \ gone]
        PROVE  TopicInv'
    <2> DEFINE row == [topics |-> push[d].topics \ gone, of |-> push[d].of]
    <2>1. push' = [push EXCEPT ![d] = row]
      <3>1. PICK T, U : push[d] = [topics |-> T, of |-> U]
        BY DEF Typed, DevicesOK
      <3>2. [push[d] EXCEPT !.topics = push[d].topics \ gone] = row
        BY <3>1
      <3>3. push' = [push EXCEPT ![d] = [push[d] EXCEPT !.topics = push[d].topics \ gone]]
        BY <1>5, Zenon
      <3>. QED
        BY <3>2, <3>3, Zenon
    <2>2. row.topics \subseteq UNION {AllPossible(v) : v \in row.of}
      BY DEF TopicInv
    <2> HIDE DEF row
    <2>. QED
      BY <1>2, <2>1, <2>2
  <1>6. ASSUME NEW w \in Workers, PushRequest(w) PROVE TopicInv'
    <2>1. ASSUME NEW u \in Users, NEW d \in Phones, Register(w, u, d) PROVE TopicInv'
      <3>1. UNCHANGED push \/ Hears(d, u)
        BY <2>1, Zenon DEF Register, Begin, devices
      <3>. QED
        BY <1>1, <1>3, <3>1
    <2>2. ASSUME NEW op \in {"unregister", "removeDevice"}, NEW u \in Users, NEW d \in Phones,
                 Release(w, op, u, d)
          PROVE  TopicInv'
      <3>1. UNCHANGED push \/ \E gone : push' = [push EXCEPT ![d].topics = @ \ gone]
        BY <2>2, Zenon DEF Release, Unsubscribes, Begin, devices
      <3>. QED
        BY <1>1, <1>5, <3>1
    <2>. QED
      BY <1>4, <1>6, <2>1, <2>2 DEF PushRequest
  <1>7. ASSUME NEW w \in Workers, Request(w) PROVE TopicInv'
    BY <1>1, <1>6, <1>7, Requests, RoleFrame, CheckFrame, LoginFrame, PlanFrame, TerminalFrame
       DEF devices, Cut
  <1>. QED
    BY <1>1, <1>7 DEF Next, Tick, vars, devices

Silences == \A w \in Workers : LET d == tx[w].phone IN
               tx[w].step = "silence" /\ tx'[w].step = "free" /\ push[d].of \subseteq {tx[w].seen.owner}
                   => /\ tx'[w].n = 1 => push'[d].topics = {}
                      /\ tx'[w].n = 2 => push'[d].topics \subseteq
                                            {"outlet"} \X (Outlets \ {Outlet1}) \X Perms

LEMMA SilencesStep == Typed /\ TopicInv /\ [Next]_vars => Silences
  <1> SUFFICES ASSUME Typed, TopicInv, [Next]_vars, NEW w \in Workers, NEW d, d = tx[w].phone,
                      tx[w].step = "silence", tx'[w].step = "free", push[d].of \subseteq {tx[w].seen.owner}
               PROVE  /\ tx'[w].n = 1 => push'[d].topics = {}
                      /\ tx'[w].n = 2 => push'[d].topics \subseteq
                                            {"outlet"} \X (Outlets \ {Outlet1}) \X Perms
    BY DEF Silences
  <1>1. tx[w] \in Plan /\ tx[w].op = "removeDevice" /\ RowsOK
    BY DEF Typed, RowsOK, Formed
  <1>2. ~(UNCHANGED vars) /\ ~Tick
    BY <1>1 DEF vars, Tick
  <1>3. PICK v \in Workers : Request(v)
    BY <1>2 DEF Next
  <1>4. CASE v # w
    <2>1. ~Others(v)
      BY <1>4 DEF Others, Same
    <2>. QED
      BY <1>1, <1>3, <2>1, Requests, RoleFrame, CheckFrame, LoginFrame, PlanFrame, PushFrame, TerminalFrame,
         CutFrame DEF Frame
  <1>5. CASE v = w
    <2>1. ~Cut(w)
      <3>1. SUFFICES ASSUME Cut(w) PROVE FALSE
        OBVIOUS
      <3>2. tx'[w] = NoPlan
        BY <1>1, <3>1, CutFrame
      <3>. QED
        BY <3>2 DEF NoPlan
    <2>2. PushRequest(w)
      BY <1>1, <1>3, <1>5, <2>1, Requests, RoleFrame, CheckFrame, LoginFrame, PlanFrame, TerminalFrame
         DEF Frame, RoleOps, LoginOps, PlanOps
    <2>3. PICK u \in Users, e \in Phones : Release(w, "removeDevice", u, e)
      BY <1>1, <2>2 DEF PushRequest, Register, Release, Listen, Begin, At
    <2> DEFINE owner == tx[w].seen.owner
    <2>4. e = d /\ Unsubscribes(w, d)
      BY <1>1, <2>3, Zenon DEF Release, Begin, At
    <2>a. RowsOK /\ Unsubscribes(w, d)
      BY <1>1, <2>4
    <2>b. PICK q \in Plan, read \in BOOLEAN : Unsubscribing(w, d, q, read)
      BY <2>a, Unsubscribed
    <2>5. Goes(w, q) /\ \E gone \in SUBSET AskedFor(owner, read) :
              /\ push' = [push EXCEPT ![d].topics = @ \ gone]
              /\ q.n = 1 => read /\ gone = AskedFor(owner, read)
              /\ q.n = 2 => ~read /\ gone = AskedFor(owner, read)
      BY <2>b, Zenon DEF Unsubscribing
    <2>6. PICK gone \in SUBSET AskedFor(owner, read) :
              /\ push' = [push EXCEPT ![d].topics = @ \ gone]
              /\ q.n = 1 => read /\ gone = AskedFor(owner, read)
              /\ q.n = 2 => ~read /\ gone = AskedFor(owner, read)
      BY <2>5
    <2>7. /\ push' = [push EXCEPT ![d].topics = @ \ gone]
          /\ q.n = 1 => gone = AllPossible(owner)
          /\ q.n = 2 => gone = PossibleAtFirst(owner)
      BY <2>6 DEF AskedFor
    <2>8. tx'[w] = q
      BY <1>1, <2>5 DEF Goes, RowsOK
    <2>9. push[d].topics \subseteq AllPossible(owner) /\ d \in Phones
      BY <2>3, <2>4 DEF TopicInv
    <2>10. push'[d].topics = push[d].topics \ gone
      BY <2>7, <2>9 DEF Typed, DevicesOK
    <2>11. tx'[w].n = 1 => push'[d].topics = {}
      BY <2>7, <2>8, <2>9, <2>10
    <2>12. AllPossible(owner) \ PossibleAtFirst(owner) \subseteq {"outlet"} \X (Outlets \ {Outlet1}) \X Perms
      BY DEF AllPossible, PossibleAtFirst
    <2>. QED
      BY <2>7, <2>8, <2>9, <2>10, <2>11, <2>12
  <1>. QED
    BY <1>4, <1>5

----------------------------------------------------------------------------
(* What a grant rests on: each of its permissions was carried by a role of *)
(* the user no longer ago than the entry, or the resolve, is old.          *)

Supported(u, P, l) == \A p \in P : \E r \in Roles :
    /\ r \in held[u] \/ lost.held[u][r] >= l
    /\ r = Super \/ p \in carries[r] \/ lost.carried[r][p] >= l
Backed(p) ==
    p.op = "check" =>
      /\ p.step = "perms" =>
           \A r \in p.roles : r \in held[p.user] \/ lost.held[p.user][r] >= PermTTL - p.age
      /\ p.step = "store" => Supported(p.user, p.perms, PermTTL - p.age)
Cached == \A u \in Users : cache[u].left > 0 => Supported(u, cache[u].perms, cache[u].left)
GrantsInv == Cached /\ (\A w \in Workers : Backed(tx[w])) /\ GrantsBacked

\* What was held or carried is still, or was taken this moment.
Stands ==
    /\ \A u \in Users, r \in Roles :
          \/ lost'.held[u][r] = PermTTL
          \/ lost'.held[u][r] = lost.held[u][r] /\ (r \in held[u] => r \in held'[u])
    /\ \A r \in Roles, p \in Perms :
          \/ lost'.carried[r][p] = PermTTL
          \/ lost'.carried[r][p] = lost.carried[r][p] /\ (p \in carries[r] => p \in carries'[r])

LEMMA SupportStands ==
  ASSUME Stands, NEW u \in Users, NEW P \in SUBSET Perms, NEW l \in 0..PermTTL, Supported(u, P, l)
  PROVE  Supported(u, P, l)'
  <1> SUFFICES ASSUME NEW p \in P
               PROVE  \E r \in Roles :
                         /\ r \in held'[u] \/ lost'.held[u][r] >= l
                         /\ r = Super \/ p \in carries'[r] \/ lost'.carried[r][p] >= l
    BY DEF Supported
  <1>1. PICK r \in Roles : /\ r \in held[u] \/ lost.held[u][r] >= l
                           /\ r = Super \/ p \in carries[r] \/ lost.carried[r][p] >= l
    BY DEF Supported
  <1>2. PermTTL >= l
    BY AccessAssumption
  <1>3. r \in held'[u] \/ lost'.held[u][r] >= l
    BY <1>1, <1>2 DEF Stands
  <1>4. r = Super \/ p \in carries'[r] \/ lost'.carried[r][p] >= l
    BY <1>1, <1>2 DEF Stands
  <1>. QED
    BY <1>3, <1>4

LEMMA RolesStand == ASSUME Typed, NEW w \in Workers, RoleRequest(w) PROVE Stands
  <1>1. ASSUME UNCHANGED <<held, lost>>, \A r \in Roles : carries[r] \subseteq carries'[r] PROVE Stands
    BY <1>1 DEF Stands
  <1>2. CASE UNCHANGED roles
    BY <1>1, <1>2 DEF roles
  <1>3. ASSUME NEW r \in Roles, NEW P \in SUBSET Perms, CreateRole(w, r, P) PROVE Stands
    BY <1>1, <1>2, <1>3 DEF CreateRole, Begin
  <1>4. ASSUME NEW r \in Roles, NEW P \in SUBSET Perms, UpdateRole(w, r, P) PROVE Stands
    <2>1. CASE UNCHANGED roles
      BY <1>2, <2>1
    <2>2. CASE /\ carries' = [carries EXCEPT ![r] = {}]
               /\ lost' = [lost EXCEPT !.carried[r] = [q \in Perms |-> IF q \in carries[r] THEN PermTTL
                                                                       ELSE @[q]]]
               /\ UNCHANGED <<made, held, plan, logins, devices, caches>>
      <3>1. \A s \in Roles, q \in Perms :
               lost'.carried[s][q] = IF s = r /\ q \in carries[r] THEN PermTTL ELSE lost.carried[s][q]
        BY <2>2, LostCarried DEF Typed, RolesOK
      <3>2. lost'.held = lost.held /\ held' = held
        BY <2>2, LostCarried DEF Typed, RolesOK
      <3>3. \A s \in Roles : s # r => carries'[s] = carries[s]
        BY <2>2 DEF Typed, RolesOK
      <3>. QED
        BY <3>1, <3>2, <3>3 DEF Stands
    <2>. QED
      BY <1>4, <2>1, <2>2, Zenon DEF UpdateRole, Begin
  <1>5. ASSUME NEW op \in {"assign", "unassign", "setRoles"}, NEW u \in Users, NEW R \in SUBSET Roles,
               ChangeRoles(w, op, u, R)
        PROVE  Stands
    <2> DEFINE have == Linked(op, held[u], R)
    <2>1. CASE UNCHANGED roles
      BY <1>2, <2>1
    <2>2. CASE /\ held' = [held EXCEPT ![u] = have]
               /\ lost' = [lost EXCEPT !.held[u] = [r \in Roles |-> IF r \in held[u] \ have THEN PermTTL
                                                                    ELSE @[r]]]
               /\ UNCHANGED <<made, carries, plan, logins, devices, caches>>
      <3> HIDE DEF have
      <3>1. \A v \in Users, r \in Roles :
               lost'.held[v][r] = IF v = u /\ r \in held[u] \ have THEN PermTTL ELSE lost.held[v][r]
        BY <2>2, LostHeld DEF Typed, RolesOK
      <3>2. lost'.carried = lost.carried /\ carries' = carries
        BY <2>2, LostHeld DEF Typed, RolesOK
      <3>3. held'[u] = have /\ \A v \in Users : v # u => held'[v] = held[v]
        BY <2>2 DEF Typed, RolesOK
      <3>. QED
        BY <3>1, <3>2, <3>3 DEF Stands
    <2>. QED
      BY <1>5, <2>1, <2>2, Zenon DEF ChangeRoles, Begin
  <1>6. CASE Grant(w)
    <2>1. \A r \in Roles : carries[r] \subseteq carries'[r]
      BY <1>6 DEF Grant, Typed, RolesOK
    <2>. QED
      BY <1>1, <1>6, <2>1 DEF Grant
  <1>7. CASE Flush(w)
    BY <1>2, <1>7 DEF Flush
  <1>. QED
    BY <1>3, <1>4, <1>5, <1>6, <1>7 DEF RoleRequest

LEMMA GrantsKept ==
  ASSUME Typed, GrantsInv, Stands, NEW w \in Workers, Others(w), Backed(tx[w])',
         CachesOK', GrantsBacked',
         \A u \in Users : \/ cache'[u] = cache[u] \/ cache'[u].left = 0
                         \/ Supported(u, cache'[u].perms, cache'[u].left)
  PROVE  GrantsInv'
  <1>1. Cached'
    <2> SUFFICES ASSUME NEW u \in Users, NEW e, e = cache'[u], e.left > 0
                 PROVE  Supported(u, e.perms, e.left)'
      BY DEF Cached
    <2>1. e \in Entry /\ (e = cache[u] \/ Supported(u, e.perms, e.left))
      BY DEF CachesOK
    <2>2. Supported(u, e.perms, e.left) /\ e.perms \in SUBSET Perms /\ e.left \in 0..PermTTL
      BY <2>1 DEF GrantsInv, Cached, Entry
    <2>3. Supported(u, e.perms, e.left)'
      BY <2>2, SupportStands
    <2>. QED
      BY <2>3
  <1>2. ASSUME NEW v \in Workers \ {w} PROVE Backed(tx[v])'
    <2>1. PICK p, q : /\ p \in Plan /\ p = tx[v] /\ q = tx'[v] /\ Same(p, q)
                      /\ Backed(p) /\ Formed(p, made)
      BY DEF Typed, RowsOK, Others, GrantsInv
    <2>2. SUFFICES ASSUME q.op = "check" PROVE Backed(q)'
      BY <2>1 DEF Backed
    <2>3. q.op = p.op /\ q.step = p.step /\ q.user = p.user /\ q.roles = p.roles /\ q.perms = p.perms
          /\ q.age = p.age
      BY <2>1 DEF Same
    <2>4. p.age \in 0..PermTTL /\ p.perms \in SUBSET Perms /\ p.roles \in SUBSET Roles
          /\ PermTTL - p.age \in 0..PermTTL
      BY <2>1, AccessAssumption DEF Plan
    <2>5. CASE p.step = "perms"
      <3>1. p.user \in Users
        BY <2>1, <2>2, <2>3, <2>5 DEF Formed
      <3>2. \A r \in p.roles : r \in held[p.user] \/ lost.held[p.user][r] >= PermTTL - p.age
        BY <2>1, <2>2, <2>3, <2>5 DEF Backed
      <3>3. \A r \in p.roles : r \in held'[p.user] \/ lost'.held[p.user][r] >= PermTTL - p.age
        BY <2>4, <3>1, <3>2, AccessAssumption DEF Stands
      <3>. QED
        BY <2>3, <2>5, <3>3 DEF Backed
    <2>6. CASE p.step = "store"
      <3>1. p.user \in Users
        BY <2>1, <2>2, <2>3, <2>6 DEF Formed
      <3>2. Supported(p.user, p.perms, PermTTL - p.age)
        BY <2>1, <2>2, <2>3, <2>6 DEF Backed
      <3>3. Supported(p.user, p.perms, PermTTL - p.age)'
        BY <2>4, <3>1, <3>2, SupportStands
      <3>. QED
        BY <2>3, <2>6, <3>3 DEF Backed
    <2>. QED
      BY <2>3, <2>5, <2>6 DEF Backed
  <1>. QED
    BY <1>1, <1>2 DEF GrantsInv

LEMMA GrantsFrame ==
  ASSUME Typed, Typed', GrantsInv, NEW w \in Workers, NEW ops, Frame(w, ops), "check" \notin ops, Stands,
         answer'.by # "cached", \A u \in Users : cache'[u] = cache[u] \/ cache'[u].left = 0
  PROVE  GrantsInv'
  <1>1. Backed(tx[w])'
    BY DEF Frame, Backed
  <1>2. GrantsBacked'
    BY DEF GrantsBacked
  <1>. QED
    BY <1>1, <1>2, GrantsKept DEF Frame, Typed

LEMMA StandsStill == ASSUME UNCHANGED roles PROVE Stands
  BY DEF roles, Stands

\* While the roles stand as they are.
LEMMA Stays ==
  ASSUME UNCHANGED roles, NEW u, NEW P, NEW l
  PROVE  Supported(u, P, l)' <=> Supported(u, P, l)
  BY DEF roles, Supported

LEMMA GrantsCheck ==
  ASSUME Typed, Typed', GrantsInv, NEW w \in Workers, CheckRequest(w)
  PROVE  GrantsInv'
  <1>1. tx[w] \in Plan /\ RowsOK /\ Formed(tx[w], made) /\ Others(w) /\ Stands /\ UNCHANGED roles
        /\ CachesOK' /\ CachesOK /\ Backed(tx[w])
    BY CheckFrame, StandsStill DEF Typed, RowsOK, Frame, GrantsInv
  <1>2. ASSUME NEW p \in Plan, tx'[w] = p, Backed(p), GrantsBacked',
               \A u \in Users : cache'[u] = cache[u] \/ Supported(u, cache'[u].perms, cache'[u].left)
                              \/ cache'[u].left = 0
        PROVE  GrantsInv'
    <2>1. Backed(p)'
      BY <1>1, <1>2, Stays DEF Backed, roles
    <2>2. Backed(tx[w])'
      BY <1>2, <2>1
    <2>. QED
      BY <1>1, <1>2, <2>2, GrantsKept
  <1>3. NoPlan \in Plan /\ Backed(NoPlan)
    BY FreshRow DEF NoPlan, Backed
  <1>4. ASSUME answer'.by # "cached" PROVE GrantsBacked'
    BY <1>4 DEF GrantsBacked
  <1>5. ASSUME NEW p, Goes(w, p), p \in Plan, Backed(p), cache' = cache PROVE GrantsInv'
    <2>1. tx'[w] = p /\ answer'.by # "cached"
      BY <1>1, <1>5 DEF Goes, RowsOK, Silent, None
    <2>. QED
      BY <1>2, <1>4, <1>5, <2>1
  <1>6. ASSUME NEW u \in Users, Check(w, u) PROVE GrantsInv'
    <2> DEFINE q == [NoPlan EXCEPT !.op = "check", !.step = "roles", !.user = u]
    <2>1. CASE /\ cache[u].left > 0 /\ Hits(w, "check", Grants("cached", u, cache[u].perms))
               /\ UNCHANGED <<roles, plan, logins, devices, caches>>
      <3>1. answer'.user = u /\ answer'.perms = cache[u].perms /\ tx' = tx /\ cache' = cache
        BY <2>1 DEF Hits, Grants, caches
      <3>2. Supported(u, cache[u].perms, cache[u].left) /\ cache[u].left \in Nat
        BY <1>1, <2>1, AccessAssumption DEF GrantsInv, Cached, CachesOK, Entry
      <3>3. ASSUME NEW p \in answer'.perms
            PROVE  \E r \in Roles : LatelyHeld(u, r)' /\ LatelyCarried(r, p)'
        <4>1. PICK r \in Roles : /\ r \in held[u] \/ lost.held[u][r] >= cache[u].left
                                 /\ r = Super \/ p \in carries[r] \/ lost.carried[r][p] >= cache[u].left
          BY <3>1, <3>2, <3>3 DEF Supported
        <4>2. r \in held[u] \/ lost.held[u][r] > 0
          <5>1. lost.held[u][r] \in Nat
            BY DEF Typed, RolesOK, LostRow
          <5>. QED
            BY <2>1, <3>2, <4>1, <5>1
        <4>3. ASSUME r # Super, p \notin carries[r] PROVE lost.carried[r][p] > 0
          <5>1. p \in Perms
            BY <1>1, <3>1, <3>3 DEF CachesOK, Entry
          <5>2. lost.carried[r][p] \in Nat
            BY <5>1 DEF Typed, RolesOK, LostRow
          <5>. QED
            BY <2>1, <3>2, <4>1, <4>3, <5>2
        <4>. QED
          BY <1>1, <4>2, <4>3 DEF LatelyHeld, LatelyCarried, roles
      <3>4. GrantsBacked'
        BY <3>1, <3>3 DEF GrantsBacked
      <3>. QED
        BY <1>1, <1>2, <3>1, <3>4
    <2>2. CASE Begin(w, q)
      <3> DEFINE b == q.user \in Users /\ login[q.user] = "deleted"
                 p == [q EXCEPT !.dead = b]
      <3>1. q \in Plan /\ q.step = "roles"
        BY FreshRow DEF Plan, NoPlan, Ops, Steps
      <3> HIDE DEF q
      <3>2. b \in BOOLEAN
        OBVIOUS
      <3> HIDE DEF b
      <3>3. p \in Plan /\ p.step = "roles"
        BY <3>1, <3>2 DEF Plan
      <3>4. tx'[w] = p /\ answer' = Silent /\ cache' = cache
        BY <1>1, <2>2 DEF Begin, RowsOK, b, caches
      <3> HIDE DEF p
      <3>5. Backed(p)
        BY <3>3 DEF Backed
      <3>. QED
        BY <1>2, <1>4, <3>3, <3>4, <3>5 DEF Silent, None
    <2>3. CASE /\ At(w, "check", "store") /\ tx[w].user = u
               /\ Answers(w, Grants("live", u, tx[w].perms))
               /\ cache' = [cache EXCEPT ![u] = IF Lives(w) = 0 THEN NoEntry
                                                ELSE [perms |-> tx[w].perms, left |-> Lives(w)]]
      <3>1. answer'.by # "cached" /\ tx'[w] = NoPlan
        BY <1>1, <2>3 DEF Answers, Grants, RowsOK
      <3>2. Supported(u, tx[w].perms, Lives(w))
        BY <1>1, <2>3 DEF Backed, At, Lives
      <3>3. ASSUME NEW v \in Users
            PROVE  cache'[v] = cache[v] \/ Supported(v, cache'[v].perms, cache'[v].left)
                   \/ cache'[v].left = 0
        BY <1>1, <2>3, <3>2 DEF CachesOK, NoEntry
      <3>. QED
        BY <1>2, <1>3, <1>4, <3>1, <3>3
    <2>4. CASE Answers(w, Grants("token", u, jwt[u].perms)) /\ cache' = cache
      <3>1. answer'.by # "cached" /\ tx'[w] = NoPlan
        BY <1>1, <2>4 DEF Answers, Grants, RowsOK
      <3>. QED
        BY <1>2, <1>3, <1>4, <2>4, <3>1
    <2>. QED
      BY <1>6, <2>1, <2>2, <2>3, <2>4 DEF Check, caches
  <1>7. CASE tx[w].op = "check" /\ Resolve(w)
    <2> DEFINE q == [tx[w] EXCEPT !.step = "perms", !.roles = held[tx[w].user]]
               z == [tx[w] EXCEPT !.step = "store", !.perms = Granted(tx[w].roles)]
    <2>1. CASE tx[w].step = "roles" /\ Goes(w, q) /\ cache' = cache
      <3>1. tx[w].user \in Users
        BY <1>1, <1>7, <2>1 DEF Formed
      <3>2. held[tx[w].user] \subseteq Roles
        BY <3>1 DEF Typed, RolesOK
      <3>3. q \in Plan
        BY <1>1, <3>2 DEF Plan, Steps
      <3>4. q.step = "perms" /\ q.user = tx[w].user /\ q.roles = held[tx[w].user]
        BY <1>1 DEF Plan
      <3> HIDE DEF q
      <3>5. Backed(q)
        BY <3>4 DEF Backed
      <3>. QED
        BY <1>5, <2>1, <3>3, <3>5
    <2>2. CASE tx[w].step = "perms" /\ Goes(w, z) /\ cache' = cache
      <3>1. tx[w].user \in Users /\ tx[w].roles \subseteq Roles /\ tx[w].age \in 0..PermTTL
        BY <1>1, <1>7, <2>2 DEF Formed, Plan
      <3>2. Granted(tx[w].roles) \subseteq Perms
        BY <3>1 DEF Granted, Typed, RolesOK
      <3>3. z \in Plan
        BY <1>1, <3>2 DEF Plan, Steps
      <3>4. z.step = "store" /\ z.user = tx[w].user /\ z.perms = Granted(tx[w].roles) /\ z.age = tx[w].age
        BY <1>1 DEF Plan
      <3> HIDE DEF z
      <3>5. ASSUME NEW p \in Granted(tx[w].roles)
            PROVE  \E r \in Roles : /\ r \in held[tx[w].user]
                                        \/ lost.held[tx[w].user][r] >= PermTTL - tx[w].age
                                    /\ r = Super \/ p \in carries[r]
        <4>1. PICK r \in tx[w].roles : r = Super \/ p \in carries[r]
          BY <3>5 DEF Granted
        <4>. QED
          BY <1>1, <1>7, <2>2, <3>1, <4>1 DEF Backed
      <3>6. Backed(z)
        BY <3>4, <3>5 DEF Backed, Supported
      <3>. QED
        BY <1>5, <2>2, <3>3, <3>6
    <2>. QED
      BY <1>7, <2>1, <2>2 DEF Resolve, caches
  <1>. QED
    BY <1>6, <1>7 DEF CheckRequest

LEMMA TickSupports ==
  ASSUME Typed, Tick, NEW u \in Users, NEW P \in SUBSET Perms, NEW l \in Nat, Supported(u, P, l)
  PROVE  Supported(u, P, Less(l))'
  <1> SUFFICES ASSUME NEW p \in P
               PROVE  \E r \in Roles :
                         /\ r \in held'[u] \/ lost'.held[u][r] >= Less(l)
                         /\ r = Super \/ p \in carries'[r] \/ lost'.carried[r][p] >= Less(l)
    BY DEF Supported, Less
  <1>1. PICK r \in Roles : /\ r \in held[u] \/ lost.held[u][r] >= l
                           /\ r = Super \/ p \in carries[r] \/ lost.carried[r][p] >= l
    BY DEF Supported
  <1>2. lost.held[u][r] \in Nat /\ lost.carried[r][p] \in Nat
    BY DEF Typed, RolesOK, LostRow
  <1>3. lost'.held[u][r] = Less(lost.held[u][r]) /\ lost'.carried[r][p] = Less(lost.carried[r][p])
    BY DEF Tick
  <1>4. \A n \in Nat : n >= l => Less(n) >= Less(l)
    BY DEF Less
  <1>. QED
    BY <1>1, <1>2, <1>3, <1>4 DEF Tick

LEMMA GrantsTick ==
  ASSUME Typed, GrantsInv, Tick
  PROVE  GrantsInv'
  <1>1. Cached'
    <2> SUFFICES ASSUME NEW u \in Users, NEW e, e = cache'[u], e.left > 0
                 PROVE  Supported(u, e.perms, e.left)'
      BY DEF Cached
    <2>1. cache[u] \in Entry /\ cache[u].left \in Nat
      BY AccessAssumption DEF Typed, CachesOK, Entry
    <2>2. ~(cache[u].left <= 1) /\ e = Aged(cache[u])
      BY DEF Tick, NoEntry
    <2>3. e.perms = cache[u].perms /\ e.left = Less(cache[u].left) /\ cache[u].perms \in SUBSET Perms
      BY <2>1, <2>2 DEF Aged, Entry
    <2>4. PICK P, l : P = cache[u].perms /\ l = cache[u].left
      OBVIOUS
    <2>5. Supported(u, P, l)
      BY <2>1, <2>2, <2>4 DEF GrantsInv, Cached
    <2>6. Supported(u, P, Less(l))'
      BY <2>1, <2>3, <2>4, <2>5, TickSupports
    <2>. QED
      BY <2>3, <2>4, <2>6
  <1>2. ASSUME NEW w \in Workers PROVE Backed(tx[w])'
    <2>1. PICK p, q : p \in Plan /\ p = tx[w] /\ q = tx'[w] /\ Backed(p) /\ Formed(p, made)
      BY DEF Typed, RowsOK, GrantsInv
    <2>2. SUFFICES ASSUME q.op = "check", q.step \in {"perms", "store"} PROVE Backed(q)'
      BY <2>1 DEF Backed
    <2>3. /\ q.op = p.op /\ q.step = p.step /\ q.user = p.user /\ q.roles = p.roles /\ q.perms = p.perms
          /\ q.age = IF p.age < PermTTL THEN p.age + 1 ELSE p.age
      BY <2>1, <2>2 DEF Tick, Plan
    <2>4. p.age \in 0..PermTTL /\ p.perms \in SUBSET Perms /\ p.roles \in SUBSET Roles /\ PermTTL \in Nat
      BY <2>1, AccessAssumption DEF Plan
    <2>5. PermTTL - p.age \in Nat /\ PermTTL - q.age = Less(PermTTL - p.age)
      BY <2>3, <2>4 DEF Less
    <2>6. p.user \in Users
      BY <2>1, <2>2, <2>3 DEF Formed
    <2>7. CASE p.step = "perms"
      <3>1. ASSUME NEW r \in p.roles PROVE r \in held'[p.user] \/ lost'.held[p.user][r] >= PermTTL - q.age
        <4>1. r \in held[p.user] \/ lost.held[p.user][r] >= PermTTL - p.age
          BY <2>1, <2>2, <2>3, <2>7, <3>1 DEF Backed
        <4>2. lost.held[p.user][r] \in Nat /\ lost'.held[p.user][r] = Less(lost.held[p.user][r])
          BY <2>4, <2>6, <3>1 DEF Tick, Typed, RolesOK, LostRow
        <4>. QED
          BY <2>5, <4>1, <4>2 DEF Tick, Less
      <3>. QED
        BY <2>3, <2>7, <3>1 DEF Backed
    <2>8. CASE p.step = "store"
      <3>1. Supported(p.user, p.perms, PermTTL - p.age)
        BY <2>1, <2>2, <2>3, <2>8 DEF Backed
      <3>2. PICK l : l = PermTTL - p.age
        OBVIOUS
      <3>3. Supported(p.user, p.perms, Less(l))'
        BY <2>4, <2>5, <2>6, <3>1, <3>2, TickSupports
      <3>. QED
        BY <2>3, <2>5, <2>8, <3>2, <3>3 DEF Backed
    <2>. QED
      BY <2>2, <2>3, <2>7, <2>8
  <1>3. GrantsBacked'
    BY DEF GrantsBacked, Tick, Silent, None
  <1>. QED
    BY <1>1, <1>2, <1>3 DEF GrantsInv

LEMMA GrantsStep == Typed /\ GrantsInv /\ [Next]_vars => GrantsInv'
  <1> SUFFICES ASSUME Typed, GrantsInv, [Next]_vars PROVE GrantsInv'
    OBVIOUS
  <1>0. Typed' /\ (\A a : answer' = a /\ a = Silent => answer'.by # "cached")
    BY TypedStep DEF Silent, None
  <1>1. CASE UNCHANGED vars
    BY <1>1 DEF GrantsInv, Cached, Backed, Supported, GrantsBacked, LatelyHeld, LatelyCarried, vars, roles,
                caches
  <1>2. ASSUME NEW w \in Workers, Request(w) PROVE GrantsInv'
    <2>1. CASE RoleRequest(w)
      <3>1. cache' = cache \/ cache' = Flushed(w)
        <4>1. ASSUME NEW r \in Roles, NEW P \in SUBSET Perms, CreateRole(w, r, P) \/ UpdateRole(w, r, P)
              PROVE  caches' = caches
          BY <4>1, Zenon DEF CreateRole, UpdateRole, Begin
        <4>2. ASSUME NEW op, NEW u, NEW R, ChangeRoles(w, op, u, R) PROVE caches' = caches
          BY <4>2, Zenon DEF ChangeRoles, Begin
        <4>3. Grant(w) => caches' = caches
          BY Zenon DEF Grant
        <4>4. Flush(w) => cache' = Flushed(w)
          BY Zenon DEF Flush
        <4>. QED
          BY <2>1, <4>1, <4>2, <4>3, <4>4 DEF RoleRequest, caches
      <3>2. \A u \in Users : cache'[u] = cache[u] \/ cache'[u].left = 0
        BY <3>1 DEF Flushed, NoEntry
      <3>. QED
        BY <1>0, <2>1, <3>2, RoleFrame, RolesStand, GrantsFrame DEF RoleOps
    <2>2. CASE CheckRequest(w)
      BY <1>0, <2>2, GrantsCheck
    <2>3. CASE LoginRequest(w)
      BY <1>0, <2>3, LoginFrame, StandsStill, GrantsFrame DEF LoginOps, caches
    <2>4. CASE PlanRequest(w)
      <3>1. answer'.by # "cached"
        <4>1. \/ answer' = Silent
              \/ answer' = Pro(planKnown.pro)
              \/ answer' = Pro(tx[w].plan = "Pro")
          BY <2>4, Zenon DEF PlanRequest, CheckPlan, ChangePlan, Begin, Goes, Go, Done, Answers, Hits
        <4>. QED
          BY <1>0, <4>1 DEF Pro, Silent, None
      <3>. QED
        BY <1>0, <2>4, <3>1, PlanFrame, StandsStill, GrantsFrame DEF PlanOps
    <2>5. CASE PushRequest(w)
      BY <1>0, <2>5, PushFrame, StandsStill, GrantsFrame DEF PushOps, DeviceOps, caches
    <2>6. CASE TerminalRequest(w)
      BY <1>0, <2>6, TerminalFrame, StandsStill, GrantsFrame DEF caches
    <2>7. CASE Cut(w)
      <3>1. Others(w) /\ tx'[w] = NoPlan
        BY <2>7, CutFrame DEF Typed
      <3>2. Backed(tx[w])'
        BY <3>1 DEF Backed, NoPlan
      <3>3. UNCHANGED <<roles, caches>> /\ answer' = Silent
        BY <2>7 DEF Cut
      <3>4. GrantsBacked'
        BY <3>3 DEF GrantsBacked, Silent, None
      <3>. QED
        BY <1>0, <3>1, <3>2, <3>3, <3>4, StandsStill, GrantsKept DEF caches, Typed
    <2>. QED
      BY <1>2, <2>1, <2>2, <2>3, <2>4, <2>5, <2>6, <2>7, Requests
  <1>. QED
    BY <1>1, <1>2, GrantsTick DEF Next

----------------------------------------------------------------------------
(* What the caches answer while requests come one at a time and none is cut*)
(* off: what the databases say, but in the middle of a change.             *)

AloneInv == ~raced => \A v, w \in Workers : tx[v].step # "idle" /\ tx[w].step # "idle" => v = w

Exact(p) ==
    /\ p.op = "check" /\ p.step = "perms" => p.roles = held[p.user]
    /\ p.op = "check" /\ p.step = "store" => p.perms = Granted(held[p.user])
    /\ p.op = "checkPlan" /\ p.step = "store" => p.plan = plan
CacheTrue == \A u \in Users : cache[u].left > 0 => cache[u].perms = Granted(held[u])
PlanTrue  == planKnown.left > 0 => planKnown.pro = (plan = "Pro")
Changes(p)  == p.op \in RoleOps /\ p.step \in {"grant", "flush"}
Replans(p)  == p.op = "changePlan" /\ p.step = "forget"
CacheInv ==
    /\ ~raced => \A w \in Workers : Exact(tx[w])
    /\ ~raced /\ ~cut => /\ (\E w \in Workers : Changes(tx[w])) \/ CacheTrue
                         /\ (\E w \in Workers : Replans(tx[w])) \/ PlanTrue
    /\ CachesExact

\* A request that overlapped no other is alone, and so it stays.
LEMMA AloneThen ==
  ASSUME AloneInv, NEW w \in Workers, NEW ops, Frame(w, ops), ~raced'
  PROVE  ~raced /\ \A v \in Workers \ {w} : tx[v].step = "idle" /\ tx'[v].step = "idle"
  <1>1. ~raced /\ \A v \in Workers \ {w} : tx[v].step = "idle"
    BY DEF Frame, Overlaps, AloneInv
  <1>2. \A v \in Workers \ {w} : tx'[v].step = "idle"
    BY <1>1 DEF Frame, Others, Same
  <1>. QED
    BY <1>1, <1>2

\* It finds the caches true, or is changing what they hold.
LEMMA FoundTrue ==
  ASSUME AloneInv, CacheInv, NEW w \in Workers, NEW ops, Frame(w, ops), ~raced'
  PROVE  /\ ~raced /\ \A v \in Workers \ {w} : tx[v].step = "idle" /\ tx'[v].step = "idle"
         /\ Exact(tx[w])
         /\ ~cut => (Changes(tx[w]) \/ CacheTrue) /\ (Replans(tx[w]) \/ PlanTrue)
  <1>1. ~raced /\ \A v \in Workers \ {w} : tx[v].step = "idle" /\ tx'[v].step = "idle"
    BY AloneThen
  <1>2. \A v \in Workers : Changes(tx[v]) \/ Replans(tx[v]) => v = w
    BY <1>1 DEF Changes, Replans
  <1>. QED
    BY <1>1, <1>2 DEF CacheInv

LEMMA LeftTrue ==
  ASSUME AloneInv, CacheInv, NEW w \in Workers, NEW ops, Frame(w, ops),
         ~raced' => Exact(tx[w])',
         ~raced' /\ ~cut => (Changes(tx[w]) \/ CacheTrue)' /\ (Replans(tx[w]) \/ PlanTrue)',
         CachesExact'
  PROVE  CacheInv'
  <1>1. ASSUME ~raced', NEW v \in Workers PROVE Exact(tx[v])'
    <2>1. CASE v # w
      BY <1>1, <2>1, FoundTrue DEF Exact
    <2>. QED
      BY <1>1, <2>1
  <1>2. cut' = cut
    BY DEF Frame
  <1>. QED
    BY <1>1, <1>2 DEF CacheInv

LEMMA AloneStep == Typed /\ AloneInv /\ [Next]_vars => AloneInv'
  <1> SUFFICES ASSUME Typed, AloneInv, [Next]_vars PROVE AloneInv'
    OBVIOUS
  <1>1. CASE UNCHANGED vars
    BY <1>1 DEF AloneInv, vars
  <1>2. CASE Tick
    <2>1. \A w \in Workers : tx'[w].step = tx[w].step
      BY <1>2 DEF Tick, Typed, RowsOK, Plan
    <2>. QED
      BY <1>2, <2>1 DEF AloneInv, Tick
  <1>3. ASSUME NEW w \in Workers, Others(w), IF tx[w].step = "idle" THEN Overlaps(w) ELSE raced' = raced
        PROVE  AloneInv'
    <2>1. ASSUME ~raced', NEW v \in Workers \ {w} PROVE tx'[v].step = "idle"
      <3>1. ~raced /\ tx[v].step = "idle"
        BY <1>3, <2>1 DEF AloneInv, Overlaps
      <3>. QED
        BY <1>3, <3>1 DEF Others, Same
    <2>. QED
      BY <2>1 DEF AloneInv
  <1>4. ASSUME NEW w \in Workers, Request(w) PROVE AloneInv'
    <2>1. CASE Cut(w)
      BY <1>3, <2>1, CutFrame DEF Typed, Cut
    <2>2. CASE \E ops : Frame(w, ops)
      BY <1>3, <2>2 DEF Frame
    <2>. QED
      BY <1>4, <2>1, <2>2, Requests, RoleFrame, CheckFrame, LoginFrame, PlanFrame, PushFrame, TerminalFrame
  <1>. QED
    BY <1>1, <1>2, <1>4 DEF Next

LEMMA GrantRight ==
  ASSUME NEW by \in {"cached", "live", "token"}, NEW u, NEW P, answer' = Grants(by, u, P),
         ~raced' /\ ~cut' /\ by # "token" => P = Granted(held[u])
  PROVE  CachesExact'
  <1>1. answer'.by = by /\ (P = Granted(held[u]) => answer'.right)
    BY Zenon DEF Grants
  <1>2. answer'.by = "token" => CachesExact'
    BY DEF CachesExact
  <1>. QED
    BY <1>1, <1>2, Zenon DEF CachesExact

LEMMA PlanRight ==
  ASSUME NEW pro, answer' = Pro(pro), ~raced' /\ ~cut' => pro = (plan = "Pro")
  PROVE  CachesExact'
  <1>1. pro = (plan = "Pro") => answer'.right
    BY Zenon DEF Pro
  <1>. QED
    BY <1>1, Zenon DEF CachesExact

LEMMA SilentExact == answer' = Silent => CachesExact'
  BY DEF Silent, CachesExact, None

\* Requests of the other kinds leave the caches alone.
LEMMA CacheKept ==
  ASSUME AloneInv, CacheInv, NEW w \in Workers, NEW ops, Frame(w, ops),
         ops \cap (RoleOps \cup PlanOps \cup {"check"}) = {},
         UNCHANGED <<roles, plan, caches>>, answer' = Silent
  PROVE  CacheInv'
  <1>1. Exact(tx[w])'
    BY DEF Frame, Exact, PlanOps
  <1>2. ~Changes(tx[w]) /\ ~Replans(tx[w])
    BY DEF Frame, Changes, Replans, PlanOps
  <1>3. (CacheTrue => CacheTrue') /\ (PlanTrue => PlanTrue')
    BY DEF CacheTrue, PlanTrue, roles, caches, Granted
  <1>. QED
    BY <1>1, <1>2, <1>3, FoundTrue, LeftTrue, SilentExact

\* A request that changes roles has not begun to, will flush, or flushes.
LEMMA RoleChanges ==
  ASSUME Typed, NEW w \in Workers, RoleRequest(w)
  PROVE  \/ tx[w].step = "idle" /\ UNCHANGED <<roles, caches>>
         \/ Changes(tx'[w])
         \/ cache' = Flushed(w)
  <1>1. tx[w] \in Plan /\ RowsOK /\ Formed(tx[w], made)
    BY DEF Typed, RowsOK
  <1>2. ASSUME NEW s \in {"grant", "flush"}, Go(w, s), tx[w].op \in RoleOps PROVE Changes(tx'[w])
    <2>1. tx'[w] = [tx[w] EXCEPT !.step = s]
      BY <1>1, <1>2 DEF Go, Goes, RowsOK
    <2>2. tx'[w].op = tx[w].op /\ tx'[w].step = s
      BY <1>1, <2>1 DEF Plan
    <2>. QED
      BY <1>2, <2>2 DEF Changes
  <1>3. ASSUME NEW r \in Roles, NEW P \in SUBSET Perms, CreateRole(w, r, P) \/ UpdateRole(w, r, P),
               tx[w].step # "idle"
        PROVE  Changes(tx'[w])
    BY <1>2, <1>3 DEF CreateRole, UpdateRole, Begin, At, RoleOps
  <1>4. ASSUME NEW op \in {"assign", "unassign", "setRoles"}, NEW u \in Users, NEW R \in SUBSET Roles,
               ChangeRoles(w, op, u, R), tx[w].step # "idle"
        PROVE  Changes(tx'[w])
    BY <1>2, <1>4 DEF ChangeRoles, Begin, At, RoleOps
  <1>5. ASSUME NEW p, Begin(w, p) PROVE tx[w].step = "idle" /\ UNCHANGED <<roles, caches>>
    BY <1>5 DEF Begin
  <1>6. ASSUME NEW r \in Roles, NEW P \in SUBSET Perms, CreateRole(w, r, P) \/ UpdateRole(w, r, P),
               tx[w].step = "idle"
        PROVE  UNCHANGED <<roles, caches>>
    BY <1>5, <1>6, Zenon DEF CreateRole, UpdateRole, At
  <1>7. ASSUME NEW op \in {"assign", "unassign", "setRoles"}, NEW u \in Users, NEW R \in SUBSET Roles,
               ChangeRoles(w, op, u, R), tx[w].step = "idle"
        PROVE  UNCHANGED <<roles, caches>>
    BY <1>5, <1>7, Zenon DEF ChangeRoles, At
  <1>8. CASE Grant(w)
    BY <1>1, <1>2, <1>8 DEF Grant, Formed
  <1>9. CASE Flush(w)
    BY <1>9 DEF Flush
  <1>. QED
    BY <1>3, <1>4, <1>6, <1>7, <1>8, <1>9 DEF RoleRequest

LEMMA CacheRoles == ASSUME Typed, AloneInv, CacheInv, NEW w \in Workers, RoleRequest(w) PROVE CacheInv'
  <1>1. Frame(w, RoleOps) /\ answer' = Silent /\ UNCHANGED <<plan, planKnown>>
    BY RoleFrame
  <1>2. Exact(tx[w])'
    BY <1>1 DEF Frame, Exact, RoleOps
  <1>3. ~Replans(tx[w]) /\ (PlanTrue => PlanTrue')
    BY <1>1 DEF Frame, Replans, RoleOps, PlanTrue
  <1>4. CASE tx[w].step = "idle" /\ UNCHANGED <<roles, caches>>
    <2>1. ~Changes(tx[w]) /\ (CacheTrue => CacheTrue')
      BY <1>4 DEF Changes, CacheTrue, roles, caches, Granted
    <2>. QED
      BY <1>1, <1>2, <1>3, <2>1, FoundTrue, LeftTrue, SilentExact
  <1>5. CASE Changes(tx'[w])
    <2>1. Changes(tx[w])'
      BY <1>5 DEF Changes
    <2>. QED
      BY <1>1, <1>2, <1>3, <2>1, FoundTrue, LeftTrue, SilentExact
  <1>6. CASE cache' = Flushed(w)
    <2>1. CacheTrue'
      BY <1>6 DEF CacheTrue, Flushed, NoEntry
    <2>. QED
      BY <1>1, <1>2, <1>3, <2>1, FoundTrue, LeftTrue, SilentExact
  <1>. QED
    BY <1>4, <1>5, <1>6, RoleChanges

LEMMA CacheChecks == ASSUME Typed, AloneInv, CacheInv, NEW w \in Workers, CheckRequest(w) PROVE CacheInv'
  <1>1. Frame(w, {"check"}) /\ UNCHANGED <<roles, plan, planKnown>>
    BY CheckFrame
  <1>2. tx[w] \in Plan /\ RowsOK /\ cut' = cut
    BY <1>1 DEF Typed, RowsOK, Frame
  <1>3. /\ ~Changes(tx[w]) /\ ~Replans(tx[w])
        /\ PlanTrue => PlanTrue'
        /\ \A R : Granted(R)' = Granted(R)
        /\ held' = held
    BY <1>1 DEF Frame, Changes, Replans, RoleOps, PlanTrue, roles, Granted
  <1>4. ~raced' => Exact(tx[w]) /\ (~cut => CacheTrue /\ PlanTrue)
    BY <1>1, <1>3, FoundTrue
  <1>5. ASSUME ~raced' => Exact(tx[w])', ~raced' /\ ~cut => CacheTrue', CachesExact' PROVE CacheInv'
    BY <1>1, <1>3, <1>4, <1>5, LeftTrue
  <1>6. cache' = cache => (CacheTrue => CacheTrue')
    BY <1>3 DEF CacheTrue
  <1>7. ASSUME tx'[w].op = "check", tx'[w].step \notin {"perms", "store"}, cache' = cache, CachesExact'
        PROVE  CacheInv'
    <2>1. Exact(tx[w])'
      BY <1>7 DEF Exact
    <2>. QED
      BY <1>4, <1>5, <1>6, <1>7, <2>1
  <1>8. ASSUME NEW u \in Users, Check(w, u) PROVE CacheInv'
    <2> DEFINE p == [NoPlan EXCEPT !.op = "check", !.step = "roles", !.user = u]
    <2>1. CASE Begin(w, p)
      <3>1. p \in Plan /\ p.op = "check" /\ p.step = "roles"
        BY FreshRow DEF Plan, Ops, Steps, NoPlan
      <3> HIDE DEF p
      <3>2. Frame(w, {"check"}) /\ answer' = Silent /\ tx'[w].step = "roles" /\ cache' = cache
        BY <1>2, <2>1, <3>1, BeginFrame DEF Begin, caches
      <3>. QED
        BY <1>7, <3>2, SilentExact DEF Frame
    <2>2. CASE /\ cache[u].left > 0 /\ Hits(w, "check", Grants("cached", u, cache[u].perms))
               /\ UNCHANGED <<roles, plan, logins, devices, caches>>
      <3>1. tx' = tx /\ cache' = cache /\ answer' = Grants("cached", u, cache[u].perms)
        BY <2>2 DEF Hits, caches
      <3>2. tx[w].step = "idle"
        BY <2>2 DEF Hits
      <3>3. ~raced' /\ ~cut' => cache[u].perms = Granted(held[u])
        BY <1>2, <1>4, <2>2 DEF CacheTrue
      <3>4. CachesExact'
        BY <3>1, <3>3, GrantRight
      <3>5. Exact(tx[w])'
        BY <3>1, <3>2 DEF Exact
      <3>. QED
        BY <1>4, <1>5, <1>6, <3>1, <3>4, <3>5
    <2>3. CASE /\ At(w, "check", "store") /\ tx[w].user = u
               /\ Answers(w, Grants("live", u, tx[w].perms))
               /\ cache' = [cache EXCEPT ![u] = IF Lives(w) = 0 THEN NoEntry
                                        ELSE [perms |-> tx[w].perms, left |-> Lives(w)]]
      <3>1. tx'[w] = NoPlan /\ answer' = Grants("live", u, tx[w].perms)
        BY <1>2, <2>3 DEF Answers, RowsOK
      <3>2. ~raced' => tx[w].perms = Granted(held[u])
        BY <1>4, <2>3 DEF Exact, At
      <3>3. CachesExact'
        BY <3>1, <3>2, GrantRight
      <3>4. Exact(tx[w])'
        BY <3>1 DEF Exact, NoPlan
      <3>5. ASSUME ~raced', ~cut, NEW v \in Users, cache'[v].left > 0
            PROVE  cache'[v].perms = Granted(held[v])
        <4>1. CASE v # u
          BY <1>4, <2>3, <3>5, <4>1 DEF CacheTrue, Typed, CachesOK
        <4>2. CASE v = u
          BY <2>3, <3>2, <3>5, <4>2 DEF Typed, CachesOK, NoEntry
        <4>. QED
          BY <4>1, <4>2
      <3>6. ~raced' /\ ~cut => CacheTrue'
        BY <1>3, <3>5 DEF CacheTrue
      <3>. QED
        BY <1>5, <3>3, <3>4, <3>6
    <2>4. CASE Answers(w, Grants("token", u, jwt[u].perms)) /\ UNCHANGED <<roles, plan, logins, devices, caches>>
      <3>1. tx'[w] = NoPlan /\ answer' = Grants("token", u, jwt[u].perms) /\ cache' = cache
        BY <1>2, <2>4 DEF Answers, RowsOK, caches
      <3>2. CachesExact'
        BY <3>1, GrantRight
      <3>. QED
        BY <1>7, <3>1, <3>2 DEF NoPlan
    <2>. QED
      BY <1>8, <2>1, <2>2, <2>3, <2>4, Zenon DEF Check, p
  <1>9. CASE tx[w].op = "check" /\ Resolve(w)
    <2> DEFINE p == [tx[w] EXCEPT !.step = "perms", !.roles = held[tx[w].user]]
               q == [tx[w] EXCEPT !.step = "store", !.perms = Granted(tx[w].roles)]
    <2>1. p.op = "check" /\ p.step = "perms" /\ p.user = tx[w].user /\ p.roles = held[tx[w].user]
      BY <1>2, <1>9 DEF Plan
    <2>2. q.op = "check" /\ q.step = "store" /\ q.user = tx[w].user /\ q.perms = Granted(tx[w].roles)
      BY <1>2, <1>9 DEF Plan
    <2> HIDE DEF p, q
    <2>3. CASE Goes(w, p) /\ UNCHANGED <<roles, plan, logins, devices, caches>>
      <3>1. tx'[w] = p /\ answer' = Silent /\ cache' = cache
        BY <1>2, <2>3 DEF Goes, RowsOK, caches
      <3>2. Exact(tx[w])'
        BY <1>3, <2>1, <3>1 DEF Exact
      <3>. QED
        BY <1>4, <1>5, <1>6, <3>1, <3>2, SilentExact
    <2>4. CASE tx[w].step = "perms" /\ Goes(w, q) /\ UNCHANGED <<roles, plan, logins, devices, caches>>
      <3>1. tx'[w] = q /\ answer' = Silent /\ cache' = cache
        BY <1>2, <2>4 DEF Goes, RowsOK, caches
      <3>2. ~raced' => tx[w].roles = held[tx[w].user]
        BY <1>4, <1>9, <2>4 DEF Exact
      <3>3. ~raced' => Exact(tx[w])'
        BY <1>3, <2>2, <3>1, <3>2 DEF Exact
      <3>. QED
        BY <1>4, <1>5, <1>6, <3>1, <3>3, SilentExact
    <2>. QED
      BY <1>9, <2>3, <2>4 DEF Resolve, p, q
  <1>. QED
    BY <1>8, <1>9 DEF CheckRequest

LEMMA CachePlans == ASSUME Typed, AloneInv, CacheInv, NEW w \in Workers, PlanRequest(w) PROVE CacheInv'
  <1>1. Frame(w, PlanOps) /\ UNCHANGED <<roles, cache>>
    BY PlanFrame
  <1>2. tx[w] \in Plan /\ RowsOK /\ cut' = cut
    BY <1>1 DEF Typed, RowsOK, Frame
  <1>3. ~Changes(tx[w]) /\ (CacheTrue => CacheTrue')
    BY <1>1 DEF Frame, Changes, RoleOps, PlanOps, CacheTrue, roles, Granted
  <1>4. ~raced' => Exact(tx[w]) /\ (~cut => CacheTrue /\ (Replans(tx[w]) \/ PlanTrue))
    BY <1>1, <1>3, FoundTrue
  <1>5. ASSUME ~raced' => Exact(tx[w])', ~raced' /\ ~cut => (Replans(tx[w]) \/ PlanTrue)', CachesExact'
        PROVE  CacheInv'
    BY <1>1, <1>3, <1>4, <1>5, LeftTrue
  <1>6. ASSUME NEW p \in Plan, p.op \in PlanOps, p.step # "store", Begin(w, p) PROVE CacheInv'
    <2>1. Frame(w, PlanOps) /\ answer' = Silent /\ tx'[w].step = p.step
      BY <1>2, <1>6, BeginFrame
    <2>2. tx[w].step = "idle" /\ plan' = plan /\ planKnown' = planKnown
      BY <1>6 DEF Begin, caches
    <2>3. ~Replans(tx[w]) /\ (PlanTrue => PlanTrue')
      BY <2>2 DEF Replans, PlanTrue
    <2>4. Exact(tx[w])'
      BY <1>6, <2>1 DEF Exact, Frame, PlanOps
    <2>. QED
      BY <1>4, <1>5, <2>1, <2>3, <2>4, SilentExact
  <1>7. CASE CheckPlan(w)
    <2> DEFINE p == [NoPlan EXCEPT !.op = "checkPlan", !.step = "plan"]
               q == [tx[w] EXCEPT !.step = "store", !.plan = plan]
               pro == tx[w].plan = "Pro"
    <2>1. p \in Plan /\ p.op \in PlanOps /\ p.step = "plan"
      BY FreshRow DEF Plan, NoPlan, Ops, PlanOps, Steps
    <2>2. q.op = tx[w].op /\ q.step = "store" /\ q.plan = plan
      BY <1>2 DEF Plan
    <2> HIDE DEF p, q
    <2>3. CASE Begin(w, p)
      BY <1>6, <2>1, <2>3
    <2>4. CASE /\ planKnown.left > 0 /\ Hits(w, "checkPlan", Pro(planKnown.pro))
               /\ UNCHANGED <<roles, plan, logins, devices, caches>>
      <3>1. /\ tx' = tx /\ tx[w].step = "idle" /\ planKnown' = planKnown /\ plan' = plan
            /\ answer' = Pro(planKnown.pro)
        BY <2>4 DEF Hits, caches
      <3>2. ~Replans(tx[w]) /\ (PlanTrue => PlanTrue')
        BY <3>1 DEF Replans, PlanTrue
      <3>3. ~raced' /\ ~cut' => planKnown.pro = (plan = "Pro")
        BY <1>2, <1>4, <2>4, <3>2, Zenon DEF PlanTrue
      <3>4. CachesExact'
        BY <3>1, <3>3, PlanRight, Zenon
      <3>5. Exact(tx[w])'
        BY <3>1 DEF Exact
      <3>. QED
        BY <1>4, <1>5, <3>2, <3>4, <3>5
    <2>5. CASE /\ At(w, "checkPlan", "plan") /\ Goes(w, q)
               /\ UNCHANGED <<roles, plan, logins, devices, caches>>
      <3>1. tx'[w] = q /\ answer' = Silent /\ plan' = plan /\ planKnown' = planKnown
        BY <1>2, <2>5 DEF Goes, RowsOK, caches
      <3>2. Exact(tx[w])'
        BY <2>2, <2>5, <3>1 DEF Exact, At
      <3>3. ~Replans(tx[w]) /\ (PlanTrue => PlanTrue')
        BY <2>5, <3>1 DEF Replans, PlanTrue, At
      <3>. QED
        BY <1>4, <1>5, <3>1, <3>2, <3>3, SilentExact
    <2>6. CASE /\ At(w, "checkPlan", "store") /\ Answers(w, Pro(pro))
               /\ planKnown' = [pro |-> pro, left |-> PlanTTL]
               /\ UNCHANGED <<roles, plan, logins, devices, cache>>
      <3>1. tx'[w] = NoPlan /\ answer' = Pro(pro) /\ plan' = plan
        BY <1>2, <2>6 DEF Answers, RowsOK
      <3>2. ~raced' => tx[w].plan = plan
        BY <1>4, <2>6 DEF Exact, At
      <3>3. ~raced' => pro = (plan = "Pro")
        BY <3>2
      <3>4. planKnown'.pro = pro
        BY <2>6, Zenon
      <3> HIDE DEF pro
      <3>5. CachesExact'
        BY <3>1, <3>3, PlanRight, Zenon
      <3>6. ~raced' => PlanTrue'
        BY <3>1, <3>3, <3>4, Zenon DEF PlanTrue
      <3>7. Exact(tx[w])'
        BY <3>1 DEF Exact, NoPlan
      <3>. QED
        BY <1>5, <3>5, <3>6, <3>7
    <2>. QED
      BY <1>7, <2>3, <2>4, <2>5, <2>6, Zenon DEF CheckPlan, p, q
  <1>8. ASSUME NEW to \in Plans, ChangePlan(w, to) PROVE CacheInv'
    <2> DEFINE p == [NoPlan EXCEPT !.op = "changePlan", !.step = "write", !.plan = to]
               q == [tx[w] EXCEPT !.step = "forget"]
    <2>1. p \in Plan /\ p.op \in PlanOps /\ p.step = "write"
      BY FreshRow DEF Plan, NoPlan, Ops, PlanOps, Steps
    <2>2. q.op = tx[w].op /\ q.step = "forget"
      BY <1>2 DEF Plan
    <2> HIDE DEF p, q
    <2>3. CASE Begin(w, p)
      BY <1>6, <2>1, <2>3
    <2>4. CASE At(w, "changePlan", "write") /\ Goes(w, q)
      <3>1. tx'[w] = q /\ answer' = Silent
        BY <1>2, <2>4 DEF Goes, RowsOK
      <3>2. Exact(tx[w])' /\ Replans(tx[w])'
        BY <2>2, <2>4, <3>1 DEF Exact, Replans, At
      <3>. QED
        BY <1>5, <3>1, <3>2, SilentExact
    <2>5. CASE Done(w) /\ planKnown' = PlanForgotten
      <3>1. tx'[w] = NoPlan /\ answer' = Silent
        BY <1>2, <2>5 DEF Done, Goes, RowsOK
      <3>2. Exact(tx[w])' /\ PlanTrue'
        BY <2>5, <3>1 DEF Exact, NoPlan, PlanTrue, PlanForgotten
      <3>. QED
        BY <1>5, <3>1, <3>2, SilentExact
    <2>. QED
      BY <1>8, <2>3, <2>4, <2>5, Zenon DEF ChangePlan, Go, p, q
  <1>. QED
    BY <1>7, <1>8 DEF PlanRequest

LEMMA CacheCut == ASSUME Typed, AloneInv, CacheInv, NEW w \in Workers, Cut(w) PROVE CacheInv'
  <1>1. /\ Others(w) /\ tx'[w] = NoPlan /\ cut' = TRUE /\ raced' = raced /\ answer' = Silent
        /\ UNCHANGED <<roles, plan, caches>>
    BY CutFrame DEF Typed, Cut
  <1>2. ASSUME ~raced', NEW v \in Workers PROVE Exact(tx[v])'
    <2>1. CASE v = w
      BY <1>1, <2>1 DEF Exact, NoPlan
    <2>2. CASE v # w
      <3>1. Same(tx[v], tx'[v]) /\ Exact(tx[v])
        BY <1>1, <1>2, <2>2 DEF Others, CacheInv
      <3>2. \A R : Granted(R)' = Granted(R)
        BY <1>1 DEF Granted, roles
      <3>. QED
        BY <1>1, <3>1, <3>2 DEF Same, Exact, roles
    <2>. QED
      BY <2>1, <2>2
  <1>. QED
    BY <1>1, <1>2, SilentExact DEF CacheInv

LEMMA CacheTick == Typed /\ CacheInv /\ Tick => CacheInv'
  <1> SUFFICES ASSUME Typed, CacheInv, Tick PROVE CacheInv'
    OBVIOUS
  <1>1. UNCHANGED <<held, carries, plan, raced, cut>> /\ answer' = Silent
    BY DEF Tick
  <1>2. \A R : Granted(R)' = Granted(R)
    BY <1>1 DEF Granted
  <1>3. ASSUME NEW v \in Workers
        PROVE  (Exact(tx[v]) => Exact(tx[v])') /\ (Changes(tx[v]) => Changes(tx'[v])) /\ (Replans(tx[v]) => Replans(tx'[v]))
    <2>1. tx'[v] = tx[v] \/ tx'[v] = [tx[v] EXCEPT !.age = @ + 1]
      BY DEF Tick
    <2>2. /\ tx'[v].op = tx[v].op /\ tx'[v].step = tx[v].step /\ tx'[v].user = tx[v].user
          /\ tx'[v].roles = tx[v].roles /\ tx'[v].perms = tx[v].perms /\ tx'[v].plan = tx[v].plan
      BY <2>1 DEF Typed, RowsOK, Plan
    <2>. QED
      BY <1>1, <1>2, <2>2 DEF Exact, Changes, Replans
  <1>4. CacheTrue => CacheTrue'
    <2>1. ASSUME CacheTrue, NEW u \in Users, cache'[u].left > 0 PROVE cache'[u].perms = Granted(held[u])
      <3>1. cache[u].left > 0 /\ cache'[u] = Aged(cache[u])
        BY AccessAssumption, <2>1 DEF Tick, NoEntry, Typed, CachesOK, Entry
      <3>2. cache'[u].perms = cache[u].perms
        BY <3>1 DEF Aged, Typed, CachesOK, Entry
      <3>. QED
        BY <2>1, <3>1, <3>2 DEF CacheTrue
    <2>. QED
      BY <1>1, <1>2, <2>1 DEF CacheTrue
  <1>5. PlanTrue => PlanTrue'
    <2>1. planKnown \in PlanRow /\ planKnown' = Aged(planKnown)
      BY DEF Tick, Typed, CachesOK
    <2>2. planKnown'.left = Less(planKnown.left)
      BY <2>1 DEF Aged, PlanRow
    <2>3. planKnown'.pro = planKnown.pro
      BY <2>1, Zenon DEF Aged, PlanRow
    <2>4. planKnown'.left > 0 => planKnown.left > 0
      BY AccessAssumption, <2>1, <2>2 DEF Less, PlanRow
    <2>. QED
      BY <1>1, <2>3, <2>4, Zenon DEF PlanTrue
  <1>. QED
    BY <1>1, <1>3, <1>4, <1>5, SilentExact DEF CacheInv

LEMMA CacheStep == Typed /\ AloneInv /\ CacheInv /\ [Next]_vars => CacheInv'
  <1> SUFFICES ASSUME Typed, AloneInv, CacheInv, [Next]_vars PROVE CacheInv'
    OBVIOUS
  <1>1. CASE UNCHANGED vars
    <2>1. (\A R : Granted(R)' = Granted(R)) /\ CachesExact'
      BY <1>1 DEF Granted, vars, roles, CacheInv, CachesExact
    <2>. QED
      BY <1>1, <2>1 DEF CacheInv, Exact, CacheTrue, PlanTrue, vars, roles, caches
  <1>2. ASSUME NEW w \in Workers, Request(w) PROVE CacheInv'
    <2>1. CASE LoginRequest(w)
      BY <2>1, LoginFrame, CacheKept DEF LoginOps, RoleOps, PlanOps
    <2>2. CASE PushRequest(w)
      BY <2>2, PushFrame, CacheKept DEF PushOps, DeviceOps, RoleOps, PlanOps
    <2>3. CASE TerminalRequest(w)
      BY <2>3, TerminalFrame, CacheKept DEF RoleOps, PlanOps
    <2>. QED
      BY <1>2, <2>1, <2>2, <2>3, Requests, CacheRoles, CacheChecks, CachePlans, CacheCut
  <1>. QED
    BY <1>1, <1>2, CacheTick DEF Next

----------------------------------------------------------------------------
(* Push devices: one that is known has an owner; while requests come one at*)
(* a time and none is cut off, one is active and not allocated, or the     *)
(* other way round, only between the two statements of a registration or of*)
(* a release.                                                              *)

Owned == \A d \in Phones : /\ device[d].active = TRUE => device[d].known # "absent"
                           /\ device[d].known # "absent" => device[d].owner \in Users
Claims(p) ==
    p.op = "register" /\ p.step # "idle" =>
        p.phone \in Phones /\ (p.seen.known # "absent" => device[p.phone].known # "absent")
Settling(p) ==
    p.op \in PushOps /\ p.step # "idle" =>
        /\ p.step = "claim" => p.seen = device[p.phone]
        /\ p.step = "shut" => device[p.phone].allocated = FALSE
        /\ p.step = "allocate" => device[p.phone].active = TRUE
Even(d) == device[d].active = device[d].allocated
Unsettled(p, d) == p.op \in PushOps /\ p.step \in {"allocate", "shut"} /\ p.phone = d
DeviceInv ==
    /\ Owned /\ \A w \in Workers : Claims(tx[w])
    /\ ~raced => \A w \in Workers : Settling(tx[w])
    /\ ~raced /\ ~cut => \A d \in Phones : Even(d) \/ \E w \in Workers : Unsettled(tx[w], d)

LEMMA DeviceFound ==
  ASSUME AloneInv, DeviceInv, NEW w \in Workers, NEW ops, Frame(w, ops), ~raced'
  PROVE  /\ Settling(tx[w]) /\ \A v \in Workers \ {w} : tx'[v].step = "idle"
         /\ ~cut => \A d \in Phones : Even(d) \/ Unsettled(tx[w], d)
  <1>1. ~raced /\ \A v \in Workers \ {w} : tx[v].step = "idle" /\ tx'[v].step = "idle"
    BY AloneThen
  <1>2. \A v \in Workers, d \in Phones : Unsettled(tx[v], d) => v = w
    BY <1>1 DEF Unsettled
  <1>. QED
    BY <1>1, <1>2 DEF DeviceInv

LEMMA DeviceLeft ==
  ASSUME AloneInv, DeviceInv, NEW w \in Workers, NEW ops, Frame(w, ops), Owned', Claims(tx[w])',
         \A d \in Phones : device[d].known # "absent" => device'[d].known # "absent",
         ~raced' => Settling(tx[w])',
         ~raced' /\ ~cut => \A d \in Phones : Even(d)' \/ Unsettled(tx'[w], d)
  PROVE  DeviceInv'
  <1>1. ASSUME NEW v \in Workers PROVE Claims(tx[v])'
    <2>1. CASE v # w
      <3>1. Same(tx[v], tx'[v]) /\ Claims(tx[v])
        BY <2>1 DEF Frame, Others, DeviceInv
      <3>. QED
        BY <3>1 DEF Claims, Same
    <2>. QED
      BY <2>1
  <1>2. ASSUME ~raced', NEW v \in Workers PROVE Settling(tx[v])'
    <2>1. CASE v # w
      BY <1>2, <2>1, DeviceFound DEF Settling
    <2>. QED
      BY <1>2, <2>1
  <1>3. cut' = cut
    BY DEF Frame
  <1>4. ~raced' /\ ~cut' => \A d \in Phones : Even(d)' \/ \E v \in Workers : Unsettled(tx'[v], d)
    BY <1>3
  <1>. QED
    BY <1>1, <1>2, <1>4 DEF DeviceInv

\* Requests of the other kinds leave the devices alone.
LEMMA DeviceKept ==
  ASSUME AloneInv, DeviceInv, NEW w \in Workers, NEW ops, Frame(w, ops), ops \cap PushOps = {},
         device' = device
  PROVE  DeviceInv'
  <1>1. Owned' /\ \A d \in Phones : Even(d)' = Even(d)
    BY DEF DeviceInv, Owned, Even
  <1>2. Claims(tx[w])' /\ Settling(tx[w])'
    BY DEF Frame, Claims, Settling, PushOps, DeviceOps
  <1>3. \A d \in Phones : ~Unsettled(tx[w], d)
    BY DEF Frame, Unsettled
  <1>. QED
    BY <1>1, <1>2, <1>3, DeviceFound, DeviceLeft

LEMMA BeginRow ==
  ASSUME RowsOK, NEW w \in Workers, NEW p \in Plan, Begin(w, p)
  PROVE  /\ tx'[w].op = p.op /\ tx'[w].step = p.step /\ tx'[w].phone = p.phone
         /\ tx'[w].seen = p.seen /\ tx'[w].n = p.n
  <1> DEFINE b == p.user \in Users /\ login[p.user] = "deleted"
             q == [p EXCEPT !.dead = b]
  <1>1. tx'[w] = q
    BY DEF Begin, RowsOK
  <1>2. q.op = p.op /\ q.step = p.step /\ q.phone = p.phone /\ q.seen = p.seen /\ q.n = p.n
    BY DEF Plan
  <1> HIDE DEF q
  <1>. QED
    BY <1>1, <1>2

LEMMA GoRow ==
  ASSUME RowsOK, NEW w \in Workers, NEW s, Go(w, s)
  PROVE  /\ tx'[w].op = tx[w].op /\ tx'[w].step = s /\ tx'[w].phone = tx[w].phone
         /\ tx'[w].seen = tx[w].seen
  <1> DEFINE q == [tx[w] EXCEPT !.step = s]
  <1>1. tx'[w] = q
    BY DEF Go, Goes, RowsOK
  <1>2. q.op = tx[w].op /\ q.step = s /\ q.phone = tx[w].phone /\ q.seen = tx[w].seen
    BY DEF RowsOK, Plan
  <1> HIDE DEF q
  <1>. QED
    BY <1>1, <1>2

\* A step of a request that writes no device and ends, waits, or goes on to one
\* that finds the device as it was read.
LEMMA DeviceSame ==
  ASSUME AloneInv, DeviceInv, NEW w \in Workers, Frame(w, PushOps), device' = device,
         Claims(tx[w])', ~raced' => Settling(tx[w])', tx[w].step \notin {"allocate", "shut"}
  PROVE  DeviceInv'
  <1>1. Owned' /\ \A d \in Phones : Even(d)' = Even(d)
    BY DEF DeviceInv, Owned, Even
  <1>2. \A d \in Phones : ~Unsettled(tx[w], d)
    BY DEF Unsettled
  <1>. QED
    BY <1>1, <1>2, DeviceFound, DeviceLeft

\* A step that writes the row of a device.
LEMMA DeviceWritten ==
  ASSUME Typed, AloneInv, DeviceInv, NEW w \in Workers, Frame(w, PushOps), NEW d \in Phones,
         NEW r \in DeviceRow, device' = [device EXCEPT ![d] = r],
         r.active = TRUE => r.known # "absent", r.known # "absent" => r.owner \in Users,
         device[d].known # "absent" => r.known # "absent",
         Claims(tx[w])', ~raced' => Settling(tx[w])', \A e \in Phones : Unsettled(tx[w], e) => e = d,
         ~raced' /\ ~cut => r.active = r.allocated \/ Unsettled(tx'[w], d)
  PROVE  DeviceInv'
  <1>1. device'[d] = r /\ \A e \in Phones \ {d} : device'[e] = device[e]
    BY DEF Typed, DevicesOK
  <1>2. Owned'
    BY <1>1 DEF DeviceInv, Owned
  <1>3. \A e \in Phones : device[e].known # "absent" => device'[e].known # "absent"
    BY <1>1
  <1>4. ASSUME ~raced', ~cut, NEW e \in Phones PROVE Even(e)' \/ Unsettled(tx'[w], e)
    <2>1. CASE e = d
      BY <1>1, <1>4, <2>1 DEF Even
    <2>2. CASE e # d
      <3>1. Even(e)
        BY <1>4, <2>2, DeviceFound
      <3>. QED
        BY <1>1, <2>2, <3>1 DEF Even
    <2>. QED
      BY <2>1, <2>2
  <1>. QED
    BY <1>2, <1>3, <1>4, DeviceLeft

LEMMA DeviceRegister ==
  ASSUME Typed, AloneInv, DeviceInv, NEW w \in Workers, NEW u \in Users, NEW d \in Phones,
         Register(w, u, d)
  PROVE  DeviceInv'
  <1>1. /\ tx[w] \in Plan /\ RowsOK /\ device[d] \in DeviceRow
        /\ device \in [Phones -> DeviceRow] /\ Claims(tx[w]) /\ Users \subseteq Users \cup {None}
    BY DEF Typed, RowsOK, DevicesOK, DeviceInv
  <1>2. PushRequest(w)
    BY DEF PushRequest
  <1>3. Frame(w, PushOps)
    BY <1>2, PushFrame
  <1> DEFINE p == [NoPlan EXCEPT !.op = "register", !.step = "claim", !.user = u, !.phone = d,
                                 !.seen = device[d]]
             s == [device[d] EXCEPT !.allocated = TRUE]
  <1>4. CASE Begin(w, p)
    <2>1. p \in Plan
      BY <1>1, DeviceRows DEF DeviceOps, Steps
    <2>2. p.op = "register" /\ p.step = "claim" /\ p.phone = d /\ p.seen = device[d]
      BY DEF NoPlan
    <2> HIDE DEF p
    <2>3. tx'[w].op = "register" /\ tx'[w].step = "claim" /\ tx'[w].phone = d /\ tx'[w].seen = device[d]
      BY <1>1, <1>4, <2>1, <2>2, BeginRow
    <2>4. device' = device /\ tx[w].step = "idle"
      BY <1>4 DEF Begin, devices
    <2>5. Claims(tx[w])' /\ Settling(tx[w])'
      BY <2>3, <2>4 DEF Claims, Settling
    <2>. QED
      BY <1>3, <2>4, <2>5, DeviceSame
  <1> HIDE DEF p
  <1>5. CASE /\ At(w, "register", "claim") /\ tx[w].user = u /\ tx[w].phone = d
             /\ device' = [device EXCEPT ![d].known = "print", ![d].active = TRUE,
                        ![d].owner = IF tx[w].seen.known = "token" THEN @ ELSE u]
             /\ IF Takes(tx[w].seen) THEN Go(w, "allocate") ELSE Done(w)
    <2> DEFINE o == IF tx[w].seen.known = "token" THEN device[d].owner ELSE u
    <2>a. o \in Users
      BY <1>1, <1>5 DEF Claims, At, DeviceInv, Owned
    <2>1. device' = [device EXCEPT ![d] = Claimed(device[d], o)]
      BY <1>5, Zenon DEF Claimed
    <2> HIDE DEF o
    <2> DEFINE r == Claimed(device[d], o)
    <2>2. r \in DeviceRow /\ r.known = "print" /\ r.owner = o
      BY <1>1, <2>a, ClaimedRow
    <2>3. r.active = TRUE /\ r.allocated = device[d].allocated
      BY <1>1, <2>a, ClaimedRow
    <2>b. device' = [device EXCEPT ![d] = r]
      BY <2>1
    <2> HIDE DEF r
    <2>4. r.owner \in Users
      BY <2>a, <2>2
    <2>5. \A e \in Phones : ~Unsettled(tx[w], e)
      BY <1>5 DEF Unsettled, At
    <2>6. device'[d] = r
      BY <1>1, <2>b
    <2>7. CASE Takes(tx[w].seen)
      <3>1. tx'[w].op = "register" /\ tx'[w].step = "allocate" /\ tx'[w].phone = d
        BY <1>1, <1>5, <2>7, GoRow DEF At
      <3>2. Claims(tx[w])'
        BY <2>2, <2>6, <3>1 DEF Claims
      <3>3. Settling(tx[w])'
        BY <2>3, <2>6, <3>1 DEF Settling
      <3>4. Unsettled(tx'[w], d)
        BY <3>1 DEF Unsettled, PushOps, DeviceOps
      <3>. QED
        BY <1>3, <2>b, <2>2, <2>4, <2>5, <3>2, <3>3, <3>4, DeviceWritten
    <2>8. CASE ~Takes(tx[w].seen)
      <3>1. tx'[w] = NoPlan
        BY <1>1, <1>5, <2>8 DEF Done, Goes, RowsOK
      <3>2. Claims(tx[w])' /\ Settling(tx[w])'
        BY <3>1 DEF Claims, Settling, NoPlan
      <3>3. ~raced' => tx[w].seen = device[d]
        BY <1>3, <1>5, DeviceFound DEF Settling, At, PushOps, DeviceOps
      <3>4. ~raced' /\ ~cut => device[d].active = device[d].allocated
        BY <1>3, <2>5, DeviceFound DEF Even
      <3>5. ~raced' => device[d].active
        BY <2>8, <3>3, Zenon DEF Takes
      <3>6. device[d].active \in BOOLEAN /\ device[d].allocated \in BOOLEAN
        BY <1>1 DEF DeviceRow
      <3>7. ~raced' /\ ~cut => r.active = r.allocated
        BY <2>3, <3>4, <3>5, <3>6, Zenon
      <3>. QED
        BY <1>3, <2>b, <2>2, <2>4, <2>5, <3>2, <3>7, DeviceWritten
    <2>. QED
      BY <2>7, <2>8
  <1>6. CASE /\ At(w, "register", "allocate") /\ tx[w].user = u /\ tx[w].phone = d
             /\ Done(w) /\ device' = [device EXCEPT ![d].allocated = TRUE]
    <2>1. device' = [device EXCEPT ![d] = s]
      BY <1>6, Zenon
    <2>2. s \in DeviceRow /\ s.known = device[d].known /\ s.owner = device[d].owner
      BY <1>1, AllocatedRow
    <2>3. s.active = device[d].active
      BY <1>1, AllocatedRow
    <2>4. s.allocated = TRUE
      BY <1>1, AllocatedRow
    <2> HIDE DEF s
    <2>5. tx'[w] = NoPlan
      BY <1>1, <1>6 DEF Done, Goes, RowsOK
    <2>6. Claims(tx[w])' /\ Settling(tx[w])'
      BY <2>5 DEF Claims, Settling, NoPlan
    <2>7. \A e \in Phones : Unsettled(tx[w], e) => e = d
      BY <1>6 DEF Unsettled
    <2>8. ~raced' => device[d].active = TRUE
      BY <1>3, <1>6, DeviceFound DEF Settling, At, PushOps, DeviceOps
    <2>9. ~raced' => s.active = s.allocated
      BY <2>3, <2>4, <2>8, Zenon
    <2>10. (s.active = TRUE => s.known # "absent") /\ (s.known # "absent" => s.owner \in Users)
      BY <2>2, <2>3 DEF DeviceInv, Owned
    <2>. QED
      BY <1>3, <2>1, <2>2, <2>6, <2>7, <2>9, <2>10, DeviceWritten
  <1>. QED
    BY <1>4, <1>5, <1>6, Zenon DEF Register, p

LEMMA DeviceRelease ==
  ASSUME Typed, AloneInv, DeviceInv, NEW w \in Workers, NEW u \in Users, NEW d \in Phones,
         NEW op \in {"unregister", "removeDevice"}, Release(w, op, u, d)
  PROVE  DeviceInv'
  <1>1. /\ tx[w] \in Plan /\ RowsOK /\ device[d] \in DeviceRow
        /\ device \in [Phones -> DeviceRow] /\ op \in PushOps /\ op # "register"
    BY DEF Typed, RowsOK, DevicesOK, PushOps, DeviceOps
  <1>2. PushRequest(w)
    BY DEF PushRequest
  <1>3. Frame(w, PushOps)
    BY <1>2, PushFrame
  <1> DEFINE first == IF op = "removeDevice" THEN "silence" ELSE "free"
             p == [NoPlan EXCEPT !.op = op, !.user = u, !.phone = d, !.seen = device[d], !.step = first]
             s == [device[d] EXCEPT !.allocated = FALSE]
             r == [device[d] EXCEPT !.active = FALSE]
  <1>4. ASSUME device' = device, tx[w].step \notin {"allocate", "shut"}, tx'[w].op = op,
               tx'[w].step \in {"silence", "free"}
        PROVE  DeviceInv'
    <2>1. Claims(tx[w])' /\ Settling(tx[w])'
      BY <1>1, <1>4 DEF Claims, Settling
    <2>. QED
      BY <1>3, <1>4, <2>1, DeviceSame
  <1>5. CASE Begin(w, p)
    <2>1. p = [NoPlan EXCEPT !.op = op, !.step = first, !.user = u, !.phone = d, !.seen = device[d]]
      BY DEF NoPlan
    <2>2. op \in DeviceOps /\ first \in {"claim", "silence", "free"} /\ (first = "silence" => op = "removeDevice")
      BY DEF DeviceOps
    <2>3. p.op = op /\ p.step \in {"silence", "free"}
      BY DEF NoPlan
    <2> HIDE DEF p, first
    <2>4. p \in Plan
      BY <1>1, <2>1, <2>2, DeviceRows
    <2>5. tx'[w].op = op /\ tx'[w].step \in {"silence", "free"}
      BY <1>1, <1>5, <2>3, <2>4, BeginRow
    <2>. QED
      BY <1>4, <1>5, <2>5 DEF Begin, devices
  <1> HIDE DEF p
  <1>6. CASE At(w, op, "silence") /\ Unsubscribes(w, d) /\ UNCHANGED <<device, site, told, roles, plan, logins, caches>>
    <2>1. PICK q \in Plan : Goes(w, q) /\ q.step = "free" /\ q.op = tx[w].op
      BY <1>1, <1>6, Unsubscribed DEF Unsubscribing
    <2>2. tx'[w] = q
      BY <1>1, <2>1 DEF Goes, RowsOK
    <2>. QED
      BY <1>4, <1>6, <2>1, <2>2 DEF At
  <1>7. CASE /\ At(w, op, "free") /\ tx[w].phone = d /\ Go(w, "shut")
             /\ device' = [device EXCEPT ![d].allocated = FALSE]
    <2>1. device' = [device EXCEPT ![d] = s]
      BY <1>7, Zenon
    <2>2. s \in DeviceRow /\ s.known = device[d].known /\ s.owner = device[d].owner
      BY <1>1, AllocatedRow
    <2>3. s.active = device[d].active
      BY <1>1, AllocatedRow
    <2>4. s.allocated = FALSE
      BY <1>1, AllocatedRow
    <2> HIDE DEF s
    <2>5. tx'[w].op = op /\ tx'[w].step = "shut" /\ tx'[w].phone = d /\ device'[d] = s
      BY <1>1, <1>7, <2>1, GoRow DEF At
    <2>6. Claims(tx[w])' /\ Settling(tx[w])' /\ Unsettled(tx'[w], d)
      BY <1>1, <2>4, <2>5 DEF Claims, Settling, Unsettled
    <2>7. \A e \in Phones : ~Unsettled(tx[w], e)
      BY <1>7 DEF Unsettled, At
    <2>8. (s.active = TRUE => s.known # "absent") /\ (s.known # "absent" => s.owner \in Users)
      BY <2>2, <2>3 DEF DeviceInv, Owned
    <2>. QED
      BY <1>3, <2>1, <2>2, <2>6, <2>7, <2>8, DeviceWritten
  <1>8. CASE /\ At(w, op, "shut") /\ tx[w].phone = d /\ Done(w)
             /\ device' = [device EXCEPT ![d].active = FALSE]
    <2>1. device' = [device EXCEPT ![d] = r]
      BY <1>8, Zenon
    <2>2. r \in DeviceRow /\ r.known = device[d].known /\ r.owner = device[d].owner
      BY <1>1, ActiveRow
    <2>3. r.active = FALSE
      BY <1>1, ActiveRow
    <2>4. r.allocated = device[d].allocated
      BY <1>1, ActiveRow
    <2> HIDE DEF r
    <2>5. tx'[w] = NoPlan
      BY <1>1, <1>8 DEF Done, Goes, RowsOK
    <2>6. Claims(tx[w])' /\ Settling(tx[w])'
      BY <2>5 DEF Claims, Settling, NoPlan
    <2>7. \A e \in Phones : Unsettled(tx[w], e) => e = d
      BY <1>8 DEF Unsettled
    <2>8. ~raced' => device[d].allocated = FALSE
      BY <1>1, <1>3, <1>8, DeviceFound DEF Settling, At
    <2>9. ~raced' => r.active = r.allocated
      BY <2>3, <2>4, <2>8, Zenon
    <2>10. (r.active = TRUE => r.known # "absent") /\ (r.known # "absent" => r.owner \in Users)
      BY <2>2, <2>3 DEF DeviceInv, Owned
    <2>. QED
      BY <1>3, <2>1, <2>2, <2>6, <2>7, <2>9, <2>10, DeviceWritten
  <1>. QED
    BY <1>5, <1>6, <1>7, <1>8, Zenon DEF Release, p, first

LEMMA DeviceStep == Typed /\ AloneInv /\ DeviceInv /\ [Next]_vars => DeviceInv'
  <1> SUFFICES ASSUME Typed, AloneInv, DeviceInv, [Next]_vars PROVE DeviceInv'
    OBVIOUS
  <1>1. CASE UNCHANGED vars
    BY <1>1 DEF vars, devices, DeviceInv, Owned, Claims, Settling, Even, Unsettled
  <1>2. CASE Tick
    <2>1. UNCHANGED <<device, raced, cut>>
      BY <1>2 DEF Tick, devices
    <2>2. ASSUME NEW v \in Workers
          PROVE  /\ tx'[v].op = tx[v].op /\ tx'[v].step = tx[v].step /\ tx'[v].phone = tx[v].phone
                 /\ tx'[v].seen = tx[v].seen
      <3>1. tx'[v] = tx[v] \/ tx'[v] = [tx[v] EXCEPT !.age = @ + 1]
        BY <1>2 DEF Tick
      <3>. QED
        BY <3>1 DEF Typed, RowsOK, Plan
    <2>. QED
      BY <2>1, <2>2 DEF DeviceInv, Owned, Claims, Settling, Even, Unsettled
  <1>3. ASSUME NEW w \in Workers, Cut(w) PROVE DeviceInv'
    <2>1. /\ Others(w) /\ tx'[w] = NoPlan /\ cut' = TRUE /\ raced' = raced /\ device' = device
      BY <1>3, CutFrame DEF Typed, Cut, devices
    <2>2. Owned'
      BY <2>1 DEF DeviceInv, Owned
    <2>3. ASSUME NEW v \in Workers PROVE Claims(tx[v])' /\ (~raced' => Settling(tx[v])')
      <3>1. CASE v = w
        BY <2>1, <3>1 DEF NoPlan, Claims, Settling
      <3>2. CASE v # w
        <4>1. Same(tx[v], tx'[v]) /\ Claims(tx[v]) /\ (~raced => Settling(tx[v]))
          BY <2>1, <3>2 DEF Others, DeviceInv
        <4>. QED
          BY <2>1, <4>1 DEF Same, Claims, Settling
      <3>. QED
        BY <3>1, <3>2
    <2>. QED
      BY <2>1, <2>2, <2>3 DEF DeviceInv
  <1>4. ASSUME NEW w \in Workers, PushRequest(w) PROVE DeviceInv'
    <2>1. ASSUME NEW u \in Users, NEW d \in Phones, NEW O \in SUBSET Outlets, Listen(w, u, d, O)
          PROVE  DeviceInv'
      <3>1. Frame(w, PushOps)
        BY <1>4, PushFrame
      <3>2. tx' = tx /\ tx[w].step = "idle" /\ device' = device
        BY <2>1 DEF Listen
      <3>3. Claims(tx[w])' /\ Settling(tx[w])'
        BY <3>2 DEF Claims, Settling
      <3>. QED
        BY <3>1, <3>2, <3>3, DeviceSame
    <2>. QED
      BY <1>4, <2>1, DeviceRegister, DeviceRelease DEF PushRequest
  <1>5. ASSUME NEW w \in Workers, Request(w) PROVE DeviceInv'
    <2>1. CASE RoleRequest(w)
      BY <2>1, RoleFrame, DeviceKept DEF RoleOps, PushOps, DeviceOps, devices
    <2>2. CASE CheckRequest(w)
      BY <2>2, CheckFrame, DeviceKept DEF PushOps, DeviceOps, devices
    <2>3. CASE LoginRequest(w)
      BY <2>3, LoginFrame, DeviceKept DEF LoginOps, PushOps, DeviceOps, devices
    <2>4. CASE PlanRequest(w)
      BY <2>4, PlanFrame, DeviceKept DEF PlanOps, PushOps, DeviceOps, devices
    <2>5. CASE TerminalRequest(w)
      BY <2>5, TerminalFrame, DeviceKept DEF PushOps
    <2>. QED
      BY <1>3, <1>4, <1>5, <2>1, <2>2, <2>3, <2>4, <2>5, Requests
  <1>. QED
    BY <1>1, <1>2, <1>5 DEF Next

----------------------------------------------------------------------------
(* Terminals: a number is one device's, and what a device was told is its  *)
(* number; a device that is to take a number past the last has one already.*)

Picked(p) ==
    p.op = "terminal" /\ p.step # "idle" =>
        /\ p.phone \in Phones
        /\ p.step = "take" => /\ p.n \in 1..(Cardinality(Phones) + 1)
                              /\ p.n > Cardinality(Phones) => site[p.phone] # 0
SiteInv ==
    /\ site \in [Phones -> 0..Cardinality(Phones)]
    /\ \A d, e \in Phones : site[d] = site[e] /\ site[d] # 0 => d = e
    /\ \A d \in Phones : told[d] \subseteq {site[d]} \ {0}
    /\ \A w \in Workers : Picked(tx[w])

LEMMA SiteOthers ==
  ASSUME SiteInv, NEW w \in Workers, Others(w), Picked(tx[w])',
         \A d \in Phones : site[d] # 0 => site'[d] # 0
  PROVE  \A v \in Workers : Picked(tx[v])'
  <1>1. ASSUME NEW v \in Workers \ {w} PROVE Picked(tx[v])'
    <2>1. Same(tx[v], tx'[v]) /\ Picked(tx[v])
      BY DEF Others, SiteInv
    <2>. QED
      BY <2>1 DEF Same, Picked
  <1>. QED
    BY <1>1

LEMMA SiteTerminal ==
  ASSUME Typed, SiteInv, NEW w \in Workers, TerminalRequest(w)
  PROVE  SiteInv'
  <1>1. /\ tx[w] \in Plan /\ RowsOK /\ Picked(tx[w]) /\ Cardinality(Phones) \in Nat
        /\ site \in [Phones -> 0..Cardinality(Phones)] /\ told \in [Phones -> SUBSET Nat]
    BY AccessAssumption, FS_CardinalityType DEF Typed, RowsOK, DevicesOK, SiteInv
  <1>2. Others(w)
    BY TerminalFrame DEF Frame
  <1>3. PICK d \in Phones : Terminal(w, d)
    BY DEF TerminalRequest
  <1> DEFINE p == [NoPlan EXCEPT !.op = "terminal", !.step = "pick", !.phone = d]
             q == [tx[w] EXCEPT !.step = "take", !.n = LowestFree]
  <1>4. ASSUME Picked(tx[w])', UNCHANGED <<site, told>> PROVE SiteInv'
    <2>1. \A v \in Workers : Picked(tx[v])'
      BY <1>2, <1>4, SiteOthers
    <2>. QED
      BY <1>4, <2>1 DEF SiteInv
  <1>5. ASSUME Picked(tx[w])', site' = site, site[d] # 0, Tells(d, site[d]) PROVE SiteInv'
    <2>1. \A v \in Workers : Picked(tx[v])'
      BY <1>2, <1>5, SiteOthers
    <2>2. \A e \in Phones : told'[e] \subseteq {site[e]} \ {0}
      BY <1>1, <1>5 DEF Tells, SiteInv
    <2>. QED
      BY <1>5, <2>1, <2>2 DEF SiteInv
  <1>6. CASE site[d] # 0 /\ Hits(w, "terminal", Silent) /\ Tells(d, site[d]) /\ site' = site
    <2>1. Picked(tx[w])'
      BY <1>6 DEF Hits, Picked
    <2>. QED
      BY <1>5, <1>6, <2>1
  <1>7. CASE Begin(w, p)
    <2>1. p \in Plan /\ p.step = "pick" /\ p.phone = d
      BY FreshRow DEF Plan, NoPlan, Ops, DeviceOps, Steps
    <2> HIDE DEF p
    <2>2. tx'[w].step = "pick" /\ tx'[w].phone = d
      BY <1>1, <1>7, <2>1, BeginRow
    <2>3. Picked(tx[w])'
      BY <2>2 DEF Picked
    <2>. QED
      BY <1>4, <1>7, <2>3 DEF Begin, devices
  <1>8. CASE At(w, "terminal", "pick") /\ tx[w].phone = d /\ Goes(w, q) /\ UNCHANGED devices
    <2>1. q.phone = d /\ q.n = LowestFree /\ q.step = "take"
      BY <1>1, <1>8 DEF Plan
    <2> HIDE DEF q
    <2>2. tx'[w] = q
      BY <1>1, <1>8 DEF Goes, RowsOK
    <2>3. /\ LowestFree \in 1..(Cardinality(Phones) + 1)
          /\ LowestFree > Cardinality(Phones) => site[d] # 0
      BY <1>1, LowestFreeIs DEF Typed, DevicesOK
    <2>4. Picked(tx[w])'
      BY <1>8, <2>1, <2>2, <2>3 DEF Picked, devices
    <2>. QED
      BY <1>4, <1>8, <2>4 DEF devices
  <1>9. ASSUME Done(w) PROVE Picked(tx[w])'
    <2>1. tx'[w] = NoPlan
      BY <1>1, <1>9 DEF Done, Goes, RowsOK
    <2>. QED
      BY <2>1 DEF Picked, NoPlan
  <1>10. CASE /\ At(w, "terminal", "take") /\ tx[w].phone = d /\ ~Taken(d, tx[w].n)
              /\ site' = [site EXCEPT ![d] = tx[w].n] /\ Tells(d, tx[w].n) /\ Done(w)
    <2> DEFINE n == tx[w].n
    <2>1. n \in 1..(Cardinality(Phones) + 1) /\ n <= Cardinality(Phones) /\ site[d] = 0
          /\ \A e \in Phones : site[e] # n
      BY <1>1, <1>10 DEF Picked, At, Taken
    <2>2. site' = [site EXCEPT ![d] = n] /\ Tells(d, n)
      BY <1>10
    <2> HIDE DEF n
    <2>3. \A v \in Workers : Picked(tx[v])'
      BY <1>1, <1>2, <1>9, <1>10, <2>1, <2>2, SiteOthers
    <2>4. site' \in [Phones -> 0..Cardinality(Phones)]
      BY <1>1, <2>1, <2>2
    <2>5. \A a, e \in Phones : site'[a] = site'[e] /\ site'[a] # 0 => a = e
      BY <1>1, <2>1, <2>2 DEF SiteInv
    <2>6. \A e \in Phones : told'[e] \subseteq {site'[e]} \ {0}
      BY <1>1, <2>1, <2>2 DEF SiteInv, Tells
    <2>. QED
      BY <2>3, <2>4, <2>5, <2>6 DEF SiteInv
  <1>11. CASE site[d] # 0 /\ Tells(d, site[d]) /\ Done(w) /\ site' = site
    BY <1>5, <1>9, <1>11
  <1>12. CASE At(w, "terminal", "take") /\ tx[w].phone = d /\ Go(w, "pick") /\ UNCHANGED <<site, told>>
    <2>1. tx'[w].step = "pick" /\ tx'[w].phone = d
      BY <1>1, <1>12, GoRow
    <2>2. Picked(tx[w])'
      BY <2>1 DEF Picked
    <2>. QED
      BY <1>4, <1>12, <2>2
  <1> HIDE DEF p, q
  <1>. QED
    BY <1>3, <1>6, <1>7, <1>8, <1>10, <1>11, <1>12 DEF Terminal, p, q

LEMMA SiteStep == Typed /\ SiteInv /\ [Next]_vars => SiteInv'
  <1> SUFFICES ASSUME Typed, SiteInv, [Next]_vars PROVE SiteInv'
    OBVIOUS
  <1>1. CASE UNCHANGED vars
    BY <1>1 DEF vars, devices, SiteInv, Picked
  <1>2. CASE Tick
    <2>1. UNCHANGED <<site, told>>
      BY <1>2 DEF Tick, devices
    <2>2. ASSUME NEW v \in Workers
          PROVE  /\ tx'[v].op = tx[v].op /\ tx'[v].step = tx[v].step /\ tx'[v].phone = tx[v].phone
                 /\ tx'[v].n = tx[v].n
      <3>1. tx'[v] = tx[v] \/ tx'[v] = [tx[v] EXCEPT !.age = @ + 1]
        BY <1>2 DEF Tick
      <3>. QED
        BY <3>1 DEF Typed, RowsOK, Plan
    <2>. QED
      BY <2>1, <2>2 DEF SiteInv, Picked
  <1>3. ASSUME NEW w \in Workers, NEW ops, Frame(w, ops), "terminal" \notin ops, UNCHANGED <<site, told>>
        PROVE  SiteInv'
    <2>1. Others(w) /\ Picked(tx[w])'
      BY <1>3 DEF Frame, Picked
    <2>2. \A v \in Workers : Picked(tx[v])'
      BY <1>3, <2>1, SiteOthers
    <2>. QED
      BY <1>3, <2>2 DEF SiteInv
  <1>4. ASSUME NEW w \in Workers, Request(w) PROVE SiteInv'
    <2>1. CASE RoleRequest(w)
      BY <1>3, <2>1, RoleFrame DEF RoleOps, devices
    <2>2. CASE CheckRequest(w)
      BY <1>3, <2>2, CheckFrame DEF devices
    <2>3. CASE LoginRequest(w)
      BY <1>3, <2>3, LoginFrame DEF LoginOps, devices
    <2>4. CASE PlanRequest(w)
      BY <1>3, <2>4, PlanFrame DEF PlanOps, devices
    <2>5. CASE PushRequest(w)
      BY <1>3, <2>5, PushFrame DEF PushOps
    <2>6. CASE Cut(w)
      <3>1. Others(w) /\ tx'[w] = NoPlan /\ UNCHANGED <<site, told>>
        BY <2>6, CutFrame DEF Typed, Cut, devices
      <3>2. Picked(tx[w])'
        BY <3>1 DEF Picked, NoPlan
      <3>3. \A v \in Workers : Picked(tx[v])'
        BY <3>1, <3>2, SiteOthers
      <3>. QED
        BY <3>1, <3>3 DEF SiteInv
    <2>. QED
      BY <1>4, <2>1, <2>2, <2>3, <2>4, <2>5, <2>6, Requests, SiteTerminal
  <1>. QED
    BY <1>1, <1>2, <1>4 DEF Next

----------------------------------------------------------------------------
(* What holds of every behaviour. *)

AccessInv == /\ Typed /\ LoginInv /\ TopicInv /\ GrantsInv
             /\ AloneInv /\ CacheInv /\ DeviceInv /\ SiteInv

LEMMA AccessInit == Init => AccessInv
  <1> SUFFICES ASSUME Init PROVE AccessInv
    OBVIOUS
  <1>1. Typed /\ \A w \in Workers : tx[w] = NoPlan
    BY TypedInit DEF Init
  <1>2. \A w \in Workers : tx[w].op = "check" /\ tx[w].step = "idle"
    BY <1>1 DEF NoPlan
  <1>3. LoginInv /\ AloneInv
    BY <1>2 DEF LoginInv, Alive, AloneInv
  <1>4. TopicInv
    BY DEF Init, TopicInv
  <1>5. cache = [u \in Users |-> NoEntry] /\ answer = Silent /\ planKnown.left = 0
    BY DEF Init
  <1>6. GrantsInv
    BY <1>2, <1>5 DEF GrantsInv, Cached, Backed, GrantsBacked, NoEntry, Silent, None
  <1>7. CacheInv
    <2>1. CachesExact
      BY <1>5 DEF CachesExact, Silent, None
    <2>. QED
      BY <1>2, <1>5, <2>1 DEF CacheInv, Exact, CacheTrue, PlanTrue, NoEntry
  <1>8. DeviceInv
    <2>1. PICK u \in Users :
            device = [d \in Phones |-> IF d \notin Legacy THEN NoDevice
                        ELSE [known |-> "token", owner |-> u, active |-> TRUE, allocated |-> TRUE]]
      BY Zenon DEF Init
    <2> DEFINE old == [known |-> "token", owner |-> u, active |-> TRUE, allocated |-> TRUE]
    <2>2. \A d \in Phones : device[d] = NoDevice \/ device[d] = old
      BY <2>1
    <2>3. NoDevice.known = "absent" /\ old.known = "token" /\ old.owner = u
      BY DEF NoDevice
    <2>4. NoDevice.active = FALSE
      BY DEF NoDevice
    <2>5. NoDevice.allocated = FALSE
      BY DEF NoDevice
    <2>6. old.active = TRUE
      OBVIOUS
    <2>7. old.allocated = TRUE
      OBVIOUS
    <2> HIDE DEF old
    <2>8. Owned
      BY <2>2, <2>3, <2>4 DEF Owned
    <2>9. \A d \in Phones : Even(d)
      BY <2>2, <2>4, <2>5, <2>6, <2>7 DEF Even
    <2>. QED
      BY <1>2, <2>8, <2>9 DEF DeviceInv, Claims, Settling
  <1>9. SiteInv
    <2>1. Cardinality(Phones) \in Nat
      BY AccessAssumption, FS_CardinalityType
    <2>. QED
      BY <1>2, <2>1 DEF Init, SiteInv, Picked
  <1>. QED
    BY <1>1, <1>3, <1>4, <1>6, <1>7, <1>8, <1>9 DEF AccessInv

LEMMA AccessStep == AccessInv /\ [Next]_vars => AccessInv'
  BY TypedStep, LoginStep, TopicStep, GrantsStep, AloneStep, CacheStep, DeviceStep, SiteStep
     DEF AccessInv

LEMMA AccessAlways == Spec => []AccessInv
  BY AccessInit, AccessStep, PTL DEF Spec

\* Roles, logins, tokens, caches, devices, terminals and the requests in flight
\* keep their types; a user holds only roles that exist, and a terminal number
\* is no greater than the number of devices.
THEOREM AccessTyped == Spec => []TypeOK
<1>1. AccessInv => TypeOK
  BY DEF AccessInv, Typed, RolesOK, LoginsOK, DevicesOK, CachesOK, RunOK, RowsOK, SiteInv, TypeOK
<1>. QED
  BY <1>1, AccessAlways, PTL

\* However resolves and role changes overlap or break off, the cache grants
\* nothing that a role of the user did not carry within the last PermTTL ticks.
THEOREM GrantsStayBacked == Spec => []GrantsBacked
<1>1. AccessInv => GrantsBacked
  BY DEF AccessInv, GrantsInv
<1>. QED
  BY <1>1, AccessAlways, PTL

\* While no two requests overlap and none breaks off, the caches of permissions
\* and of the plan answer what the databases say.
THEOREM CachesStayExact == Spec => []CachesExact
<1>1. AccessInv => CachesExact
  BY DEF AccessInv, CacheInv
<1>. QED
  BY <1>1, AccessAlways, PTL

\* What the caches grant, of permission-cache.ts and plan-check.service.ts.
THEOREM GrantsAreSound == Spec => []GrantsSound
  BY AccessTyped, GrantsStayBacked, CachesStayExact, PTL DEF GrantsSound

\* While no two requests overlap and none breaks off, a push device is active
\* exactly when it is allocated, and every device in use is some user's.
THEOREM DevicesStayAllocated == Spec => []DevicesAllocated
<1>1. AccessInv => DevicesAllocated
  <2> SUFFICES ASSUME AccessInv, ~raced, ~cut, \A w \in Workers : tx[w].step = "idle"
               PROVE  /\ \A d \in Phones : device[d].active = device[d].allocated
                      /\ UNION {Own(u) : u \in Users} = Listed
    BY DEF DevicesAllocated
  <2>1. Owned /\ \A d \in Phones : Even(d)
    BY DEF AccessInv, DeviceInv, Unsettled
  <2>2. ASSUME NEW d \in Phones, device[d].active PROVE device[d].owner \in Users
    <3>1. device[d].active \in BOOLEAN
      BY DEF AccessInv, Typed, DevicesOK, DeviceRow
    <3>2. device[d].active = TRUE
      BY <2>2, <3>1, Zenon
    <3>. QED
      BY <2>1, <3>2 DEF Owned
  <2>3. Listed = {d \in Phones : device[d].active}
    BY <2>1, Zenon DEF Listed, Even
  <2>4. ASSUME NEW d \in Phones PROVE d \in UNION {Own(u) : u \in Users} <=> device[d].active
    <3>1. \A u \in Users : d \in Own(u) <=> device[d].active /\ device[d].owner = u
      BY Zenon DEF Own
    <3>2. d \in UNION {Own(u) : u \in Users} <=> \E u \in Users : d \in Own(u)
      OBVIOUS
    <3>. QED
      BY <2>2, <3>1, <3>2, Zenon
  <2>5. UNION {Own(u) : u \in Users} \subseteq Phones
    BY DEF Own
  <2>6. UNION {Own(u) : u \in Users} = Listed
    BY <2>3, <2>4, <2>5
  <2>. QED
    BY <2>1, <2>6 DEF Even
<1>. QED
  BY <1>1, AccessAlways, PTL

\* However registrations overlap, a terminal is told one number, always the
\* same, and no two terminals are told the same one.
THEOREM TerminalsSettle == Spec => []TerminalSettled
<1>1. AccessInv => TerminalSettled
  BY DEF AccessInv, SiteInv, TerminalSettled
<1>. QED
  BY <1>1, AccessAlways, PTL

\* The push devices and the terminals of a tenant.
THEOREM DevicesAreSound == Spec => []DevicesSound
  BY DevicesStayAllocated, TerminalsSettle, PTL DEF DevicesSound

\* A request that began after its login was deleted ends with no access token.
THEOREM DeletedSignedOut == Spec => SignedOut
<1>1. AccessInv /\ [Next]_vars =>
        [\A u \in Users : jwt'[u] # jwt[u] /\ jwt'[u].left = JwtLife =>
            \E w \in Workers : tx[w].user = u /\ tx[w].step = "issue" /\ ~tx[w].dead]_vars
  BY SignedOutStep DEF AccessInv, SignsOut
<1>. QED
  BY <1>1, AccessAlways, PTL DEF Spec, SignedOut

\* The removal of a device leaves it no topic, whatever its user's roles and
\* outlets were when it was told what to listen to, once the outlets could be
\* read and every unsubscription succeeded; without the outlets, none but those
\* of outlets other than the first.
THEOREM RemovalIsSilent == Spec => RemovalSilences
<1>1. AccessInv /\ [Next]_vars =>
        [\A w \in Workers : LET d == tx[w].phone IN
            tx[w].step = "silence" /\ tx'[w].step = "free" /\ push[d].of \subseteq {tx[w].seen.owner}
                => /\ tx'[w].n = 1 => push'[d].topics = {}
                   /\ tx'[w].n = 2 => push'[d].topics \subseteq
                                         {"outlet"} \X (Outlets \ {Outlet1}) \X Perms]_vars
  BY SilencesStep DEF AccessInv, Silences
<1>. QED
  BY <1>1, AccessAlways, PTL DEF Spec, RemovalSilences

=============================================================================
