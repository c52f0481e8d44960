------------------------------ MODULE Catalogue ------------------------------
(***************************************************************************)
(* The catalogue: items with their variants, codes, suppliers, recipes and *)
(* the switch that says whether their stock is kept (item.service.ts), the *)
(* removal of a supplier (supplier.service.ts), the checkout that reads    *)
(* the switch (sales.service.ts), and the lists that show items.           *)
(*                                                                         *)
(* Every request is one transaction.  It begins with its first read, which *)
(* fixes what all its reads see, but for its own writes; what it writes    *)
(* commits at once, on the rows as they then are: a write locks its rows   *)
(* to the end, so that the last to commit is the last to write.  One that  *)
(* fails, refused or the victim of a deadlock, writes nothing.             *)
(*                                                                         *)
(* Of a stock row only its existence is kept: how many live rows an item   *)
(* has at its outlet (base), at another one (branch), and for a variant.   *)
(* Variants are known by their SKU; no request names a code twice.         *)
(***************************************************************************)
EXTENDS Integers, FiniteSets

CONSTANTS
    Items, Variants, Suppliers, Codes, Units, Clerks,
    Kind,       \* of an item: "retail", "supply" or "service"
    Owner,      \* the item of a variant
    Default,    \* the supplier of items that name none
    Cap,        \* items its plan allows
    Origins,    \* catalogues there may be at first
    Mixes,      \* sets of operations to consider together
    Plans,      \* of each: the plans the tenant may have
    Recipes,    \* of each: the recipes that clients may send
    MaxRequests \* bound: requests of a behaviour

Calls  == {"create", "recode", "source", "vary", "label", "compose", "retire", "remove",
         "dropSupplier", "sell"}
None == "none"
Keep == "keep"  \* the request does not name it
Places == {"base", "branch"}
Keys == Places \cup Variants
Of(i) == {v \in Variants : Owner[v] = i}

\* link: the junction of items and suppliers; line: the unit of a recipe line
\* of a service that consumes a supply; rows: live stock rows.
ItemRow    == [st: {"absent", "live", "gone"}, code: Codes \cup {None}, tracked: BOOLEAN,
               varied: BOOLEAN, sup: Suppliers \cup {None}, unit: Units]
VariantRow == [st: {"absent", "live", "gone"}, code: Codes \cup {None}]
Links == {"none", "gone", "other", "preferred"}
Lines == {"none", "gone"} \cup Units
Db == [item: [Items -> ItemRow], variant: [Variants -> VariantRow],
       link: [Items -> [Suppliers -> Links]], line: [Items -> [Items -> Lines]],
       rows: [Items -> [Keys -> Nat]], supplier: [Suppliers -> BOOLEAN]]

\* what: what becomes of the variant named; pick: the supplier preferred; list:
\* those sent with it, how: not at all, as a list, as an empty list with a
\* supplier, or as a supplier alone; of: the recipe sent, with the unit of each
\* line, Milliliter where the client names none.
Request == [op: Calls \cup {None}, item: Items \cup {None}, code: Codes \cup {None, Keep},
            track: {"on", "off", Keep}, unit: Units \cup {Keep}, pick: Suppliers \cup {None},
            list: SUBSET Suppliers, how: {Keep, "list", "empty", "legacy"},
            variant: Variants \cup {None}, what: {Keep, "add", "drop", "set"},
            barcode: Codes \cup {None}, of: [Items -> Units \cup {None}], place: Keys]
NoRecipe  == [c \in Items |-> None]
NoRequest == [op |-> None, item |-> None, code |-> Keep, track |-> Keep, unit |-> Keep,
              pick |-> None, list |-> {}, how |-> Keep, variant |-> None, what |-> Keep,
              barcode |-> None, of |-> NoRecipe, place |-> "base"]

ASSUME CatalogueAssumption ==
    /\ None \notin Items \cup Variants \cup Suppliers \cup Codes
    /\ Kind \in [Items -> {"retail", "supply", "service"}] /\ Owner \in [Variants -> Items]
    /\ Default \in Suppliers /\ Plans \in [Mixes -> SUBSET {"Lite", "Basic", "Pro"}] /\ Cap \in Nat
    /\ Recipes \in [Mixes -> SUBSET [Items -> Units \cup {None}]]
    /\ Origins # {} /\ Origins \subseteq Db /\ Mixes \subseteq SUBSET Calls /\ MaxRequests \in Nat
    /\ IsFiniteSet(Items) /\ Items \cap Variants = {} /\ Places \cap Variants = {} /\ Keep \notin Codes
    /\ {None, "gone", Keep} \cap Units = {}

VARIABLES
    mix, plan,  \* the operations of this behaviour, and the tenant's plan
    db,         \* the catalogue
    job,         \* of each clerk: its request and what its reads see
    sent,       \* the items the last write stamped, for the feed
    begun,      \* requests begun
    raced,      \* history: two requests overlapped, not counting checkouts
    dropped,    \* history: suppliers removed
    strayed,    \* history: items whose supplier changed under an empty list
    bare,       \* history: items and variants that turning the switch on left out
    opened,     \* history: items a checkout opened a row for behind a change
    astray,     \* history: recipe lines that were sent for what is no live supply,
                \* or with a unit that was not its supply's
    retired     \* history: items deleted by an edit

ghosts == <<raced, dropped, strayed, bare, opened, retired, astray>>
itemVars   == <<mix, plan, db, job, sent, begun, ghosts>>

NoTx    == [ask |-> NoRequest, seen |-> CHOOSE d \in Origins : TRUE]
AtRest(w) == job[w].ask = NoRequest

ItemsInit ==
    /\ mix \in Mixes /\ plan \in Plans[mix] /\ db \in Origins
    /\ job = [w \in Clerks |-> NoTx]
    /\ sent = {} /\ begun = 0 /\ raced = FALSE
    /\ dropped = {} /\ strayed = {} /\ bare = {} /\ opened = {} /\ retired = {} /\ astray = {}

----------------------------------------------------------------------------
(* What a request reads *)

LiveItems(d)   == {i \in Items : d.item[i].st = "live"}
LiveOf(d, i)   == {v \in Of(i) : d.variant[v].st = "live"}
LinkLive       == {"other", "preferred"}
SourcesOf(d, i) == {s \in Suppliers : d.link[i][s] \in LinkLive}
Preferred(d, i) == {s \in Suppliers : d.link[i][s] = "preferred"}
UsedIn(d, c)   == {i \in Items : d.line[i][c] \in Units}

\* Mutant: barcodes of variants are not looked at.
CodeFreeOfItems(d, i, c) ==
    c \in {None, Keep} \/ \A j \in LiveItems(d) \ {i} : d.item[j].code # c
\* A code is looked for among the other live items and all live variants.
CodeFree(d, i, c) ==
    c \in {None, Keep} \/ /\ \A j \in LiveItems(d) \ {i} : d.item[j].code # c
                          /\ \A v \in Variants : d.variant[v].st = "live" => d.variant[v].code # c
\* A barcode, among the other live variants and all live items.
BarcodeFree(d, v, c) ==
    c = None \/ /\ \A u \in Variants \ {v} : d.variant[u].st = "live" => d.variant[u].code # c
                /\ \A j \in LiveItems(d) : d.item[j].code # c

\* Several suppliers need Pro, but for those the item has.
ListAllowed(d, i, S) == Cardinality(S) > 1 /\ plan # "Pro" => S \subseteq SourcesOf(d, i)

Fits(d, r) ==
    LET i == r.item IN
    CASE r.op = "create" ->
           /\ Cardinality(LiveItems(d)) < Cap
           /\ r.what = "add" => plan # "Lite" /\ BarcodeFree(d, r.variant, r.barcode)
           /\ CodeFree(d, i, r.code) /\ ListAllowed(d, i, r.list)
      [] r.op = "recode" -> CodeFree(d, i, r.code)
      [] r.op = "source" -> r.how = "list" => ListAllowed(d, i, r.list)
      [] r.op = "vary" /\ r.what # Keep ->
           /\ IF r.what = "add" THEN plan # "Lite" /\ d.variant[r.variant].st # "live"
                                ELSE d.variant[r.variant].st = "live"
           /\ r.what # "drop" => BarcodeFree(d, r.variant, r.barcode)
      \* A supplier that is the only source of a live item stays.
      [] r.op = "dropSupplier" -> \A j \in LiveItems(d) : SourcesOf(d, j) # {r.pick}
      \* Kept stock must be there, but a supply may run short.
      [] r.op = "sell" ->
           /\ d.item[i].tracked
           /\ d.rows[i][r.place] = 0 => Kind[i] = "supply" /\ r.place \in Places
      [] OTHER -> TRUE

----------------------------------------------------------------------------
(* What it writes, on the rows d as they are, from what it saw *)

TurnsOff(r, seen) == r.track = "off" /\ seen.item[r.item].tracked
TurnsOn(r, seen)  == r.track = "on" /\ ~seen.item[r.item].tracked

\* syncItemSuppliers, with a list; a supplier alone is preferred in place of
\* the others, which stay, unless it was preferred already.
Listed(links, S, pick) ==
    [s \in Suppliers |-> IF s = pick THEN "preferred" ELSE IF s \in S THEN "other"
                         ELSE IF links[s] \in LinkLive THEN "gone" ELSE links[s]]
Promoted(links, pick) ==
    [s \in Suppliers |-> IF s = pick THEN "preferred"
                         ELSE IF links[s] = "preferred" THEN "other" ELSE links[s]]
Linked(r, seen, links) ==
    IF r.how = "list" THEN Listed(links, r.list, r.pick)
    ELSE IF r.how = "legacy" /\ Preferred(seen, r.item) # {r.pick} THEN Promoted(links, r.pick)
    ELSE links

\* The variants of the item as the request sees them once it has written them.
NowOf(r, seen) ==
    (LiveOf(seen, r.item) \cup IF r.what = "add" THEN {r.variant} ELSE {})
    \ IF r.what = "drop" THEN {r.variant} ELSE {}

\* On, a row is opened for an item without variants, and for every variant if
\* the item had some and one is named.  Otherwise a variant that is added gets
\* one if stock is kept.
Made(r, seen, tracked) ==
    IF ~TurnsOn(r, seen) THEN IF r.what = "add" /\ tracked THEN {r.variant} ELSE {}
    ELSE IF ~seen.item[r.item].varied THEN {"base"}
    ELSE IF r.what = Keep THEN {} ELSE NowOf(r, seen)

Dropped(r, k) == r.what = "drop" /\ k = r.variant

\* Mutant: turning tracking off leaves the rows at other outlets.
RowsKept(r, seen, old, tracked) ==
    [k \in Keys |-> (IF (TurnsOff(r, seen) /\ k # "branch") \/ Dropped(r, k) THEN 0 ELSE old[k])
                    + (IF k \in Made(r, seen, tracked) THEN 1 ELSE 0)]

\* Off, all rows of the item go.
RowsAfter(r, seen, old, tracked) ==
    [k \in Keys |-> (IF TurnsOff(r, seen) \/ Dropped(r, k) THEN 0 ELSE old[k])
                    + (IF k \in Made(r, seen, tracked) THEN 1 ELSE 0)]

\* Whether an item has variants is reset by the count of a deletion.
VariedAfter(r, seen, varied) ==
    IF r.what = "drop" THEN NowOf(r, seen) # {} ELSE varied \/ r.what # Keep

\* A field that the request names.
Rewritten(x, y) == IF y = Keep THEN x ELSE y

\* createMany, for one item.
Created(r, d) ==
    LET i    == r.item
        pick == IF r.pick = None THEN Default ELSE r.pick
        on   == r.track # "off"
        V    == IF r.what = "add" THEN {r.variant} ELSE {}
    IN  [d EXCEPT !.item[i] = [st |-> "live", code |-> Rewritten(None, r.code), tracked |-> on,
                               varied |-> V # {}, sup |-> pick, unit |-> @.unit],
                  !.link[i] = Listed(@, r.list, pick),
                  !.supplier[Default] = @ \/ r.pick = None,
                  !.variant = [v \in Variants |->
                      IF v \in V THEN [st |-> "live", code |-> r.barcode] ELSE @[v]],
                  !.line[i] = r.of,
                  !.rows[i] = [k \in Keys |-> IF on /\ k \in V \cup {"base"} THEN 1 ELSE 0]]

\* update: of an item removed meanwhile as well.
Edited(r, seen, d) ==
    LET i     == r.item
        track == IF r.track = Keep THEN d.item[i].tracked ELSE r.track = "on"
        unit  == Rewritten(d.item[i].unit, r.unit)
        \* a supply's new unit goes to every recipe line that uses it
        relabels == Kind[i] = "supply" /\ unit # seen.item[i].unit
        row == [d.item[i] EXCEPT !.code = Rewritten(@, r.code), !.tracked = track, !.unit = unit,
                                 !.varied = VariedAfter(r, seen, @),
                                 !.sup = IF r.how = Keep THEN @ ELSE r.pick]
    IN  [d EXCEPT !.item[i] = row,
                  !.link[i] = Linked(r, seen, @),
                  !.rows[i] = RowsAfter(r, seen, @, track),
                  !.line = [s \in Items |-> [c \in Items |->
                      IF s = i /\ r.op = "compose"
                      THEN r.of[c]
                      ELSE IF relabels /\ c = i /\ @[s][c] \in Units THEN unit ELSE @[s][c]]],
                  !.variant = [v \in Variants |->
                      IF v # r.variant THEN @[v]
                      ELSE IF r.what = "drop" THEN [@[v] EXCEPT !.st = "gone"]
                      ELSE [st |-> IF r.what = "add" THEN "live" ELSE @[v].st,
                            code |-> r.barcode]]]

\* update with deleted: recipe lines that use the item stay.
Retired(r, d) ==
    LET i == r.item
    IN  [d EXCEPT !.item[i].st = "gone", !.rows[i] = [k \in Keys |-> 0],
                  !.variant = [v \in Variants |->
                      IF v \in LiveOf(d, i) THEN [@[v] EXCEPT !.st = "gone"] ELSE @[v]]]

\* Mutant: the recipes that use the item are forgotten.
RemovedAlone(r, d) ==
    [d EXCEPT !.item[r.item].st = "gone", !.rows[r.item] = [k \in Keys |-> 0]]

\* remove: its recipe lines go, and those that use it; its variants stay.
Removed(r, d) ==
    LET i == r.item
    IN  [d EXCEPT !.item[i].st = "gone", !.rows[i] = [k \in Keys |-> 0],
                  !.line = [s \in Items |-> [c \in Items |->
                      IF i \in {s, c} /\ @[s][c] \in Units THEN "gone" ELSE @[s][c]]]]

SupplierGone(r, d) ==
    [d EXCEPT !.supplier[r.pick] = FALSE,
              !.link = [i \in Items |-> [s \in Suppliers |->
                  IF s = r.pick /\ @[i][s] \in LinkLive THEN "gone" ELSE @[i][s]]]]

\* A checkout takes from the row it found; a supply that has none there gets
\* one, below zero.
Sold(r, seen, d) ==
    IF seen.rows[r.item][r.place] = 0 THEN [d EXCEPT !.rows[r.item][r.place] = @ + 1] ELSE d

After(r, seen, d) ==
    CASE r.op = "create"       -> Created(r, d)
      [] r.op = "retire"       -> Retired(r, d)
      [] r.op = "remove"       -> Removed(r, d)
      [] r.op = "dropSupplier" -> SupplierGone(r, d)
      [] r.op = "sell"         -> Sold(r, seen, d)
      [] OTHER                 -> Edited(r, seen, d)

\* Mutant: relabelling a supply does not stamp the services that use it.
StampedItem(r, seen, d) ==
    IF r.op = "sell" THEN {}
    ELSE IF r.op = "dropSupplier" THEN {i \in Items : seen.link[i][r.pick] \in LinkLive}
    ELSE {r.item}

\* The items whose updatedAt is written.
Stamped(r, seen, d) ==
    CASE r.op = "sell" -> {}
      [] r.op = "dropSupplier" -> {i \in Items : seen.link[i][r.pick] \in LinkLive}
      [] r.op = "label" /\ Kind[r.item] = "supply" /\ r.unit # seen.item[r.item].unit ->
             {r.item} \cup UsedIn(seen, r.item)
      [] OTHER -> {r.item}

\* What turning the switch on leaves without a row: the item itself once it has
\* variants, all of them if none is named, and a first variant that comes with it.
LeftOut(r, seen) ==
    LET had == seen.item[r.item].varied IN
    IF ~TurnsOn(r, seen) THEN {}
    ELSE IF had THEN {r.item} \cup IF r.what = Keep THEN LiveOf(seen, r.item) ELSE {}
    ELSE IF r.what = Keep THEN {} ELSE {r.variant}
GivenRows(r, seen) ==
    IF TurnsOn(r, seen) THEN {r.item} \cup Of(r.item)
    ELSE IF r.what = "add" THEN {r.variant} ELSE {}

----------------------------------------------------------------------------
(* Requests *)

Start(w, r) ==
    /\ begun' = begun + 1 /\ r.op \in mix
    /\ Fits(db, r) /\ job' = [job EXCEPT ![w] = [ask |-> r, seen |-> db]]
    /\ raced' = (raced \/ /\ r.op # "sell"
                          /\ \E v \in Clerks : ~AtRest(v) /\ job[v].ask.op # "sell")
    /\ UNCHANGED <<mix, plan, db, sent, dropped, strayed, bare, opened, retired, astray>>

Ask(op, i) == [NoRequest EXCEPT !.op = op, !.item = i]

\* A recipe may name any item there is, a removed one too, of whatever kind.
Sendable(of) == of \in Recipes[mix] /\ \A c \in Items : of[c] # None => db.item[c].st # "absent"

Create(w, i) ==
    /\ db.item[i].st = "absent" /\ \A v \in Clerks : job[v].ask.item # i
    /\ \E c \in Codes \cup {None}, S \in SUBSET Suppliers, on \in {"on", "off"}, V \in SUBSET Of(i),
          of \in Recipes[mix] :
          \E p \in IF S = {} THEN {None} ELSE S, b \in IF V = {} THEN {None} ELSE Codes :
          /\ Cardinality(V) < 2 /\ Sendable(of) /\ (b = None \/ b # c)
          /\ Start(w, [Ask("create", i) EXCEPT !.code = c, !.list = S, !.pick = p, !.how = "list",
                          !.track = on, !.of = of, !.barcode = b,
                          !.variant = IF V = {} THEN None ELSE CHOOSE v \in V : TRUE,
                          !.what = IF V = {} THEN Keep ELSE "add"])
Recode(w, i) == \E c \in Codes \cup {None} : Start(w, [Ask("recode", i) EXCEPT !.code = c])
Source(w, i) ==
    \E how \in {"list", "empty", "legacy"}, S \in SUBSET Suppliers, p \in Suppliers :
        /\ IF how = "list" THEN p \in S ELSE S = {}
        /\ Start(w, [Ask("source", i) EXCEPT !.how = how, !.list = S, !.pick = p])
Vary(w, i) ==
    \E t \in {"on", "off", Keep} :
        \/ t # Keep /\ Start(w, [Ask("vary", i) EXCEPT !.track = t])
        \/ \E v \in Of(i), what \in {"add", "drop", "set"}, b \in Codes \cup {None} :
               /\ (what = "drop" => b = None) /\ (what = "set" => t = Keep)
               /\ Start(w, [Ask("vary", i) EXCEPT !.track = t, !.variant = v, !.what = what,
                                                  !.barcode = b])
Label(w, i)   == \E u \in Units : Start(w, [Ask("label", i) EXCEPT !.unit = u])
Compose(w, i) == \E of \in Recipes[mix] : Sendable(of) /\ Start(w, [Ask("compose", i) EXCEPT !.of = of])
Retire(w, i) == Start(w, Ask("retire", i))
RemoveItem(w, i) == Start(w, Ask("remove", i))
DropSupplier(w, s) == Start(w, [Ask("dropSupplier", None) EXCEPT !.pick = s])
Checkout(w, i) ==
    /\ i \in LiveItems(db)
    /\ \E k \in Places \cup LiveOf(db, i) : Start(w, [Ask("sell", i) EXCEPT !.place = k])

\* Lines of a recipe that tell of no live supply, or another unit than its own.
Misstated(d, of) == {c \in Items : /\ of[c] # None
                                   /\ \/ Kind[c] # "supply" \/ d.item[c].st # "live"
                                      \/ of[c] # d.item[c].unit}

Finish(w) ==
    LET r == job[w].ask  seen == job[w].seen  i == r.item IN
    /\ ~AtRest(w) /\ job' = [job EXCEPT ![w] = NoTx]
    \* the SKU of a variant that is added is still free
    /\ r.what = "add" => db.variant[r.variant].st \in {"gone", seen.variant[r.variant].st}
    /\ db' = After(r, seen, db) /\ sent' = Stamped(r, seen, db)
    /\ dropped' = dropped \cup IF r.op = "dropSupplier" THEN {r.pick} ELSE {}
    /\ strayed' = IF r.how = Keep THEN strayed
                  ELSE IF r.how = "empty" /\ Preferred(db, i) # {r.pick} THEN strayed \cup {i}
                  ELSE IF r.how = "empty" THEN strayed ELSE strayed \ {i}
    /\ bare' = IF r.op = "vary" THEN (bare \ GivenRows(r, seen)) \cup LeftOut(r, seen) ELSE bare
    /\ opened' = opened \cup IF /\ r.op = "sell" /\ db' # db
                                /\ ~db.item[i].tracked \/ db.rows[i][r.place] > 0
                             THEN {i} ELSE {}
    /\ retired' = retired \cup IF r.op = "retire" THEN {i} ELSE {}
    /\ astray' = IF r.op \in {"create", "compose"}
                 THEN (astray \ ({i} \X Items)) \cup ({i} \X Misstated(db, r.of)) ELSE astray
    /\ UNCHANGED <<mix, plan, begun, raced>>

ItemsNext == \E w \in Clerks :
    \/ Finish(w)
    \/ /\ AtRest(w) /\ begun < MaxRequests
       /\ \/ \E s \in Suppliers : DropSupplier(w, s)
          \/ \E i \in Items : Create(w, i) \/ Checkout(w, i)
          \/ \E i \in {j \in Items : db.item[j].st # "absent"} :
                 \/ Recode(w, i) \/ Source(w, i) \/ Vary(w, i) \/ Label(w, i) \/ Compose(w, i)
                 \/ Retire(w, i) \/ RemoveItem(w, i)

ItemsSpec == ItemsInit /\ [][ItemsNext]_itemVars

----------------------------------------------------------------------------
(* What is read *)

\* An item as the feed tells it: with its variants, its suppliers and, for a
\* service, its recipe.
Shown(d, i) ==
    [item |-> d.item[i], barcode |-> [v \in LiveOf(d, i) |-> d.variant[v].code],
     link |-> [s \in SourcesOf(d, i) |-> d.link[i][s]],
     unit |-> [c \in {x \in Items : Kind[i] = "service" /\ d.line[i][x] \in Units} |-> d.line[i][c]]]
\* Opened, without its recipe.
Detail(d, i) == [Shown(d, i) EXCEPT !.unit = <<>>]
\* The items of a supplier, by the junction, removed ones too.
OfSupplier(d, s) == {i \in Items : d.item[i].st # "absent" /\ s \in SourcesOf(d, i)}
\* How many items a supplier is said to have, and how many the feed says: there,
\* links and items that are gone count as well.
ItemCount(d, s) == Cardinality(OfSupplier(d, s) \cap LiveItems(d))
FeedCount(d, s) == Cardinality({i \in Items : d.link[i][s] # "none"})
\* What counts as stock that may run low at the outlet.
InStock(d) == {i \in LiveItems(d) : \E k \in Keys \ {"branch"} : d.rows[i][k] > 0}

----------------------------------------------------------------------------
(* Properties *)

\* Every variable keeps to its kind (the Prisma rows; requests of the handlers).
ItemsTypeOK ==
    /\ mix \in Mixes /\ plan \in Plans[mix] /\ db \in Db
    /\ \A w \in Clerks : job[w].ask \in Request /\ job[w].seen \in Db
    /\ sent \subseteq Items /\ begun \in 0..MaxRequests /\ raced \in BOOLEAN
    /\ dropped \subseteq Suppliers /\ bare \subseteq Items \cup Variants
    /\ strayed \cup opened \cup retired \subseteq Items /\ astray \subseteq Items \X Items

\* The stock rows of the items follow their switch: without it no row, but for
\* the items opened; with it one, for the item and each of its variants, but for
\* those left out; and none has two.
RowsRight(d, behind, left) == \A i \in LiveItems(d) :
    /\ i \in behind \/ \A k \in Keys : d.rows[i][k] <= IF d.item[i].tracked THEN 1 ELSE 0
    /\ d.item[i].tracked =>
         /\ \A v \in LiveOf(d, i) \ left : d.rows[i][v] > 0
         /\ i \in left \/ d.rows[i]["base"] > 0

\* The stock rows of an item follow its switch (item.service.ts:1320-1404,
\* 1786-1838): while the requests of the catalogue take turns, an item whose
\* stock is not kept has no row, whatever checkouts began before the switch, but
\* for those that found it kept; one whose stock is kept has its row, and each of
\* its variants one, but for what turning it on leaves out; and none has two.
RowsFollow == ~raced => RowsRight(db, opened, bare)

\* Every live item keeps a source, at most one preferred, the one the item names
\* unless a list was sent empty; none is preferred only once that one was removed.
SourcesRight(d, empty, removed) ==
    \A i \in LiveItems(d) :
        /\ SourcesOf(d, i) # {} /\ \A s, t \in Preferred(d, i) : s = t
        /\ \/ i \in empty
           \/ Preferred(d, i) = {d.item[i].sup}
           \/ Preferred(d, i) = {} /\ d.item[i].sup \in removed
\* Every line of a recipe, but for those that were sent astray, is of a supply
\* that was not removed, and carries its unit.
RecipesRight(d, edited, wrong) ==
    \A s, c \in Items : d.line[s][c] \in Units /\ <<s, c>> \notin wrong =>
        /\ Kind[c] = "supply" /\ (d.item[c].st = "live" \/ c \in edited)
        /\ d.line[s][c] = d.item[c].unit

\* An item can always be bought from somewhere (supplier.service.ts:193-212,
\* item.service.ts:42-168), and no change of a supply, its unit or its removal,
\* makes a recipe that told of it rightly tell of it wrongly (item.service.ts:
\* 1271-1297, 1884-1894), unless requests overlapped; what the client sends as a
\* recipe is not looked at, and is excepted as long as it stands.  And the types.
LinksKept ==
    ItemsTypeOK /\ (~raced => SourcesRight(db, strayed, dropped) /\ RecipesRight(db, retired, astray))

\* What a code is on.
Bearers(d, c) == {i \in LiveItems(d) : d.item[i].code = c}
                 \cup {v \in Variants : d.variant[v].st = "live" /\ d.variant[v].code = c}
\* A scanned code leads to one thing, and the tenant has no more items than its
\* plan allows; an item says it has variants exactly when it does.
CodesRight(d) ==
    /\ Cardinality(LiveItems(d)) <= Cap
    /\ \A i \in LiveItems(d) : d.item[i].varied <=> LiveOf(d, i) # {}
    /\ \A c \in Codes : \A x, y \in Bearers(d, c) : x = y

\* Codes stay apart (item.service.ts:801-908, 1184-1217, 1503-1550) but for
\* overlapping requests, which read past each other.
CodesApart == ~raced => CodesRight(db)

\* What no request looks at and every one leaves: an item that is yet to come has
\* no variants, and only a variant that is live has a stock row.
Latent(d) ==
    /\ \A i \in Items : d.item[i].st = "absent" => LiveOf(d, i) = {}
    /\ \A i \in Items, v \in Variants : d.rows[i][v] > 0 => v \in LiveOf(d, i)

\* A behaviour starts in a catalogue that requests in turn have made, and in which
\* no row was left out, opened or lost before.
ASSUME OriginsAssumption == \A d \in Origins :
    RowsRight(d, {}, {}) /\ SourcesRight(d, {}, {}) /\ RecipesRight(d, {}, {}) /\ CodesRight(d) /\ Latent(d)

\* A device hears of every change (supplier.service.ts:214-217, item.service.ts:
\* 1271-1297): a write that changes what the feed says of an item stamps it, but
\* for the services that lose a line with the supply that is removed.
ItemsResent == [][\A i \in Items :
    Shown(db', i) # Shown(db, i) =>
        \/ i \in sent' \/ raced
        \/ \E c \in Items : db.line[i][c] \in Units /\ db'.item[c].st = "gone"]_itemVars
=============================================================================
