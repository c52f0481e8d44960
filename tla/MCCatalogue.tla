---------------------------- MODULE MCCatalogue ----------------------------
(* Catalogue for TLC: a shirt with two variants, a hat yet to be created, *)
(* with one or none, a soap, and a wash that uses it; two suppliers. *)
EXTENDS Catalogue, TLC

CONSTANTS shirt, hat, soap, wash, v1, v2, v3, acme, bolt, c1, ml, kg, w1, w2

Symmetry == Permutations(Clerks)

Kinds  == (shirt :> "retail") @@ (hat :> "retail") @@ (soap :> "supply") @@ (wash :> "service")
Owners == (v1 :> shirt) @@ (v2 :> shirt) @@ (v3 :> hat)

Line(i, c) == IF i = wash /\ c = soap THEN ml ELSE "none"
\* Whether the stock of the shirt is kept, and which of its variants there are.
Stage(kept, V) ==
    [item |-> [i \in Items |-> [st |-> IF i = hat THEN "absent" ELSE "live", code |-> "none",
         tracked |-> IF i = shirt THEN kept ELSE i = soap, varied |-> i = shirt /\ V # {},
         sup |-> acme, unit |-> ml]],
     variant |-> [v \in Variants |-> [st |-> IF v \in V THEN "live" ELSE "absent",
                                      code |-> "none"]],
     link |-> [i \in Items |-> [x \in Suppliers |->
         IF i = hat THEN "none" ELSE IF x = acme THEN "preferred"
         ELSE IF i = shirt THEN "other" ELSE "none"]],
     line |-> [i \in Items |-> [c \in Items |-> Line(i, c)]],
     rows |-> [i \in Items |-> [k \in Keys |->
         IF \/ i = soap /\ k = "base"
            \/ i = shirt /\ kept /\ k \in {"base"} \cup V THEN 1 ELSE 0]],
     supplier |-> [x \in Suppliers |-> TRUE]]

Stages == {Stage(TRUE, {v1}), Stage(FALSE, {})}

Mixed == {
    {"create", "recode"},
    {"create", "remove"},
    {"recode", "vary"},
    {"source", "dropSupplier"},
    {"vary", "sell"},
    {"label", "compose", "retire", "remove"}}
\* What a plan refuses is asked of the creations and of the sources.
PlansOf == [m \in Mixed |-> IF m \cap {"create", "source"} # {} THEN {"Lite", "Pro"} ELSE {"Pro"}]

\* Recipes that clients send where a removal may follow: none, one with a unit that
\* is not the soap's, and one that names, beside the soap, what is no supply.
Recipe(C, u) == [i \in Items |-> IF i \in C THEN u ELSE "none"]
RecipesOf == [m \in Mixed |-> {NoRecipe} \cup
                  IF "remove" \in m THEN {Recipe({soap}, kg), Recipe({soap, shirt}, ml)} ELSE {}]
=============================================================================
