----------------------------- MODULE MCTenancy -----------------------------
(* Tenancy for TLC. *)
EXTENDS Tenancy, TLC

CONSTANTS owner, n1, main, k2, w1, w2

Symmetry == Permutations(Admins)

Included1 == [Lite |-> 1, Basic |-> 1, Pro |-> 2]
Prices    == [Lite |-> 2, Basic |-> 4, Pro |-> 6]
Fees      == [user |-> 1, warehouse |-> 1, loyalty |-> 1]
Discounts == {[kind |-> "fixed", value |-> 3, onPlan |-> TRUE],
              [kind |-> "percentage", value |-> 50, onPlan |-> TRUE],
              [kind |-> "percentage", value |-> 50, onPlan |-> FALSE]}

Tenants == {[vertical |-> "Retail", plan |-> "Lite", status |-> "Active"],
            [vertical |-> "Retail", plan |-> "Basic", status |-> "Active"],
            [vertical |-> "Retail", plan |-> "Pro", status |-> "trial"],
            [vertical |-> "Laundry", plan |-> "Pro", status |-> "Active"]}

Mixed == {
    {"signUp"},
    {"addLogin", "dropLogin", "changePlan"},
    {"addLogin", "password", "assign", "unassign"},
    {"addWarehouse", "dropWarehouse", "stockIn", "stockOut", "changePlan"},
    {"addOutlet", "dropOutlet", "changePlan"},
    {"changePlan", "loyaltyOn", "loyaltyOff", "addOutlet"},
    {"pay", "addOutlet", "dropOutlet"},
    {"customPrice", "changePlan"},
    {"customPrice"}}
=============================================================================
