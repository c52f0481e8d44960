----------------------------- MODULE MCAccess -----------------------------
(* Access for TLC. *)
EXTENDS Access, TLC

CONSTANTS r0, r1, r2, u1, u2, p1, t1, t2, t3, l1, l2, d1, d2, w1, w2

Symmetry == Permutations(Users) \cup Permutations(Workers)

Mixed == {
    {"createRole", "assign", "check"},
    {"unassign", "check"},
    {"updateRole", "check"},
    {"setRoles", "check"},
    {"login", "refresh", "logout", "deleteLogin"},
    {"login", "check"},
    {"changePlan", "checkPlan"},
    {"register", "unregister", "removeDevice", "changePlan"},
    {"register", "removeDevice", "listen"},
    {"terminal"}}
=============================================================================
