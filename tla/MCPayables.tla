---------------------------- MODULE MCPayables ----------------------------
(* Payables for TLC. *)
EXTENDS Payables, TLC

CONSTANTS o1, o2, a1, a2, i1, i2, s1, s2, w1, w2

Symmetry == Permutations(Advances)
            \cup Permutations(Settlements) \cup Permutations(Workers)

\* The advance and its draws; the order and its rate; the settlement of what
\* is left, with and without the draws.
Mixed == {
    {"advance", "editAdvance", "deleteAdvance", "bill", "deleteBill"},
    {"editOrder", "cancelOrder", "deleteOrder", "advance", "bill"},
    {"order", "bill", "cancelBill", "editBill", "deleteBill"},
    {"advance", "bill", "settle", "pay", "cancelBill", "editBill", "deleteBill"},
    {"bill", "settle", "pay", "markPaid", "amend"}}
=============================================================================
