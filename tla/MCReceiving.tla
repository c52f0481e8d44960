---------------------------- MODULE MCReceiving ----------------------------
(* Receiving for TLC. *)
EXTENDS Receiving, TLC

CONSTANTS d1, d2, i1, i2, r1, r2, w1, w2

Symmetry == Permutations(Deliveries) \cup Permutations(Invoices)
            \cup Permutations(Returns) \cup Permutations(Workers)

\* The order and its deliveries; what bills them; what is sent back.
Mixed == {
    {"deliver", "takeBack", "editDelivery", "deleteDelivery", "cancelOrder", "deleteOrder", "sell"},
    {"confirm", "cancelOrder", "cancelQuote", "deleteQuote", "deliver", "deleteDelivery",
     "bill", "deleteOrder"},
    {"deliver", "deleteDelivery", "bill", "cancelBill", "editBill", "deleteBill", "settle"},
    {"deliver", "takeBack", "bill", "settle", "return", "cancelReturn", "sell"},
    {"deliver", "bill", "settle", "return", "cancelReturn", "deleteReturn", "editReturn"}}

Billed == {{"deliver", "bill", "settle", "return", "cancelReturn", "deleteReturn"}}
=============================================================================
