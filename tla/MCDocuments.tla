---------------------------- MODULE MCDocuments ----------------------------
(* Documents for TLC. *)
EXTENDS Documents, TLC

CONSTANTS q1, o1, o2, d1, i1, s1, r1, x1, x2, x3

Given == [s \in Sales |-> CASE s = x1 -> 1 [] s = x2 -> 2 [] s = x3 -> 3]

\* Nothing yet but an order; a chain from the quotation to a return of the paid
\* invoice; the same while part of it is paid, before it was settled, and after
\* the quotation and the unsettled invoice were cancelled.
Chain == [d \in Docs |->
    CASE d \in Quotes      -> Born
      [] d = o1            -> [Born EXCEPT !.up = q1]
      [] d \in Orders      -> Born
      [] d \in Deliveries  -> [Born EXCEPT !.up = o1, !.inv = i1]
      [] d \in Invoices    -> [Born EXCEPT !.up = o1, !.set = s1, !.status = "Paid"]
      [] d \in Settlements -> [Born EXCEPT !.status = "PAID"]
      [] d \in Returns     -> [Born EXCEPT !.inv = i1, !.set = s1, !.status = "COMPLETED"]
      [] d \in Sales       -> NoRow]
PartPaid == [d \in Docs |->
    CASE d \in Returns     -> NoRow
      [] d \in Invoices    -> [Chain[d] EXCEPT !.status = "Partially Paid"]
      [] d \in Settlements -> [Chain[d] EXCEPT !.status = "PARTIAL"]
      [] OTHER -> Chain[d]]
Unsettled == [d \in Docs |->
    CASE d \in Settlements \cup Returns -> NoRow
      [] d \in Invoices -> [Chain[d] EXCEPT !.set = None, !.status = "Completed", !.drawn = TRUE]
      [] OTHER -> Chain[d]]
Withdrawn == [d \in Docs |->
    CASE d \in Quotes     -> [Born EXCEPT !.status = "CANCELLED"]
      [] d \in Invoices   -> [Unsettled[d] EXCEPT !.status = "CANCELLED", !.drawn = FALSE]
      [] d \in Deliveries -> [Unsettled[d] EXCEPT !.inv = None]
      [] OTHER -> Unsettled[d]]
Bare == [d \in Docs |-> IF d = o2 THEN Born ELSE NoRow]
\* An unpaid laundry order, and a newer sale to be delivered.
Rung == [d \in Docs |->
    CASE d = x1 -> [Born EXCEPT !.status = "Partially Paid", !.way = {"laundry"}]
      [] d = x2 -> [Born EXCEPT !.status = "Completed", !.way = {"delivery"}]
      [] OTHER -> NoRow]
Beginnings == {Bare, Unsettled, PartPaid, Chain, Withdrawn, Rung}
=============================================================================
