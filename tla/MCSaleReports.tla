--------------------------- MODULE MCSaleReports ---------------------------
(***************************************************************************)
(* Instances of SaleReports for TLC.  The sales play the parts they have   *)
(* in MCSaleLifecycle.  Every sale is of day 1; payments that come after   *)
(* the checkout are of day 2.                                              *)
(***************************************************************************)
EXTENDS SaleReports

CONSTANTS walkin, counter, owed, laundry, lite, w1, w2, none, k1, k2, r1, r2, e1

MCDayOf == [s \in Sales |-> 1]
MCPeriods == {{1}, {2}}

WorkerSymmetry == Permutations(Workers) \cup Permutations(Readers)

\* Bound: the sales are explored alone, and the two that share a delivery
\* batch together.
Rung == {s \in Sales : Exists(s)}
Busy == {r \in Readers : desk[r].at # "idle"}
FewAsked ==
    Cardinality(Busy) > 1 =>
        /\ latest <= 2 /\ cache = <<>> /\ \A e \in Expenses : expense[e].st = "absent"
        /\ {desk[r].at : r \in Busy} = {"printing", "building"}
        /\ \A r \in Busy : desk[r].period = {1}
        /\ \A r \in Busy : desk[r].at = "building" => desk[r].todo # First
FewRung == mix = "sales" => Cardinality(Rung) <= 1 \/ Rung = {counter, owed}
=============================================================================
