-------------------------- MODULE MCSaleLifecycle --------------------------
(***************************************************************************)
(* Instances of SaleLifecycle for TLC.  A sale owes 2 units, so a tender   *)
(* of 1 leaves it partially paid, and 2 settles it, with change after a 1. *)
(*                                                                         *)
(* Each sale plays a part: settled at the counter, the same for a          *)
(* delivery, a delivery owed money, a laundry order owed money, a sale on  *)
(* Retail Lite.                                                            *)
(***************************************************************************)
EXTENDS SaleLifecycle, FiniteSets, TLC

CONSTANTS walkin, counter, owed, laundry, lite, w1, w2

WorkerSymmetry == Permutations(Workers)

\* Bound: the sales are explored alone, and the two that share a delivery
\* batch together.
Rung == {s \in Sales : Exists(s)}
FewRung == Cardinality(Rung) <= 1 \/ Rung = {counter, owed}
=============================================================================
