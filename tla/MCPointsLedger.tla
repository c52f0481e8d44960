--------------------------- MODULE MCPointsLedger ---------------------------
(* Instances of PointsLedger for TLC: an account with two batches that expire*)
(* one after the other and one that does not, a sale paid at the counter and *)
(* a laundry order.  Two points are redeemed or adjusted at once, so that a  *)
(* draw empties one batch and reaches into the next.                         *)
EXTENDS PointsLedger

CONSTANTS s1, s2, w1, w2

OneEach == [s \in Sales |-> 1]

Of(n, expires) == [left |-> n, expires |-> expires, sale |-> "none", state |-> "live"]
Started == {<<Of(1, "later"), Of(2, "later"), Of(1, "never")>>}

\* The operations that are explored together; with manual ones, or while
\* points expire, one sale is rung up.
Mixed == {{"sell", "reverse", "collect", s1, s2}, {"sell", "pay", "reverse", s1, s2},
          {"sell", "reverse", "expire", s1}, {"redeem", "adjust", "expire"},
          {"redeem", "reverse", "sell", s1}, {"earn", "redeem", "sell", s1}}

Spent == {{"redeem"}}
=============================================================================
