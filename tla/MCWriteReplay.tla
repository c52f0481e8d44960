--------------------------- MODULE MCWriteReplay ---------------------------
(* Instances of WriteReplay for TLC: a checkout and a plain write, two       *)
(* requests in flight, and the hours it takes a record to expire.            *)
EXTENDS WriteReplay, TLC

CONSTANTS k1, k2, w1, w2

\* Bound: when requests overlap the checkout is explored alone.
CheckoutAlone == Overlap => queuedAt[k2] = NotQueued
=============================================================================
