---------------------------- MODULE MCHeldValue ----------------------------
(* Instances of HeldValue for TLC: a sale paid at the counter and a laundry  *)
(* order, whose points round to zero; three subscriptions: counted without an*)
(* end, counted with one, and for a time.  A checkout asks for one use or for*)
(* the whole quota.                                                          *)
EXTENDS HeldValue

CONSTANTS s1, s2, k1, k2, k3, w1, w2

\* What is explored together: vouchers, subscriptions, milestones.
Mixed == {{"issue", "sell", "reverse", "lapse", s1, s2},
          {"issue", "sell", "reverse", "collect", s1, s2},
          {"subscribe", "sell", "reverse", "cancel", s1, s2, k1},
          {"subscribe", "sell", "reverse", "expire", s1, s2, k2},
          {"subscribe", "sell", "reverse", "collect", s2, k1},
          {"subscribe", "sell", "record", "reverse", s1, k1},
          {"subscribe", "sell", "record", "reverse", "expire", "cancel", s1, k3},
          {"subscribe", "sell", "reverse", "issue", s1, k1, k2},
          {"sell", "reverse", "check", "repeatable", s1, s2},
          {"sell", "subscribe", "check", "restart", s1, s2, k3}}
=============================================================================
