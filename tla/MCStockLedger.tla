--------------------------- MODULE MCStockLedger ---------------------------
(* Instances of StockLedger for TLC: one outlet, one or two warehouses,      *)
(* quantities of one and two units.                                          *)
EXTENDS StockLedger

CONSTANTS h1, h2

OneHouse  == <<h1>>

Traffic(item, stocked, ops, traffic) ==
    [item |-> item, rows |-> stocked, ops |-> ops, traffic |-> traffic]

\* Everything one at a time, for a retail item and a supply; a supply the
\* outlet never stocked; overlapping sales with reversals and the drain, with
\* adjustments, and with transfers.
Mixed ==
    {Traffic(item, Locs, Ops, "serial") : item \in {"retail", "supply"}} \cup
    {Traffic("supply", Houses, {"sell", "reverse", "adjust", "transfer", "drain"}, "serial"),
     Traffic("retail", Locs, {"sell", "reverse", "drain"}, "overlapping"),
     Traffic("supply", Locs, {"sell", "adjust", "override"}, "overlapping"),
     Traffic("retail", Locs, {"reverse", "sell", "transfer"}, "overlapping")}

Symmetric == Permutations(Workers) \cup Permutations(Sales)
=============================================================================
