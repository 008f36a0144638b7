------------------------------ MODULE MCOrderBook ------------------------------
(* OrderBook for TLC: two orders of two lines, every item status. *)
EXTENDS OrderBook, TLC

CONSTANTS o1, o2, l1, l2

MCOrders == {o1, o2}
MCLines == {l1, l2}

\* Orders are interchangeable, and so are the line numbers.
Symmetry == Permutations(MCOrders) \cup Permutations(MCLines)
=============================================================================
