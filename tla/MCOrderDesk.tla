------------------------------ MODULE MCOrderDesk ------------------------------
(* OrderDesk for TLC: sessions that meet at one order of two or three lines. *)
EXTENDS OrderDesk, TLC

CONSTANTS o1, o2, l1, l2, l3, s1, s2

MCSessions == {s1, s2}

\* Sessions are interchangeable, and so are line numbers.
Symmetry == Permutations(MCSessions) \cup Permutations({l1, l2})
Symmetry3 == Permutations(MCSessions) \cup Permutations({l1, l2, l3})
=============================================================================
