------------------------------- MODULE MCChatBook -------------------------------
(* Two chats of two accounts with one person: the same handle, different e-mails. *)
EXTENDS ChatBook, TLC

CONSTANTS c1, c2, k1, k2, h1, h2, e1, e2

TheHandle == (c1 :> h1) @@ (c2 :> h1)
TheEmail == (c1 :> e1) @@ (c2 :> e1)
Bound == (c1 :> 2) @@ (c2 :> 1)
\* Bound: preflight looks at the first chat only, and the second is never empty.
OneEarly == analysis[c2][Preflight] = "none" /\ messages[c2]
Symmetry == Permutations(Customers)
=============================================================================
