----------------------------- MODULE MCMediaExtract -----------------------------
(* One chat: a table described by an older version, a photo behind it that the     *)
(* probe does not reach, and one that was not exported and arrives later.          *)
EXTENDS MediaExtract, TLC

CONSTANTS p1, p2

TheChatOf == 1 :> 1 @@ 2 :> 1 @@ 3 :> 1
TheMedia == 1 :> [type |-> "file", mime |-> "sheet", exported |-> TRUE]
            @@ 2 :> [type |-> "photo", mime |-> "other", exported |-> FALSE]
            @@ 3 :> [type |-> "photo", mime |-> "other", exported |-> TRUE]
TheFilters == {{"unknown"}}
Symmetry == Permutations(Procs)

\* Bound: one row of an analysis.
Few == Len(rows[1]) <= 1
=============================================================================
