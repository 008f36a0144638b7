------------------------------- MODULE MCTgImport -------------------------------
(* Two accounts that write with one person (c1); a1 was imported before media were  *)
(* recorded, and exports of both, with and without a phone, get into a1's folder.  *)
EXTENDS TgImport, TLC

CONSTANTS a1, a2, c1, c2, p1, p2

TheChatOf == (a1 :> (9 :> c1 @@ 10 :> c1 @@ 11 :> c1 @@ 12 :> c1))
             @@ (a2 :> (9 :> c2 @@ 11 :> c1))
TheKind == (a1 :> (9 :> "media" @@ 10 :> "media" @@ 11 :> "text" @@ 12 :> "media"))
           @@ (a2 :> (9 :> "text" @@ 10 :> "skipped" @@ 11 :> "media" @@ 12 :> "skipped"))

All == {"phone", "user"}
TheFile(a, i, shows) == [of |-> a, upto |-> i, shows |-> shows]
Unshown == TheFile(a2, 11, {"user"})
ThePlaced == {<<TheFile(a1, 11, {}), a1>>, <<TheFile(a1, 12, All), a1>>,
              <<TheFile(a2, 11, All), a1>>, <<Unshown, a1>>}

\* Bounds: the backfill reads the newest export beside one import; the export of a2
\* without a phone is imported with nothing beside it; once a2 is registered or its id
\* has come into a1, on which nothing else depends, the run goes no further.
Bounds == /\ bf.file \in {None, TheFile(a1, 12, All)}
          /\ bf.pc # "idle" => \E p \in Procs : imp[p].pc = "idle"
          /\ Unshown \in {files[a1]} \cup {imp[p].read : p \in Procs}
               => /\ bf.pc = "idle" /\ \E p \in Procs : imp[p].pc = "idle"
                  /\ \A p \in Procs : imp[p].read \in {Unshown, None}
          /\ account[a2] = Absent
          /\ account[a1].user # a2

Symmetry == Permutations(Procs)
TheLegacy == (a1 :> {9}) @@ (a2 :> {})
=============================================================================
