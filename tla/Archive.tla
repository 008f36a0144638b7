-------------------------------- MODULE Archive --------------------------------
(***************************************************************************)
(* What a table the pipelines only append to promises: an item that is     *)
(* held stays, and no two items held have one key.                         *)
(***************************************************************************)
CONSTANT KeyOf(_)

VARIABLE held

KeysDiffer == \A x, y \in held : KeyOf(x) = KeyOf(y) => x = y

Init == KeysDiffer

Add == /\ held' # held
       /\ held \subseteq held'
       /\ KeysDiffer'

Spec == Init /\ [][Add]_held
=============================================================================
