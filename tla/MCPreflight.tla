------------------------------- MODULE MCPreflight ------------------------------
(* Two chats: one with room for a preview that leaves messages out, one that may   *)
(* stay empty.                                                                     *)
EXTENDS Preflight, TLC

TheChatOf == 1 :> 1 @@ 2 :> 1 @@ 3 :> 1 @@ 4 :> 2

\* At the length where a preview begins to leave messages out: it lacks the middle.
ASSUME PreviewAtItsLimit ==
  \A n \in 0..6 : Preview(1..n) = (1..n) \ ((PREVIEW_HEAD + 1)..(n - PREVIEW_TAIL))
=============================================================================
