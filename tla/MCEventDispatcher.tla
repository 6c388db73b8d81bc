------------------------ MODULE MCEventDispatcher ------------------------
EXTENDS EventDispatcher, TLC

CONSTANTS r1, r2, w1, w2

(* One reader of two windows and one that competes with it for the first. *)
ReaderWindows == r1 :> {w1, w2} @@ r2 :> {}
ReaderDeadlines == r1 :> {"ahead"} @@ r2 :> {"never"}
=============================================================================
