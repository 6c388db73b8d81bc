---------------------------- MODULE MCSafepoint ----------------------------
EXTENDS Safepoint, TLC

CONSTANTS m1, m2, m3

(* Between them the threads wait in every way; m1 is the session's thread. *)
Programs == m1 :> {"sleep", "section", "input"} @@
            m2 :> {"receive", "section", "condvar", "suspended"} @@
            m3 :> {"send", "section", "condvar0"}
=============================================================================
