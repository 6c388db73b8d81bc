----------------------------- MODULE Safepoint -----------------------------
(***************************************************************************)
(* Stopping the world for a collection (ncl-runtime/src/mutator.rs and the *)
(* blocking primitives of threads.rs).                                     *)
(*                                                                         *)
(* A Lisp thread is managed (it may touch the heap), parked at a           *)
(* safepoint, or native: inside a blocking call that announced itself with *)
(* enter_blocked.  A driver collects once no other thread is managed.      *)
(* What a thread may hold in its frames, the collector sees through the    *)
(* stack window the thread published last.                                 *)
(*                                                                         *)
(* The handshake itself (poll_safepoint, enter_native, leave_native,       *)
(* collect_minor) is newgc-core's, an external crate; what this code adds  *)
(* is where it polls, what it publishes, and which of its blocking calls   *)
(* are native.                                                             *)
(***************************************************************************)
EXTENDS Naturals

CONSTANTS
  Mutators,
  Uses,       \* the blocking calls the Lisp code of each thread makes
  None,
  MaxMail,    \* capacity of the one mailbox
  MaxDepth    \* bound on a thread's stack depth

(***************************************************************************)
(* The waits that are bracketed with enter_blocked / leave_blocked (sleep  *)
(* stands for join-thread and next-event, too), and those that are not:    *)
(* the queue of a critical section, a full mailbox, the park of a          *)
(* suspended thread, condvar-wait with timeout 0, which goes back into the *)
(* section's queue, and the driver's own wait for the next line or event.  *)
(***************************************************************************)
NativeWaits == {"sleep", "receive", "condvar"}
ManagedWaits == {"section", "send", "suspended", "condvar0", "input"}
CondvarWaits == {"condvar", "condvar0"}

ASSUME SafepointAssumption ==
  /\ Uses \in [Mutators -> SUBSET (NativeWaits \cup ManagedWaits)]
  /\ None \notin Mutators
  /\ MaxMail \in Nat /\ MaxDepth \in Nat

VARIABLES
  mode,       \* each thread's state in the handshake
  driver,     \* the thread that stops or has stopped the world, or None
  wait,       \* the blocking call a thread is in, or "none"
  depth,      \* the live frames on each thread's stack
  window,     \* the frames its published stack window covers
  owner,      \* owner of the one critical section
  mail,       \* messages in the one mailbox
  suspended   \* threads with suspend_requested

vars == <<mode, driver, wait, depth, window, owner, mail, suspended>>
resources == <<owner, mail, suspended>>

Modes == {"managed", "parked", "native", "leaving", "driving", "collecting"}

Running(m) == mode[m] = "managed" /\ wait[m] = "none"
Goto(m, s) == mode' = [mode EXCEPT ![m] = s]
PublishStackWindow(m) == window' = [window EXCEPT ![m] = depth[m]]

Init ==
  /\ mode = [m \in Mutators |-> "managed"]
  /\ driver = None
  /\ wait = [m \in Mutators |-> "none"]
  /\ depth = [m \in Mutators |-> 0]
  /\ window = [m \in Mutators |-> 0]   \* register_mutator: the empty window
  /\ owner = None
  /\ mail = 0
  /\ suspended = {}

-----------------------------------------------------------------------------
(* Lisp code calls and returns. *)
CallFunction(m) ==
  /\ Running(m)
  /\ \/ depth[m] < MaxDepth /\ depth' = [depth EXCEPT ![m] = @ + 1]
     \/ depth[m] > 0 /\ depth' = [depth EXCEPT ![m] = @ - 1]
  /\ UNCHANGED <<mode, driver, wait, window, resources>>

(* Faulty variant of Park: the window of an earlier safepoint stays. *)
ParkUnpublished(m) ==
  /\ Running(m)
  /\ driver # None
  /\ Goto(m, "parked")
  /\ UNCHANGED <<driver, wait, depth, window, resources>>

(* safepoint, polled by every allocation and by thread-safepoint: nothing   *)
(* to do unless a stop is pending.  A thread that wants to collect while    *)
(* another is the driver parks as well.                                     *)
Park(m) ==
  /\ Running(m)
  /\ driver # None
  /\ PublishStackWindow(m)
  /\ Goto(m, "parked")
  /\ UNCHANGED <<driver, wait, depth, resources>>

-----------------------------------------------------------------------------
(* drive_minor *)
Drive(m) ==
  /\ Running(m)
  /\ driver = None
  /\ PublishStackWindow(m)
  /\ driver' = m
  /\ Goto(m, "driving")
  /\ UNCHANGED <<wait, depth, resources>>

WorldStopped == \A m \in Mutators \ {driver} : mode[m] # "managed"

(* Faulty variant of Collect: it does not wait for the others. *)
CollectAtOnce(m) ==
  /\ mode[m] = "driving"
  /\ Goto(m, "collecting")
  /\ UNCHANGED <<driver, wait, depth, window, resources>>

Collect(m) ==
  /\ mode[m] = "driving"
  /\ WorldStopped
  /\ Goto(m, "collecting")
  /\ UNCHANGED <<driver, wait, depth, window, resources>>

ResumeWorld(m) ==
  /\ mode[m] = "collecting"
  /\ driver' = None
  /\ mode' = [u \in Mutators |->
                IF u = m \/ mode[u] = "parked" THEN "managed" ELSE mode[u]]
  /\ UNCHANGED <<wait, depth, window, resources>>

-----------------------------------------------------------------------------
(* Blocking calls *)

(* What a thread must have, or must not have, for the call to block. *)
MayBlock(m, w) ==
  /\ w \in CondvarWaits => owner = m
  /\ w = "section" => owner # m
  /\ w = "suspended" => m \in suspended

(* Faulty variant of EnterBlocked: the call is not announced. *)
EnterUnannounced(m, w) ==
  /\ Running(m)
  /\ w \in Uses[m] \cap NativeWaits
  /\ MayBlock(m, w)
  /\ wait' = [wait EXCEPT ![m] = w]
  /\ UNCHANGED <<mode, driver, depth, window, resources>>

EnterBlocked(m, w) ==
  /\ Running(m)
  /\ w \in Uses[m] \cap NativeWaits
  /\ MayBlock(m, w)
  /\ PublishStackWindow(m)
  /\ wait' = [wait EXCEPT ![m] = w]
  /\ Goto(m, "native")
  /\ UNCHANGED <<driver, depth, resources>>

EnterManaged(m, w) ==
  /\ Running(m)
  /\ w \in Uses[m] \cap ManagedWaits
  /\ MayBlock(m, w)
  /\ wait' = [wait EXCEPT ![m] = w]
  /\ UNCHANGED <<mode, driver, depth, window, resources>>

(* condvar_wait gives the section up before it parks. *)
ReleaseSection(m) ==
  /\ wait[m] \in CondvarWaits
  /\ owner = m
  /\ owner' = None
  /\ UNCHANGED <<mode, driver, wait, depth, window, mail, suspended>>

(* The wait ends; a native thread has yet to leave_blocked. *)
Proceed(m) ==
  /\ \/ wait[m] \in {"sleep", "input"} /\ UNCHANGED resources
     \/ /\ wait[m] = "receive" /\ mail > 0
        /\ mail' = mail - 1
        /\ UNCHANGED <<owner, suspended>>
     \/ /\ wait[m] \in {"section"} \cup CondvarWaits /\ owner = None
        /\ owner' = m
        /\ UNCHANGED <<mail, suspended>>
     \/ /\ wait[m] = "send" /\ mail < MaxMail
        /\ mail' = mail + 1
        /\ UNCHANGED <<owner, suspended>>
     \/ /\ wait[m] = "suspended" /\ m \notin suspended
        /\ UNCHANGED resources
  /\ wait' = [wait EXCEPT ![m] = "none"]
  /\ Goto(m, IF mode[m] = "native" THEN "leaving" ELSE mode[m])
  /\ UNCHANGED <<driver, depth, window>>

(* leave_blocked waits until the world runs. *)
LeaveBlocked(m) ==
  /\ mode[m] = "leaving"
  /\ driver = None
  /\ Goto(m, "managed")
  /\ UNCHANGED <<driver, wait, depth, window, resources>>

(* Calls that do not block. *)
LeaveSection(m) ==
  /\ Running(m)
  /\ owner = m
  /\ owner' = None
  /\ UNCHANGED <<mode, driver, wait, depth, window, mail, suspended>>

Request(m, u) ==
  /\ Running(m)
  /\ "suspended" \in Uses[u]
  /\ \/ u # m /\ suspended' = suspended \cup {u}
     \/ suspended' = suspended \ {u}
  /\ UNCHANGED <<mode, driver, wait, depth, window, owner, mail>>

(* Lisp code that never waits for a full mailbox still sends. *)
SendUnbounded(m) ==
  /\ Running(m)
  /\ "send" \notin Uses[m]
  /\ mail < MaxMail
  /\ mail' = mail + 1
  /\ UNCHANGED <<mode, driver, wait, depth, window, owner, suspended>>

Work(m) ==
  \/ CallFunction(m) \/ Drive(m) \/ LeaveSection(m) \/ SendUnbounded(m)
  \/ \E w \in Uses[m] : EnterBlocked(m, w) \/ EnterManaged(m, w)
  \/ \E u \in Mutators : Request(m, u)

(* Nobody need type a line, or notify a condition variable. *)
Returns(m) == wait[m] \notin {"input", "condvar"} /\ Proceed(m)

Cooperate(m) ==
  Collect(m) \/ ResumeWorld(m) \/ LeaveBlocked(m) \/ ReleaseSection(m) \/ Returns(m)

Next == \E m \in Mutators : Work(m) \/ Park(m) \/ Proceed(m) \/ Cooperate(m)

(***************************************************************************)
(* Running Lisp code polls again and again, by allocating or by calling    *)
(* thread-safepoint (strong fairness: it makes other calls in between);    *)
(* the system runs every thread that is not blocked.                       *)
(***************************************************************************)
Fairness == \A m \in Mutators : SF_vars(Park(m)) /\ WF_vars(Cooperate(m))

Spec == Init /\ [][Next]_vars
FairSpec == Spec /\ Fairness
-----------------------------------------------------------------------------
TypeOK ==
  /\ mode \in [Mutators -> Modes]
  /\ driver \in Mutators \cup {None}
  /\ wait \in [Mutators -> {"none"} \cup NativeWaits \cup ManagedWaits]
  /\ depth \in [Mutators -> 0..MaxDepth]
  /\ window \in [Mutators -> 0..MaxDepth]
  /\ owner \in Mutators \cup {None}
  /\ mail \in 0..MaxMail
  /\ suspended \subseteq Mutators

(***************************************************************************)
(* While a collection runs, it runs alone: no other thread is managed,     *)
(* whatever blocking calls return meanwhile, and there is one driver.      *)
(***************************************************************************)
CollectsAlone ==
  \A m \in Mutators :
    mode[m] = "collecting" =>
      driver = m /\ \A u \in Mutators \ {m} : mode[u] \notin {"managed", "driving"}

(***************************************************************************)
(* The collector scans every live frame of every thread, and nothing below *)
(* them: each stopped thread published its window after its last call or   *)
(* return, whether it parked, is native or drives.                         *)
(***************************************************************************)
WindowsCoverFrames ==
  \A m \in Mutators :
    mode[m] = "collecting" => \A u \in Mutators : window[u] = depth[u]

(***************************************************************************)
(* A driver gets its collection.  Sleepers and receivers do not keep it    *)
(* waiting (sleep_shim goes native "so a peer GC trigger isn't waiting for *)
(* us to reach a safepoint we'll never hit"): if the world never stops, it *)
(* is because some thread stays in one of the waits that are not announced *)
(***************************************************************************)
StaysUnannounced == <>[](\E u \in Mutators : wait[u] \in ManagedWaits)
CollectionHappens ==
  \A m \in Mutators : <>[](driver = m) => StaysUnannounced
=============================================================================
