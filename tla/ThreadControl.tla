--------------------------- MODULE ThreadControl ---------------------------
(***************************************************************************)
(* The life of a Lisp thread and the calls other threads make on it        *)
(* (ncl-runtime/src/threads.rs): create-thread, join-thread, exit-thread,  *)
(* and the cooperative suspend-thread, resume-thread and terminate-thread  *)
(* with the thread-safepoint at which the target obeys them.               *)
(*                                                                         *)
(* Each action is one atomic store or one region under one mutex.  The     *)
(* thread table (registry) and the table of JoinHandles are separate.      *)
(***************************************************************************)
EXTENDS Naturals

CONSTANTS
  Main,      \* the thread that never came from create-thread (id 1)
  Children,  \* ids create-thread hands out, in ascending order
  None

ASSUME ThreadAssumption ==
  /\ Children \subseteq Nat
  /\ Main \notin Children
  /\ None \notin Children \cup {Main}

Threads == Children \cup {Main}

VARIABLES
  registry,   \* ids with a ThreadEntry in the registry
  handles,    \* ids with a JoinHandle in join_handles
  suspend,    \* ThreadEntry.suspend_requested
  terminate,  \* ThreadEntry.terminate_requested
  finished,   \* ThreadEntry.finished
  pc,         \* where each thread is
  arg,        \* the thread its current call is about
  taken       \* history: ids whose JoinHandle some join has taken

vars == <<registry, handles, suspend, terminate, finished, pc, arg, taken>>
flags == <<suspend, terminate, finished>>

(***************************************************************************)
(*   unborn, starting, run, finishing, unregistering, ended : a life       *)
(*   suspending, parked, woken, polled   : in its own thread_safepoint     *)
(*   spawning, storing                   : in create_thread                *)
(*   joining, awaiting, taking, osjoin   : in join_thread                  *)
(*   resuming, terminating, waking       : in resume/terminate_thread      *)
(***************************************************************************)
JoinPcs == {"joining", "awaiting", "taking", "osjoin"}
PcValues == JoinPcs \cup
  {"unborn", "starting", "run", "finishing", "unregistering", "ended",
   "suspending", "parked", "woken", "polled", "spawning", "storing",
   "resuming", "terminating", "waking"}

(* Ids somebody may pass around: a thread can publish its id once it runs. *)
Known == {t \in Threads : pc[t] \notin {"unborn", "starting"}}

At(t, p) == [pc EXCEPT ![t] = p]
Goto(t, p) == pc' = At(t, p)
Call(t, p, target) ==
  /\ pc[t] = "run"
  /\ Goto(t, p)
  /\ arg' = [arg EXCEPT ![t] = target]

(* Back from the call; its argument is forgotten. *)
Back(t) == /\ Goto(t, "run")
           /\ arg' = [arg EXCEPT ![t] = None]

Init ==
  /\ registry = {Main}
  /\ handles = {}
  /\ suspend = [t \in Threads |-> FALSE]
  /\ terminate = [t \in Threads |-> FALSE]
  /\ finished = [t \in Threads |-> FALSE]
  /\ pc = [t \in Threads |-> IF t = Main THEN "run" ELSE "unborn"]
  /\ arg = [t \in Threads |-> None]
  /\ taken = {}

-----------------------------------------------------------------------------
(***************************************************************************)
(* create_thread: enter the next id, spawn the OS thread, store its        *)
(* handle.                                                                 *)
(***************************************************************************)
CreateEntry(t, c) ==
  /\ c \in Children /\ pc[c] = "unborn"
  /\ \A d \in Children : pc[d] = "unborn" => c <= d
  /\ pc[t] = "run"
  /\ pc' = [pc EXCEPT ![t] = "spawning", ![c] = "starting"]
  /\ arg' = [arg EXCEPT ![t] = c]
  /\ registry' = registry \cup {c}
  /\ UNCHANGED <<handles, flags, taken>>

Spawn(t) ==
  /\ pc[t] = "spawning"
  /\ pc' = [pc EXCEPT ![t] = "storing", ![arg[t]] = "run"]
  /\ UNCHANGED <<registry, handles, flags, arg, taken>>

(* Faulty variant of StoreHandle: the handle is stored under the caller's id. *)
StoreHandleOfCaller(t) ==
  /\ pc[t] = "storing"
  /\ handles' = handles \cup {t}
  /\ Back(t)
  /\ UNCHANGED <<registry, flags, taken>>

StoreHandle(t) ==
  /\ pc[t] = "storing"
  /\ handles' = handles \cup {arg[t]}
  /\ Back(t)
  /\ UNCHANGED <<registry, flags, taken>>

(***************************************************************************)
(* The thread's function returns, or exit-thread unwinds to the            *)
(* catch_unwind of the spawn thunk.  The main thread does neither.         *)
(***************************************************************************)
Return(t) ==
  /\ t \in Children
  /\ pc[t] = "run"
  /\ Goto(t, "finishing")
  /\ UNCHANGED <<registry, handles, flags, arg, taken>>

(* Faulty variant of Finish: the joiners are not notified. *)
FinishSilently(t) ==
  /\ pc[t] = "finishing"
  /\ finished' = [finished EXCEPT ![t] = TRUE]
  /\ Goto(t, "unregistering")
  /\ UNCHANGED <<registry, handles, suspend, terminate, arg, taken>>

(* Under finish_mu: the flag and notify_all, before leaving the registry. *)
Finish(t) ==
  /\ pc[t] = "finishing"
  /\ finished' = [finished EXCEPT ![t] = TRUE]
  /\ pc' = [u \in Threads |->
              IF u = t THEN "unregistering"
              ELSE IF pc[u] = "awaiting" /\ arg[u] = t THEN "joining"
              ELSE pc[u]]
  /\ UNCHANGED <<registry, handles, suspend, terminate, arg, taken>>

Unregister(t) ==
  /\ pc[t] = "unregistering"
  /\ registry' = registry \ {t}
  /\ Goto(t, "ended")
  /\ UNCHANGED <<handles, flags, arg, taken>>

-----------------------------------------------------------------------------
(* join_thread: wait for the entry's finished flag, if there is an entry, *)
(* then take the JoinHandle, if there is one, and join the OS thread.     *)
JoinLookup(t, c) ==
  /\ c \in Known
  /\ Call(t, IF c \in registry THEN "joining" ELSE "taking", c)
  /\ UNCHANGED <<registry, handles, flags, taken>>

JoinCheck(t) ==
  /\ pc[t] = "joining"
  /\ Goto(t, IF finished[arg[t]] THEN "taking" ELSE "awaiting")
  /\ UNCHANGED <<registry, handles, flags, arg, taken>>

JoinTake(t) ==
  /\ pc[t] = "taking"
  /\ arg[t] \in handles
  /\ handles' = handles \ {arg[t]}
  /\ taken' = taken \cup {arg[t]}
  /\ Goto(t, "osjoin")
  /\ UNCHANGED <<registry, flags, arg>>

JoinFail(t) ==
  /\ pc[t] = "taking"
  /\ arg[t] \notin handles
  /\ Back(t)
  /\ UNCHANGED <<registry, handles, flags, taken>>

JoinDone(t) ==
  /\ pc[t] = "osjoin"
  /\ pc[arg[t]] = "ended"
  /\ Back(t)
  /\ UNCHANGED <<registry, handles, flags, taken>>

-----------------------------------------------------------------------------
(* Requests on another thread.  An id without entry changes nothing.      *)
Targets == Known \cap registry

Suspend(t, c) ==
  /\ pc[t] = "run"
  /\ c \in Targets
  /\ suspend' = [suspend EXCEPT ![c] = TRUE]
  /\ UNCHANGED <<registry, handles, terminate, finished, pc, arg, taken>>

(* resume_thread clears the flag, then notifies under suspend_mu. *)
Resume(t, c) ==
  /\ c \in Targets
  /\ Call(t, "waking", c)
  /\ suspend' = [suspend EXCEPT ![c] = FALSE]
  /\ UNCHANGED <<registry, handles, terminate, finished, taken>>

(* terminate_thread: the terminate flag first, then as resume_thread. *)
Terminate(t, c) ==
  /\ c \in Targets \ {Main}   \* unwinding the main thread is undefined
  /\ Call(t, "terminating", c)
  /\ terminate' = [terminate EXCEPT ![c] = TRUE]
  /\ UNCHANGED <<registry, handles, suspend, finished, taken>>

(* Faulty variant of TerminateClear: the parked target is not notified. *)
TerminateClearOnly(t) ==
  /\ pc[t] = "terminating"
  /\ suspend' = [suspend EXCEPT ![arg[t]] = FALSE]
  /\ Back(t)
  /\ UNCHANGED <<registry, handles, terminate, finished, taken>>

TerminateClear(t) ==
  /\ pc[t] = "terminating"
  /\ suspend' = [suspend EXCEPT ![arg[t]] = FALSE]
  /\ Goto(t, "waking")
  /\ UNCHANGED <<registry, handles, terminate, finished, arg, taken>>

NotifySuspended(t) ==
  /\ pc[t] = "waking"
  /\ pc' = [u \in Threads |->
              IF u = t THEN "run"
              ELSE IF u = arg[t] /\ pc[u] = "parked" THEN "woken" ELSE pc[u]]
  /\ arg' = [arg EXCEPT ![t] = None]
  /\ UNCHANGED <<registry, handles, flags, taken>>

-----------------------------------------------------------------------------
(* thread_safepoint, after its GC part. *)
Poll(t) ==
  /\ pc[t] = "run"
  /\ Goto(t, IF suspend[t] THEN "suspending" ELSE "polled")
  /\ UNCHANGED <<registry, handles, flags, arg, taken>>

(* The while loop, under suspend_mu; wait releases it and parks at once. *)
SuspendLoop(t) ==
  /\ pc[t] = "suspending"
  /\ Goto(t, IF suspend[t] THEN "parked" ELSE "polled")
  /\ UNCHANGED <<registry, handles, flags, arg, taken>>

(* After the wait: unwind if terminated, else test the condition again. *)
Woken(t) ==
  /\ pc[t] = "woken"
  /\ Goto(t, IF terminate[t] THEN "finishing"
             ELSE IF suspend[t] THEN "parked" ELSE "polled")
  /\ UNCHANGED <<registry, handles, flags, arg, taken>>

Polled(t) ==
  /\ pc[t] = "polled"
  /\ Goto(t, IF terminate[t] THEN "finishing" ELSE "run")
  /\ UNCHANGED <<registry, handles, flags, arg, taken>>

(* std::sync::Condvar may wake a waiter without a notification. *)
SpuriousWake(t) ==
  /\ pc[t] \in {"parked", "awaiting"}
  /\ Goto(t, IF pc[t] = "parked" THEN "woken" ELSE "joining")
  /\ UNCHANGED <<registry, handles, flags, arg, taken>>

-----------------------------------------------------------------------------
Request(t) ==
  \E c \in Threads : \/ CreateEntry(t, c) \/ JoinLookup(t, c)
                     \/ Suspend(t, c) \/ Resume(t, c) \/ Terminate(t, c)

Step(t) ==
  \/ Spawn(t) \/ StoreHandle(t) \/ Finish(t) \/ Unregister(t)
  \/ JoinCheck(t) \/ JoinTake(t) \/ JoinFail(t) \/ JoinDone(t)
  \/ TerminateClear(t) \/ NotifySuspended(t)
  \/ SuspendLoop(t) \/ Woken(t) \/ Polled(t)

Next == \E t \in Threads :
          Request(t) \/ Step(t) \/ Poll(t) \/ Return(t) \/ SpuriousWake(t)

(***************************************************************************)
(* The OS runs every runnable thread, and Lisp code calls (thread-         *)
(* safepoint) again and again, as threads.rs asks of long loops: strongly  *)
(* fair, because a thread may make other calls between two polls.          *)
(***************************************************************************)
Fairness == \A t \in Threads : WF_vars(Step(t)) /\ SF_vars(Poll(t))

Spec == Init /\ [][Next]_vars
FairSpec == Spec /\ Fairness
-----------------------------------------------------------------------------
TypeOK ==
  /\ registry \subseteq Threads
  /\ handles \subseteq Children
  /\ suspend \in [Threads -> BOOLEAN]
  /\ terminate \in [Threads -> BOOLEAN]
  /\ finished \in [Threads -> BOOLEAN]
  /\ pc \in [Threads -> PcValues]
  /\ arg \in [Threads -> Threads \cup {None}]
  /\ taken \subseteq Children

(* Some caller has yet to notify the threads parked in t's safepoint. *)
WakeupPending(t) ==
  \E u \in Threads : pc[u] \in {"terminating", "waking"} /\ arg[u] = t

(***************************************************************************)
(* No resume is lost: a thread is parked with its suspend flag clear only  *)
(* while the call that cleared it is still on its way to notify it.  The   *)
(* flag is cleared outside suspend_mu, so this rests on the target testing *)
(* it under the mutex it parks with.                                       *)
(***************************************************************************)
ResumeNotLost == \A t \in Threads : pc[t] = "parked" /\ ~suspend[t] => WakeupPending(t)

(***************************************************************************)
(* No joiner sleeps on a thread that has finished: the flag and the        *)
(* notification are one region of finish_mu, and a joiner that found the   *)
(* entry before it left the registry still sees the flag.                  *)
(***************************************************************************)
NoForgottenJoiner ==
  \A t \in Threads : pc[t] = "awaiting" => ~finished[arg[t]]

(***************************************************************************)
(* A thread can be joined once: its JoinHandle is about to be stored by    *)
(* the create-thread that spawned it, or lies in the table, or has gone to *)
(* one join, and only one of the three, although the thread may run, end   *)
(* and leave the registry before its handle is stored.                     *)
(***************************************************************************)
BeingStored(c) == \E u \in Threads : pc[u] = "storing" /\ arg[u] = c

JoinableOnce ==
  \A c \in Children \cap Known :
    \/ BeingStored(c) /\ c \notin handles \cup taken
    \/ ~BeingStored(c) /\ (c \in handles <=> c \notin taken)

(***************************************************************************)
(* A join of a thread that has finished comes back, and the thread really  *)
(* is gone by then: the OS thread has ended if the join took its handle.   *)
(***************************************************************************)
JoinOfFinishedReturns ==
  \A t \in Threads :
    (pc[t] \in JoinPcs /\ finished[arg[t]]) ~> (pc[t] = "run")

(***************************************************************************)
(* A terminated thread ends, unless somebody keeps it suspended or it      *)
(* stays blocked in a join, where it polls nothing.                        *)
(***************************************************************************)
TerminateWorks ==
  \A c \in Children :
    <>[](terminate[c] /\ ~suspend[c] /\ pc[c] \notin JoinPcs) => <>(pc[c] = "ended")

-----------------------------------------------------------------------------
(***************************************************************************)
(* What the comments say and the code does not do.                         *)
(*                                                                         *)
(* terminate_thread: "so the target wakes and observes the terminate flag  *)
(* instead of staying parked forever".  A suspend-thread that arrives      *)
(* after the terminate parks the target, which tests the terminate flag    *)
(* only after a wake-up.                                                   *)
(***************************************************************************)
TerminatedNotParked ==
  \A t \in Threads : pc[t] = "parked" /\ terminate[t] => WakeupPending(t)

(***************************************************************************)
(* join_thread: "false if the id was not a thread spawned by               *)
(* create-thread, or if it had already been joined".  A join that comes    *)
(* between the spawn and the store of the handle fails, too.               *)
(***************************************************************************)
FailedJoinAsDocumented ==
  [][\A t \in Threads :
       pc[t] = "taking" /\ pc'[t] = "run" => arg[t] \notin Children \/ arg[t] \in taken]_vars
=============================================================================
