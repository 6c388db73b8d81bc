------------------------------ MODULE Monitor ------------------------------
(***************************************************************************)
(* The reentrant critical sections and the condition variables of the      *)
(* THREADS package (ncl-runtime/src/threads.rs).                           *)
(*                                                                         *)
(* A critical section is a pair (owner, count) guarded by a Rust mutex,    *)
(* with a std Condvar on which threads queue for it.  A Lisp condition     *)
(* variable is a std Condvar with an auxiliary mutex.  One action is one   *)
(* region the code executes under one mutex; a thread can be overtaken     *)
(* between any two of them, in particular between the registry lookup that *)
(* yields the Arc and the use of what it refers to.                        *)
(***************************************************************************)
EXTENDS Naturals, FiniteSets

CONSTANTS
  Threads,    \* Lisp thread ids (non-zero)
  Sections,   \* critical-section handles
  Condvars,   \* condition-variable handles
  None,       \* owner 0, and "no argument"
  MaxCount    \* bound on the reentrance count a client asks for

ASSUME MonitorAssumption ==
  /\ None \notin Threads \cup Sections \cup Condvars
  /\ MaxCount \in Nat \ {0}

VARIABLES
  sections,   \* handles in the critical-section registry
  condvars,   \* handles in the condition-variable registry
  owner,      \* CsState.owner
  count,      \* CsState.count
  aux,        \* holder of CondvarEntry.aux, if any
  pc,         \* where each thread is inside the primitives
  sec, cv,    \* the Arcs its current call works with
  timeout,    \* the timeout argument of its condvar-wait
  saved,      \* saved_count of its condvar-wait
  held        \* client's view: enters minus leaves that returned true

vars == <<sections, condvars, owner, count, aux, pc, sec, cv, timeout, saved,
          held>>
registries == <<sections, condvars>>

(***************************************************************************)
(* "run" is ordinary Lisp code; "ended" a thread that finished or unwound. *)
(*   enter, queued        : in the loop of enter_critical_section          *)
(*   leave                : in leave_critical_section                      *)
(*   wait, park, parked, woken, retake, requeued : in condvar_wait         *)
(*   notify, broadcast    : in condvar_notify / condvar_broadcast          *)
(***************************************************************************)
PcValues == {"run", "ended", "enter", "queued", "leave",
             "wait", "park", "parked", "woken", "retake", "requeued",
             "notify", "broadcast"}
Timeouts == {"forever", "zero", "timed"}

Queue(s) == {t \in Threads : pc[t] \in {"queued", "requeued"} /\ sec[t] = s}
Parked(c) == {t \in Threads : pc[t] = "parked" /\ cv[t] = c}

(***************************************************************************)
(* Waking one thread of the section's queue sends it round the loop it     *)
(* waits in; waking a parked thread sends it to re-acquire aux.            *)
(***************************************************************************)
WokenPc(p) == IF p = "queued" THEN "enter"
              ELSE IF p = "requeued" THEN "retake" ELSE "woken"
Wake(f, W) == [u \in Threads |-> IF u \in W THEN WokenPc(pc[u]) ELSE f[u]]

(* Condvar::notify_one: an arbitrary waiter wakes, if there is one. *)
NotifyOne(f, W) ==
  IF W = {} THEN pc' = f ELSE \E w \in W : pc' = Wake(f, {w})

At(t, p) == [pc EXCEPT ![t] = p]
Return(t) == At(t, "run")

Init ==
  /\ sections = Sections
  /\ condvars = Condvars
  /\ owner = [s \in Sections |-> None]
  /\ count = [s \in Sections |-> 0]
  /\ aux = [c \in Condvars |-> None]
  /\ pc = [t \in Threads |-> "run"]
  /\ sec = [t \in Threads |-> None]
  /\ cv = [t \in Threads |-> None]
  /\ timeout = [t \in Threads |-> "forever"]
  /\ saved = [t \in Threads |-> 0]
  /\ held = [t \in Threads |-> [s \in Sections |-> 0]]

-----------------------------------------------------------------------------
(* Critical sections *)

(***************************************************************************)
(* The lookup of enter and leave: an unknown handle returns false, which   *)
(* changes nothing, so only the successful lookup is a step.               *)
(***************************************************************************)
LookupSection(t, s, p) ==
  /\ pc[t] = "run"
  /\ s \in sections
  /\ p = "enter" => held[t][s] < MaxCount
  /\ pc' = At(t, p)
  /\ sec' = [sec EXCEPT ![t] = s]
  /\ UNCHANGED <<registries, owner, count, aux, cv, timeout, saved, held>>

(* One pass of the loop of enter_critical_section. *)
EnterFree(t) == LET s == sec[t] IN
  /\ pc[t] = "enter"
  /\ owner[s] = None
  /\ owner' = [owner EXCEPT ![s] = t]
  /\ count' = [count EXCEPT ![s] = 1]
  /\ held' = [held EXCEPT ![t][s] = @ + 1]
  /\ pc' = Return(t)
  /\ UNCHANGED <<registries, aux, sec, cv, timeout, saved>>

EnterAgain(t) == LET s == sec[t] IN
  /\ pc[t] = "enter"
  /\ owner[s] = t
  /\ count' = [count EXCEPT ![s] = @ + 1]
  /\ held' = [held EXCEPT ![t][s] = @ + 1]
  /\ pc' = Return(t)
  /\ UNCHANGED <<registries, owner, aux, sec, cv, timeout, saved>>

EnterQueue(t) ==
  /\ pc[t] = "enter"
  /\ owner[sec[t]] \notin {None, t}
  /\ pc' = At(t, "queued")
  /\ UNCHANGED <<registries, owner, count, aux, sec, cv, timeout, saved, held>>

(* Faulty variants of LeaveOwned: no wake-up; the first leave of a nested   *)
(* entry frees the section.                                                *)
LeaveSilently(t) == LET s == sec[t] IN
  /\ pc[t] = "leave"
  /\ owner[s] = t
  /\ count' = [count EXCEPT ![s] = @ - 1]
  /\ held' = [held EXCEPT ![t][s] = @ - 1]
  /\ owner' = IF count[s] = 1 THEN [owner EXCEPT ![s] = None] ELSE owner
  /\ pc' = Return(t)
  /\ UNCHANGED <<registries, aux, sec, cv, timeout, saved>>
LeaveOutright(t) == LET s == sec[t] IN
  /\ pc[t] = "leave"
  /\ owner[s] = t
  /\ count' = [count EXCEPT ![s] = 0]
  /\ held' = [held EXCEPT ![t][s] = @ - 1]
  /\ owner' = [owner EXCEPT ![s] = None]
  /\ NotifyOne(Return(t), Queue(s))
  /\ UNCHANGED <<registries, aux, sec, cv, timeout, saved>>

(* Only the owner may leave; the last leave frees the section. *)
LeaveOwned(t) == LET s == sec[t] IN
  /\ pc[t] = "leave"
  /\ owner[s] = t
  /\ count' = [count EXCEPT ![s] = @ - 1]
  /\ held' = [held EXCEPT ![t][s] = @ - 1]
  /\ IF count[s] = 1
     THEN /\ owner' = [owner EXCEPT ![s] = None]
          /\ NotifyOne(Return(t), Queue(s))
     ELSE /\ pc' = Return(t)
          /\ UNCHANGED owner
  /\ UNCHANGED <<registries, aux, sec, cv, timeout, saved>>

LeaveNotOwned(t) ==
  /\ pc[t] = "leave"
  /\ owner[sec[t]] # t
  /\ pc' = Return(t)
  /\ UNCHANGED <<registries, owner, count, aux, sec, cv, timeout, saved, held>>

DeallocateSection(t, s) ==
  /\ pc[t] = "run"
  /\ s \in sections
  /\ sections' = sections \ {s}
  /\ UNCHANGED <<condvars, owner, count, aux, pc, sec, cv, timeout, saved, held>>

-----------------------------------------------------------------------------
(* Condition variables *)

LookupWait(t, c, s, ms) ==
  /\ pc[t] = "run"
  /\ c \in condvars
  /\ s \in sections
  /\ pc' = At(t, "wait")
  /\ sec' = [sec EXCEPT ![t] = s]
  /\ cv' = [cv EXCEPT ![t] = c]
  /\ timeout' = [timeout EXCEPT ![t] = ms]
  /\ UNCHANGED <<registries, owner, count, aux, saved, held>>

(* Faulty variant of WaitRelease: the release wakes nobody. *)
WaitReleaseSilently(t) == LET s == sec[t] IN
  /\ pc[t] = "wait"
  /\ aux[cv[t]] = None
  /\ owner[s] = t
  /\ saved' = [saved EXCEPT ![t] = count[s]]
  /\ owner' = [owner EXCEPT ![s] = None]
  /\ count' = [count EXCEPT ![s] = 0]
  /\ aux' = [aux EXCEPT ![cv[t]] = t]
  /\ pc' = At(t, "park")
  /\ UNCHANGED <<registries, sec, cv, timeout, held>>

(***************************************************************************)
(* Steps 1 and 2 of condvar_wait: lock aux, check the owner, release the   *)
(* section entirely and wake one thread queued for it.  aux stays locked.  *)
(***************************************************************************)
WaitRelease(t) == LET s == sec[t] IN
  /\ pc[t] = "wait"
  /\ aux[cv[t]] = None
  /\ owner[s] = t
  /\ saved' = [saved EXCEPT ![t] = count[s]]
  /\ owner' = [owner EXCEPT ![s] = None]
  /\ count' = [count EXCEPT ![s] = 0]
  /\ aux' = [aux EXCEPT ![cv[t]] = t]
  /\ NotifyOne(At(t, "park"), Queue(s))
  /\ UNCHANGED <<registries, sec, cv, timeout, held>>

WaitNotOwner(t) ==
  /\ pc[t] = "wait"
  /\ aux[cv[t]] = None
  /\ owner[sec[t]] # t
  /\ pc' = Return(t)
  /\ UNCHANGED <<registries, owner, count, aux, sec, cv, timeout, saved, held>>

(* Step 3: cv.wait gives aux back and parks at once; timeout 0 does not park. *)
WaitPark(t) ==
  /\ pc[t] = "park"
  /\ aux' = [aux EXCEPT ![cv[t]] = None]
  /\ pc' = At(t, IF timeout[t] = "zero" THEN "retake" ELSE "parked")
  /\ UNCHANGED <<registries, owner, count, sec, cv, timeout, saved, held>>

WaitTimeout(t) ==
  /\ pc[t] = "parked"
  /\ timeout[t] = "timed"
  /\ pc' = At(t, "woken")
  /\ UNCHANGED <<registries, owner, count, aux, sec, cv, timeout, saved, held>>

(* A woken thread re-acquires aux and drops it: drop(final_aux). *)
WaitWoken(t) ==
  /\ pc[t] = "woken"
  /\ aux[cv[t]] = None
  /\ pc' = At(t, "retake")
  /\ UNCHANGED <<registries, owner, count, aux, sec, cv, timeout, saved, held>>

(* Faulty variants of Retake: no wait for the owner; count forgotten. *)
RetakeUnchecked(t) == LET s == sec[t] IN
  /\ pc[t] = "retake"
  /\ owner' = [owner EXCEPT ![s] = t]
  /\ count' = [count EXCEPT ![s] = saved[t]]
  /\ saved' = [saved EXCEPT ![t] = 0]
  /\ pc' = Return(t)
  /\ UNCHANGED <<registries, aux, sec, cv, timeout, held>>
RetakeOnce(t) == LET s == sec[t] IN
  /\ pc[t] = "retake"
  /\ owner[s] = None
  /\ owner' = [owner EXCEPT ![s] = t]
  /\ count' = [count EXCEPT ![s] = 1]
  /\ saved' = [saved EXCEPT ![t] = 0]
  /\ pc' = Return(t)
  /\ UNCHANGED <<registries, aux, sec, cv, timeout, held>>

(* Step 4: take the section again, at the count it was released with. *)
Retake(t) == LET s == sec[t] IN
  /\ pc[t] = "retake"
  /\ owner[s] = None
  /\ owner' = [owner EXCEPT ![s] = t]
  /\ count' = [count EXCEPT ![s] = saved[t]]
  /\ saved' = [saved EXCEPT ![t] = 0]
  /\ pc' = Return(t)
  /\ UNCHANGED <<registries, aux, sec, cv, timeout, held>>

RetakeQueue(t) ==
  /\ pc[t] = "retake"
  /\ owner[sec[t]] # None
  /\ pc' = At(t, "requeued")
  /\ UNCHANGED <<registries, owner, count, aux, sec, cv, timeout, saved, held>>

LookupNotify(t, c, p) ==
  /\ pc[t] = "run"
  /\ c \in condvars
  /\ pc' = At(t, p)
  /\ cv' = [cv EXCEPT ![t] = c]
  /\ UNCHANGED <<registries, owner, count, aux, sec, timeout, saved, held>>

(* Faulty variant of Notify: aux is not taken. *)
NotifyWithoutAux(t) ==
  /\ pc[t] = "notify"
  /\ NotifyOne(Return(t), Parked(cv[t]))
  /\ UNCHANGED <<registries, owner, count, aux, sec, cv, timeout, saved, held>>

Notify(t) ==
  /\ pc[t] = "notify"
  /\ aux[cv[t]] = None
  /\ NotifyOne(Return(t), Parked(cv[t]))
  /\ UNCHANGED <<registries, owner, count, aux, sec, cv, timeout, saved, held>>

Broadcast(t) ==
  /\ pc[t] = "broadcast"
  /\ aux[cv[t]] = None
  /\ pc' = Wake(Return(t), Parked(cv[t]))
  /\ UNCHANGED <<registries, owner, count, aux, sec, cv, timeout, saved, held>>

ReleaseCondvar(t, c) ==
  /\ pc[t] = "run"
  /\ c \in condvars
  /\ condvars' = condvars \ {c}
  /\ UNCHANGED <<sections, owner, count, aux, pc, sec, cv, timeout, saved, held>>

-----------------------------------------------------------------------------
(* std::sync::Condvar may wake any waiter without a notification. *)
SpuriousWake(t) ==
  /\ pc[t] \in {"queued", "requeued", "parked"}
  /\ pc' = Wake(pc, {t})
  /\ UNCHANGED <<registries, owner, count, aux, sec, cv, timeout, saved, held>>

(***************************************************************************)
(* A thread ends by returning from its function or by the unwind of        *)
(* exit-thread and terminate-thread.  Neither releases its sections.       *)
(***************************************************************************)
End(t) ==
  /\ pc[t] = "run"
  /\ pc' = At(t, "ended")
  /\ UNCHANGED <<registries, owner, count, aux, sec, cv, timeout, saved, held>>

(* Calls a client makes. *)
Call(t) ==
  \/ \E s \in Sections, p \in {"enter", "leave"} : LookupSection(t, s, p)
  \/ \E s \in Sections : DeallocateSection(t, s)
  \/ \E c \in Condvars, s \in Sections, ms \in Timeouts : LookupWait(t, c, s, ms)
  \/ \E c \in Condvars, p \in {"notify", "broadcast"} : LookupNotify(t, c, p)
  \/ \E c \in Condvars : ReleaseCondvar(t, c)
  \/ End(t)

(* What the runtime does for a thread inside a primitive. *)
Step(t) ==
  \/ EnterFree(t) \/ EnterAgain(t) \/ EnterQueue(t)
  \/ LeaveOwned(t) \/ LeaveNotOwned(t)
  \/ WaitRelease(t) \/ WaitNotOwner(t) \/ WaitPark(t) \/ WaitTimeout(t)
  \/ WaitWoken(t) \/ Retake(t) \/ RetakeQueue(t)
  \/ Notify(t) \/ Broadcast(t)

Next == \E t \in Threads : Call(t) \/ Step(t) \/ SpuriousWake(t)

(* The operating system schedules every runnable thread; clients need not *)
(* make another call, and a spurious wake need not happen.                *)
Fairness == \A t \in Threads : WF_vars(Step(t))

Spec == Init /\ [][Next]_vars
FairSpec == Spec /\ Fairness
-----------------------------------------------------------------------------
TypeOK ==
  /\ sections \subseteq Sections
  /\ condvars \subseteq Condvars
  /\ owner \in [Sections -> Threads \cup {None}]
  /\ count \in [Sections -> Nat]
  /\ aux \in [Condvars -> Threads \cup {None}]
  /\ pc \in [Threads -> PcValues]
  /\ sec \in [Threads -> Sections \cup {None}]
  /\ cv \in [Threads -> Condvars \cup {None}]
  /\ timeout \in [Threads -> Timeouts]
  /\ saved \in [Threads -> Nat]
  /\ held \in [Threads -> [Sections -> Nat]]

(* A thread between the release and the re-acquisition of condvar_wait. *)
Away(t, s) == /\ pc[t] \in {"park", "parked", "woken", "retake", "requeued"}
              /\ sec[t] = s

(***************************************************************************)
(* What the clients rely on: at any time at most one thread is inside a    *)
(* section, where a thread is inside from the enter that returned until    *)
(* the matching leave, except while it is away in a condvar-wait.          *)
(***************************************************************************)
Inside(t, s) == held[t][s] > 0 /\ ~Away(t, s)
MutualExclusion ==
  \A s \in Sections : \A t, u \in Threads : Inside(t, s) /\ Inside(u, s) => t = u

(***************************************************************************)
(* The reentrance count survives nesting and condvar-wait: the section's   *)
(* count is the depth of the thread inside it, and a thread away in a      *)
(* condvar-wait remembers the depth it must come back to.  If the two came *)
(* apart, the outermost leave would free the section early or never.       *)
(***************************************************************************)
DepthPreserved ==
  \A t \in Threads, s \in Sections :
    held[t][s] = IF Away(t, s) THEN saved[t]
                 ELSE IF owner[s] = t THEN count[s] ELSE 0

(***************************************************************************)
(* No release is lost: when a section is free and threads are queued for   *)
(* it, one of the threads competing for it is awake and will find it free. *)
(* This is what makes notify_one (not notify_all) enough in leave and in   *)
(* the release of condvar_wait, although queued enters and queued retakes  *)
(* share one Condvar and newcomers may barge in.                           *)
(***************************************************************************)
NoLostRelease ==
  \A s \in Sections :
    owner[s] = None /\ Queue(s) # {} =>
      \E t \in Threads : pc[t] \in {"enter", "retake"} /\ sec[t] = s

(***************************************************************************)
(* LOST-WAKEUP AVOIDANCE: a notification is never delivered while some     *)
(* waiter has already released its section but has not parked yet.         *)
(***************************************************************************)
NotifyMissesNoWaiter ==
  [][\A t \in Threads :
       pc[t] \in {"notify", "broadcast"} /\ pc'[t] = "run" =>
         \A u \in Threads : pc[u] = "park" => cv[u] # cv[t]]_vars

(***************************************************************************)
(* A free section somebody waits for does not stay free.  Needs only that  *)
(* running threads are scheduled; a section whose owner ended stays owned. *)
(***************************************************************************)
FreeSectionIsTaken ==
  \A s \in Sections :
    (owner[s] = None /\ Queue(s) # {}) ~> (owner[s] # None \/ Queue(s) = {})

-----------------------------------------------------------------------------
(***************************************************************************)
(* The critical sections implement reentrant locks.                        *)
(***************************************************************************)
Lock == INSTANCE ReentrantLock WITH
  Clients <- Threads, Locks <- Sections,
  depth <- held,
  suspended <- [t \in Threads |-> {s \in Sections : Away(t, s)}]
LockSpec == Lock!Spec
=============================================================================
