---------------------------- MODULE MonitorIdiom ----------------------------
(***************************************************************************)
(* Clients that use the monitor the way threads.rs documents it:           *)
(*                                                                         *)
(*   (with-synchronization cs                                              *)
(*     (loop (when (predicate) (return)) (cv-wait cv cs)))                 *)
(*                                                                         *)
(* against threads that make the predicate true inside the section and     *)
(* then signal, either still inside the section or after leaving it.      *)
(***************************************************************************)
EXTENDS Monitor

CONSTANTS Waiters, Setters, Section, Condition

ASSUME IdiomAssumption ==
  /\ Waiters \subseteq Threads
  /\ Waiters # {}
  /\ Setters \subseteq Threads \ Waiters
  /\ Setters # {}
  /\ Section \in Sections
  /\ Condition \in Condvars

VARIABLES
  predicate,  \* what the waiters wait for, guarded by Section
  at          \* where each client is in its program; an "absent" one never ran

ivars == <<vars, predicate, at>>

(* Some of the setters may be absent, but not all. *)
IInit == /\ Init
         /\ predicate = FALSE
         /\ \E present \in SUBSET Setters :
              /\ present # {}
              /\ at = [t \in Threads |->
                         IF t \in Waiters \cup present THEN "start" ELSE "absent"]

Go(t, label) == at' = [at EXCEPT ![t] = label]

Start(t) ==
  /\ at[t] = "start"
  /\ LookupSection(t, Section, "enter")
  /\ Go(t, "inside")
  /\ UNCHANGED predicate

Leave(t, label) ==
  /\ LookupSection(t, Section, "leave")
  /\ Go(t, label)
  /\ UNCHANGED predicate

(* The loop of a waiter: leave if the predicate holds, else wait again. *)
Check(t) ==
  /\ at[t] = "inside"
  /\ \/ predicate /\ Leave(t, "done")
     \/ /\ ~predicate
        /\ LookupWait(t, Condition, Section, "forever")
        /\ UNCHANGED <<predicate, at>>

Set(t) ==
  /\ at[t] = "inside"
  /\ pc[t] = "run"
  /\ predicate' = TRUE
  /\ \E label \in {"signalInside", "leaveFirst"} : Go(t, label)
  /\ UNCHANGED vars

Present == {t \in Setters : at[t] # "absent"}

(* notify wakes one waiter: right only if every waiter has a notifier. *)
Signal(t, from, label) ==
  /\ at[t] = from
  /\ \/ LookupNotify(t, Condition, "broadcast")
     \/ /\ Cardinality(Present) >= Cardinality(Waiters)
        /\ LookupNotify(t, Condition, "notify")
  /\ Go(t, label)
  /\ UNCHANGED predicate

Waiter(t) == Start(t) \/ Check(t)
SetterProgram(t) ==
  \/ Start(t)
  \/ Set(t)
  \/ Signal(t, "signalInside", "leaveLast")
  \/ at[t] = "leaveLast" /\ Leave(t, "done")
  \/ at[t] = "leaveFirst" /\ Leave(t, "signalOutside")
  \/ Signal(t, "signalOutside", "done")
Program(t) == \/ t \in Waiters /\ Waiter(t)
              \/ t \in Setters /\ SetterProgram(t)

Runtime(t) == Step(t) /\ UNCHANGED <<predicate, at>>

(* Without spurious wakes, which could only rescue a sleeping waiter. *)
INext == \E t \in Threads :
           Program(t) \/ Runtime(t)

(* Each client keeps running its program, the runtime its primitives. *)
ISpec == /\ IInit /\ [][INext]_ivars
         /\ \A t \in Threads : WF_ivars(Program(t))
         /\ \A t \in Threads : WF_ivars(Runtime(t))

(***************************************************************************)
(* No waiter sleeps through the signal: every client finishes, wherever    *)
(* the signal falls between a waiter's test of the predicate, its release  *)
(* of the section and its parking.                                         *)
(***************************************************************************)
EveryClientFinishes ==
  \A t \in Waiters \cup Setters :
    <>(at[t] \in {"done", "absent"} /\ pc[t] = "run")
=============================================================================
