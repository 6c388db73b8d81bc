--------------------------- MODULE MonitorProofs ---------------------------
(***************************************************************************)
(* Safety of the critical sections and condition variables for any number  *)
(* of threads, sections and condition variables.                           *)
(*                                                                         *)
(* The inductive invariant IInv ties the three records of "who is inside"  *)
(* together: the owner and count of a section, the count a condvar-wait    *)
(* saved, and what the clients believe (held).                             *)
(***************************************************************************)
EXTENDS Monitor, TLAPS

InSection == {"enter", "queued", "leave",
              "wait", "park", "parked", "woken", "retake", "requeued"}
InCondvar == {"wait", "park", "parked", "woken", "retake", "requeued",
              "notify", "broadcast"}

(* A thread inside a primitive works with an Arc it has looked up. *)
ArcsHeld ==
  \A t \in Threads : /\ pc[t] \in InSection => sec[t] \in Sections
                     /\ pc[t] \in InCondvar => cv[t] \in Condvars

FreeIsZero == \A s \in Sections : owner[s] = None <=> count[s] = 0

AwayGaveUp ==
  \A t \in Threads, s \in Sections : Away(t, s) => owner[s] # t /\ saved[t] > 0

ParkHoldsAux == \A t \in Threads : pc[t] = "park" => aux[cv[t]] = t

IInv == /\ TypeOK
        /\ ArcsHeld
        /\ FreeIsZero
        /\ AwayGaveUp
        /\ ParkHoldsAux
        /\ DepthPreserved

(* What waking does to the program counters, whoever is woken: a thread     *)
(* moves on to where it competes again, and all others go where f says.     *)
LEMMA WakeEffect ==
  ASSUME pc \in [Threads -> PcValues],
         NEW f \in [Threads -> PcValues], NEW W \in SUBSET Threads
  PROVE  /\ Wake(f, W) \in [Threads -> PcValues]
         /\ \A u \in Threads :
              Wake(f, W)[u] = IF u \in W THEN WokenPc(pc[u]) ELSE f[u]
BY DEF Wake, WokenPc, PcValues

(* notify_one wakes nobody only if nobody waits, and at most one thread.    *)
LEMMA NotifyEffect ==
  ASSUME pc \in [Threads -> PcValues],
         NEW f \in [Threads -> PcValues], NEW W \in SUBSET Threads,
         NotifyOne(f, W)
  PROVE  \E V \in SUBSET W :
           /\ W # {} => V # {}
           /\ pc' \in [Threads -> PcValues]
           /\ \A u \in Threads :
                pc'[u] = IF u \in V THEN WokenPc(pc[u]) ELSE f[u]
<1>1. CASE W = {}
  BY <1>1 DEF NotifyOne
<1>2. CASE W # {}
  <2>1. PICK w \in W : pc' = Wake(f, {w})
    BY <1>2 DEF NotifyOne
  <2>2. {w} \in SUBSET W
    BY <2>1
  <2>3. /\ pc' \in [Threads -> PcValues]
        /\ \A u \in Threads :
             pc'[u] = IF u \in {w} THEN WokenPc(pc[u]) ELSE f[u]
    BY <2>1, WakeEffect
  <2> QED
    BY <2>2, <2>3
<1> QED
  BY <1>1, <1>2

(* The invariant holds initially. *)
LEMMA InitIInv == Init => IInv
BY MonitorAssumption DEF Init, IInv, TypeOK, ArcsHeld, FreeIsZero, AwayGaveUp,
  ParkHoldsAux, DepthPreserved, Away, PcValues, Timeouts, InSection, InCondvar

-----------------------------------------------------------------------------
(***************************************************************************)
(* A step that only wakes threads, and lets t leave a wake-up call,        *)
(* disturbs nothing: a woken thread is away from the same section.         *)
(***************************************************************************)
LEMMA WakingKeepsIInv ==
  ASSUME IInv, NEW V \in SUBSET Threads, NEW t \in Threads,
         \A u \in V : pc[u] \in {"queued", "requeued", "parked"},
         pc' \in [Threads -> PcValues],
         \A u \in Threads : pc'[u] = IF u \in V THEN WokenPc(pc[u])
                                     ELSE IF u = t /\ pc[t] \in {"notify", "broadcast"}
                                     THEN "run" ELSE pc[u],
         UNCHANGED <<registries, owner, count, aux, sec, cv, timeout, saved, held>>
  PROVE  IInv'
<1>1. \A u \in Threads : /\ pc'[u] \in InSection => pc[u] \in InSection
                         /\ pc'[u] \in InCondvar => pc[u] \in InCondvar
                         /\ pc'[u] = "park" => pc[u] = "park"
  BY DEF WokenPc, InSection, InCondvar
<1>2. \A u \in Threads, s \in Sections : Away(u, s)' <=> Away(u, s)
  BY DEF WokenPc, Away
<1> QED
  BY <1>1, <1>2 DEF IInv, TypeOK, ArcsHeld, FreeIsZero, AwayGaveUp, ParkHoldsAux,
    DepthPreserved, registries

(* Every step preserves the invariant.                                      *)
LEMMA StepIInv == IInv /\ [Next]_vars => IInv'
<1> SUFFICES ASSUME IInv, [Next]_vars PROVE IInv'
  OBVIOUS
<1> USE MonitorAssumption
<1> USE DEF At, Return, IInv, TypeOK, PcValues, Timeouts, InSection, InCondvar,
    ArcsHeld, FreeIsZero, AwayGaveUp, ParkHoldsAux, DepthPreserved, Away,
    registries
<1>0. CASE UNCHANGED vars
  BY <1>0 DEF vars
<1>1. ASSUME NEW t \in Threads, NEW s \in Sections, NEW p \in {"enter", "leave"}, LookupSection(t, s, p)
     PROVE  IInv'
  BY <1>1 DEF LookupSection
<1>2. ASSUME NEW t \in Threads, NEW s \in Sections, DeallocateSection(t, s)
     PROVE  IInv'
  BY <1>2 DEF DeallocateSection
<1>3. ASSUME NEW t \in Threads, NEW c \in Condvars, NEW s \in Sections, NEW ms \in Timeouts,
             LookupWait(t, c, s, ms)
     PROVE  IInv'
  BY <1>3 DEF LookupWait
<1>4. ASSUME NEW t \in Threads, NEW c \in Condvars, NEW p \in {"notify", "broadcast"}, LookupNotify(t, c, p)
     PROVE  IInv'
  BY <1>4 DEF LookupNotify
<1>5. ASSUME NEW t \in Threads, NEW c \in Condvars, ReleaseCondvar(t, c)
     PROVE  IInv'
  BY <1>5 DEF ReleaseCondvar
<1>6. ASSUME NEW t \in Threads, End(t)
     PROVE  IInv'
  BY <1>6 DEF End
<1>7. ASSUME NEW t \in Threads, EnterFree(t)
     PROVE  IInv'
  BY <1>7 DEF EnterFree
<1>8. ASSUME NEW t \in Threads, EnterAgain(t)
     PROVE  IInv'
  BY <1>8 DEF EnterAgain
<1>9. ASSUME NEW t \in Threads, EnterQueue(t)
     PROVE  IInv'
  BY <1>9 DEF EnterQueue
<1>10. ASSUME NEW t \in Threads, LeaveNotOwned(t)
     PROVE  IInv'
  BY <1>10 DEF LeaveNotOwned
<1>11. ASSUME NEW t \in Threads, WaitNotOwner(t)
     PROVE  IInv'
  BY <1>11 DEF WaitNotOwner
<1>12. ASSUME NEW t \in Threads, WaitPark(t)
     PROVE  IInv'
  BY <1>12 DEF WaitPark
<1>13. ASSUME NEW t \in Threads, WaitTimeout(t)
     PROVE  IInv'
  BY <1>13 DEF WaitTimeout
<1>14. ASSUME NEW t \in Threads, WaitWoken(t)
     PROVE  IInv'
  BY <1>14 DEF WaitWoken
<1>15. ASSUME NEW t \in Threads, Retake(t)
     PROVE  IInv'
  BY <1>15 DEF Retake
<1>16. ASSUME NEW t \in Threads, RetakeQueue(t)
     PROVE  IInv'
  BY <1>16 DEF RetakeQueue
<1>17. ASSUME NEW t \in Threads, LeaveOwned(t)
     PROVE  IInv'
  <2>1. PICK V \in SUBSET Queue(sec[t]) :
          /\ pc' \in [Threads -> PcValues]
          /\ \A u \in Threads :
               pc'[u] = IF u \in V THEN WokenPc(pc[u]) ELSE Return(t)[u]
    <3>1. Return(t) \in [Threads -> PcValues] /\ Queue(sec[t]) \in SUBSET Threads
      BY DEF Queue
    <3>2. NotifyOne(Return(t), Queue(sec[t])) \/ pc' = Return(t)
      BY <1>17 DEF LeaveOwned
    <3>3. pc \in [Threads -> PcValues]
      OBVIOUS
    <3> HIDE DEF At, Return, PcValues, IInv
    <3>4. CASE NotifyOne(Return(t), Queue(sec[t]))
      BY <3>1, <3>3, <3>4, NotifyEffect
    <3>5. CASE pc' = Return(t)
      <4>1. {} \in SUBSET Queue(sec[t])
        OBVIOUS
      <4> QED
        BY <3>1, <3>5, <4>1
    <3> QED
      BY <3>2, <3>4, <3>5
  <2>2. \A u \in V : u # t /\ pc[u] \in {"queued", "requeued"} /\ sec[u] = sec[t]
    BY <2>1, <1>17 DEF Queue, LeaveOwned
  <2>a. /\ sec[t] \in Sections /\ count[sec[t]] \in Nat \ {0}
        /\ held[t][sec[t]] = count[sec[t]]
    BY <1>17 DEF LeaveOwned
  <2>b. \A u \in Threads : /\ pc'[u] \in InSection => pc[u] \in InSection
                           /\ pc'[u] \in InCondvar => pc[u] \in InCondvar
    BY <1>17, <2>1, <2>2 DEF LeaveOwned, WokenPc
  <2>3. TypeOK'
    <3>1. owner' \in [Sections -> Threads \cup {None}] /\ count' \in [Sections -> Nat]
      <4>1. /\ owner \in [Sections -> Threads \cup {None}]
            /\ count \in [Sections -> Nat]
        OBVIOUS
      <4>2. /\ owner' \in {owner, [owner EXCEPT ![sec[t]] = None]}
            /\ count' \in {[count EXCEPT ![sec[t]] = @ - 1], [count EXCEPT ![sec[t]] = 0]}
        BY <1>17 DEF LeaveOwned
      <4> HIDE DEF IInv
      <4> QED
        BY <2>a, <4>1, <4>2
    <3>2. held' \in [Threads -> [Sections -> Nat]]
      <4>1. held \in [Threads -> [Sections -> Nat]]
        OBVIOUS
      <4>2. held' \in {held, [held EXCEPT ![t][sec[t]] = @ - 1]}
        BY <1>17 DEF LeaveOwned
      <4> HIDE DEF IInv
      <4>3. held[t][sec[t]] - 1 \in Nat
        BY <2>a
      <4>4. [held[t] EXCEPT ![sec[t]] = @ - 1] \in [Sections -> Nat]
        BY <2>a, <4>1, <4>3
      <4>5. [held EXCEPT ![t][sec[t]] = @ - 1] = [held EXCEPT ![t] = [held[t] EXCEPT ![sec[t]] = @ - 1]]
        BY <4>1
      <4> QED
        BY <4>1, <4>2, <4>4, <4>5
    <3>3. /\ UNCHANGED <<sections, condvars, sec, cv, timeout>>
          /\ aux' \in [Condvars -> Threads \cup {None}]
          /\ saved' \in [Threads -> Nat]
      BY <1>17, <2>a DEF LeaveOwned
    <3> QED
      BY <2>1, <3>1, <3>2, <3>3
  <2>8. ArcsHeld'
    <3> HIDE DEF InSection, InCondvar
    <3> QED
      BY <1>17, <2>b DEF LeaveOwned
  <2>9. ParkHoldsAux'
    <3>1. \A u \in Threads \ {t} : pc'[u] = "park" => pc[u] = "park"
      <4>1. pc \in [Threads -> PcValues]
        OBVIOUS
      <4> HIDE DEF IInv
      <4> QED
        BY <2>1, <4>1 DEF WokenPc
    <3>2. \A u \in Threads \ {t} : pc[u] = "park" => aux'[cv[u]] = u
      BY <1>17 DEF LeaveOwned
    <3>3. pc'[t] = "park" => aux'[cv[t]] = t
      BY <1>17, <2>1, <2>2 DEF LeaveOwned, WokenPc
    <3>4. cv' = cv
      BY <1>17 DEF LeaveOwned
    <3> QED
      BY <3>1, <3>2, <3>3, <3>4
  <2>4. FreeIsZero'
    BY <1>17 DEF LeaveOwned
  <2>5. \A u \in Threads \ {t}, s \in Sections : Away(u, s)' <=> Away(u, s)
    BY <1>17, <2>1, <2>2 DEF LeaveOwned, WokenPc
  <2>6. AwayGaveUp'
    BY <1>17, <2>1, <2>2, <2>5 DEF LeaveOwned
  <2>7. DepthPreserved'
    BY <1>17, <2>1, <2>2, <2>5 DEF LeaveOwned
  <2> HIDE DEF TypeOK, ArcsHeld, FreeIsZero, AwayGaveUp, ParkHoldsAux, DepthPreserved
  <2> QED
    BY <2>3, <2>4, <2>6, <2>7, <2>8, <2>9
<1>18. ASSUME NEW t \in Threads, WaitRelease(t)
     PROVE  IInv'
  <2>1. PICK V \in SUBSET Queue(sec[t]) :
          /\ pc' \in [Threads -> PcValues]
          /\ \A u \in Threads :
               pc'[u] = IF u \in V THEN WokenPc(pc[u]) ELSE At(t, "park")[u]
    <3>1. At(t, "park") \in [Threads -> PcValues] /\ Queue(sec[t]) \in SUBSET Threads
      BY DEF Queue
    <3>2. NotifyOne(At(t, "park"), Queue(sec[t]))
      BY <1>18 DEF WaitRelease
    <3>3. pc \in [Threads -> PcValues]
      OBVIOUS
    <3> HIDE DEF At, Return, PcValues, IInv
    <3>4. CASE NotifyOne(At(t, "park"), Queue(sec[t]))
      BY <3>1, <3>3, <3>4, NotifyEffect
    <3>5. CASE pc' = At(t, "park")
      <4>1. {} \in SUBSET Queue(sec[t])
        OBVIOUS
      <4> QED
        BY <3>1, <3>5, <4>1
    <3> QED
      BY <3>2, <3>4, <3>5
  <2>2. \A u \in V : u # t /\ pc[u] \in {"queued", "requeued"} /\ sec[u] = sec[t]
    BY <2>1, <1>18 DEF Queue, WaitRelease
  <2>a. /\ sec[t] \in Sections /\ count[sec[t]] \in Nat \ {0}
        /\ held[t][sec[t]] = count[sec[t]]
    BY <1>18 DEF WaitRelease
  <2>b. \A u \in Threads : /\ pc'[u] \in InSection => pc[u] \in InSection
                           /\ pc'[u] \in InCondvar => pc[u] \in InCondvar
    BY <1>18, <2>1, <2>2 DEF WaitRelease, WokenPc
  <2>3. TypeOK'
    <3>1. owner' \in [Sections -> Threads \cup {None}] /\ count' \in [Sections -> Nat]
      <4>1. /\ owner \in [Sections -> Threads \cup {None}]
            /\ count \in [Sections -> Nat]
        OBVIOUS
      <4>2. /\ owner' \in {owner, [owner EXCEPT ![sec[t]] = None]}
            /\ count' \in {[count EXCEPT ![sec[t]] = @ - 1], [count EXCEPT ![sec[t]] = 0]}
        BY <1>18 DEF WaitRelease
      <4> HIDE DEF IInv
      <4> QED
        BY <2>a, <4>1, <4>2
    <3>2. held' \in [Threads -> [Sections -> Nat]]
      <4>1. held \in [Threads -> [Sections -> Nat]]
        OBVIOUS
      <4>2. held' \in {held, [held EXCEPT ![t][sec[t]] = @ - 1]}
        BY <1>18 DEF WaitRelease
      <4> HIDE DEF IInv
      <4>3. held[t][sec[t]] - 1 \in Nat
        BY <2>a
      <4>4. [held[t] EXCEPT ![sec[t]] = @ - 1] \in [Sections -> Nat]
        BY <2>a, <4>1, <4>3
      <4>5. [held EXCEPT ![t][sec[t]] = @ - 1] = [held EXCEPT ![t] = [held[t] EXCEPT ![sec[t]] = @ - 1]]
        BY <4>1
      <4> QED
        BY <4>1, <4>2, <4>4, <4>5
    <3>3. /\ UNCHANGED <<sections, condvars, sec, cv, timeout>>
          /\ aux' \in [Condvars -> Threads \cup {None}]
          /\ saved' \in [Threads -> Nat]
      BY <1>18, <2>a DEF WaitRelease
    <3> QED
      BY <2>1, <3>1, <3>2, <3>3
  <2>8. ArcsHeld'
    <3> HIDE DEF InSection, InCondvar
    <3> QED
      BY <1>18, <2>b DEF WaitRelease
  <2>9. ParkHoldsAux'
    <3>1. \A u \in Threads \ {t} : pc'[u] = "park" => pc[u] = "park"
      <4>1. pc \in [Threads -> PcValues]
        OBVIOUS
      <4> HIDE DEF IInv
      <4> QED
        BY <2>1, <4>1 DEF WokenPc
    <3>2. \A u \in Threads \ {t} : pc[u] = "park" => aux'[cv[u]] = u
      BY <1>18 DEF WaitRelease
    <3>3. pc'[t] = "park" => aux'[cv[t]] = t
      BY <1>18, <2>1, <2>2 DEF WaitRelease, WokenPc
    <3>4. cv' = cv
      BY <1>18 DEF WaitRelease
    <3> QED
      BY <3>1, <3>2, <3>3, <3>4
  <2>4. FreeIsZero'
    BY <1>18 DEF WaitRelease
  <2>5. \A u \in Threads \ {t}, s \in Sections : Away(u, s)' <=> Away(u, s)
    BY <1>18, <2>1, <2>2 DEF WaitRelease, WokenPc
  <2>6. AwayGaveUp'
    BY <1>18, <2>1, <2>2, <2>5 DEF WaitRelease
  <2>7. DepthPreserved'
    BY <1>18, <2>1, <2>2, <2>5 DEF WaitRelease
  <2> HIDE DEF TypeOK, ArcsHeld, FreeIsZero, AwayGaveUp, ParkHoldsAux, DepthPreserved
  <2> QED
    BY <2>3, <2>4, <2>6, <2>7, <2>8, <2>9
<1>19. ASSUME NEW t \in Threads, Notify(t) \/ Broadcast(t) \/ SpuriousWake(t)
     PROVE  IInv'
  <2> HIDE DEF IInv
  <2>1. /\ pc \in [Threads -> PcValues] /\ Return(t) \in [Threads -> PcValues]
        /\ Parked(cv[t]) \in SUBSET Threads
    BY DEF Parked, IInv
  <2>2. PICK V \in SUBSET Threads :
          /\ \A u \in V : pc[u] \in {"queued", "requeued", "parked"}
          /\ pc' \in [Threads -> PcValues]
          /\ \A u \in Threads : pc'[u] = IF u \in V THEN WokenPc(pc[u])
                                          ELSE IF u = t /\ pc[t] \in {"notify", "broadcast"}
                                          THEN "run" ELSE pc[u]
    <3>1. CASE Notify(t)
      <4>1. PICK V \in SUBSET Parked(cv[t]) :
              /\ pc' \in [Threads -> PcValues]
              /\ \A u \in Threads :
                   pc'[u] = IF u \in V THEN WokenPc(pc[u]) ELSE Return(t)[u]
        <5> HIDE DEF At, Return, PcValues
        <5> QED BY <2>1, <3>1, NotifyEffect DEF Notify
      <4> QED
        BY <2>1, <3>1, <4>1 DEF Notify, Parked
    <3>2. CASE Broadcast(t)
      <4>1. /\ pc' \in [Threads -> PcValues]
            /\ \A u \in Threads :
                 pc'[u] = IF u \in Parked(cv[t]) THEN WokenPc(pc[u]) ELSE Return(t)[u]
        <5> HIDE DEF At, Return, PcValues
        <5> QED BY <2>1, <3>2, WakeEffect DEF Broadcast
      <4> QED
        BY <2>1, <3>2, <4>1 DEF Broadcast, Parked
    <3>3. CASE SpuriousWake(t)
      <4>1. /\ pc' \in [Threads -> PcValues]
            /\ \A u \in Threads :
                 pc'[u] = IF u \in {t} THEN WokenPc(pc[u]) ELSE pc[u]
        <5> HIDE DEF PcValues
        <5> QED BY <2>1, <3>3, WakeEffect DEF SpuriousWake
      <4> QED
        BY <2>1, <3>3, <4>1 DEF SpuriousWake
    <3> QED
      BY <1>19, <3>1, <3>2, <3>3
  <2>3. UNCHANGED <<registries, owner, count, aux, sec, cv, timeout, saved, held>>
    BY <1>19 DEF Notify, Broadcast, SpuriousWake
  <2> QED
    BY <2>2, <2>3, WakingKeepsIInv
<1> HIDE DEF IInv
<1> QED
  BY <1>0, <1>1, <1>2, <1>3, <1>4, <1>5, <1>6, <1>7, <1>8, <1>9,
     <1>10, <1>11, <1>12, <1>13, <1>14, <1>15, <1>16, <1>17, <1>18, <1>19
     DEF Next, Call, Step
-----------------------------------------------------------------------------
(* The safety properties *)

(* The specification keeps the invariant: Spec implies [](IInv).            *)
LEMMA Invariance == Spec => []IInv
BY InitIInv, StepIInv, PTL DEF Spec

(* Type correctness of every variable of the monitor.                       *)
THEOREM TypeCorrect == Spec => []TypeOK
<1>1. IInv => TypeOK
  BY DEF IInv
<1> QED
  BY Invariance, <1>1, PTL

(* At most one thread is inside a critical section, whatever is nested,     *)
(* waited for, timed out, released or deallocated.                          *)
THEOREM MutualExclusionHolds == Spec => []MutualExclusion
<1>1. IInv => MutualExclusion
  <2> SUFFICES ASSUME IInv, NEW s \in Sections, NEW t \in Threads, NEW u \in Threads,
                      Inside(t, s), Inside(u, s)
               PROVE  t = u
    BY DEF MutualExclusion
  <2>1. owner[s] = t /\ owner[s] = u
    BY DEF IInv, DepthPreserved, Inside
  <2> QED
    BY <2>1
<1> QED
  BY Invariance, <1>1, PTL

(* A section's count is the depth of the thread inside it, and a waiting    *)
(* thread comes back to the depth it left with.                             *)
THEOREM DepthPreservedHolds == Spec => []DepthPreserved
<1>1. IInv => DepthPreserved
  BY DEF IInv
<1> QED
  BY Invariance, <1>1, PTL

(* A notification is never delivered between a waiter's release of its      *)
(* section and its parking: the lost-wakeup avoidance of condvar_wait.      *)
THEOREM NotifyMissesNoWaiterHolds == Spec => NotifyMissesNoWaiter
<1> DEFINE Missed == \A t \in Threads :
             pc[t] \in {"notify", "broadcast"} /\ pc'[t] = "run" =>
               \A u \in Threads : pc[u] = "park" => cv[u] # cv[t]
<1>1. IInv /\ [Next]_vars => [Missed]_vars
  <2> SUFFICES ASSUME IInv, Next, NEW t \in Threads,
                      pc[t] \in {"notify", "broadcast"}, pc'[t] = "run",
                      NEW u \in Threads, pc[u] = "park", cv[u] = cv[t]
               PROVE  FALSE
    OBVIOUS
  <2> HIDE DEF Missed
  <2>1. pc \in [Threads -> PcValues] /\ aux[cv[t]] = u /\ u # None /\ u # t
    BY MonitorAssumption DEF IInv, TypeOK, ParkHoldsAux
  <2>2. PICK w \in Threads : Call(w) \/ Step(w) \/ SpuriousWake(w)
    BY DEF Next
  <2>3. CASE Notify(w) \/ Broadcast(w)
    <3>1. w # t
      BY <2>1, <2>3 DEF Notify, Broadcast
    <3>2. pc'[t] # "run"
      BY <2>1, <2>3, <3>1 DEF Notify, Broadcast, NotifyOne, Wake, WokenPc, Return,
        At, Parked
    <3> QED
      BY <3>2
  <2>4. CASE ~(Notify(w) \/ Broadcast(w))
    <3>1. pc'[t] # "run"
      BY <2>1, <2>2, <2>4 DEF Call, Step, SpuriousWake, LookupSection,
        DeallocateSection, LookupWait, LookupNotify, ReleaseCondvar, End,
        EnterFree, EnterAgain, EnterQueue, LeaveOwned, LeaveNotOwned,
        WaitRelease, WaitNotOwner, WaitPark, WaitTimeout, WaitWoken, Retake,
        RetakeQueue, NotifyOne, Wake, WokenPc, Return, At, Queue
    <3> QED
      BY <3>1
  <2> QED
    BY <2>3, <2>4
<1> QED
  BY Invariance, <1>1, PTL DEF Spec, NotifyMissesNoWaiter

(***************************************************************************)
(* Who competes for a section: awake, and about to look at its owner.      *)
(***************************************************************************)
Competitor(t, s) == pc[t] \in {"enter", "retake"} /\ sec[t] = s

(* A freed section that had a queue gets a competitor from the queue.       *)
LEMMA FreeingWakes ==
  ASSUME IInv, NEW t \in Threads, NEW f \in [Threads -> PcValues],
         NotifyOne(f, Queue(sec[t])), UNCHANGED sec,
         \A u \in Threads \ {t} : f[u] = pc[u],
         f[t] \notin {"queued", "requeued"},
         Queue(sec[t])' # {}
  PROVE  \E u \in Threads : Competitor(u, sec[t])'
<1>1. pc \in [Threads -> PcValues] /\ Queue(sec[t]) \in SUBSET Threads
  BY DEF IInv, TypeOK, Queue
<1>2. PICK V \in SUBSET Queue(sec[t]) :
        /\ Queue(sec[t]) # {} => V # {}
        /\ \A u \in Threads :
             pc'[u] = IF u \in V THEN WokenPc(pc[u]) ELSE f[u]
  <2> HIDE DEF IInv
  <2> QED BY <1>1, NotifyEffect
<1>3. Queue(sec[t]) # {}
  <2>1. PICK u \in Threads : pc'[u] \in {"queued", "requeued"} /\ sec[u] = sec[t]
    BY DEF Queue
  <2>2. u \notin V
    BY <1>2, <2>1 DEF Queue, WokenPc
  <2> QED
    BY <1>2, <2>1, <2>2 DEF Queue
<1>4. PICK u \in V : TRUE
  BY <1>2, <1>3
<1>5. pc'[u] \in {"enter", "retake"} /\ sec[u] = sec[t] /\ u \in Threads
  BY <1>2, <1>4 DEF Queue, WokenPc
<1> QED
  BY <1>5 DEF Competitor

(* A step that neither frees s nor queues a thread for it keeps a           *)
(* competitor, unless s is taken by it.                                     *)
LEMMA CompetitorKept ==
  ASSUME IInv, NoLostRelease, NEW s \in Sections,
         owner[s] = None, Queue(s)' # {}, Queue(s)' \subseteq Queue(s),
         \A u \in Threads : Competitor(u, s) => Competitor(u, s)'
  PROVE  \E u \in Threads : Competitor(u, s)'
BY DEF NoLostRelease, Competitor

LEMMA NoLostReleaseStep == IInv /\ NoLostRelease /\ [Next]_vars => NoLostRelease'
<1> SUFFICES ASSUME IInv, NoLostRelease, [Next]_vars,
                    NEW s \in Sections, owner'[s] = None, Queue(s)' # {}
             PROVE  \E u \in Threads : Competitor(u, s)'
  BY DEF NoLostRelease, Competitor
<1> USE MonitorAssumption
<1>1. CASE UNCHANGED vars
  BY <1>1 DEF vars, NoLostRelease, Competitor, Queue
<1>2. ASSUME NEW t \in Threads, Call(t) PROVE \E u \in Threads : Competitor(u, s)'
  <2>1. owner' = owner /\ (\A u \in Threads \ {t} : pc'[u] = pc[u] /\ sec'[u] = sec[u])
    BY <1>2 DEF IInv, TypeOK, Call, LookupSection, DeallocateSection, LookupWait,
      LookupNotify, ReleaseCondvar, End, At
  <2>2. pc[t] = "run" /\ pc'[t] \notin {"queued", "requeued"}
    BY <1>2 DEF IInv, TypeOK, Call, LookupSection, DeallocateSection, LookupWait,
      LookupNotify, ReleaseCondvar, End, At
  <2> QED
    BY <2>1, <2>2, CompetitorKept DEF Competitor, Queue
<1>3. ASSUME NEW t \in Threads, EnterFree(t) \/ EnterAgain(t) \/ Retake(t)
      PROVE  \E u \in Threads : Competitor(u, s)'
  <2>1. /\ s # sec[t] /\ owner[s] = None /\ sec' = sec
        /\ \A u \in Threads \ {t} : pc'[u] = pc[u]
        /\ pc'[t] = "run"
    BY <1>3 DEF IInv, TypeOK, ArcsHeld, InSection, EnterFree, EnterAgain, Retake,
      Return, At
  <2> QED
    BY <2>1, CompetitorKept DEF Competitor, Queue
<1>4. ASSUME NEW t \in Threads, EnterQueue(t) \/ RetakeQueue(t)
      PROVE  \E u \in Threads : Competitor(u, s)'
  <2>1. /\ s # sec[t] /\ owner[s] = None /\ sec' = sec
        /\ \A u \in Threads \ {t} : pc'[u] = pc[u]
    BY <1>4 DEF IInv, TypeOK, EnterQueue, RetakeQueue, At
  <2> QED
    BY <2>1, CompetitorKept DEF Competitor, Queue
<1>5. ASSUME NEW t \in Threads, LeaveOwned(t) \/ WaitRelease(t)
      PROVE  \E u \in Threads : Competitor(u, s)'
  <2> DEFINE f == IF pc[t] = "leave" THEN Return(t) ELSE At(t, "park")
  <2>1. /\ f \in [Threads -> PcValues] /\ sec' = sec
        /\ \A u \in Threads \ {t} : f[u] = pc[u]
        /\ f[t] \in {"run", "park"}
        /\ NotifyOne(f, Queue(sec[t])) \/ (pc' = f /\ owner' = owner)
        /\ s # sec[t] => owner[s] = None
        /\ pc[t] \in {"leave", "wait"}
    BY <1>5 DEF IInv, TypeOK, PcValues, LeaveOwned, WaitRelease, Return, At
  <2> HIDE DEF f
  <2>2. CASE s = sec[t] /\ NotifyOne(f, Queue(sec[t]))
    BY <2>1, <2>2, FreeingWakes
  <2>3. CASE s # sec[t] /\ NotifyOne(f, Queue(sec[t]))
    <3>1. pc \in [Threads -> PcValues] /\ Queue(sec[t]) \in SUBSET Threads
      BY DEF IInv, TypeOK, Queue
    <3>2. PICK V \in SUBSET Queue(sec[t]) :
            \A u \in Threads : pc'[u] = IF u \in V THEN WokenPc(pc[u]) ELSE f[u]
      <4> HIDE DEF IInv
      <4> QED BY <2>1, <2>3, <3>1, NotifyEffect
    <3>3. \A u \in Threads : sec[u] = s /\ u # t => pc'[u] = pc[u]
      BY <2>1, <2>3, <3>2 DEF Queue
    <3> QED
      BY <2>1, <2>3, <3>3, CompetitorKept DEF Competitor, Queue
  <2>4. CASE pc' = f /\ owner' = owner
    BY <2>1, <2>4, CompetitorKept DEF Competitor, Queue
  <2> QED
    BY <2>1, <2>2, <2>3, <2>4
<1>6. ASSUME NEW t \in Threads,
             LeaveNotOwned(t) \/ WaitNotOwner(t) \/ WaitPark(t) \/ WaitTimeout(t)
             \/ WaitWoken(t)
      PROVE  \E u \in Threads : Competitor(u, s)'
  <2>1. /\ owner' = owner /\ sec' = sec
        /\ \A u \in Threads \ {t} : pc'[u] = pc[u]
        /\ pc[t] \notin {"enter", "retake"}
        /\ pc'[t] \notin {"queued", "requeued"}
    BY <1>6 DEF IInv, TypeOK, LeaveNotOwned, WaitNotOwner, WaitPark, WaitTimeout,
      WaitWoken, Return, At
  <2> QED
    BY <2>1, CompetitorKept DEF Competitor, Queue
<1>7. ASSUME NEW t \in Threads, Notify(t) \/ Broadcast(t) \/ SpuriousWake(t)
      PROVE  \E u \in Threads : Competitor(u, s)'
  <2>1. /\ owner' = owner /\ sec' = sec
        /\ \A u \in Threads : pc[u] \in {"enter", "retake"} => pc'[u] = pc[u]
        /\ \A u \in Threads : pc'[u] \in {"queued", "requeued"} => pc'[u] = pc[u]
    BY <1>7 DEF IInv, TypeOK, Notify, Broadcast, SpuriousWake, NotifyOne, Wake,
      WokenPc, Parked, Return, At
  <2> QED
    BY <2>1, CompetitorKept DEF Competitor, Queue
<1> QED
  BY <1>1, <1>2, <1>3, <1>4, <1>5, <1>6, <1>7 DEF Next, Step

(* No release is lost: a free section with a queue has a competitor awake.  *)
THEOREM NoLostReleaseHolds == Spec => []NoLostRelease
<1>1. Init => NoLostRelease
  BY DEF Init, NoLostRelease, Queue
<1> QED
  BY <1>1, Invariance, NoLostReleaseStep, PTL DEF Spec

-----------------------------------------------------------------------------
(* Refinement *)

(* The threads suspended from their sections, as the refinement maps them.  *)
Suspended == [t \in Threads |-> {s \in Sections : Away(t, s)}]

(* A step that changes neither what clients hold nor who is away stutters.  *)
LEMMA StutterRefines ==
  ASSUME held' = held,
         \A u \in Threads, s \in Sections : Away(u, s)' <=> Away(u, s)
  PROVE  UNCHANGED <<held, Suspended>>
BY DEF Suspended

(* Inside its section, a thread is its owner.                               *)
LEMMA InsideOwns ==
  ASSUME IInv, NEW t \in Threads, NEW s \in Sections, held[t][s] > 0, ~Away(t, s)
  PROVE  owner[s] = t
BY DEF IInv, DepthPreserved

LEMMA StepRefines ==
  IInv /\ [Next]_vars => [Lock!LNext]_<<held, Suspended>>
<1> SUFFICES ASSUME IInv, [Next]_vars
             PROVE  Lock!LNext \/ UNCHANGED <<held, Suspended>>
  OBVIOUS
<1> USE MonitorAssumption
<1>t. /\ owner \in [Sections -> Threads \cup {None}] /\ count \in [Sections -> Nat]
      /\ pc \in [Threads -> PcValues] /\ sec \in [Threads -> Sections \cup {None}]
      /\ held \in [Threads -> [Sections -> Nat]]
  BY DEF IInv, TypeOK
<1>1. CASE UNCHANGED vars
  BY <1>1, StutterRefines DEF vars, Away
<1>2. ASSUME NEW t \in Threads, EnterFree(t) \/ EnterAgain(t)
      PROVE  Lock!LNext
  <2> DEFINE s == sec[t]
  <2>1. s \in Sections /\ owner[s] \in {None, t} /\ ~Away(t, s)
    BY <1>2 DEF IInv, ArcsHeld, InSection, EnterFree, EnterAgain, Away
  <2>2. held' = [held EXCEPT ![t][s] = @ + 1]
    BY <1>2 DEF EnterFree, EnterAgain
  <2>3. Suspended' = Suspended
    BY <1>2, <1>t DEF EnterFree, EnterAgain, Away, Suspended, Return, At
  <2>4. \A u \in Threads \ {t} : ~Lock!Has(u, s)
    BY <1>t, <2>1, InsideOwns DEF Lock!Has
  <2>5. Lock!Acquire(t, s)
    BY <2>1, <2>2, <2>3, <2>4 DEF Lock!Acquire, Suspended
  <2> QED
    BY <2>1, <2>5 DEF Lock!LNext
<1>3. ASSUME NEW t \in Threads, LeaveOwned(t)
      PROVE  Lock!LNext
  <2> DEFINE s == sec[t]
  <2>1. s \in Sections /\ owner[s] = t /\ ~Away(t, s) /\ held[t][s] > 0
    BY <1>3, <1>t DEF IInv, ArcsHeld, InSection, FreeIsZero, DepthPreserved,
      LeaveOwned, Away
  <2>2. held' = [held EXCEPT ![t][s] = @ - 1]
    BY <1>3 DEF LeaveOwned
  <2>3. \A u \in Threads, r \in Sections : Away(u, r)' <=> Away(u, r)
    BY <1>3, <1>t DEF LeaveOwned, NotifyOne, Wake, WokenPc, Queue, Return, At, Away
  <2>4. Suspended' = Suspended
    BY <2>3 DEF Suspended
  <2>5. Lock!Release(t, s)
    BY <2>1, <2>2, <2>4 DEF Lock!Release, Lock!Has, Suspended
  <2> QED
    BY <2>1, <2>5 DEF Lock!LNext
<1>4. ASSUME NEW t \in Threads, WaitRelease(t)
      PROVE  Lock!LNext
  <2> DEFINE s == sec[t]
  <2>1. s \in Sections /\ owner[s] = t /\ ~Away(t, s) /\ held[t][s] > 0
    BY <1>4, <1>t DEF IInv, ArcsHeld, InSection, FreeIsZero, DepthPreserved,
      WaitRelease, Away
  <2>2. held' = held
    BY <1>4 DEF WaitRelease
  <2>3. \A u \in Threads, r \in Sections :
          Away(u, r)' <=> Away(u, r) \/ (u = t /\ r = s)
    BY <1>4, <1>t DEF WaitRelease, NotifyOne, Wake, WokenPc, Queue, At, Away
  <2>4. Suspended' = [Suspended EXCEPT ![t] = @ \cup {s}]
    <3>1. \A u \in Threads \ {t} : Suspended'[u] = Suspended[u]
      BY <2>3 DEF Suspended
    <3>2. Suspended'[t] = Suspended[t] \cup {s}
      BY <2>1, <2>3 DEF Suspended
    <3>3. /\ Suspended' = [u \in Threads |-> Suspended'[u]]
          /\ Suspended = [u \in Threads |-> Suspended[u]]
      BY DEF Suspended
    <3> QED
      BY <3>1, <3>2, <3>3
  <2>5. Lock!Suspend(t, s)
    BY <2>1, <2>2, <2>4 DEF Lock!Suspend, Lock!Has, Suspended
  <2> QED
    BY <2>1, <2>5 DEF Lock!LNext
<1>5. ASSUME NEW t \in Threads, Retake(t)
      PROVE  Lock!LNext
  <2> DEFINE s == sec[t]
  <2>1. s \in Sections /\ owner[s] = None /\ Away(t, s)
    BY <1>5 DEF IInv, ArcsHeld, InSection, Retake, Away
  <2>2. held' = held
    BY <1>5 DEF Retake
  <2>3. \A u \in Threads, r \in Sections :
          Away(u, r)' <=> Away(u, r) /\ ~(u = t /\ r = s)
    BY <1>5, <1>t DEF Retake, Return, At, Away
  <2>4. Suspended' = [Suspended EXCEPT ![t] = @ \ {s}]
    <3>1. \A u \in Threads \ {t} : Suspended'[u] = Suspended[u]
      BY <2>3 DEF Suspended
    <3>2. Suspended'[t] = Suspended[t] \ {s}
      BY <2>1, <2>3 DEF Suspended
    <3>3. /\ Suspended' = [u \in Threads |-> Suspended'[u]]
          /\ Suspended = [u \in Threads |-> Suspended[u]]
      BY DEF Suspended
    <3> QED
      BY <3>1, <3>2, <3>3
  <2>5. \A u \in Threads \ {t} : ~Lock!Has(u, s)
    BY <1>t, <2>1, InsideOwns DEF Lock!Has, Suspended
  <2>6. Lock!Resume(t, s)
    BY <2>1, <2>2, <2>4, <2>5 DEF Lock!Resume, Suspended
  <2> QED
    BY <2>1, <2>6 DEF Lock!LNext
<1>6. ASSUME NEW t \in Threads,
             Call(t) \/ EnterQueue(t) \/ LeaveNotOwned(t) \/ WaitNotOwner(t)
             \/ WaitPark(t) \/ WaitTimeout(t) \/ WaitWoken(t) \/ RetakeQueue(t)
             \/ Notify(t) \/ Broadcast(t) \/ SpuriousWake(t)
      PROVE  UNCHANGED <<held, Suspended>>
  <2>1. held' = held
    BY <1>6 DEF Call, LookupSection, DeallocateSection, LookupWait, LookupNotify,
      ReleaseCondvar, End, EnterQueue, LeaveNotOwned, WaitNotOwner, WaitPark,
      WaitTimeout, WaitWoken, RetakeQueue, Notify, Broadcast, SpuriousWake
  <2>2. \A u \in Threads, r \in Sections : Away(u, r)' <=> Away(u, r)
    <3>1. CASE Call(t)
      BY <1>t, <3>1 DEF Call, LookupSection, DeallocateSection, LookupWait,
        LookupNotify, ReleaseCondvar, End, Away, At
    <3>2. CASE Notify(t) \/ Broadcast(t) \/ SpuriousWake(t)
      BY <1>t, <3>2 DEF Notify, Broadcast, SpuriousWake, NotifyOne, Wake, WokenPc,
        Parked, Away, Return, At
    <3>3. CASE EnterQueue(t) \/ LeaveNotOwned(t) \/ WaitNotOwner(t) \/ WaitPark(t)
               \/ WaitTimeout(t) \/ WaitWoken(t) \/ RetakeQueue(t)
      BY <1>t, <3>3 DEF EnterQueue, LeaveNotOwned, WaitNotOwner, WaitPark,
        WaitTimeout, WaitWoken, RetakeQueue, Away, Return, At
    <3> QED
      BY <1>6, <3>1, <3>2, <3>3
  <2> QED
    BY <2>1, <2>2, StutterRefines
<1> QED
  BY <1>1, <1>2, <1>3, <1>4, <1>5, <1>6 DEF Next, Step

(* The critical sections with their condition variables implement           *)
(* reentrant locks from which a thread may be suspended.                    *)
THEOREM MonitorImplementsLock == Spec => LockSpec
<1>1. Init => Lock!LInit
  BY MonitorAssumption DEF Init, Lock!LInit, Away
<1>2. IInv /\ [Next]_vars => [Lock!LNext]_(Lock!lvars)
  BY StepRefines DEF Lock!lvars, Suspended
<1> QED
  BY <1>1, <1>2, Invariance, PTL DEF Spec, LockSpec, Lock!Spec
=============================================================================
