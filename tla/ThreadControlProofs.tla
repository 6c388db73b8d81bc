------------------------ MODULE ThreadControlProofs ------------------------
(***************************************************************************)
(* No resume is lost, no joiner is forgotten and every thread can be       *)
(* joined once, for any number of threads.                                 *)
(***************************************************************************)
EXTENDS ThreadControl, TLAPS

Born == {t \in Threads : pc[t] \notin {"unborn", "starting"}}

(* What a call is about: create_thread has entered the thread it spawns, and
   the other calls get ids of threads that were born. *)
Arguments ==
  \A t \in Threads :
    /\ pc[t] = "spawning" => arg[t] \in Children /\ pc[arg[t]] = "starting"
    /\ pc[t] = "storing" => arg[t] \in Children \cap Born
    /\ pc[t] \in JoinPcs \cup {"terminating", "waking"} => arg[t] \in Born

(* A thread is spawned, and its handle stored, by one call. *)
SpawnedOnce ==
  /\ \A t, u \in Threads :
       /\ pc[t] \in {"spawning", "storing"} /\ pc[u] \in {"spawning", "storing"}
       /\ arg[t] = arg[u]
       => t = u
  /\ \A c \in Children \ Born : c \notin handles \cup taken

Types == TypeOK /\ Arguments /\ SpawnedOnce
Wakes == ResumeNotLost /\ NoForgottenJoiner /\ JoinableOnce
IInv == Types /\ Wakes

LEMMA InitIInv == Init => IInv
<1> USE ThreadAssumption DEF Init, Threads, PcValues, JoinPcs
<1>1. ASSUME Init PROVE TypeOK
  BY <1>1 DEF TypeOK
<1>2. ASSUME Init PROVE Arguments /\ SpawnedOnce
  BY <1>2 DEF Arguments, SpawnedOnce
<1>3. ASSUME Init PROVE ResumeNotLost /\ NoForgottenJoiner
  BY <1>3 DEF ResumeNotLost, NoForgottenJoiner
<1>4. ASSUME Init PROVE JoinableOnce
  BY <1>4 DEF JoinableOnce, Known
<1> QED
  BY <1>1, <1>2, <1>3, <1>4 DEF IInv, Types, Wakes

LEMMA StepTypes ==
  ASSUME Types, [Next]_vars
  PROVE  Types'
<1> USE ThreadAssumption
<1> USE DEF Types, TypeOK, Threads, PcValues, JoinPcs, Arguments, Born, SpawnedOnce, At, Goto,
    flags
<1>1. CASE UNCHANGED vars
  BY <1>1 DEF vars
<1>2. ASSUME NEW t \in Threads, NEW c \in Threads, CreateEntry(t, c)
      PROVE  Types'
  <2>1. TypeOK'
    BY <1>2 DEF CreateEntry
  <2>2. Arguments'
    BY <1>2 DEF CreateEntry
  <2>3. SpawnedOnce'
    BY <1>2 DEF CreateEntry
  <2> QED
    BY <2>1, <2>2, <2>3
<1>3. ASSUME NEW t \in Threads, NEW c \in Threads, JoinLookup(t, c)
      PROVE  Types'
  BY <1>3 DEF JoinLookup, Call, Known
<1>4. ASSUME NEW t \in Threads, NEW c \in Threads, Suspend(t, c)
      PROVE  Types'
  BY <1>4 DEF Suspend
<1>5. ASSUME NEW t \in Threads, NEW c \in Threads, Resume(t, c)
      PROVE  Types'
  BY <1>5 DEF Resume, Call, Targets, Known
<1>6. ASSUME NEW t \in Threads, NEW c \in Threads, Terminate(t, c)
      PROVE  Types'
  BY <1>6 DEF Terminate, Call, Targets, Known
<1>7. ASSUME NEW t \in Threads, Spawn(t)
      PROVE  Types'
  <2>1. TypeOK'
    BY <1>7 DEF Spawn
  <2>2. Arguments'
    BY <1>7 DEF Spawn
  <2>3. SpawnedOnce'
    BY <1>7 DEF Spawn
  <2> QED
    BY <2>1, <2>2, <2>3
<1>8. ASSUME NEW t \in Threads, Unregister(t)
      PROVE  Types'
  BY <1>8 DEF Unregister
<1>9. ASSUME NEW t \in Threads, JoinCheck(t)
      PROVE  Types'
  BY <1>9 DEF JoinCheck
<1>10. ASSUME NEW t \in Threads, JoinTake(t)
       PROVE  Types'
  <2>1. TypeOK'
    <3>1. handles' \subseteq Children /\ taken' \subseteq Children
      <4>1. /\ handles \subseteq Children /\ taken \subseteq Children /\ arg[t] \in Children
            /\ handles' = handles \ {arg[t]} /\ taken' = taken \cup {arg[t]}
        BY <1>10 DEF JoinTake
      <4> QED
        BY <4>1, Zenon
    <3> QED
      BY <1>10, <3>1 DEF JoinTake
  <2>2. Arguments'
    BY <1>10 DEF JoinTake
  <2>3. SpawnedOnce'
    BY <1>10 DEF JoinTake
  <2> QED
    BY <2>1, <2>2, <2>3
<1>11. ASSUME NEW t \in Threads, JoinFail(t)
       PROVE  Types'
  BY <1>11 DEF JoinFail, Back
<1>12. ASSUME NEW t \in Threads, JoinDone(t)
       PROVE  Types'
  BY <1>12 DEF JoinDone, Back
<1>13. ASSUME NEW t \in Threads, TerminateClear(t)
       PROVE  Types'
  BY <1>13 DEF TerminateClear
<1>14. ASSUME NEW t \in Threads, SuspendLoop(t)
       PROVE  Types'
  <2>1. TypeOK'
    BY <1>14 DEF SuspendLoop
  <2>2. Arguments'
    BY <1>14 DEF SuspendLoop
  <2>3. SpawnedOnce'
    BY <1>14 DEF SuspendLoop
  <2> QED
    BY <2>1, <2>2, <2>3
<1>15. ASSUME NEW t \in Threads, Poll(t)
       PROVE  Types'
  <2>1. TypeOK'
    BY <1>15 DEF Poll
  <2>2. Arguments'
    BY <1>15 DEF Poll
  <2>3. SpawnedOnce'
    BY <1>15 DEF Poll
  <2> QED
    BY <2>1, <2>2, <2>3
<1>16. ASSUME NEW t \in Threads, Woken(t)
       PROVE  Types'
  <2>1. TypeOK'
    BY <1>16 DEF Woken
  <2>2. Arguments'
    BY <1>16 DEF Woken
  <2>3. SpawnedOnce'
    BY <1>16 DEF Woken
  <2> QED
    BY <2>1, <2>2, <2>3
<1>17. ASSUME NEW t \in Threads, Polled(t)
       PROVE  Types'
  <2>1. TypeOK'
    BY <1>17 DEF Polled
  <2>2. Arguments'
    BY <1>17 DEF Polled
  <2>3. SpawnedOnce'
    BY <1>17 DEF Polled
  <2> QED
    BY <2>1, <2>2, <2>3
<1>18. ASSUME NEW t \in Threads, Return(t)
       PROVE  Types'
  BY <1>18 DEF Return
<1>19. ASSUME NEW t \in Threads, SpuriousWake(t)
       PROVE  Types'
  <2>1. TypeOK'
    BY <1>19 DEF SpuriousWake
  <2>2. Arguments'
    BY <1>19 DEF SpuriousWake
  <2>3. SpawnedOnce'
    BY <1>19 DEF SpuriousWake
  <2> QED
    BY <2>1, <2>2, <2>3
<1>20. ASSUME NEW t \in Threads, StoreHandle(t)
       PROVE  Types'
  <2>1. TypeOK'
    <3>1. handles' \subseteq Children
      <4>1. handles \subseteq Children /\ arg[t] \in Children /\ handles' = handles \cup {arg[t]}
        BY <1>20 DEF StoreHandle
      <4> QED
        BY <4>1, Zenon
    <3> QED
      BY <1>20, <3>1 DEF StoreHandle, Back
  <2>2. Arguments'
    BY <1>20 DEF StoreHandle, Back
  <2>3. SpawnedOnce'
    BY <1>20 DEF StoreHandle, Back
  <2> QED
    BY <2>1, <2>2, <2>3
<1>21. ASSUME NEW t \in Threads, Finish(t)
       PROVE  Types'
  <2>1. TypeOK'
    BY <1>21 DEF Finish
  <2>2. Arguments'
    BY <1>21 DEF Finish
  <2>3. SpawnedOnce'
    BY <1>21 DEF Finish
  <2> QED
    BY <2>1, <2>2, <2>3
<1>22. ASSUME NEW t \in Threads, NotifySuspended(t)
       PROVE  Types'
  <2>1. TypeOK'
    BY <1>22 DEF NotifySuspended
  <2>2. Arguments'
    BY <1>22 DEF NotifySuspended
  <2>3. SpawnedOnce'
    BY <1>22 DEF NotifySuspended
  <2> QED
    BY <2>1, <2>2, <2>3
<1> HIDE DEF Types
<1> QED
  BY <1>1, <1>2, <1>3, <1>4, <1>5, <1>6, <1>7, <1>8, <1>9, <1>10, <1>11,
     <1>12, <1>13, <1>14, <1>15, <1>16, <1>17, <1>18, <1>19, <1>20, <1>21, <1>22
     DEF Next, Request, Step

LEMMA StepWakes ==
  ASSUME Types, Wakes, [Next]_vars
  PROVE  Wakes'
<1> USE ThreadAssumption
<1> USE DEF Wakes, Types, TypeOK, Arguments, SpawnedOnce, ResumeNotLost, NoForgottenJoiner,
    JoinableOnce, BeingStored, Born, Known, Threads, PcValues, JoinPcs, WakeupPending, At, Goto, Call, Back,
    flags
<1>1. CASE UNCHANGED vars
  BY <1>1 DEF vars
<1>2. ASSUME NEW t \in Threads, NEW c \in Threads, CreateEntry(t, c)
      PROVE  Wakes'
  <2>1. ResumeNotLost'
    BY <1>2 DEF CreateEntry
  <2>2. NoForgottenJoiner'
    BY <1>2 DEF CreateEntry
  <2>3. JoinableOnce'
    BY <1>2 DEF CreateEntry
  <2> QED
    BY <2>1, <2>2, <2>3
<1>3. ASSUME NEW t \in Threads, NEW c \in Threads, JoinLookup(t, c)
      PROVE  Wakes'
  BY <1>3 DEF JoinLookup
<1>4. ASSUME NEW t \in Threads, NEW c \in Threads, Suspend(t, c)
      PROVE  Wakes'
  BY <1>4 DEF Suspend
<1>5. ASSUME NEW t \in Threads, NEW c \in Threads, Resume(t, c)
      PROVE  Wakes'
  BY <1>5 DEF Resume, Targets
<1>6. ASSUME NEW t \in Threads, NEW c \in Threads, Terminate(t, c)
      PROVE  Wakes'
  BY <1>6 DEF Terminate, Targets
<1>7. ASSUME NEW t \in Threads, Spawn(t)
      PROVE  Wakes'
  <2>1. ResumeNotLost'
    BY <1>7 DEF Spawn
  <2>2. NoForgottenJoiner'
    BY <1>7 DEF Spawn
  <2>3. JoinableOnce'
    BY <1>7 DEF Spawn
  <2> QED
    BY <2>1, <2>2, <2>3
<1>8. ASSUME NEW t \in Threads, StoreHandle(t)
      PROVE  Wakes'
  <2>1. ResumeNotLost'
    BY <1>8 DEF StoreHandle
  <2>2. NoForgottenJoiner'
    BY <1>8 DEF StoreHandle
  <2>3. JoinableOnce'
    BY <1>8 DEF StoreHandle
  <2> QED
    BY <2>1, <2>2, <2>3
<1>9. ASSUME NEW t \in Threads, Finish(t)
      PROVE  Wakes'
  <2>1. ResumeNotLost'
    BY <1>9 DEF Finish
  <2>2. NoForgottenJoiner'
    BY <1>9 DEF Finish
  <2>3. JoinableOnce'
    BY <1>9 DEF Finish
  <2> QED
    BY <2>1, <2>2, <2>3
<1>10. ASSUME NEW t \in Threads, Unregister(t)
       PROVE  Wakes'
  BY <1>10 DEF Unregister
<1>11. ASSUME NEW t \in Threads, JoinCheck(t)
       PROVE  Wakes'
  BY <1>11 DEF JoinCheck
<1>12. ASSUME NEW t \in Threads, JoinTake(t)
       PROVE  Wakes'
  <2>1. ResumeNotLost'
    BY <1>12 DEF JoinTake
  <2>2. NoForgottenJoiner'
    BY <1>12 DEF JoinTake
  <2>3. JoinableOnce'
    BY <1>12 DEF JoinTake
  <2> QED
    BY <2>1, <2>2, <2>3
<1>13. ASSUME NEW t \in Threads, JoinFail(t) \/ JoinDone(t)
       PROVE  Wakes'
  <2>1. ResumeNotLost'
    BY <1>13 DEF JoinFail, JoinDone
  <2>2. NoForgottenJoiner'
    BY <1>13 DEF JoinFail, JoinDone
  <2>3. JoinableOnce'
    BY <1>13 DEF JoinFail, JoinDone
  <2> QED
    BY <2>1, <2>2, <2>3
<1>14. ASSUME NEW t \in Threads, TerminateClear(t)
       PROVE  Wakes'
  BY <1>14 DEF TerminateClear
<1>15. ASSUME NEW t \in Threads, NotifySuspended(t)
       PROVE  Wakes'
  <2>1. ResumeNotLost'
    BY <1>15 DEF NotifySuspended
  <2>2. NoForgottenJoiner'
    BY <1>15 DEF NotifySuspended
  <2>3. JoinableOnce'
    BY <1>15 DEF NotifySuspended
  <2> QED
    BY <2>1, <2>2, <2>3
<1>16. ASSUME NEW t \in Threads, SuspendLoop(t) \/ Poll(t)
       PROVE  Wakes'
  <2>1. ResumeNotLost'
    BY <1>16 DEF SuspendLoop, Poll
  <2>2. NoForgottenJoiner'
    BY <1>16 DEF SuspendLoop, Poll
  <2>3. JoinableOnce'
    BY <1>16 DEF SuspendLoop, Poll
  <2> QED
    BY <2>1, <2>2, <2>3
<1>17. ASSUME NEW t \in Threads, Woken(t) \/ Polled(t)
       PROVE  Wakes'
  <2>1. ResumeNotLost'
    BY <1>17 DEF Woken, Polled
  <2>2. NoForgottenJoiner'
    BY <1>17 DEF Woken, Polled
  <2>3. JoinableOnce'
    BY <1>17 DEF Woken, Polled
  <2> QED
    BY <2>1, <2>2, <2>3
<1>18. ASSUME NEW t \in Threads, Return(t) \/ SpuriousWake(t)
       PROVE  Wakes'
  <2>1. ResumeNotLost'
    BY <1>18 DEF Return, SpuriousWake
  <2>2. NoForgottenJoiner'
    BY <1>18 DEF Return, SpuriousWake
  <2>3. JoinableOnce'
    BY <1>18 DEF Return, SpuriousWake
  <2> QED
    BY <2>1, <2>2, <2>3
<1> HIDE DEF Wakes
<1> QED
  BY <1>1, <1>2, <1>3, <1>4, <1>5, <1>6, <1>7, <1>8, <1>9, <1>10, <1>11, <1>12, <1>13, <1>14,
     <1>15, <1>16, <1>17, <1>18
     DEF Next, Request, Step

LEMMA InductiveInvariant == Spec => []IInv
<1>1. IInv /\ [Next]_vars => IInv'
  BY StepTypes, StepWakes DEF IInv
<1> QED
  BY <1>1, InitIInv, PTL DEF Spec

(* The thread table, the handles and the calls stay within their types.     *)
THEOREM TypeCorrect == Spec => []TypeOK
<1>1. IInv => TypeOK
  BY DEF IInv, Types
<1> QED
  BY <1>1, InductiveInvariant, PTL

(* A thread is parked with its suspend flag clear only while the call that  *)
(* cleared the flag is on its way to wake it.                               *)
THEOREM ResumeNotLostHolds == Spec => []ResumeNotLost
<1>1. IInv => ResumeNotLost
  BY DEF IInv, Wakes
<1> QED
  BY <1>1, InductiveInvariant, PTL

(* No joiner sleeps on a thread that has finished.                          *)
THEOREM NoForgottenJoinerHolds == Spec => []NoForgottenJoiner
<1>1. IInv => NoForgottenJoiner
  BY DEF IInv, Wakes
<1> QED
  BY <1>1, InductiveInvariant, PTL

(* A thread can be joined once: its handle is on its way into the table, in *)
(* the table, or with the one join that took it.                            *)
THEOREM JoinableOnceHolds == Spec => []JoinableOnce
<1>1. IInv => JoinableOnce
  BY DEF IInv, Wakes
<1> QED
  BY <1>1, InductiveInvariant, PTL
=============================================================================
