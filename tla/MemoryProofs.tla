---------------------------- MODULE MemoryProofs ----------------------------
(***************************************************************************)
(* What the threads share of the memory.  The allocator of the static area *)
(* hands out disjoint, committed ranges that fill the area from the        *)
(* bottom, for any number of threads, any sizes and any commit             *)
(* granularity.  A collection runs alone and sees every live frame, for    *)
(* any number of threads, whatever blocking calls their code makes and     *)
(* however deep their stacks are.                                          *)
(***************************************************************************)
EXTENDS StaticArea, Safepoint, TLAPS

-----------------------------------------------------------------------------
(* The static area *)

(* What a thread has established when it reaches a step of the loop. *)
Established ==
  \A t \in Threads :
    /\ pc[t] # "idle" => want[t] \in Sizes
    /\ pc[t] \in {"check", "grow", "cas"} => New(t) <= Reserved
    /\ pc[t] = "cas" => New(t) <= committed

AreaIInv == AreaTypeOK /\ Established /\ GrantsUsable /\ Disjoint /\ NothingLeaked

(* Rounding up to whole chunks covers what was needed. *)
LEMMA ChunksCover ==
  ASSUME NEW n \in Nat
  PROVE  /\ ChunksFor(n) \in Nat
         /\ ChunksFor(n) * Chunk >= n
<1> DEFINE q == (n + Chunk - 1) \div Chunk
           r == (n + Chunk - 1) % Chunk
<1>1. Chunk \in Nat /\ Chunk > 0
  BY StaticAreaAssumption
<1>2. n + Chunk - 1 \in Nat
  BY <1>1
<1>3. q \in Nat /\ r \in 0..(Chunk - 1) /\ n + Chunk - 1 = Chunk * q + r
  BY <1>1, <1>2
<1>4. Chunk * q \in Nat /\ Chunk * q = q * Chunk
  BY <1>1, <1>3
<1>5. q * Chunk >= n
  BY <1>1, <1>3, <1>4
<1> QED
  BY <1>3, <1>5 DEF ChunksFor

LEMMA AreaInitIInv == AreaInit => AreaIInv
<1> SUFFICES ASSUME AreaInit PROVE AreaIInv
  OBVIOUS
<1> USE StaticAreaAssumption DEF AreaInit
<1>1. AreaTypeOK
  BY DEF AreaTypeOK
<1>2. Established
  BY DEF Established
<1>3. GrantsUsable /\ Disjoint /\ NothingLeaked
  BY DEF GrantsUsable, Disjoint, NothingLeaked, CellsOf
<1> QED
  BY <1>1, <1>2, <1>3 DEF AreaIInv

(* The range of a successful compare-exchange lies just above all others.   *)
LEMMA BumpIInv ==
  ASSUME AreaIInv, NEW t \in Threads, Bump(t)
  PROVE  AreaIInv'
<1> USE StaticAreaAssumption
<1> DEFINE n == Len(granted)
           g == Claimed(t)
<1>1. /\ top \in 0..Reserved
      /\ committed \in 0..Reserved
      /\ want[t] \in Sizes
      /\ want[t] \in Nat \ {0}
      /\ cur[t] = top
      /\ New(t) = top + want[t]
      /\ New(t) <= Reserved
      /\ New(t) <= committed
      /\ top' = top + want[t]
      /\ committed' = committed
  BY DEF AreaIInv, AreaTypeOK, Established, Bump, New
<1>2. /\ granted \in Seq([first : 0..Reserved, size : Sizes])
      /\ g \in [first : 0..Reserved, size : Sizes]
      /\ g.first = top
      /\ g.size = want[t]
      /\ granted' = Append(granted, g)
  BY <1>1 DEF AreaIInv, AreaTypeOK, Bump, Claimed
<1>3. /\ n \in Nat
      /\ Len(granted') = n + 1
      /\ granted'[n + 1] = g
      /\ \A i \in 1..n : granted'[i] = granted[i]
      /\ \A i \in 1..(n + 1) : i \in 1..n \/ i = n + 1
  BY <1>2
<1>4. CellsOf(g) = top .. (top + want[t] - 1)
  BY <1>2 DEF CellsOf
<1>5. \A i \in 1..n : \A c \in CellsOf(granted[i]) : c < committed /\ c < top
  BY DEF AreaIInv, GrantsUsable
<1>6. \A i \in 1..n : \A c \in CellsOf(granted[i]) : c \notin CellsOf(g)
  <2> SUFFICES ASSUME NEW i \in 1..n, NEW c \in CellsOf(granted[i]), c \in CellsOf(g)
               PROVE  FALSE
    OBVIOUS
  <2>1. c < top
    BY <1>5
  <2>2. c \in Int /\ c >= top
    BY <1>1, <1>4
  <2> QED
    BY <1>1, <2>1, <2>2
<1>7. AreaTypeOK'
  BY <1>1, <1>2 DEF AreaIInv, AreaTypeOK, Bump, At
<1>8. Established'
  BY <1>1 DEF AreaIInv, AreaTypeOK, Established, Bump, At, New
<1>9. GrantsUsable'
  <2> SUFFICES ASSUME NEW i \in 1..(n + 1), NEW c \in CellsOf(granted'[i])
               PROVE  c < committed' /\ c < top'
    BY <1>3 DEF GrantsUsable, CellsOf
  <2>1. CASE i \in 1..n
    <3>1. c \in CellsOf(granted[i])
      BY <1>3, <2>1
    <3>2. c < committed /\ c < top /\ c \in Int
      BY <1>5, <2>1, <3>1 DEF CellsOf
    <3> QED
      BY <1>1, <3>2
  <2>2. CASE i = n + 1
    <3>1. c \in top .. (top + want[t] - 1)
      BY <1>3, <1>4, <2>2
    <3> QED
      BY <1>1, <3>1
  <2> QED
    BY <1>3, <2>1, <2>2
<1>10. Disjoint'
  <2> SUFFICES ASSUME NEW i \in 1..(n + 1), NEW j \in 1..(n + 1), i # j
               PROVE  CellsOf(granted'[i]) \cap CellsOf(granted'[j]) = {}
    BY <1>3 DEF Disjoint, CellsOf
  <2>1. CASE i \in 1..n /\ j \in 1..n
    BY <1>3, <2>1 DEF AreaIInv, Disjoint
  <2>2. CASE i \in 1..n /\ j = n + 1
    BY <1>3, <1>6, <2>2
  <2>3. CASE i = n + 1 /\ j \in 1..n
    BY <1>3, <1>6, <2>3
  <2> QED
    BY <1>3, <2>1, <2>2, <2>3
<1>11. NothingLeaked'
  <2> SUFFICES ASSUME NEW c \in 0..(top' - 1)
               PROVE  \E i \in 1..(n + 1) : c \in CellsOf(granted'[i])
    BY <1>3 DEF NothingLeaked, CellsOf
  <2>1. CASE c < top
    <3>1. c \in 0..(top - 1)
      BY <1>1, <2>1
    <3>2. PICK i \in 1..n : c \in CellsOf(granted[i])
      BY <3>1 DEF AreaIInv, NothingLeaked
    <3>3. i \in 1..(n + 1) /\ c \in CellsOf(granted'[i])
      BY <1>3, <3>2
    <3> QED
      BY <3>3
  <2>2. CASE c >= top
    <3>1. c \in top .. (top + want[t] - 1)
      BY <1>1, <2>2
    <3>2. n + 1 \in 1..(n + 1) /\ c \in CellsOf(granted'[n + 1])
      BY <1>3, <1>4, <3>1
    <3> QED
      BY <3>2
  <2> QED
    BY <1>1, <2>1, <2>2
<1> QED
  BY <1>7, <1>8, <1>9, <1>10, <1>11 DEF AreaIInv

(* The other steps leave the ranges and the top alone; committed only grows. *)
LEMMA AreaStepIInv ==
  ASSUME AreaIInv, [AreaNext]_areaVars
  PROVE  AreaIInv'
<1> USE StaticAreaAssumption
<1>0. /\ AreaTypeOK
      /\ Established
      /\ \A t \in Threads : want[t] \in Nat /\ cur[t] \in Nat
  <2>1. AreaTypeOK /\ Established
    BY DEF AreaIInv
  <2>2. \A t \in Threads : want[t] \in Sizes \cup {0} /\ cur[t] \in 0..Reserved
    BY <2>1 DEF AreaTypeOK
  <2>3. \A t \in Threads : want[t] \in Nat
    <3>1. \A n \in Sizes \cup {0} : n \in Nat
      OBVIOUS
    <3> QED
      BY <2>2, <3>1
  <2>4. \A t \in Threads : cur[t] \in Nat
    BY <2>2
  <2> QED
    BY <2>1, <2>3, <2>4
<1>1. ASSUME top' = top, granted' = granted, committed' \in 0..Reserved,
             committed' >= committed
      PROVE  GrantsUsable' /\ Disjoint' /\ NothingLeaked'
  <2>1. GrantsUsable'
    <3> SUFFICES ASSUME NEW i \in 1..Len(granted), NEW c \in CellsOf(granted[i])
                 PROVE  c < committed' /\ c < top
      BY <1>1 DEF GrantsUsable, CellsOf
    <3>1. c < committed /\ c < top /\ c \in Int
      BY DEF AreaIInv, GrantsUsable, CellsOf
    <3> QED
      BY <1>0, <1>1, <3>1 DEF AreaTypeOK
  <2>2. Disjoint' /\ NothingLeaked'
    BY <1>1 DEF AreaIInv, Disjoint, NothingLeaked, CellsOf
  <2> QED
    BY <2>1, <2>2
<1>2. CASE UNCHANGED areaVars
  BY <1>2 DEF areaVars, AreaIInv, AreaTypeOK, Established, New, GrantsUsable, Disjoint,
    NothingLeaked, CellsOf
<1>3. ASSUME NEW t \in Threads, NEW n \in Sizes, Call(t, n)
      PROVE  AreaIInv'
  <2>1. AreaTypeOK' /\ Established'
    BY <1>0, <1>3 DEF Call, AreaTypeOK, Established, At, New
  <2> QED
    BY <1>0, <1>1, <1>3, <2>1 DEF Call, AreaTypeOK, AreaIInv
<1>4. ASSUME NEW t \in Threads, LoadTop(t)
      PROVE  AreaIInv'
  <2>1. AreaTypeOK' /\ Established'
    BY <1>0, <1>4 DEF LoadTop, AreaTypeOK, Established, At, New
  <2> QED
    BY <1>0, <1>1, <1>4, <2>1 DEF LoadTop, AreaTypeOK, AreaIInv
<1>5. ASSUME NEW t \in Threads, CheckCommitted(t)
      PROVE  AreaIInv'
  <2>1. AreaTypeOK' /\ Established'
    BY <1>0, <1>5 DEF CheckCommitted, AreaTypeOK, Established, At, New
  <2> QED
    BY <1>0, <1>1, <1>5, <2>1 DEF CheckCommitted, AreaTypeOK, AreaIInv
<1>6. ASSUME NEW t \in Threads, Grow(t)
      PROVE  AreaIInv'
  <2> DEFINE more == ChunksFor(New(t) - committed) * Chunk
  <2>1. /\ New(t) \in Nat
        /\ New(t) <= Reserved
        /\ committed \in 0..Reserved
    BY <1>0, <1>6 DEF AreaTypeOK, Established, Grow, New
  <2>2. /\ committed' \in 0..Reserved
        /\ committed' >= committed
        /\ committed' >= New(t)
    <3>1. CASE committed >= New(t)
      BY <1>6, <2>1, <3>1 DEF Grow
    <3>2. CASE committed < New(t)
      <4>1. New(t) - committed \in Nat
        BY <2>1, <3>2
      <4>2. ChunksFor(New(t) - committed) \in Nat /\ more >= New(t) - committed
        BY <4>1, ChunksCover
      <4>3. more \in Nat
        BY <4>2
      <4>4. committed' = Least(committed + more, Reserved)
        BY <1>6, <2>1, <3>2 DEF Grow
      <4> QED
        BY <2>1, <4>2, <4>3, <4>4 DEF Least
    <3> QED
      BY <2>1, <3>1, <3>2
  <2>3. AreaTypeOK'
    BY <1>0, <1>6, <2>2 DEF Grow, AreaTypeOK, At
  <2>4. Established'
    <3> SUFFICES ASSUME NEW u \in Threads
                 PROVE  /\ pc'[u] # "idle" => want[u] \in Sizes
                        /\ pc'[u] \in {"check", "grow", "cas"} => New(u) <= Reserved
                        /\ pc'[u] = "cas" => New(u) <= committed'
      BY <1>6 DEF Established, Grow, New
    <3>1. New(u) \in Nat
      BY <1>0 DEF New
    <3>2. CASE u = t
      BY <1>0, <1>6, <2>2, <3>2 DEF Grow, AreaTypeOK, Established, At
    <3>3. CASE u # t
      BY <1>0, <1>6, <2>1, <2>2, <3>1, <3>3 DEF Grow, AreaTypeOK, Established, At
    <3> QED
      BY <3>2, <3>3
  <2> QED
    BY <1>1, <1>6, <2>2, <2>3, <2>4 DEF Grow, AreaIInv
<1>7. ASSUME NEW t \in Threads, GrowFails(t)
      PROVE  AreaIInv'
  <2>1. AreaTypeOK' /\ Established'
    BY <1>0, <1>7 DEF GrowFails, AreaTypeOK, Established, At, New
  <2> QED
    BY <1>0, <1>1, <1>7, <2>1 DEF GrowFails, AreaTypeOK, AreaIInv
<1>8. ASSUME NEW t \in Threads, Retry(t)
      PROVE  AreaIInv'
  <2>1. AreaTypeOK' /\ Established'
    BY <1>0, <1>8 DEF Retry, AreaTypeOK, Established, At, New
  <2> QED
    BY <1>0, <1>1, <1>8, <2>1 DEF Retry, AreaTypeOK, AreaIInv
<1> QED
  BY <1>2, <1>3, <1>4, <1>5, <1>6, <1>7, <1>8, BumpIInv DEF AreaNext, Step

(* The allocator's state keeps its types.                                   *)
THEOREM AreaTypeCorrect == AreaSpec => []AreaTypeOK
<1>1. AreaIInv => AreaTypeOK
  BY DEF AreaIInv
<1> QED
  BY <1>1, AreaInitIInv, AreaStepIInv, PTL DEF AreaSpec

(* Concurrent callers of try_alloc_cells get disjoint ranges.               *)
THEOREM DisjointHolds == AreaSpec => []Disjoint
<1>1. AreaIInv => Disjoint
  BY DEF AreaIInv
<1> QED
  BY <1>1, AreaInitIInv, AreaStepIInv, PTL DEF AreaSpec

(* A range may be written at once: its cells are committed and scanned.     *)
THEOREM GrantsUsableHolds == AreaSpec => []GrantsUsable
<1>1. AreaIInv => GrantsUsable
  BY DEF AreaIInv
<1> QED
  BY <1>1, AreaInitIInv, AreaStepIInv, PTL DEF AreaSpec

(* What the collector scans, it scans for somebody: no cell below the top   *)
(* is lost in a race.                                                       *)
THEOREM NothingLeakedHolds == AreaSpec => []NothingLeaked
<1>1. AreaIInv => NothingLeaked
  BY DEF AreaIInv
<1> QED
  BY <1>1, AreaInitIInv, AreaStepIInv, PTL DEF AreaSpec

-----------------------------------------------------------------------------
(* Safepoints *)

(* The driver is the thread that stops the world, and only a world without
   a driver is left or entered again. *)
OneDriver ==
  \A m \in Mutators : mode[m] \in {"driving", "collecting"} <=> driver = m

(* A thread that is not managed has published its window and stands still. *)
WindowsPublished ==
  \A m \in Mutators : mode[m] # "managed" => window[m] = depth[m]

IInv == TypeOK /\ OneDriver /\ WindowsPublished /\ CollectsAlone

LEMMA InitIInv == Init => IInv
BY SafepointAssumption DEF Init, IInv, TypeOK, Modes, OneDriver, WindowsPublished, CollectsAlone

LEMMA StepIInv ==
  ASSUME IInv, [Next]_vars
  PROVE  IInv'
<1> USE SafepointAssumption
<1> USE DEF IInv, TypeOK, OneDriver, WindowsPublished, CollectsAlone, Modes, Running, Goto,
    PublishStackWindow, resources, NativeWaits, ManagedWaits, CondvarWaits, MayBlock
<1>1. CASE UNCHANGED vars
  BY <1>1 DEF vars
<1>2. ASSUME NEW m \in Mutators, CallFunction(m)
      PROVE  IInv'
  BY <1>2 DEF CallFunction
<1>3. ASSUME NEW m \in Mutators, Park(m)
      PROVE  IInv'
  BY <1>3 DEF Park
<1>4. ASSUME NEW m \in Mutators, Drive(m)
      PROVE  IInv'
  BY <1>4 DEF Drive
<1>5. ASSUME NEW m \in Mutators, Collect(m)
      PROVE  IInv'
  BY <1>5 DEF Collect, WorldStopped
<1>6. ASSUME NEW m \in Mutators, ResumeWorld(m)
      PROVE  IInv'
  BY <1>6 DEF ResumeWorld
<1>7. ASSUME NEW m \in Mutators, NEW w \in Uses[m], EnterBlocked(m, w)
      PROVE  IInv'
  BY <1>7 DEF EnterBlocked
<1>8. ASSUME NEW m \in Mutators, NEW w \in Uses[m], EnterManaged(m, w)
      PROVE  IInv'
  BY <1>8 DEF EnterManaged
<1>9. ASSUME NEW m \in Mutators, Proceed(m)
      PROVE  IInv'
  BY <1>9 DEF Proceed
<1>10. ASSUME NEW m \in Mutators, LeaveBlocked(m)
       PROVE  IInv'
  BY <1>10 DEF LeaveBlocked
<1>11. ASSUME NEW m \in Mutators, LeaveSection(m)
       PROVE  IInv'
  BY <1>11 DEF LeaveSection
<1>12. ASSUME NEW m \in Mutators, NEW u \in Mutators, Request(m, u)
       PROVE  IInv'
  BY <1>12 DEF Request
<1>13. ASSUME NEW m \in Mutators, SendUnbounded(m)
       PROVE  IInv'
  BY <1>13 DEF SendUnbounded
<1>14. ASSUME NEW m \in Mutators, ReleaseSection(m)
       PROVE  IInv'
  BY <1>14 DEF ReleaseSection
<1> HIDE DEF IInv
<1> QED
  BY <1>1, <1>2, <1>3, <1>4, <1>5, <1>6, <1>7, <1>8, <1>9, <1>10, <1>11, <1>12, <1>13,
     <1>14 DEF Next, Work, Cooperate, Returns

LEMMA InductiveInvariant == Spec => []IInv
BY InitIInv, StepIInv, PTL DEF Spec

(* The handshake's state stays within its types: in particular the mailbox  *)
(* never holds more than its capacity.                                      *)
THEOREM TypeCorrect == Spec => []TypeOK
<1>1. IInv => TypeOK
  BY DEF IInv
<1> QED
  BY <1>1, InductiveInvariant, PTL

(* A collection runs alone: one driver, and no other thread is managed.     *)
THEOREM CollectsAloneHolds == Spec => []CollectsAlone
<1>1. IInv => CollectsAlone
  BY DEF IInv
<1> QED
  BY <1>1, InductiveInvariant, PTL

(* While it runs the published windows cover exactly the live frames.       *)
THEOREM WindowsCoverFramesHolds == Spec => []WindowsCoverFrames
<1>1. IInv => WindowsCoverFrames
  <2> SUFFICES ASSUME IInv, NEW m \in Mutators, mode[m] = "collecting", NEW u \in Mutators
               PROVE  window[u] = depth[u]
    BY DEF WindowsCoverFrames
  <2>1. mode[u] # "managed"
    BY DEF IInv, CollectsAlone
  <2> QED
    BY <2>1 DEF IInv, WindowsPublished
<1> QED
  BY <1>1, InductiveInvariant, PTL
=============================================================================
