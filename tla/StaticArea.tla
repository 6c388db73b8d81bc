----------------------------- MODULE StaticArea -----------------------------
(***************************************************************************)
(* The allocator of the static area (ncl-runtime/src/static_area.rs): a    *)
(* bump pointer advanced with compare-exchange, over address space whose   *)
(* committed part grows on demand under a mutex (the elastic backing) or   *)
(* is all of it from the start (the boxed one: Initial = Reserved).        *)
(* Each action is one atomic operation or the region of commit_lock.       *)
(***************************************************************************)
EXTENDS Integers, Sequences

CONSTANTS
  Threads,
  Reserved,    \* reserved_cells
  Initial,     \* committed_cells at the start
  Chunk,       \* COMMIT_GRANULARITY_CELLS
  Sizes        \* the sizes requested; every caller asks for a cell at least

ASSUME StaticAreaAssumption ==
  /\ Reserved \in Nat
  /\ Initial \in 0..Reserved
  /\ Chunk \in Nat \ {0}
  /\ Sizes \subseteq Nat \ {0}

VARIABLES
  top,         \* the bump pointer, a cell index
  committed,   \* committed_cells
  pc,          \* where each thread is in try_alloc_cells
  want,        \* the cells it asks for
  cur,         \* the top it has loaded
  granted      \* history: the ranges handed out, as [first, size]

areaVars == <<top, committed, pc, want, cur, granted>>

At(t, p) == [pc EXCEPT ![t] = p]
New(t) == cur[t] + want[t]
Least(a, b) == IF a <= b THEN a ELSE b

AreaInit ==
  /\ top = 0
  /\ committed = Initial
  /\ pc = [t \in Threads |-> "idle"]
  /\ want = [t \in Threads |-> 0]
  /\ cur = [t \in Threads |-> 0]
  /\ granted = <<>>

Call(t, n) ==
  /\ pc[t] = "idle"
  /\ want' = [want EXCEPT ![t] = n]
  /\ pc' = At(t, "load")
  /\ UNCHANGED <<top, committed, cur, granted>>

(* The head of the retry loop; None if the reservation is exhausted. *)
LoadTop(t) ==
  /\ pc[t] = "load"
  /\ cur' = [cur EXCEPT ![t] = top]
  /\ pc' = At(t, IF top + want[t] > Reserved THEN "idle" ELSE "check")
  /\ UNCHANGED <<top, committed, want, granted>>

CheckCommitted(t) ==
  /\ pc[t] = "check"
  /\ pc' = At(t, IF New(t) > committed THEN "grow" ELSE "cas")
  /\ UNCHANGED <<top, committed, want, cur, granted>>

(* Faulty variant of Grow: always one chunk. *)
GrowOneChunk(t) ==
  /\ pc[t] = "grow"
  /\ committed' = IF committed >= New(t) THEN committed
                  ELSE Least(committed + Chunk, Reserved)
  /\ pc' = At(t, "cas")
  /\ UNCHANGED <<top, want, cur, granted>>

(***************************************************************************)
(* grow_committed_to, under commit_lock: another thread may have grown the *)
(* area meanwhile; otherwise commit whole chunks up to the reservation.    *)
(***************************************************************************)
ChunksFor(n) == (n + Chunk - 1) \div Chunk
Grow(t) ==
  /\ pc[t] = "grow"
  /\ committed' =
       IF committed >= New(t) THEN committed
       ELSE Least(committed + ChunksFor(New(t) - committed) * Chunk, Reserved)
  /\ pc' = At(t, "cas")
  /\ UNCHANGED <<top, want, cur, granted>>

(* The operating system refuses to commit. *)
GrowFails(t) ==
  /\ pc[t] = "grow"
  /\ committed < New(t)
  /\ pc' = At(t, "idle")
  /\ UNCHANGED <<top, committed, want, cur, granted>>

Claimed(t) == [first |-> cur[t], size |-> want[t]]

(* Faulty variants of Bump: a store in place of the compare-exchange, and   *)
(* one that writes the loaded top back.                                     *)
BumpBlindly(t) ==
  /\ pc[t] = "cas"
  /\ top' = New(t)
  /\ granted' = Append(granted, Claimed(t))
  /\ pc' = At(t, "idle")
  /\ UNCHANGED <<committed, want, cur>>
BumpByOne(t) ==
  /\ pc[t] = "cas"
  /\ top = cur[t]
  /\ top' = New(t) + 1
  /\ granted' = Append(granted, Claimed(t))
  /\ pc' = At(t, "idle")
  /\ UNCHANGED <<committed, want, cur>>

Bump(t) ==
  /\ pc[t] = "cas"
  /\ top = cur[t]
  /\ top' = New(t)
  /\ granted' = Append(granted, Claimed(t))
  /\ pc' = At(t, "idle")
  /\ UNCHANGED <<committed, want, cur>>

(* Faulty variant of Retry: the old top is tried again. *)
RetryStale(t) ==
  /\ pc[t] = "cas"
  /\ top # cur[t]
  /\ pc' = At(t, "check")
  /\ UNCHANGED <<top, committed, want, cur, granted>>

(* The race is lost. *)
Retry(t) ==
  /\ pc[t] = "cas"
  /\ top # cur[t]
  /\ pc' = At(t, "load")
  /\ UNCHANGED <<top, committed, want, cur, granted>>

Step(t) == \/ LoadTop(t) \/ CheckCommitted(t) \/ Grow(t) \/ GrowFails(t)
           \/ Bump(t) \/ Retry(t)
AreaNext == \E t \in Threads : Step(t) \/ \E n \in Sizes : Call(t, n)

(* A thread in the middle of an allocation is scheduled. *)
AreaSpec == AreaInit /\ [][AreaNext]_areaVars
AreaFairSpec == AreaSpec /\ \A t \in Threads : WF_areaVars(Step(t))
-----------------------------------------------------------------------------
AreaTypeOK ==
  /\ top \in 0..Reserved
  /\ committed \in 0..Reserved
  /\ pc \in [Threads -> {"idle", "load", "check", "grow", "cas"}]
  /\ want \in [Threads -> Sizes \cup {0}]
  /\ cur \in [Threads -> 0..Reserved]
  /\ granted \in Seq([first : 0..Reserved, size : Sizes])

CellsOf(g) == g.first .. (g.first + g.size - 1)

(* "Multiple threads may call concurrently; each gets a disjoint range." *)
Disjoint ==
  \A i, j \in 1..Len(granted) :
    i # j => CellsOf(granted[i]) \cap CellsOf(granted[j]) = {}

(***************************************************************************)
(* A thread that is handed a range may write all of it at once: its cells  *)
(* are committed, and lie below the top up to which the collector scans.   *)
(***************************************************************************)
GrantsUsable ==
  \A i \in 1..Len(granted) :
    \A c \in CellsOf(granted[i]) : c < committed /\ c < top

(* Every cell the collector scans, below the top, belongs to some range: a *)
(* lost race leaks nothing.                                                *)
NothingLeaked ==
  \A c \in 0..(top - 1) : \E i \in 1..Len(granted) : c \in CellsOf(granted[i])

(* Every call comes back: losing the race again and again fills the area. *)
EveryCallReturns == \A t \in Threads : pc[t] # "idle" ~> pc[t] = "idle"
=============================================================================
