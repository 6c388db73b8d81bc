----------------------- MODULE EventDispatcherProofs -----------------------
(***************************************************************************)
(* Every queue gets exactly its events, in order, and no reader sleeps     *)
(* beside one, for any readers, windows, filters, deadlines and any length *)
(* of the channel.                                                         *)
(***************************************************************************)
EXTENDS EventDispatcher, FiniteSetTheorems, SequenceTheorems, TLAPS

(* The part of the types that the argument needs. *)
Types ==
  /\ queue \in [Queues -> Seq(Nat)]
  /\ notify \in Queues \cup {Nobody}
  /\ filter \in [Readers -> SUBSET Children]
  /\ call \in [Readers -> Calls]
  /\ accepted \in Seq(Targets) /\ raw \in Seq(Nat) /\ Len(raw) <= Len(accepted)
  /\ targets \subseteq Queues /\ created \subseteq Queues

(***************************************************************************)
(* If readers are parked on a queue, each of its events has a reader that  *)
(* is awake, but for the last, which the dispatcher is about to announce.  *)
(***************************************************************************)
EventsAwaited ==
  \A id \in Queues :
    Parked(id) # {} =>
      Len(queue[id]) <= Cardinality(Waiting(id)) + (IF notify = id THEN 1 ELSE 0)

(***************************************************************************)
(* What ties the numbers together: the channel holds the events after the  *)
(* one in hand, in order; an event goes to registered queues only; a queue *)
(* that is not registered has never had an event.                          *)
(***************************************************************************)
Bookkeeping ==
  /\ disp \in {"recv", "route", "push"}
  /\ disp # "recv" => Hand >= 1
  /\ disp # "push" => targets = {}
  /\ targets \subseteq created /\ CatchAll \in created
  /\ Len(raw) <= Capacity /\ \A i \in 1..Len(raw) : raw[i] = Hand + i
  /\ popped \in [Queues -> Seq(Nat)]
  /\ since \in [Queues -> Nat] /\ \A id \in Queues : since[id] <= Routed
  /\ \A id \in Queues \ created : queue[id] = <<>> /\ popped[id] = <<>>

IInv == Types /\ EventsAwaited /\ Bookkeeping /\ QueuesAreExact

LEMMA ReaderSets ==
  ASSUME NEW S \in SUBSET Readers
  PROVE  /\ IsFiniteSet(S) /\ Cardinality(S) \in Nat
         /\ \A R \in SUBSET S : Cardinality(R) <= Cardinality(S)
         /\ \A r \in Readers \ S : Cardinality(S \cup {r}) = Cardinality(S) + 1
         /\ \A r \in S : Cardinality(S \ {r}) = Cardinality(S) - 1
         /\ Cardinality(S) = 0 <=> S = {}
BY FS_Subset, FS_CardinalityType, FS_AddElement, FS_RemoveElement, FS_EmptySet,
   DispatcherAssumption

LEMMA CallSets ==
  ASSUME call \in [Readers -> Calls], NEW id
  PROVE  Waiting(id) \in SUBSET Readers /\ Parked(id) \in SUBSET Readers
BY DEF Waiting, Parked

(* What the readers' steps do to the calls. *)
LEMMA GotoCall ==
  ASSUME call \in [Readers -> Calls], NEW r \in Readers,
         NEW p \in {"run", "wait", "parked", "spin"}, Goto(r, p)
  PROVE  /\ call' \in [Readers -> Calls]
         /\ call'[r].at = p /\ call'[r].on = call[r].on
         /\ \A s \in Readers \ {r} : call'[s] = call[s]
BY DEF Goto, Calls

LEMMA ReturnCall ==
  ASSUME call \in [Readers -> Calls], NEW r \in Readers, Return(r)
  PROVE  /\ call' \in [Readers -> Calls]
         /\ call'[r].at = "run"
         /\ \A s \in Readers \ {r} : call'[s] = call[s]
BY DEF Return, Calls, Idle, Queues

LEMMA WaitOnCall ==
  ASSUME call \in [Readers -> Calls], NEW r \in Readers, NEW id \in Queues,
         NEW deadline \in {"never", "ahead"}, WaitOn(r, id, deadline)
  PROVE  /\ call' \in [Readers -> Calls]
         /\ call'[r].at = "wait"
         /\ \A s \in Readers \ {r} : call'[s] = call[s]
BY DEF WaitOn, Calls

LEMMA SpinCall ==
  ASSUME Types, NEW r \in Readers,
         \/ \E deadline \in {"never", "ahead"} : CallNextEventSpin(r, deadline)
         \/ Is(r, "spin") /\ \E W \in SUBSET Children : call' = [call EXCEPT ![r].left = W]
  PROVE  /\ call' \in [Readers -> Calls]
         /\ call[r].at \in {"run", "spin"} /\ call'[r].at = "spin"
         /\ \A s \in Readers \ {r} : call'[s] = call[s]
<1>1. ASSUME NEW deadline \in {"never", "ahead"}, CallNextEventSpin(r, deadline)
      PROVE  /\ call' \in [Readers -> Calls]
             /\ call[r].at = "run" /\ call'[r].at = "spin"
             /\ \A s \in Readers \ {r} : call'[s] = call[s]
  BY <1>1 DEF Types, CallNextEventSpin, Calls, Is, Queues
<1>2. ASSUME Is(r, "spin"), NEW W \in SUBSET Children, call' = [call EXCEPT ![r].left = W]
      PROVE  /\ call' \in [Readers -> Calls]
             /\ call[r].at = "spin" /\ call'[r].at = "spin"
             /\ \A s \in Readers \ {r} : call'[s] = call[s]
  <2>0. call[r] \in Calls
    BY DEF Types
  <2>1. [call[r] EXCEPT !.left = W] \in Calls
    BY <1>2, <2>0 DEF Calls
  <2>2. call' = [call EXCEPT ![r] = [call[r] EXCEPT !.left = W]]
    BY <1>2
  <2>3. call \in [Readers -> Calls] /\ call[r].at = "spin"
    BY <1>2 DEF Types, Is
  <2>4. [call[r] EXCEPT !.left = W].at = call[r].at
    BY <2>3 DEF Calls
  <2> QED
    BY <2>1, <2>2, <2>3, <2>4
<1> QED
  BY <1>1, <1>2

LEMMA DeadlineCall ==
  ASSUME call \in [Readers -> Calls], NEW r \in Readers, Deadline(r)
  PROVE  /\ call' \in [Readers -> Calls]
         /\ call'[r].at = IF call[r].at = "parked" THEN "wait" ELSE call[r].at
         /\ call'[r].on = call[r].on
         /\ \A s \in Readers \ {r} : call'[s] = call[s]
<1> DEFINE at == IF call[r].at = "parked" THEN "wait" ELSE call[r].at
           fr == [call[r] EXCEPT !.deadline = "past", !.at = at]
<1>1. call[r] \in Calls
  OBVIOUS
<1>2. fr \in Calls /\ fr.at = at /\ fr.on = call[r].on
  BY <1>1 DEF Calls
<1>3. call' = [call EXCEPT ![r] = fr]
  BY <1>1 DEF Deadline, Calls
<1> HIDE DEF fr
<1> QED
  BY <1>2, <1>3

(***************************************************************************)
(* A step that leaves the queues alone keeps EventsAwaited if the reader   *)
(* it moves is no longer parked, and was not waiting.                      *)
(***************************************************************************)
LEMMA Harmless ==
  ASSUME Types, EventsAwaited, NEW r \in Readers, UNCHANGED <<queue, notify>>,
         call'[r].at = "parked" => call'[r] = call[r],
         call[r].at = "wait" => call'[r].at = "wait" /\ call'[r].on = call[r].on,
         \A s \in Readers \ {r} : call'[s] = call[s]
  PROVE  EventsAwaited'
<1> SUFFICES ASSUME NEW id \in Queues, Parked(id)' # {}
             PROVE  Len(queue[id]) <= Cardinality(Waiting(id)') + (IF notify = id THEN 1 ELSE 0)
  BY DEF EventsAwaited
<1>1. Parked(id) # {}
  BY DEF Parked, Is
<1>2. Waiting(id) \subseteq Waiting(id)' /\ Waiting(id)' \in SUBSET Readers
  BY DEF Waiting, Is
<1>3. /\ Cardinality(Waiting(id)) <= Cardinality(Waiting(id)')
      /\ Cardinality(Waiting(id)) \in Nat /\ Cardinality(Waiting(id)') \in Nat
  BY <1>2, ReaderSets
<1>4. Len(queue[id]) \in Nat
  BY DEF Types
<1>5. Len(queue[id]) <= Cardinality(Waiting(id)) + (IF notify = id THEN 1 ELSE 0)
  BY <1>1 DEF EventsAwaited
<1> QED
  BY <1>3, <1>4, <1>5

LEMMA PopTypes ==
  ASSUME Types, NEW id \in Queues, Pop(id)
  PROVE  /\ queue' \in [Queues -> Seq(Nat)]
         /\ Len(queue[id]) > 0 /\ Len(queue'[id]) = Len(queue[id]) - 1
         /\ \A q \in Queues \ {id} : queue'[q] = queue[q]
BY DEF Types, Pop

(* A poll of the spin loop that takes an event, on whatever queue. *)
LEMMA PopSpin ==
  ASSUME Types, EventsAwaited, NEW r \in Readers, NEW id \in Queues, Pop(id), Return(r),
         Is(r, "spin"), UNCHANGED notify
  PROVE  EventsAwaited'
<1>1. /\ call'[r].at = "run" /\ \A s \in Readers \ {r} : call'[s] = call[s]
  BY ReturnCall DEF Types
<1>2. \A q \in Queues : Parked(q)' = Parked(q) /\ Waiting(q)' = Waiting(q)
  BY <1>1 DEF Parked, Waiting, Is
<1>3. \A q \in Queues : /\ Len(queue[q]) \in Nat /\ Len(queue'[q]) \in Nat
                          /\ Len(queue'[q]) <= Len(queue[q])
  <2> TAKE q \in Queues
  <2>1. queue[q] \in Seq(Nat) /\ queue'[q] \in Seq(Nat)
    BY PopTypes DEF Types
  <2>2. CASE q = id
    BY <2>1, <2>2, PopTypes
  <2>3. CASE q # id
    BY <2>1, <2>3, PopTypes
  <2> QED
    BY <2>2, <2>3
<1> SUFFICES ASSUME NEW q \in Queues, Parked(q)' # {}
             PROVE  Len(queue'[q]) <= Cardinality(Waiting(q)') + (IF notify = q THEN 1 ELSE 0)
  BY DEF EventsAwaited
<1>4. Len(queue[q]) <= Cardinality(Waiting(q)) + (IF notify = q THEN 1 ELSE 0)
  BY <1>2 DEF EventsAwaited
<1>5. Cardinality(Waiting(q)) \in Nat
  BY CallSets, ReaderSets DEF Types
<1>6. Waiting(q)' = Waiting(q) /\ Len(queue'[q]) <= Len(queue[q])
  BY <1>2, <1>3
<1> QED
  BY <1>3, <1>4, <1>5, <1>6

LEMMA StepTypes ==
  ASSUME Types, [Next]_vars
  PROVE  Types'
<1> USE DispatcherAssumption DEF Types, queues, dispatcher, reader
<1>1. CASE UNCHANGED vars
  BY <1>1 DEF vars
<1>2. ASSUME NEW tgt \in Sources, Push(tgt)
      PROVE  Types'
  BY <1>2 DEF Push
<1>3. CASE Recv
  BY <1>3 DEF Recv
<1>4. CASE TakeTargets
  <2>1. targets' \subseteq Queues
    BY <1>4 DEF TakeTargets, Route, Queues
  <2> QED
    BY <1>4, <2>1 DEF TakeTargets
<1>5. CASE NotifyReader
  <2>1. CASE UNCHANGED call
    BY <1>5, <2>1 DEF NotifyReader
  <2>2. ASSUME NEW r \in Parked(notify), Goto(r, "wait")
        PROVE  Types'
    BY <1>5, <2>2, GotoCall DEF NotifyReader, Parked
  <2> QED
    BY <1>5, <2>1, <2>2 DEF NotifyReader
<1>6. CASE NextEvent
  BY <1>6 DEF NextEvent
<1>7. ASSUME NEW id \in Queues, PushTo(id)
      PROVE  Types'
  <2>1. Hand \in Nat
    BY DEF Hand
  <2> QED
    BY <1>7, <2>1 DEF PushTo
<1>8. ASSUME NEW r \in Readers, Call(r)
      PROVE  Types'
  <2>1. ASSUME NEW id \in Windows[r], FilterOnWindow(r, id)
        PROVE  Types'
    BY <2>1 DEF FilterOnWindow, Create, Queues
  <2>2. ASSUME NEW W \in SUBSET filter[r], UnfilterWindow(r, W)
        PROVE  Types'
    BY <2>2 DEF UnfilterWindow
  <2>3. ASSUME NEW id \in Queues, NEW deadline \in Deadlines[r], WaitOn(r, id, deadline)
        PROVE  Types'
    <3>1. created' \subseteq Queues
      BY <2>3 DEF WaitOn, Create
    <3> QED
      BY <2>3, <3>1, WaitOnCall DEF WaitOn
  <2>4. ASSUME NEW deadline \in Deadlines[r], CallNextEventSpin(r, deadline)
        PROVE  Types'
    BY <2>4, SpinCall DEF CallNextEventSpin
  <2> QED
    BY <1>8, <2>1, <2>2, <2>3, <2>4 DEF Call, CallNextEvent, CallNextEventFor, Queues
<1>9. ASSUME NEW r \in Readers, Step(r)
      PROVE  Types'
  <2>1. CASE WaitPop(r)
    BY <2>1, PopTypes, ReturnCall DEF WaitPop, Calls
  <2>2. CASE WaitPark(r)
    BY <2>2, GotoCall, ReturnCall DEF WaitPark
  <2>3. CASE SpinRound(r)
    BY <2>3, SpinCall, ReturnCall DEF SpinRound
  <2>4. ASSUME NEW id \in Children, SpinPoll(r, id)
        PROVE  Types'
    <3>1. CASE Pop(id) /\ Return(r)
      BY <2>4, <3>1, PopTypes, ReturnCall DEF SpinPoll, Queues
    <3>2. CASE call' = [call EXCEPT ![r].left = @ \ {id}] /\ UNCHANGED <<queue, popped>>
      <4>1. call[r].left \ {id} \in SUBSET Children
        BY DEF Calls
      <4> QED
        BY <2>4, <3>2, <4>1, SpinCall DEF SpinPoll
    <3> QED
      BY <2>4, <3>1, <3>2 DEF SpinPoll
  <2> QED
    BY <1>9, <2>1, <2>2, <2>3, <2>4 DEF Step
<1>10. ASSUME NEW r \in Readers, Deadline(r) \/ SpuriousWake(r)
       PROVE  Types'
  BY <1>10, DeadlineCall, GotoCall DEF Deadline, SpuriousWake
<1> QED
  BY <1>1, <1>2, <1>3, <1>4, <1>5, <1>6, <1>7, <1>8, <1>9, <1>10 DEF Next, Dispatch

LEMMA StepAwaited ==
  ASSUME Types, EventsAwaited, [Next]_vars
  PROVE  EventsAwaited'
<1> USE DispatcherAssumption DEF queues, dispatcher, reader
<1>1. CASE UNCHANGED <<queue, notify, call>>
  BY <1>1 DEF EventsAwaited, Parked, Waiting, Is
<1>2. CASE UNCHANGED vars \/ Recv \/ TakeTargets \/ NextEvent \/ \E tgt \in Sources : Push(tgt)
  BY <1>1, <1>2 DEF vars, Recv, TakeTargets, NextEvent, Push
<1>3. CASE NotifyReader
  <2>1. CASE Parked(notify) = {}
    <3>1. /\ notify \in Queues /\ notify' = Nobody /\ UNCHANGED <<queue, call>>
      BY <1>3, <2>1 DEF NotifyReader, Types
    <3> SUFFICES ASSUME NEW id \in Queues, Parked(id)' # {}
                 PROVE  Len(queue'[id]) <= Cardinality(Waiting(id)') + (IF notify' = id THEN 1 ELSE 0)
      BY DEF EventsAwaited
    <3>2. Parked(id) # {} /\ Waiting(id)' = Waiting(id) /\ id # notify
      BY <2>1, <3>1 DEF Parked, Waiting, Is
    <3>3. Cardinality(Waiting(id)) \in Nat
      BY CallSets, ReaderSets DEF Types
    <3> QED
      BY <3>1, <3>2, <3>3 DEF EventsAwaited
  <2>2. ASSUME NEW r \in Parked(notify), Goto(r, "wait")
        PROVE  EventsAwaited'
    <3>1. /\ r \in Readers /\ call[r].at = "parked" /\ call[r].on = notify
          /\ notify' = Nobody /\ queue' = queue /\ notify \in Queues
      BY <1>3, <2>2 DEF NotifyReader, Parked, Is, Types
    <3>2. /\ call'[r].at = "wait" /\ call'[r].on = notify
          /\ \A s \in Readers \ {r} : call'[s] = call[s]
      BY <2>2, <3>1, GotoCall DEF Types
    <3> SUFFICES ASSUME NEW id \in Queues, Parked(id)' # {}
                 PROVE  Len(queue'[id]) <= Cardinality(Waiting(id)') + (IF notify' = id THEN 1 ELSE 0)
      BY DEF EventsAwaited
    <3>3. Parked(id) # {}
      BY <3>1, <3>2 DEF Parked, Is
    <3>4. Len(queue[id]) <= Cardinality(Waiting(id)) + (IF notify = id THEN 1 ELSE 0)
      BY <3>3 DEF EventsAwaited
    <3>5. /\ Waiting(id) \in SUBSET Readers /\ Cardinality(Waiting(id)) \in Nat
          /\ Len(queue[id]) \in Nat
      BY CallSets, ReaderSets DEF Types
    <3>6. CASE id = notify
      <4>1. Waiting(id)' = Waiting(id) \cup {r} /\ r \in Readers \ Waiting(id)
        BY <3>1, <3>2, <3>6 DEF Waiting, Is
      <4>2. Cardinality(Waiting(id)') = Cardinality(Waiting(id)) + 1
        BY <3>5, <4>1, ReaderSets
      <4> QED
        BY <3>1, <3>4, <3>5, <3>6, <4>2
    <3>7. CASE id # notify
      <4>1. Waiting(id)' = Waiting(id)
        BY <3>1, <3>2, <3>7 DEF Waiting, Is
      <4> QED
        BY <3>1, <3>4, <3>5, <3>7, <4>1
    <3> QED
      BY <3>6, <3>7
  <2> QED
    BY <1>3, <2>1, <2>2 DEF NotifyReader
<1>4. ASSUME NEW id \in Queues, PushTo(id)
      PROVE  EventsAwaited'
  <2>1. /\ notify = Nobody /\ notify' = id /\ call' = call
        /\ Len(queue'[id]) = Len(queue[id]) + 1
        /\ \A q \in Queues \ {id} : queue'[q] = queue[q]
    BY <1>4 DEF PushTo, Types
  <2> SUFFICES ASSUME NEW q \in Queues, Parked(q)' # {}
               PROVE  Len(queue'[q]) <= Cardinality(Waiting(q)') + (IF notify' = q THEN 1 ELSE 0)
    BY DEF EventsAwaited
  <2>2. Parked(q) # {} /\ Waiting(q)' = Waiting(q)
    BY <2>1 DEF Parked, Waiting, Is
  <2>3. Cardinality(Waiting(q)) \in Nat /\ Len(queue[q]) \in Nat
    BY CallSets, ReaderSets DEF Types
  <2>4. Len(queue[q]) <= Cardinality(Waiting(q))
    BY <2>1, <2>2, <2>3 DEF EventsAwaited
  <2> QED
    BY <2>1, <2>2, <2>3, <2>4
<1>5. ASSUME NEW r \in Readers, Call(r)
      PROVE  EventsAwaited'
  <2>1. ASSUME NEW id \in Queues, NEW deadline \in Deadlines[r], WaitOn(r, id, deadline),
               Is(r, "run")
        PROVE  EventsAwaited'
    BY <2>1, WaitOnCall, Harmless DEF WaitOn, Is, Types
  <2>2. ASSUME NEW deadline \in Deadlines[r], CallNextEventSpin(r, deadline)
        PROVE  EventsAwaited'
    BY <2>2, SpinCall, Harmless DEF CallNextEventSpin
  <2>3. CASE UNCHANGED <<queue, notify, call>>
    BY <1>1, <2>3
  <2> QED
    BY <1>5, <2>1, <2>2, <2>3
       DEF Call, CallNextEvent, CallNextEventFor, FilterOnWindow, UnfilterWindow, Queues
<1>6. ASSUME NEW r \in Readers, WaitPop(r)
      PROVE  EventsAwaited'
  <2> DEFINE on == call[r].on
  <2>1. /\ on \in Queues /\ call[r].at = "wait" /\ Pop(on) /\ Return(r) /\ notify' = notify
    BY <1>6 DEF WaitPop, Types, Calls, Is
  <2>2. /\ call'[r].at = "run" /\ \A s \in Readers \ {r} : call'[s] = call[s]
    BY <2>1, ReturnCall DEF Types
  <2>3. /\ Len(queue'[on]) = Len(queue[on]) - 1
        /\ \A q \in Queues \ {on} : queue'[q] = queue[q]
    BY <2>1, PopTypes
  <2> SUFFICES ASSUME NEW q \in Queues, Parked(q)' # {}
               PROVE  Len(queue'[q]) <= Cardinality(Waiting(q)') + (IF notify' = q THEN 1 ELSE 0)
    BY DEF EventsAwaited
  <2>4. Parked(q) # {}
    BY <2>1, <2>2 DEF Parked, Is
  <2>5. /\ Waiting(q) \in SUBSET Readers /\ Cardinality(Waiting(q)) \in Nat
        /\ Len(queue[q]) \in Nat
    BY CallSets, ReaderSets DEF Types
  <2>6. Len(queue[q]) <= Cardinality(Waiting(q)) + (IF notify = q THEN 1 ELSE 0)
    BY <2>4 DEF EventsAwaited
  <2>7. CASE q = on
    <3>1. Waiting(q)' = Waiting(q) \ {r} /\ r \in Waiting(q)
      BY <2>1, <2>2, <2>7 DEF Waiting, Is
    <3>2. Cardinality(Waiting(q)') = Cardinality(Waiting(q)) - 1
      BY <2>5, <3>1, ReaderSets
    <3> QED
      BY <2>1, <2>3, <2>5, <2>6, <2>7, <3>2
  <2>8. CASE q # on
    <3>1. Waiting(q)' = Waiting(q)
      BY <2>1, <2>2, <2>8 DEF Waiting, Is
    <3> QED
      BY <2>1, <2>3, <2>5, <2>6, <2>8, <3>1
  <2> QED
    BY <2>7, <2>8
<1>7. ASSUME NEW r \in Readers, WaitPark(r)
      PROVE  EventsAwaited'
  <2> DEFINE on == call[r].on
  <2>1. /\ on \in Queues /\ call[r].at = "wait" /\ Len(queue[on]) = 0
        /\ UNCHANGED <<queue, notify>>
        /\ call'[r].at \in {"run", "parked"} /\ (call'[r].at = "parked" => call'[r].on = on)
        /\ \A s \in Readers \ {r} : call'[s] = call[s]
        /\ call' \in [Readers -> Calls]
    BY <1>7, GotoCall, ReturnCall DEF WaitPark, Types, Calls, Is
  <2> SUFFICES ASSUME NEW q \in Queues, Parked(q)' # {}
               PROVE  Len(queue'[q]) <= Cardinality(Waiting(q)') + (IF notify' = q THEN 1 ELSE 0)
    BY DEF EventsAwaited
  <2>2. /\ Waiting(q)' \in SUBSET Readers
        /\ Cardinality(Waiting(q)) \in Nat /\ Len(queue[q]) \in Nat
    BY CallSets, ReaderSets DEF Types, Waiting
  <2>3. Cardinality(Waiting(q)') \in Nat
    BY <2>2, ReaderSets
  <2>4. CASE q = on
    BY <2>1, <2>2, <2>3, <2>4
  <2>5. CASE q # on
    <3>1. Parked(q) # {} /\ Waiting(q)' = Waiting(q)
      BY <2>1, <2>5 DEF Parked, Waiting, Is
    <3> QED
      BY <2>1, <3>1 DEF EventsAwaited
  <2> QED
    BY <2>4, <2>5
<1>8. ASSUME NEW r \in Readers, SpinRound(r)
      PROVE  EventsAwaited'
  <2>1. /\ Is(r, "spin") /\ UNCHANGED <<queue, notify>>
        /\ Return(r) \/ call' = [call EXCEPT ![r].left = filter[r]]
    BY <1>8 DEF SpinRound
  <2>2. CASE Return(r)
    BY <2>1, <2>2, ReturnCall, Harmless DEF Types, Is
  <2>3. CASE call' = [call EXCEPT ![r].left = filter[r]]
    BY <2>1, <2>3, SpinCall, Harmless DEF Types, Is
  <2> QED
    BY <2>1, <2>2, <2>3
<1>9. ASSUME NEW r \in Readers, NEW id \in Children, SpinPoll(r, id)
      PROVE  EventsAwaited'
  <2>1. CASE Pop(id) /\ Return(r)
    BY <1>9, <2>1, PopSpin DEF SpinPoll, Queues
  <2>2. CASE call' = [call EXCEPT ![r].left = @ \ {id}] /\ UNCHANGED <<queue, popped>>
    <3>1. call[r].left \ {id} \in SUBSET Children
      BY DEF Types, Calls
    <3> QED
      BY <1>9, <2>2, <3>1, SpinCall, Harmless DEF SpinPoll, Is
  <2> QED
    BY <1>9, <2>1, <2>2 DEF SpinPoll
<1>10. ASSUME NEW r \in Readers, Deadline(r)
       PROVE  EventsAwaited'
  <2>1. /\ call \in [Readers -> Calls] /\ UNCHANGED <<queue, notify>>
    BY <1>10 DEF Deadline, Types
  <2>2. /\ call'[r].at # "parked"
        /\ call[r].at = "wait" => call'[r].at = "wait" /\ call'[r].on = call[r].on
        /\ \A s \in Readers \ {r} : call'[s] = call[s]
    BY <1>10, <2>1, DeadlineCall
  <2> QED
    BY <2>1, <2>2, Harmless
<1>11. ASSUME NEW r \in Readers, SpuriousWake(r)
       PROVE  EventsAwaited'
  BY <1>11, GotoCall, Harmless DEF SpuriousWake, Types, Is
<1> QED
  BY <1>2, <1>3, <1>4, <1>5, <1>6, <1>7, <1>8, <1>9, <1>10, <1>11 DEF Next, Dispatch, Step

-----------------------------------------------------------------------------
(* The steps, as far as they concern what the queues are given. *)
Quiet == UNCHANGED <<accepted, raw, disp, targets, created, since, queue, popped>>
Creates(id) == Create(id) /\ UNCHANGED <<accepted, raw, disp, targets, queue, popped>>
Pops(id) == Pop(id) /\ UNCHANGED <<accepted, raw, disp, targets, created, since>>

LEMMA KindsOfSteps ==
  ASSUME Types, [Next]_vars
  PROVE  \/ Quiet \/ Recv \/ TakeTargets \/ NextEvent
         \/ \E tgt \in Targets : Push(tgt)
         \/ \E id \in Queues : PushTo(id) \/ Creates(id) \/ Pops(id)
<1> USE DEF queues, dispatcher, reader, Quiet
<1>1. CASE UNCHANGED vars
  BY <1>1 DEF vars
<1>2. CASE \E tgt \in Sources : Push(tgt)
  BY <1>2, DispatcherAssumption
<1>3. CASE Dispatch
  BY <1>3 DEF Dispatch, NotifyReader
<1>4. ASSUME NEW r \in Readers, Call(r)
      PROVE  Quiet \/ \E id \in Queues : Creates(id)
  <2>1. ASSUME NEW id \in Queues, NEW deadline, WaitOn(r, id, deadline)
        PROVE  Creates(id)
    BY <2>1 DEF WaitOn, Creates
  <2>2. ASSUME NEW id \in Windows[r], FilterOnWindow(r, id)
        PROVE  Creates(id) /\ id \in Queues
    BY <2>2, DispatcherAssumption DEF FilterOnWindow, Creates, Queues
  <2>3. Windows[r] \subseteq Queues /\ CatchAll \in Queues
    BY DispatcherAssumption DEF Queues
  <2> QED
    BY <1>4, <2>1, <2>2, <2>3
       DEF Call, UnfilterWindow, CallNextEvent, CallNextEventSpin, CallNextEventFor
<1>5. ASSUME NEW r \in Readers, Step(r)
      PROVE  Quiet \/ \E id \in Queues : Pops(id)
  <2>1. call[r].on \in Queues /\ Children \subseteq Queues
    BY DEF Types, Calls, Queues
  <2> QED
    BY <1>5, <2>1 DEF Step, WaitPop, WaitPark, SpinRound, SpinPoll, Pops
<1>6. ASSUME NEW r \in Readers, Deadline(r) \/ SpuriousWake(r)
      PROVE  Quiet
  BY <1>6 DEF Deadline, SpuriousWake
<1> QED
  BY <1>1, <1>2, <1>3, <1>4, <1>5, <1>6 DEF Next, Dispatch

LEMMA StepBookkeeping ==
  ASSUME Types, Bookkeeping, [Next]_vars
  PROVE  Bookkeeping'
<1> USE DispatcherAssumption DEF Types, Bookkeeping, Hand, Routed
<1>0. /\ Len(raw) \in Nat /\ Len(accepted) \in Nat /\ Len(raw) <= Len(accepted)
      /\ Hand \in Nat /\ Routed \in Nat
  OBVIOUS
<1>1. CASE Quiet
  BY <1>1 DEF Quiet
<1>2. CASE Recv
  <2>1. raw' = Tail(raw) /\ accepted' = accepted /\ Len(raw') = Len(raw) - 1
    BY <1>2 DEF Recv
  <2>0. accepted' = accepted /\ Len(raw') = Len(raw) - 1
    BY <2>1
  <2>2. \A i \in 1..Len(raw') : raw'[i] = Hand' + i
    <3> TAKE i \in 1..Len(raw')
    <3>1. raw'[i] = raw[i + 1] /\ i + 1 \in 1..Len(raw)
      BY <1>2, <2>1, HeadTailProperties DEF Recv
    <3>2. Len(raw') \in Nat /\ i \in Nat
      BY <1>0, <2>1
    <3> HIDE DEF Hand, Types, Routed
    <3>3. raw[i + 1] = Hand + (i + 1)
      BY <3>1
    <3> HIDE DEF Bookkeeping
    <3>4. Hand' = Hand + 1
      BY <1>0, <2>0, <3>2 DEF Hand
    <3> QED
      BY <1>0, <3>1, <3>2, <3>3, <3>4
  <2>3. Hand' = Hand + 1 /\ Routed' = Routed /\ disp = "recv" /\ disp' = "route"
    BY <1>2, <2>1 DEF Recv
  <2> QED
    BY <1>2, <2>1, <2>2, <2>3 DEF Recv, dispatcher, queues
<1>3. CASE TakeTargets
  <2>1. targets' \subseteq created
    BY <1>3 DEF TakeTargets, Route
  <2>2. disp = "route" /\ disp' = "push" /\ UNCHANGED <<accepted, raw, queues>>
    BY <1>3 DEF TakeTargets
  <2>3. Hand' = Hand /\ Routed' = Routed + 1 /\ Routed \in Int
    BY <1>0, <2>2
  <2>4. \A id \in Queues : since'[id] <= Routed'
    BY <2>2, <2>3 DEF queues
  <2> HIDE DEF Hand, Routed, Types
  <2> QED
    BY <2>1, <2>2, <2>3, <2>4 DEF queues
<1>4. CASE NextEvent
  BY <1>4 DEF NextEvent, queues
<1>5. ASSUME NEW tgt \in Targets, Push(tgt)
      PROVE  Bookkeeping'
  <2>1. /\ Len(accepted') = Len(accepted) + 1 /\ Len(raw') = Len(raw) + 1
        /\ raw' = Append(raw, Len(accepted) + 1)
    BY <1>5 DEF Push
  <2>2. Hand' = Hand /\ Routed' = Routed /\ UNCHANGED <<dispatcher, queues>>
    BY <1>5, <2>1 DEF Push, dispatcher
  <2>3. \A i \in 1..Len(raw') : raw'[i] = Hand' + i
    <3> TAKE i \in 1..Len(raw')
    <3>1. CASE i \in 1..Len(raw)
      <4>1. raw'[i] = raw[i] /\ raw[i] = Hand + i
        BY <2>1, <3>1
      <4> QED
        BY <2>2, <4>1
    <3>2. CASE i = Len(raw) + 1
      <4>1. raw'[i] = Len(accepted) + 1
        BY <2>1, <3>2
      <4>2. Hand' = Len(accepted) - Len(raw)
        BY <2>1
      <4> HIDE DEF Bookkeeping, Types, Hand, Routed
      <4> QED
        BY <1>0, <3>2, <4>1, <4>2
    <3> QED
      BY <1>0, <2>1, <3>1, <3>2
  <2>4. Len(raw') <= Capacity
    BY <1>0, <1>5, <2>1 DEF Push
  <2> HIDE DEF Hand, Routed, Types
  <2> QED
    BY <2>2, <2>3, <2>4 DEF dispatcher, queues
<1>6. ASSUME NEW id \in Queues, PushTo(id)
      PROVE  Bookkeeping'
  BY <1>6 DEF PushTo
<1>7. ASSUME NEW id \in Queues, Creates(id)
      PROVE  Bookkeeping'
  <2>1. /\ UNCHANGED <<accepted, raw, disp, targets, queue, popped>>
        /\ created' = created \cup {id}
        /\ since' = IF id \in created THEN since ELSE [since EXCEPT ![id] = Routed]
    BY <1>7 DEF Creates, Create
  <2>2. Hand' = Hand /\ Routed' = Routed
    BY <2>1
  <2>3. Routed \in Nat
    BY <1>0
  <2> HIDE DEF Hand, Routed, Types
  <2>4. since' \in [Queues -> Nat] /\ \A q \in Queues : since'[q] <= Routed
    BY <2>1, <2>3
  <2> QED
    BY <2>1, <2>2, <2>4
<1>8. ASSUME NEW id \in Queues, Pops(id)
      PROVE  Bookkeeping'
  <2>1. id \in created
    BY <1>8 DEF Pops, Pop
  <2>2. popped' \in [Queues -> Seq(Nat)]
    <3>1. Head(queue[id]) \in Nat
      BY <1>8, HeadTailProperties DEF Pops, Pop
    <3> QED
      BY <1>8, <3>1 DEF Pops, Pop
  <2>3. \A q \in Queues \ created : queue'[q] = queue[q] /\ popped'[q] = popped[q]
    BY <1>8, <2>1 DEF Pops, Pop
  <2> QED
    BY <1>8, <2>2, <2>3 DEF Pops
<1> HIDE DEF Types, Bookkeeping, Hand, Routed
<1> QED
  BY <1>1, <1>2, <1>3, <1>4, <1>5, <1>6, <1>7, <1>8, KindsOfSteps

(***************************************************************************)
(* Lists: one more number at the end, and a step that moves the head of a  *)
(* queue to what was popped leaves what was delivered as it is.            *)
(***************************************************************************)
LEMMA ListOneMore ==
  ASSUME NEW s \in Seq(Nat), NEW S \in SUBSET Nat, NEW n \in Nat, Lists(s, S),
         \A m \in S : m < n
  PROVE  Lists(s \o <<n>>, S \cup {n})
<1> DEFINE t == s \o <<n>>
<1>1. /\ Len(t) = Len(s) + 1 /\ DOMAIN t = 1..Len(s) + 1 /\ DOMAIN s = 1..Len(s)
      /\ \A i \in DOMAIN s : t[i] = s[i]
      /\ t[Len(s) + 1] = n
  OBVIOUS
<1>2. \A i \in DOMAIN s : s[i] \in S
  BY DEF Lists
<1> HIDE DEF t
<1>3. \A i \in DOMAIN t : i \in DOMAIN s \/ i = Len(s) + 1
  BY <1>1
<1>4. \A i, j \in DOMAIN t : i < j => t[i] < t[j]
  <2> SUFFICES ASSUME NEW i \in DOMAIN t, NEW j \in DOMAIN t, i < j
               PROVE  t[i] < t[j]
    OBVIOUS
  <2>1. i \in DOMAIN s
    BY <1>1, <1>3
  <2>2. CASE j \in DOMAIN s
    BY <1>1, <2>1, <2>2 DEF Lists
  <2>3. CASE j = Len(s) + 1
    BY <1>1, <1>2, <2>1, <2>3
  <2> QED
    BY <1>3, <2>2, <2>3
<1>5. S \cup {n} = {t[i] : i \in DOMAIN t}
  <2>1. S = {s[i] : i \in DOMAIN s}
    BY DEF Lists
  <2>2. Len(s) + 1 \in DOMAIN t /\ \A i \in DOMAIN s : i \in DOMAIN t
    BY <1>1
  <2> QED
    BY <1>1, <1>3, <2>1, <2>2
<1> QED
  BY <1>4, <1>5 DEF Lists, t

(* A sequence whose elements are in S; the parts of such a sequence. *)
LEMMA SeqOf ==
  ASSUME NEW S, NEW s \in Seq(Nat), \A i \in 1..Len(s) : s[i] \in S
  PROVE  s \in Seq(S)
OBVIOUS

LEMMA Parts ==
  ASSUME NEW S, NEW p \in Seq(Nat), NEW q \in Seq(Nat), NEW t \in Seq(Nat),
         \A i \in DOMAIN ((p \o q) \o t) : ((p \o q) \o t)[i] \in S
  PROVE  p \in Seq(S) /\ q \in Seq(S)
<1> DEFINE u == (p \o q) \o t
<1>1. /\ Len(p) \in Nat /\ Len(q) \in Nat /\ Len(t) \in Nat
      /\ DOMAIN u = 1..(Len(p) + Len(q) + Len(t))
  OBVIOUS
<1>2. \A i \in 1..Len(p) : u[i] = p[i]
  OBVIOUS
<1>3. \A i \in 1..Len(q) : u[Len(p) + i] = q[i]
  OBVIOUS
<1>4. \A i \in DOMAIN u : u[i] \in S
  OBVIOUS
<1> HIDE DEF u
<1>5. /\ \A i \in 1..Len(p) : i \in DOMAIN u
      /\ \A i \in 1..Len(q) : Len(p) + i \in DOMAIN u
  BY <1>1
<1>6. \A i \in 1..Len(p) : p[i] \in S
  BY <1>2, <1>4, <1>5
<1>7. \A i \in 1..Len(q) : q[i] \in S
  BY <1>3, <1>4, <1>5
<1> QED
  BY <1>6, <1>7, SeqOf

LEMMA MoveHead ==
  ASSUME NEW S, NEW p \in Seq(S), NEW q \in Seq(S), q # <<>>
  PROVE  Append(p, Head(q)) \o Tail(q) = p \o q
<1> DEFINE h == <<Head(q)>>
<1>1. Tail(q) \in Seq(S) /\ h \in Seq(S) /\ q = h \o Tail(q)
  BY HeadTailProperties
<1>2. Append(p, Head(q)) = p \o h
  BY HeadTailProperties, AppendIsConcat
<1>3. (p \o h) \o Tail(q) = p \o (h \o Tail(q))
  BY <1>1, ConcatAssociative
<1> QED
  BY <1>1, <1>2, <1>3

LEMMA ConcatAppend ==
  ASSUME NEW S, NEW p \in Seq(S), NEW q \in Seq(S), NEW n \in S
  PROVE  p \o Append(q, n) = p \o q \o <<n>>
<1> DEFINE t == <<n>>
<1>1. t \in Seq(S) /\ Append(q, n) = q \o t
  BY AppendIsConcat
<1> HIDE DEF t
<1>2. (p \o q) \o t = p \o (q \o t)
  BY <1>1, ConcatAssociative
<1> QED
  BY <1>1, <1>2 DEF t

LEMMA Numbers ==
  ASSUME Types, Bookkeeping
  PROVE  /\ Len(raw) \in Nat /\ Len(accepted) \in Nat /\ Hand \in Nat /\ Routed \in Nat
         /\ Hand <= Len(accepted) /\ Routed <= Hand
         /\ Routed = IF disp = "route" THEN Hand - 1 ELSE Hand
         /\ \A id \in Queues : /\ popped[id] \o queue[id] \in Seq(Nat)
                                /\ Delivered(id) \in Seq(Nat)
BY DEF Types, Bookkeeping, Hand, Routed, Delivered

(* A queue from which the event in hand is missing, or not. *)
LEMMA DeliveredSoFar ==
  ASSUME Types, Bookkeeping, NEW id \in Queues
  PROVE  Delivered(id) = IF id \in targets THEN (popped[id] \o queue[id]) \o <<Hand>>
                         ELSE popped[id] \o queue[id]
<1>1. popped[id] \in Seq(Nat) /\ queue[id] \in Seq(Nat) /\ <<Hand>> \in Seq(Nat)
  BY Numbers DEF Types, Bookkeeping
<1>2. (popped[id] \o queue[id]) \o <<>> = popped[id] \o queue[id]
  BY <1>1, Numbers, ConcatEmptySeq
<1> QED
  BY <1>1, <1>2, ConcatAssociative DEF Delivered

(***************************************************************************)
(* Only TakeTargets changes what a registered queue is owed, and then it   *)
(* changes what the queue was given, or is about to be, by the same event; *)
(* a queue registered later starts with nothing on either side.            *)
(***************************************************************************)
LEMMA StepExact ==
  ASSUME Types, Bookkeeping, QueuesAreExact, Types', Bookkeeping', [Next]_vars
  PROVE  QueuesAreExact'
<1> SUFFICES ASSUME NEW id \in created'
             PROVE  Lists(Delivered(id)', Owed(id)')
  BY DEF QueuesAreExact
<1>1. id \in Queues
  BY DEF Types
<1>2. ASSUME id \in created, Delivered(id)' = Delivered(id), Owed(id)' = Owed(id)
      PROVE  Lists(Delivered(id)', Owed(id)')
  BY <1>2 DEF QueuesAreExact
<1>3. CASE Quiet
  BY <1>2, <1>3 DEF Quiet, Delivered, Owed, Route, Hand, Routed
<1>4. CASE Recv
  <2>1. /\ Hand' = Hand + 1 /\ UNCHANGED <<accepted, targets, queues>>
        /\ disp = "recv" /\ disp' = "route" /\ targets = {}
    <3>1. Len(raw') = Len(raw) - 1
      BY <1>4 DEF Recv, Types
    <3> QED
      BY <1>4, <3>1, Numbers DEF Recv, Hand, Bookkeeping
  <2>2. Routed' = Routed
    BY <2>1, Numbers DEF Routed, Hand
  <2> QED
    BY <1>2, <2>1, <2>2 DEF Delivered, Owed, Route, queues
<1>5. CASE TakeTargets
  <2>1. /\ UNCHANGED <<accepted, raw, queues>> /\ Hand' = Hand /\ disp = "route"
        /\ targets = {} /\ targets' = Route(Hand, created) /\ disp' = "push"
    BY <1>5 DEF TakeTargets, Hand, Bookkeeping
  <2>2. Routed' = Hand /\ Routed = Hand - 1
    BY <2>1, Numbers DEF Routed, Hand
  <2>3. since[id] \in Nat /\ since[id] <= Routed /\ since'[id] = since[id] /\ id \in created
    BY <1>1, <2>1 DEF Bookkeeping, queues
  <2>4. id \in targets' <=> id \in Route(Hand, {id})
    BY <2>1, <2>3 DEF Route
  <2>5. /\ Owed(id) \in SUBSET Nat /\ \A e \in Owed(id) : e < Hand
        /\ Owed(id)' = IF id \in targets' THEN Owed(id) \cup {Hand} ELSE Owed(id)
    <3>1. /\ since[id] + 1 .. Hand = (since[id] + 1 .. Routed) \cup {Hand}
          /\ \A e \in since[id] + 1 .. Routed : e \in Nat /\ e < Hand
      BY <2>2, <2>3, Numbers
    <3>2. Owed(id)' = {e \in (since[id] + 1 .. Routed) \cup {Hand} : id \in Route(e, {id})}
      BY <2>1, <2>2, <2>3, <3>1 DEF Owed, Route
    <3> QED
      BY <2>4, <3>1, <3>2 DEF Owed
  <2>6. /\ Delivered(id) = popped[id] \o queue[id]
        /\ Delivered(id)' = IF id \in targets' THEN (popped[id] \o queue[id]) \o <<Hand>>
                            ELSE popped[id] \o queue[id]
    BY <1>1, <2>1, DeliveredSoFar DEF Delivered, queues
  <2>7. Lists(popped[id] \o queue[id], Owed(id))
    BY <2>3, <2>6 DEF QueuesAreExact
  <2>8. popped[id] \o queue[id] \in Seq(Nat) /\ Hand \in Nat
    BY <1>1, Numbers
  <2>9. CASE id \in targets'
    BY <2>5, <2>6, <2>7, <2>8, <2>9, ListOneMore
  <2> QED
    BY <2>5, <2>6, <2>7, <2>9
<1>6. CASE NextEvent
  BY <1>2, <1>6 DEF NextEvent, queues, Delivered, Owed, Route, Hand, Routed
<1>7. ASSUME NEW tgt \in Targets, Push(tgt)
      PROVE  Lists(Delivered(id)', Owed(id)')
  <2>1. /\ UNCHANGED <<disp, targets, created, since, queue, popped>>
        /\ Len(accepted') = Len(accepted) + 1 /\ Len(raw') = Len(raw) + 1
        /\ \A e \in 1..Len(accepted) : accepted'[e] = accepted[e]
    BY <1>7 DEF Push, dispatcher, queues, Types
  <2>2. Hand' = Hand /\ Routed' = Routed
    BY <2>1, Numbers DEF Hand, Routed
  <2>3. \A e \in since[id] + 1 .. Routed : Route(e, {id})' = Route(e, {id})
    <3>1. since[id] \in Nat
      BY <1>1 DEF Bookkeeping
    <3> QED
      BY <2>1, <3>1, Numbers DEF Route
  <2> QED
    BY <1>2, <2>1, <2>2, <2>3 DEF Delivered, Owed
<1>8. ASSUME NEW q \in Queues, PushTo(q)
      PROVE  Lists(Delivered(id)', Owed(id)')
  <2>1. /\ UNCHANGED <<accepted, raw, disp, created, since, popped>>
        /\ q \in targets /\ targets' = targets \ {q}
        /\ queue'[id] = IF id = q THEN Append(queue[id], Hand) ELSE queue[id]
    BY <1>1, <1>8 DEF PushTo, Types
  <2>2. Hand' = Hand /\ Owed(id)' = Owed(id)
    BY <2>1 DEF Hand, Owed, Routed, Route
  <2>3. CASE id = q
    <3>1. popped[id] \in Seq(Nat) /\ queue[id] \in Seq(Nat) /\ Hand \in Nat
      BY <1>1, Numbers DEF Types, Bookkeeping
    <3>2. Delivered(id)' = popped[id] \o Append(queue[id], Hand)
      <4>1. queue'[id] \in Seq(Nat) /\ id \notin targets'
        BY <1>1, <2>1, <2>3 DEF Types
      <4>2. Delivered(id)' = popped[id] \o queue'[id] \o <<>>
        BY <2>1, <4>1 DEF Delivered
      <4>3. popped[id] \o queue'[id] \o <<>> = popped[id] \o queue'[id]
        BY <3>1, <4>1, ConcatEmptySeq, ConcatProperties
      <4> QED
        BY <2>1, <2>3, <4>2, <4>3
    <3>3. Delivered(id) = popped[id] \o queue[id] \o <<Hand>>
      BY <2>1, <2>3 DEF Delivered
    <3>4. popped[id] \o Append(queue[id], Hand) = popped[id] \o queue[id] \o <<Hand>>
      <4> DEFINE t == popped[id]
                 u == queue[id]
      <4>1. t \in Seq(Nat) /\ u \in Seq(Nat) /\ Hand \in Nat
        BY <3>1
      <4> HIDE DEF t, u
      <4>2. t \o Append(u, Hand) = t \o u \o <<Hand>>
        BY <4>1, ConcatAppend
      <4> QED
        BY <4>2 DEF t, u
    <3> QED
      BY <1>2, <2>1, <2>2, <3>2, <3>3, <3>4
  <2>4. CASE id # q
    BY <1>2, <2>1, <2>2, <2>4 DEF Delivered
  <2> QED
    BY <2>3, <2>4
<1>9. ASSUME NEW q \in Queues, Creates(q)
      PROVE  Lists(Delivered(id)', Owed(id)')
  <2>1. /\ UNCHANGED <<accepted, raw, disp, targets, queue, popped>>
        /\ created' = created \cup {q}
        /\ since' = IF q \in created THEN since ELSE [since EXCEPT ![q] = Routed]
    BY <1>9 DEF Creates, Create
  <2>2. Hand' = Hand /\ Routed' = Routed /\ Delivered(id)' = Delivered(id)
    BY <2>1 DEF Hand, Routed, Delivered
  <2>3. CASE id \in created
    <3>1. since'[id] = since[id]
      BY <1>1, <2>1, <2>3 DEF Bookkeeping
    <3> QED
      BY <1>2, <2>1, <2>2, <2>3, <3>1 DEF Owed, Route
  <2>4. CASE id \notin created
    <3>1. id = q /\ since'[id] = Routed
      BY <1>1, <2>1, <2>4 DEF Bookkeeping
    <3>2. Owed(id)' = {}
      BY <2>2, <3>1, Numbers DEF Owed
    <3>3. Delivered(id) = <<>>
      BY <1>1, <2>4 DEF Bookkeeping, Delivered
    <3> QED
      BY <2>2, <3>2, <3>3 DEF Lists
  <2> QED
    BY <2>3, <2>4
<1>10. ASSUME NEW q \in Queues, Pops(q)
       PROVE  Lists(Delivered(id)', Owed(id)')
  <2>1. /\ UNCHANGED <<accepted, raw, disp, targets, created, since>> /\ queue[q] # <<>>
        /\ queue'[id] = IF id = q THEN Tail(queue[id]) ELSE queue[id]
        /\ popped'[id] = IF id = q THEN Append(popped[id], Head(queue[id])) ELSE popped[id]
    BY <1>1, <1>10 DEF Pops, Pop, Types, Bookkeeping
  <2>2. Hand' = Hand /\ Owed(id)' = Owed(id)
    BY <2>1 DEF Hand, Owed, Routed, Route
  <2>3. popped'[id] \o queue'[id] = popped[id] \o queue[id]
    <3>1. popped[id] \in Seq(Nat) /\ queue[id] \in Seq(Nat)
      BY <1>1 DEF Types, Bookkeeping
    <3> QED
      BY <2>1, <3>1, MoveHead
  <2>4. Delivered(id)' = IF id \in targets THEN (popped'[id] \o queue'[id]) \o <<Hand>>
                        ELSE popped'[id] \o queue'[id]
    <3>1. /\ popped'[id] \in Seq(Nat) /\ queue'[id] \in Seq(Nat) /\ <<Hand>> \in Seq(Nat)
          /\ popped'[id] \o queue'[id] \in Seq(Nat)
      <4>1. popped' \in [Queues -> Seq(Nat)] /\ queue' \in [Queues -> Seq(Nat)] /\ Hand \in Nat
        BY Numbers DEF Types, Bookkeeping
      <4> QED
        BY <1>1, <4>1
    <3> QED
      BY <2>1, <2>2, <3>1, ConcatEmptySeq, ConcatAssociative DEF Delivered
  <2> QED
    BY <1>1, <1>2, <2>1, <2>2, <2>3, <2>4, DeliveredSoFar
<1> QED
  BY <1>3, <1>4, <1>5, <1>6, <1>7, <1>8, <1>9, <1>10, KindsOfSteps

LEMMA InitIInv == Init => IInv
<1> USE DispatcherAssumption DEF Init
<1>1. ASSUME Init PROVE Types
  BY <1>1 DEF Types, Idle, Calls, Queues
<1>2. ASSUME Init PROVE EventsAwaited
  BY <1>2 DEF EventsAwaited, Parked, Is, Idle
<1>3. ASSUME Init PROVE Bookkeeping
  BY <1>3 DEF Bookkeeping, Hand, Routed, Queues
<1>4. ASSUME Init PROVE QueuesAreExact
  <2>1. Routed = 0 /\ \A id \in created : since[id] = 0
    BY <1>4 DEF Routed, Queues
  <2>2. \A id \in created : Delivered(id) = <<>> /\ Owed(id) = {}
    BY <1>4, <2>1 DEF Delivered, Owed, Queues
  <2> QED
    BY <2>2 DEF QueuesAreExact, Lists
<1> QED
  BY <1>1, <1>2, <1>3, <1>4 DEF IInv

LEMMA InductiveInvariant == Spec => []IInv
<1>1. IInv /\ [Next]_vars => IInv'
  BY StepTypes, StepAwaited, StepBookkeeping, StepExact DEF IInv
<1> QED
  BY <1>1, InitIInv, PTL DEF Spec

(* A reader that sleeps on a queue with an event has a fellow that is awake *)
(* or a notification under way: notify_one after the unlock is enough.      *)
THEOREM NoSleepingReaderHolds == Spec => []NoSleepingReader
<1>1. IInv => NoSleepingReader
  <2> SUFFICES ASSUME IInv, NEW id \in Queues, queue[id] # <<>>, Parked(id) # {}, notify # id,
                      Waiting(id) = {}
               PROVE  FALSE
    BY DEF NoSleepingReader
  <2>1. Cardinality(Waiting(id)) = 0
    BY FS_EmptySet
  <2>2. queue[id] \in Seq(Nat)
    BY DEF IInv, Types
  <2>3. Len(queue[id]) <= Cardinality(Waiting(id)) + (IF notify = id THEN 1 ELSE 0)
    BY DEF IInv, EventsAwaited
  <2> QED
    BY <2>1, <2>2, <2>3
<1> QED
  BY <1>1, InductiveInvariant, PTL

(* From the moment its queue is registered, a window gets every event meant *)
(* for it once and in order, whoever creates, pops and pushes meanwhile.    *)
THEOREM QueuesAreExactHolds == Spec => []QueuesAreExact
<1>1. IInv => QueuesAreExact
  BY DEF IInv
<1> QED
  BY <1>1, InductiveInvariant, PTL

(* Every variable keeps its type; the numbers in the queues are those of    *)
(* events the channel has accepted.                                         *)
THEOREM TypeCorrect == Spec => []TypeOK
<1>1. IInv => TypeOK
  <2> SUFFICES ASSUME IInv
               PROVE  TypeOK
    OBVIOUS
  <2>1. Types /\ Bookkeeping /\ QueuesAreExact
    BY DEF IInv
  <2>2. raw \in Seq(1..Len(accepted))
    <3>1. raw \in Seq(Nat) /\ DOMAIN raw = 1..Len(raw)
      BY <2>1 DEF Types
    <3>2. \A i \in 1..Len(raw) : raw[i] \in 1..Len(accepted)
      <4> TAKE i \in 1..Len(raw)
      <4>1. raw[i] = Hand + i /\ Hand = Len(accepted) - Len(raw)
        BY <2>1 DEF Bookkeeping, Hand
      <4> QED
        BY <2>1, <4>1, Numbers
    <3> QED
      BY <3>1, <3>2, SeqOf
  <2>3. since \in [Queues -> 0..Len(accepted)]
    BY <2>1, Numbers DEF Bookkeeping
  <2>4. queue \in [Queues -> Seq(1..Len(accepted))] /\ popped \in [Queues -> Seq(1..Len(accepted))]
    <3> SUFFICES ASSUME NEW id \in Queues
                 PROVE  queue[id] \in Seq(1..Len(accepted)) /\ popped[id] \in Seq(1..Len(accepted))
      BY <2>1 DEF Types, Bookkeeping
    <3>1. queue[id] \in Seq(Nat) /\ popped[id] \in Seq(Nat)
      BY <2>1 DEF Types, Bookkeeping
    <3>2. CASE id \notin created
      BY <2>1, <3>2 DEF Bookkeeping
    <3>3. CASE id \in created
      <4>1. \A i \in DOMAIN Delivered(id) : Delivered(id)[i] \in 1..Len(accepted)
        <5>1. \A i \in DOMAIN Delivered(id) : Delivered(id)[i] \in Owed(id)
          BY <2>1, <3>3 DEF QueuesAreExact, Lists
        <5>2. since[id] \in Nat
          BY <2>1 DEF Bookkeeping
        <5> QED
          BY <2>1, <5>1, <5>2, Numbers DEF Owed
      <4>2. PICK t \in Seq(Nat) : Delivered(id) = (popped[id] \o queue[id]) \o t
        <5>1. <<>> \in Seq(Nat) /\ <<Hand>> \in Seq(Nat)
          BY <2>1, Numbers
        <5> QED
          BY <3>1, <5>1, ConcatAssociative DEF Delivered
      <4> QED
        BY <3>1, <4>1, <4>2, Parts
    <3> QED
      BY <3>2, <3>3
  <2> QED
    BY <2>1, <2>2, <2>3, <2>4 DEF Types, Bookkeeping, TypeOK
<1> QED
  BY <1>1, InductiveInvariant, PTL
=============================================================================
