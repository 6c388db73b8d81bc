--------------------------- MODULE EventDispatcher ---------------------------
(***************************************************************************)
(* The GUI event mailbox (ncl-runtime/src/igui_events.rs).  The GUI thread *)
(* pushes events into a bounded channel; the dispatcher thread copies each *)
(* to the queues registered for it; Lisp threads wait on those queues,     *)
(* each selecting one by its own window filter.                            *)
(*                                                                         *)
(* An event is its position in the history of accepted events, which gives *)
(* its target: a child window, or Global for the events bound to none.     *)
(***************************************************************************)
EXTENDS Naturals, Sequences, FiniteSets

CONSTANTS
  Readers,     \* Lisp threads
  Children,    \* child ids of windows
  Windows,     \* the windows each reader asks for
  Deadlines,   \* the deadlines each reader gives: "never", "ahead" or both
  CatchAll,    \* CATCH_ALL_ID
  Global,      \* the target of an event without child id
  Nobody,      \* no queue to notify
  Capacity,    \* CAPACITY of the raw channel
  Sources,     \* the targets of the events that come in
  MaxEvents    \* bound on the number of accepted events

Queues == Children \cup {CatchAll}
Targets == Children \cup {Global}

ASSUME DispatcherAssumption ==
  /\ CatchAll \notin Children
  /\ Global \notin Queues
  /\ Nobody \notin Queues
  /\ IsFiniteSet(Readers)
  /\ Windows \in [Readers -> SUBSET Children]
  /\ Deadlines \in [Readers -> SUBSET {"never", "ahead"}]
  /\ Sources \subseteq Targets
  /\ Capacity \in Nat \ {0}
  /\ MaxEvents \in Nat

VARIABLES
  accepted,   \* history: the targets of the events the channel took, in order
  raw,        \* the bounded channel
  disp,       \* dispatcher: "recv", "route" or "push"
  targets,    \* dispatcher: queues that the event in hand has yet to reach
  notify,     \* dispatcher: the queue it has pushed to and not yet notified
  created,    \* the queue registry
  since,      \* history: events routed before each queue was created
  queue,      \* the contents of each queue
  popped,     \* history: what has been popped from each queue
  filter,     \* THREAD_FILTER of each reader
  call        \* the next_event call each reader is in

vars == <<accepted, raw, disp, targets, notify, created, since, queue, popped,
          filter, call>>
dispatcher == <<disp, targets, notify>>
reader == <<filter, call>>
queues == <<created, since, queue, popped>>

(***************************************************************************)
(* A call is at "wait" (in wait_pop), "parked" or "spin"; it waits on one  *)
(* queue or has yet to try the queues in left in this round of the spin    *)
(* loop.  Its deadline is infinitely far, ahead or past.                   *)
(***************************************************************************)
Idle == [at |-> "run", on |-> CatchAll, left |-> {}, deadline |-> "never"]
Calls == [at : {"run", "wait", "parked", "spin"}, on : Queues,
          left : SUBSET Children, deadline : {"never", "ahead", "past"}]

Is(r, p) == call[r].at = p
Goto(r, p) == call' = [call EXCEPT ![r].at = p]
Return(r) == call' = [call EXCEPT ![r] = Idle]
Parked(id) == {r \in Readers : Is(r, "parked") /\ call[r].on = id}
Waiting(id) == {r \in Readers : Is(r, "wait") /\ call[r].on = id}

(* The queues event e goes to, of those in Q. *)
Route(e, Q) ==
  IF accepted[e] = Global THEN Q ELSE {accepted[e], CatchAll} \cap Q

(* The number of events whose targets the dispatcher has looked up. *)
Routed == Len(accepted) - Len(raw) - (IF disp = "route" THEN 1 ELSE 0)
Hand == Len(accepted) - Len(raw)   \* the event the dispatcher holds

(* install creates the catch-all queue before the dispatcher starts. *)
Init ==
  /\ accepted = <<>>
  /\ raw = <<>>
  /\ disp = "recv"
  /\ targets = {}
  /\ notify = Nobody
  /\ created = {CatchAll}
  /\ since = [id \in Queues |-> 0]
  /\ queue = [id \in Queues |-> <<>>]
  /\ popped = [id \in Queues |-> <<>>]
  /\ filter = [r \in Readers |-> {}]
  /\ call = [r \in Readers |-> Idle]

-----------------------------------------------------------------------------
(* The GUI thread: push with try_send.  An event for a full channel is      *)
(* dropped, which changes nothing.                                         *)
Push(tgt) ==
  /\ Len(accepted) < MaxEvents
  /\ Len(raw) < Capacity
  /\ accepted' = Append(accepted, tgt)
  /\ raw' = Append(raw, Len(accepted) + 1)
  /\ UNCHANGED <<dispatcher, queues, reader>>

-----------------------------------------------------------------------------
(* The dispatcher thread *)
Recv ==
  /\ disp = "recv"
  /\ raw # <<>>
  /\ raw' = Tail(raw)
  /\ disp' = "route"
  /\ UNCHANGED <<accepted, targets, notify, queues, reader>>

(* Faulty variant of TakeTargets: a global event goes to the children only. *)
TakeChildTargets ==
  /\ disp = "route"
  /\ targets' = IF accepted[Hand] = Global THEN created \ {CatchAll}
                ELSE Route(Hand, created)
  /\ disp' = "push"
  /\ UNCHANGED <<accepted, raw, notify, queues, reader>>

(* Under the map lock, the queues registered at this moment. *)
TakeTargets ==
  /\ disp = "route"
  /\ targets' = Route(Hand, created)
  /\ disp' = "push"
  /\ UNCHANGED <<accepted, raw, notify, queues, reader>>

(* Faulty variant of PushTo: no notification. *)
PushSilentlyTo(id) ==
  /\ disp = "push"
  /\ id \in targets
  /\ queue' = [queue EXCEPT ![id] = Append(@, Hand)]
  /\ targets' = targets \ {id}
  /\ UNCHANGED <<accepted, raw, disp, notify, created, since, popped, reader>>

(* ChildQueue::push, up to the release of the queue's mutex; the child's    *)
(* queue comes before the catch-all queue.                                  *)
PushTo(id) ==
  /\ disp = "push"
  /\ notify = Nobody
  /\ id \in targets
  /\ id = CatchAll /\ accepted[Hand] # Global => targets = {CatchAll}
  /\ queue' = [queue EXCEPT ![id] = Append(@, Hand)]
  /\ targets' = targets \ {id}
  /\ notify' = id
  /\ UNCHANGED <<accepted, raw, disp, created, since, popped, reader>>

(* notify_one, outside the mutex. *)
NotifyReader ==
  /\ notify # Nobody
  /\ notify' = Nobody
  /\ IF Parked(notify) = {} THEN UNCHANGED call
     ELSE \E r \in Parked(notify) : Goto(r, "wait")
  /\ UNCHANGED <<accepted, raw, disp, targets, queues, filter>>

NextEvent ==
  /\ disp = "push"
  /\ targets = {}
  /\ notify = Nobody
  /\ disp' = "recv"
  /\ UNCHANGED <<accepted, raw, targets, notify, queues, reader>>

-----------------------------------------------------------------------------
(* Readers *)

(* get_or_create_queue *)
Create(id) ==
  /\ created' = created \cup {id}
  /\ since' = IF id \in created THEN since ELSE [since EXCEPT ![id] = Routed]

FilterOnWindow(r, id) ==
  /\ Is(r, "run")
  /\ filter' = [filter EXCEPT ![r] = @ \cup {id}]
  /\ Create(id)
  /\ UNCHANGED <<accepted, raw, dispatcher, queue, popped, call>>

(* unfilter_window and clear_filter leave the queues registered. *)
UnfilterWindow(r, W) ==
  /\ Is(r, "run")
  /\ filter' = [filter EXCEPT ![r] = @ \ W]
  /\ UNCHANGED <<accepted, raw, dispatcher, queues, call>>

(* wait_pop on queue id, which next_event_for creates if need be. *)
WaitOn(r, id, deadline) ==
  /\ Create(id)
  /\ call' = [call EXCEPT ![r] =
                [at |-> "wait", on |-> id, left |-> {}, deadline |-> deadline]]
  /\ UNCHANGED <<accepted, raw, dispatcher, queue, popped, filter>>

(* next_event_for, which next_event calls when one window is filtered. *)
CallNextEventFor(r, id, deadline) == Is(r, "run") /\ WaitOn(r, id, deadline)

(* next_event without a filter, and with several windows filtered. *)
CallNextEvent(r, deadline) ==
  /\ Is(r, "run")
  /\ filter[r] = {}
  /\ WaitOn(r, CatchAll, deadline)

CallNextEventSpin(r, deadline) ==
  /\ Is(r, "run")
  /\ \E a, b \in filter[r] : a # b
  /\ call' = [call EXCEPT ![r] = [at |-> "spin", on |-> CatchAll,
                                 left |-> filter[r], deadline |-> deadline]]
  /\ UNCHANGED <<accepted, raw, dispatcher, queues, filter>>

Pop(id) ==
  /\ queue[id] # <<>>
  /\ queue' = [queue EXCEPT ![id] = Tail(@)]
  /\ popped' = [popped EXCEPT ![id] = Append(@, Head(queue[id]))]

(* One pass of the loop of wait_pop: return an event, give up, or park. *)
WaitPop(r) ==
  /\ Is(r, "wait")
  /\ Pop(call[r].on)
  /\ Return(r)
  /\ UNCHANGED <<accepted, raw, dispatcher, created, since, filter>>

(* Faulty variant of WaitPark: the deadline is not tested before the wait. *)
WaitParkAlways(r) ==
  /\ Is(r, "wait")
  /\ queue[call[r].on] = <<>>
  /\ Goto(r, "parked")
  /\ UNCHANGED <<accepted, raw, dispatcher, queues, filter>>

WaitPark(r) ==
  /\ Is(r, "wait")
  /\ queue[call[r].on] = <<>>
  /\ IF call[r].deadline = "past" THEN Return(r) ELSE Goto(r, "parked")
  /\ UNCHANGED <<accepted, raw, dispatcher, queues, filter>>

(* The deadline passes; wait_timeout wakes a parked reader. *)
Deadline(r) ==
  /\ call[r].deadline = "ahead"
  /\ call' = [call EXCEPT ![r].deadline = "past",
                          ![r].at = IF @ = "parked" THEN "wait" ELSE @]
  /\ UNCHANGED <<accepted, raw, dispatcher, queues, filter>>

SpuriousWake(r) ==
  /\ Is(r, "parked")
  /\ Goto(r, "wait")
  /\ UNCHANGED <<accepted, raw, dispatcher, queues, filter>>

(* The spin loop: try each queue, return the first event found. *)
SpinPoll(r, id) ==
  /\ Is(r, "spin")
  /\ id \in call[r].left
  /\ \/ Pop(id) /\ Return(r)
     \/ /\ queue[id] = <<>>
        /\ call' = [call EXCEPT ![r].left = @ \ {id}]
        /\ UNCHANGED <<queue, popped>>
  /\ UNCHANGED <<accepted, raw, dispatcher, created, since, filter>>

SpinRound(r) ==
  /\ Is(r, "spin")
  /\ call[r].left = {}
  /\ IF call[r].deadline = "past" THEN Return(r)
     ELSE call' = [call EXCEPT ![r].left = filter[r]]
  /\ UNCHANGED <<accepted, raw, dispatcher, queues, filter>>

-----------------------------------------------------------------------------
Dispatch == \/ Recv \/ TakeTargets \/ NotifyReader \/ NextEvent
            \/ \E id \in Queues : PushTo(id)

(* A timeout of 0 is a deadline that passes at once. *)
Call(r) ==
  \/ \E id \in Windows[r] : FilterOnWindow(r, id)
  \/ \E W \in SUBSET filter[r] : UnfilterWindow(r, W)
  \/ \E deadline \in Deadlines[r] :
       \/ CallNextEvent(r, deadline) \/ CallNextEventSpin(r, deadline)
       \/ \E id \in Windows[r] : CallNextEventFor(r, id, deadline)

Step(r) == \/ WaitPop(r) \/ WaitPark(r) \/ SpinRound(r)
           \/ \E id \in Children : SpinPoll(r, id)

Next == \/ \E tgt \in Sources : Push(tgt)
        \/ Dispatch
        \/ \E r \in Readers : Call(r) \/ Step(r) \/ Deadline(r) \/ SpuriousWake(r)

(* The dispatcher and the readers inside a call are scheduled, time passes, *)
(* and a round of the spin loop tries every queue.                          *)
Fairness ==
  /\ WF_vars(Dispatch)
  /\ \A r \in Readers : /\ WF_vars(Step(r)) /\ WF_vars(Deadline(r))
                        /\ \A id \in Children : WF_vars(SpinPoll(r, id))

Spec == Init /\ [][Next]_vars
FairSpec == Spec /\ Fairness
-----------------------------------------------------------------------------
TypeOK ==
  /\ accepted \in Seq(Targets)
  /\ raw \in Seq(1..Len(accepted))
  /\ Len(raw) <= Capacity
  /\ disp \in {"recv", "route", "push"}
  /\ targets \subseteq Queues
  /\ notify \in Queues \cup {Nobody}
  /\ created \subseteq Queues
  /\ since \in [Queues -> 0..Len(accepted)]
  /\ queue \in [Queues -> Seq(1..Len(accepted))]
  /\ popped \in [Queues -> Seq(1..Len(accepted))]
  /\ filter \in [Readers -> SUBSET Children]
  /\ call \in [Readers -> Calls]

(* What queue id was given, the event about to be pushed included, and the
   events routed to it since it was created. *)
Delivered(id) ==
  popped[id] \o queue[id] \o (IF id \in targets THEN <<Hand>> ELSE <<>>)
Owed(id) == {e \in since[id] + 1 .. Routed : id \in Route(e, {id})}

(* s lists the numbers in S, each once, in increasing order. *)
Lists(s, S) ==
  /\ \A i, j \in DOMAIN s : i < j => s[i] < s[j]
  /\ S = {s[i] : i \in DOMAIN s}

(***************************************************************************)
(* No event is skipped, repeated or overtaken on its way to a registered   *)
(* queue: what came out of it and what is in it are the events accepted    *)
(* since it was created that are meant for it, but for the one event the   *)
(* dispatcher is about to push.                                            *)
(***************************************************************************)
QueuesAreExact == \A id \in created : Lists(Delivered(id), Owed(id))

(***************************************************************************)
(* The notification after the release of the mutex loses no wake-up: if a  *)
(* reader sleeps on a queue that has an event, then another reader of that *)
(* queue is awake, or the dispatcher is about to notify it.                *)
(***************************************************************************)
NoSleepingReader ==
  \A id \in Queues :
    queue[id] # <<>> /\ Parked(id) # {} =>
      notify = id \/ Waiting(id) # {}

(***************************************************************************)
(* next_event with a deadline returns, with one filtered window or many,   *)
(* parked or spinning, whether events keep coming or none does.            *)
(***************************************************************************)
TimedCallReturns ==
  \A r \in Readers : call[r].deadline # "never" ~> Is(r, "run")
=============================================================================
