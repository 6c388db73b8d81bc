------------------------------ MODULE Mailbox ------------------------------
(***************************************************************************)
(* One mailbox of the THREADS package (ncl-runtime/src/threads.rs): a      *)
(* VecDeque under a mutex with two Condvars.  Each action is one region of *)
(* the queue mutex, or the registry lookup before it.  Mailboxes share     *)
(* nothing but the registry, so one of them is modelled.                   *)
(***************************************************************************)
EXTENDS Naturals, Sequences, FiniteSets

CONSTANTS
  Threads,
  Capacity,   \* cap: a number, or Unbounded for None
  Unbounded,
  MaxSends    \* bound on the number of mailbox-send calls

ASSUME MailboxAssumption ==
  /\ Capacity \in Nat \/ Capacity = Unbounded
  /\ Unbounded \notin Nat
  /\ MaxSends \in Nat
  /\ IsFiniteSet(Threads)

VARIABLES
  registered, \* the handle is in the mailbox registry
  queue,      \* Mailbox.queue
  pc,         \* where each thread is
  word,       \* the word each thread is sending
  timeout,    \* timeout_ms of its mailbox-receive
  sends,      \* number of send calls so far; also numbers the words
  received    \* history: words received, in the order they were popped

vars == <<registered, queue, pc, word, timeout, sends, received>>

(* send, notFull : in mailbox_send, awake or waiting for not_full.         *)
(* receive, notEmpty, expired : in mailbox_receive; expired is awake after *)
(* its wait_timeout ran out.                                               *)
PcValues == {"run", "send", "notFull", "receive", "notEmpty", "expired"}
Timeouts == {"forever", "zero", "timed"}

In(p) == {t \in Threads : pc[t] = p}
Full == Capacity # Unbounded /\ Len(queue) >= Capacity
At(t, p) == [pc EXCEPT ![t] = p]

(* Condvar::notify_one: move one waiter, if there is one. *)
NotifyOne(f, from, to) ==
  IF In(from) = {} THEN pc' = f
  ELSE \E w \in In(from) : pc' = [f EXCEPT ![w] = to]

Init ==
  /\ registered = TRUE
  /\ queue = <<>>
  /\ pc = [t \in Threads |-> "run"]
  /\ word = [t \in Threads |-> 0]
  /\ timeout = [t \in Threads |-> "forever"]
  /\ sends = 0
  /\ received = <<>>

-----------------------------------------------------------------------------
(* mailbox_send *)

SendCall(t) ==
  /\ pc[t] = "run"
  /\ registered
  /\ sends < MaxSends
  /\ sends' = sends + 1
  /\ word' = [word EXCEPT ![t] = sends + 1]
  /\ pc' = At(t, "send")
  /\ UNCHANGED <<registered, queue, timeout, received>>

SendWait(t) ==
  /\ pc[t] = "send"
  /\ Full
  /\ pc' = At(t, "notFull")
  /\ UNCHANGED <<registered, queue, word, timeout, sends, received>>

(* Faulty variants of SendPush: capacity unchecked after a wait; no wake-up. *)
SendPushUnchecked(t) ==
  /\ pc[t] = "send"
  /\ queue' = Append(queue, word[t])
  /\ NotifyOne(At(t, "run"), "notEmpty", "receive")
  /\ UNCHANGED <<registered, word, timeout, sends, received>>
SendPushSilently(t) ==
  /\ pc[t] = "send"
  /\ ~Full
  /\ queue' = Append(queue, word[t])
  /\ pc' = At(t, "run")
  /\ UNCHANGED <<registered, word, timeout, sends, received>>

SendPush(t) ==
  /\ pc[t] = "send"
  /\ ~Full
  /\ queue' = Append(queue, word[t])
  /\ NotifyOne(At(t, "run"), "notEmpty", "receive")
  /\ UNCHANGED <<registered, word, timeout, sends, received>>

-----------------------------------------------------------------------------
(* mailbox_receive *)
ReceiveCall(t, ms) ==
  /\ pc[t] = "run"
  /\ registered
  /\ timeout' = [timeout EXCEPT ![t] = ms]
  /\ pc' = At(t, "receive")
  /\ UNCHANGED <<registered, queue, word, sends, received>>

(* An empty queue: give up at once, or wait. *)
ReceiveWait(t) ==
  /\ pc[t] = "receive"
  /\ queue = <<>>
  /\ pc' = At(t, IF timeout[t] = "zero" THEN "run" ELSE "notEmpty")
  /\ UNCHANGED <<registered, queue, word, timeout, sends, received>>

(* Faulty variant of ReceivePop: a sender waiting for room is not woken. *)
ReceivePopSilently(t) ==
  /\ pc[t] \in {"receive", "expired"}
  /\ queue # <<>>
  /\ queue' = Tail(queue)
  /\ received' = Append(received, Head(queue))
  /\ pc' = At(t, "run")
  /\ UNCHANGED <<registered, word, timeout, sends>>

ReceivePop(t) ==
  /\ pc[t] \in {"receive", "expired"}
  /\ queue # <<>>
  /\ queue' = Tail(queue)
  /\ received' = Append(received, Head(queue))
  /\ NotifyOne(At(t, "run"), "notFull", "send")
  /\ UNCHANGED <<registered, word, timeout, sends>>

(* The wait times out, possibly after a notification chose this thread. *)
Expire(t) ==
  /\ pc[t] \in {"receive", "notEmpty"}
  /\ timeout[t] = "timed"
  /\ pc' = At(t, "expired")
  /\ UNCHANGED <<registered, queue, word, timeout, sends, received>>

ExpiredReturn(t) ==
  /\ pc[t] = "expired"
  /\ queue = <<>>
  /\ pc' = At(t, "run")
  /\ UNCHANGED <<registered, queue, word, timeout, sends, received>>

-----------------------------------------------------------------------------
(* release_mailbox only forgets the handle: calls under way keep the Arc. *)
Release(t) ==
  /\ pc[t] = "run"
  /\ registered
  /\ registered' = FALSE
  /\ UNCHANGED <<queue, pc, word, timeout, sends, received>>

SpuriousWake(t) ==
  /\ pc[t] \in {"notFull", "notEmpty"}
  /\ pc' = At(t, IF pc[t] = "notFull" THEN "send" ELSE "receive")
  /\ UNCHANGED <<registered, queue, word, timeout, sends, received>>

Call(t) == SendCall(t) \/ Release(t) \/ \E ms \in Timeouts : ReceiveCall(t, ms)
Step(t) == \/ SendWait(t) \/ SendPush(t)
           \/ ReceiveWait(t) \/ ReceivePop(t) \/ ExpiredReturn(t)

Next == \E t \in Threads : Call(t) \/ Step(t) \/ Expire(t) \/ SpuriousWake(t)

(* Threads inside a mailbox operation are scheduled; nothing else is owed. *)
Spec == Init /\ [][Next]_vars
FairSpec == Spec /\ \A t \in Threads : WF_vars(Step(t))
-----------------------------------------------------------------------------
TypeOK ==
  /\ registered \in BOOLEAN
  /\ queue \in Seq(1..MaxSends)
  /\ pc \in [Threads -> PcValues]
  /\ word \in [Threads -> 0..MaxSends]
  /\ timeout \in [Threads -> Timeouts]
  /\ sends \in 0..MaxSends
  /\ received \in Seq(1..MaxSends)

(***************************************************************************)
(* notify_one is enough: if receivers sleep, every queued word has a       *)
(* receiver of its own that is awake and on its way to the queue.          *)
(***************************************************************************)
NoSleepingReceiver ==
  In("notEmpty") # {} => Len(queue) <= Cardinality(In("receive") \cup In("expired"))

(* Likewise every free slot for the senders that sleep. *)
NoSleepingSender ==
  In("notFull") # {} => Capacity - Len(queue) <= Cardinality(In("send"))

(***************************************************************************)
(* Mail does not lie in the queue beside a sleeping receiver for ever:     *)
(* some receiver takes it.                                                 *)
(***************************************************************************)
MailIsFetched ==
  (In("notEmpty") # {} /\ queue # <<>>) ~> (In("notEmpty") = {} \/ queue = <<>>)

(* The mailbox is a FIFO channel. *)
Ch == INSTANCE Channel WITH
  Messages <- 1..MaxSends, log <- received \o queue, delivered <- received
ChannelSpec == Ch!Spec
=============================================================================
