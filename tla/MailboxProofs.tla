--------------------------- MODULE MailboxProofs ---------------------------
(***************************************************************************)
(* notify_one is enough, and the mailbox is a FIFO channel, for any number *)
(* of threads and sends and any capacity.                                  *)
(***************************************************************************)
EXTENDS Mailbox, FiniteSetTheorems, SequenceTheorems, TLAPS

Receiving == In("receive") \cup In("expired")

(* Nobody waits for room in a mailbox without a capacity. *)
UnboundedNeverFull == Capacity = Unbounded => In("notFull") = {}

(* A word under way is the number of a call. *)
WordsNumbered == \A t \in Threads : pc[t] \in {"send", "notFull"} => word[t] \in 1..MaxSends

IInv == /\ TypeOK /\ UnboundedNeverFull /\ WordsNumbered
        /\ NoSleepingReceiver /\ NoSleepingSender

LEMMA ThreadSets ==
  ASSUME NEW S \in SUBSET Threads
  PROVE  /\ IsFiniteSet(S) /\ Cardinality(S) \in Nat
         /\ \A R \in SUBSET S : Cardinality(R) <= Cardinality(S)
         /\ \A t \in Threads \ S : Cardinality(S \cup {t}) = Cardinality(S) + 1
         /\ \A t \in S : Cardinality(S \ {t}) = Cardinality(S) - 1
BY FS_Subset, FS_CardinalityType, FS_AddElement, FS_RemoveElement, MailboxAssumption

LEMMA InitIInv == Init => IInv
BY MailboxAssumption DEF Init, IInv, TypeOK, UnboundedNeverFull, WordsNumbered,
  NoSleepingReceiver, NoSleepingSender, In, PcValues, Timeouts

LEMMA StepTypes ==
  ASSUME TypeOK, UnboundedNeverFull, WordsNumbered, [Next]_vars
  PROVE  TypeOK' /\ UnboundedNeverFull' /\ WordsNumbered'
<1> USE MailboxAssumption
<1> USE DEF TypeOK, UnboundedNeverFull, WordsNumbered, PcValues, Timeouts, In, At
<1>1. CASE UNCHANGED vars
  BY <1>1 DEF vars
<1>2. ASSUME NEW t \in Threads, SendCall(t)
      PROVE  TypeOK' /\ UnboundedNeverFull' /\ WordsNumbered'
  BY <1>2 DEF SendCall
<1>3. ASSUME NEW t \in Threads, SendWait(t)
      PROVE  TypeOK' /\ UnboundedNeverFull' /\ WordsNumbered'
  BY <1>3 DEF SendWait, Full
<1>4. ASSUME NEW t \in Threads, SendPush(t)
      PROVE  TypeOK' /\ UnboundedNeverFull' /\ WordsNumbered'
  <2>1. queue' \in Seq(1..MaxSends)
    BY <1>4 DEF SendPush
  <2>2. CASE pc' = At(t, "run")
    BY <1>4, <2>1, <2>2 DEF SendPush
  <2>3. ASSUME NEW w \in In("notEmpty"), pc' = [At(t, "run") EXCEPT ![w] = "receive"]
        PROVE  TypeOK' /\ UnboundedNeverFull' /\ WordsNumbered'
    BY <1>4, <2>1, <2>3 DEF SendPush
  <2> QED
    BY <1>4, <2>2, <2>3 DEF SendPush, NotifyOne
<1>5. ASSUME NEW t \in Threads, NEW ms \in Timeouts, ReceiveCall(t, ms)
      PROVE  TypeOK' /\ UnboundedNeverFull' /\ WordsNumbered'
  BY <1>5 DEF ReceiveCall
<1>6. ASSUME NEW t \in Threads, ReceiveWait(t)
      PROVE  TypeOK' /\ UnboundedNeverFull' /\ WordsNumbered'
  BY <1>6 DEF ReceiveWait
<1>7. ASSUME NEW t \in Threads, ReceivePop(t)
      PROVE  TypeOK' /\ UnboundedNeverFull' /\ WordsNumbered'
  <2>1. queue' \in Seq(1..MaxSends) /\ received' \in Seq(1..MaxSends)
    BY <1>7 DEF ReceivePop
  <2>2. CASE pc' = At(t, "run")
    BY <1>7, <2>1, <2>2 DEF ReceivePop
  <2>3. ASSUME NEW w \in In("notFull"), pc' = [At(t, "run") EXCEPT ![w] = "send"]
        PROVE  TypeOK' /\ UnboundedNeverFull' /\ WordsNumbered'
    BY <1>7, <2>1, <2>3 DEF ReceivePop
  <2> QED
    BY <1>7, <2>2, <2>3 DEF ReceivePop, NotifyOne
<1>8. ASSUME NEW t \in Threads, ExpiredReturn(t)
      PROVE  TypeOK' /\ UnboundedNeverFull' /\ WordsNumbered'
  BY <1>8 DEF ExpiredReturn
<1>9. ASSUME NEW t \in Threads, Expire(t)
      PROVE  TypeOK' /\ UnboundedNeverFull' /\ WordsNumbered'
  BY <1>9 DEF Expire
<1>10. ASSUME NEW t \in Threads, Release(t)
       PROVE  TypeOK' /\ UnboundedNeverFull' /\ WordsNumbered'
  BY <1>10 DEF Release
<1>11. ASSUME NEW t \in Threads, SpuriousWake(t)
       PROVE  TypeOK' /\ UnboundedNeverFull' /\ WordsNumbered'
  BY <1>11 DEF SpuriousWake
<1> QED
  BY <1>1, <1>2, <1>3, <1>4, <1>5, <1>6, <1>7, <1>8, <1>9, <1>10, <1>11 DEF Next, Call, Step

(* Every other step adds to the receivers that are awake, and takes no word *)
(* to the queue; likewise for the senders.                                  *)
LEMMA StepReceivers ==
  ASSUME TypeOK, NoSleepingReceiver, [Next]_vars
  PROVE  NoSleepingReceiver'
<1> USE DEF TypeOK, PcValues
<1>1. /\ Receiving \in SUBSET Threads /\ Receiving' \in SUBSET Threads
      /\ Len(queue) \in Nat
  BY DEF Receiving, In
<1>2. CASE /\ queue' = queue /\ Receiving \subseteq Receiving'
           /\ In("notEmpty")' \subseteq In("notEmpty")
  <2>1. /\ Cardinality(Receiving) \in Nat /\ Cardinality(Receiving') \in Nat
        /\ Cardinality(Receiving) <= Cardinality(Receiving')
    BY <1>1, <1>2, ThreadSets
  <2> QED
    BY <1>1, <1>2, <2>1 DEF NoSleepingReceiver, Receiving
<1>3. CASE queue' = <<>>
  BY <1>1, <1>3, ThreadSets DEF NoSleepingReceiver, Receiving
<1>4. ASSUME NEW t \in Threads, SendPush(t)
      PROVE  NoSleepingReceiver'
  <2>1. CASE In("notEmpty") = {}
    BY <1>4, <2>1 DEF SendPush, NotifyOne, NoSleepingReceiver, In, At
  <2>2. CASE In("notEmpty") # {}
    <3>1. PICK w \in In("notEmpty") : pc' = [At(t, "run") EXCEPT ![w] = "receive"]
      BY <1>4, <2>2 DEF SendPush, NotifyOne
    <3>2. w \in Threads \ Receiving /\ Receiving' = Receiving \cup {w}
      BY <1>4, <3>1 DEF SendPush, Receiving, In, At
    <3>3. Cardinality(Receiving') = Cardinality(Receiving) + 1
      BY <1>1, <3>2, ThreadSets
    <3>4. Len(queue') = Len(queue) + 1
      BY <1>4 DEF SendPush
    <3> QED
      BY <1>1, <2>2, <3>3, <3>4, ThreadSets DEF NoSleepingReceiver, Receiving
  <2> QED
    BY <2>1, <2>2
<1>5. ASSUME NEW t \in Threads, ReceivePop(t)
      PROVE  NoSleepingReceiver'
  <2>1. /\ t \in Receiving /\ Receiving' = Receiving \ {t}
        /\ In("notEmpty")' = In("notEmpty")
    BY <1>5 DEF ReceivePop, NotifyOne, Receiving, In, At
  <2>2. Cardinality(Receiving') = Cardinality(Receiving) - 1
    BY <1>1, <2>1, ThreadSets
  <2>3. Len(queue') = Len(queue) - 1
    BY <1>5 DEF ReceivePop
  <2> QED
    BY <1>1, <2>1, <2>2, <2>3, ThreadSets DEF NoSleepingReceiver, Receiving
<1>6. ASSUME NEW t \in Threads, ReceiveWait(t) \/ ExpiredReturn(t)
      PROVE  NoSleepingReceiver'
  BY <1>3, <1>6 DEF ReceiveWait, ExpiredReturn
<1>7. ASSUME NEW t \in Threads, Call(t)
      PROVE  NoSleepingReceiver'
  BY <1>2, <1>7 DEF Call, SendCall, Release, ReceiveCall, Receiving, In, At
<1>8. ASSUME NEW t \in Threads, SendWait(t) \/ Expire(t) \/ SpuriousWake(t)
      PROVE  NoSleepingReceiver'
  BY <1>2, <1>8 DEF SendWait, Expire, SpuriousWake, Receiving, In, At
<1>9. CASE UNCHANGED vars
  BY <1>2, <1>9 DEF vars, Receiving, In
<1> QED
  BY <1>4, <1>5, <1>6, <1>7, <1>8, <1>9 DEF Next, Step

LEMMA StepSenders ==
  ASSUME TypeOK, UnboundedNeverFull, NoSleepingSender, [Next]_vars, UnboundedNeverFull'
  PROVE  NoSleepingSender'
<1> USE DEF TypeOK, PcValues
<1>1. CASE Capacity = Unbounded
  BY <1>1 DEF UnboundedNeverFull, NoSleepingSender
<1> SUFFICES ASSUME Capacity \in Nat
             PROVE  NoSleepingSender'
  BY <1>1, MailboxAssumption
<1>2. /\ In("send") \in SUBSET Threads /\ In("send")' \in SUBSET Threads
      /\ Len(queue) \in Nat
  BY DEF In
<1>3. CASE /\ queue' = queue /\ In("send") \subseteq In("send")'
           /\ In("notFull")' \subseteq In("notFull")
  <2>1. /\ Cardinality(In("send")) \in Nat /\ Cardinality(In("send")') \in Nat
        /\ Cardinality(In("send")) <= Cardinality(In("send")')
    BY <1>2, <1>3, ThreadSets
  <2> QED
    BY <1>2, <1>3, <2>1 DEF NoSleepingSender
<1>4. ASSUME NEW t \in Threads, SendWait(t)
      PROVE  NoSleepingSender'
  <2>1. Capacity - Len(queue') <= 0
    BY <1>2, <1>4 DEF SendWait, Full
  <2> QED
    BY <1>2, <1>4, <2>1, ThreadSets DEF SendWait, NoSleepingSender
<1>5. ASSUME NEW t \in Threads, SendPush(t)
      PROVE  NoSleepingSender'
  <2>1. /\ t \in In("send") /\ In("send")' = In("send") \ {t}
        /\ In("notFull")' = In("notFull")
    BY <1>5 DEF SendPush, NotifyOne, In, At
  <2>2. Cardinality(In("send")') = Cardinality(In("send")) - 1
    BY <1>2, <2>1, ThreadSets
  <2>3. Len(queue') = Len(queue) + 1
    BY <1>5 DEF SendPush
  <2> QED
    BY <1>2, <2>1, <2>2, <2>3, ThreadSets DEF NoSleepingSender
<1>6. ASSUME NEW t \in Threads, ReceivePop(t)
      PROVE  NoSleepingSender'
  <2>1. CASE In("notFull") = {}
    BY <1>6, <2>1 DEF ReceivePop, NotifyOne, NoSleepingSender, In, At
  <2>2. CASE In("notFull") # {}
    <3>1. PICK w \in In("notFull") : pc' = [At(t, "run") EXCEPT ![w] = "send"]
      BY <1>6, <2>2 DEF ReceivePop, NotifyOne
    <3>2. w \in Threads \ In("send") /\ In("send")' = In("send") \cup {w}
      BY <1>6, <3>1 DEF ReceivePop, In, At
    <3>3. Cardinality(In("send")') = Cardinality(In("send")) + 1
      BY <1>2, <3>2, ThreadSets
    <3>4. Len(queue') = Len(queue) - 1
      BY <1>6 DEF ReceivePop
    <3> QED
      BY <1>2, <2>2, <3>3, <3>4, ThreadSets DEF NoSleepingSender
  <2> QED
    BY <2>1, <2>2
<1>7. ASSUME NEW t \in Threads, ReceiveWait(t) \/ ExpiredReturn(t) \/ Expire(t) \/ SpuriousWake(t)
      PROVE  NoSleepingSender'
  BY <1>3, <1>7 DEF ReceiveWait, ExpiredReturn, Expire, SpuriousWake, In, At
<1>8. ASSUME NEW t \in Threads, Call(t)
      PROVE  NoSleepingSender'
  BY <1>3, <1>8 DEF Call, SendCall, Release, ReceiveCall, In, At
<1>9. CASE UNCHANGED vars
  BY <1>3, <1>9 DEF vars, In
<1> QED
  BY <1>4, <1>5, <1>6, <1>7, <1>8, <1>9 DEF Next, Step

LEMMA InductiveInvariant == Spec => []IInv
<1>1. IInv /\ [Next]_vars => IInv'
  BY StepTypes, StepReceivers, StepSenders DEF IInv
<1> QED
  BY <1>1, InitIInv, PTL DEF Spec

(* The mailbox's state stays within its types.                              *)
THEOREM TypeCorrect == Spec => []TypeOK
<1>1. IInv => TypeOK
  BY DEF IInv
<1> QED
  BY <1>1, InductiveInvariant, PTL

(* While receivers sleep every queued word has a receiver that is awake.    *)
THEOREM NoSleepingReceiverHolds == Spec => []NoSleepingReceiver
<1>1. IInv => NoSleepingReceiver
  BY DEF IInv
<1> QED
  BY <1>1, InductiveInvariant, PTL

(* While senders sleep every free slot has a sender that is awake.          *)
THEOREM NoSleepingSenderHolds == Spec => []NoSleepingSender
<1>1. IInv => NoSleepingSender
  BY DEF IInv
<1> QED
  BY <1>1, InductiveInvariant, PTL

LEMMA MoveHead ==
  ASSUME NEW S, NEW r \in Seq(S), NEW q \in Seq(S), q # <<>>
  PROVE  Append(r, Head(q)) \o Tail(q) = r \o q
<1> DEFINE h == <<Head(q)>>
           u == Tail(q)
<1>1. h \in Seq(S) /\ u \in Seq(S) /\ q = h \o u
  BY HeadTailProperties
<1>2. Append(r, Head(q)) = r \o h
  BY HeadTailProperties, AppendIsConcat
<1> HIDE DEF h, u
<1>3. (r \o h) \o u = r \o (h \o u)
  BY <1>1, ConcatAssociative
<1> QED
  BY <1>1, <1>2, <1>3 DEF u

(* The mailbox implements the bounded FIFO channel: nothing is lost,        *)
(* duplicated or reordered.                                                 *)
THEOREM MailboxIsChannel == Spec => ChannelSpec
<1> USE MailboxAssumption
<1>1. Init => Ch!CInit
  BY DEF Init, Ch!CInit
<1>2. IInv /\ [Next]_vars => [Ch!Take \/ \E m \in 1..MaxSends : Ch!Put(m)]_(Ch!cvars)
  <2> SUFFICES ASSUME IInv, [Next]_vars
               PROVE  [Ch!Take \/ \E m \in 1..MaxSends : Ch!Put(m)]_(Ch!cvars)
    OBVIOUS
  <2>1. /\ received \in Seq(1..MaxSends) /\ queue \in Seq(1..MaxSends)
        /\ Len(received) \in Nat /\ Len(queue) \in Nat
    BY DEF IInv, TypeOK
  <2>2. Len(received \o queue) = Len(received) + Len(queue)
    BY <2>1
  <2>3. ASSUME NEW t \in Threads, SendPush(t)
        PROVE  Ch!Put(word[t]) /\ word[t] \in 1..MaxSends
    <3>1. word[t] \in 1..MaxSends
      BY <2>3 DEF IInv, WordsNumbered, SendPush
    <3>2. received' \o queue' = Append(received \o queue, word[t])
      BY <2>1, <2>3, <3>1 DEF SendPush
    <3>3. Capacity # Unbounded => Len(received \o queue) - Len(received) < Capacity
      BY <2>1, <2>2, <2>3 DEF SendPush, Full
    <3> QED
      BY <2>3, <3>1, <3>2, <3>3 DEF Ch!Put, Ch!InTransit, SendPush
  <2>4. ASSUME NEW t \in Threads, ReceivePop(t)
        PROVE  Ch!Take
    <3>1. queue = <<Head(queue)>> \o Tail(queue) /\ Len(queue) > 0
      BY <2>1, <2>4 DEF ReceivePop
    <3>2. received' \o queue' = received \o queue
      BY <2>1, <2>4, <3>1, MoveHead DEF ReceivePop
    <3>3. (received \o queue)[Len(received) + 1] = Head(queue)
      BY <2>1, <3>1
    <3> QED
      BY <2>1, <2>2, <2>4, <3>1, <3>2, <3>3 DEF Ch!Take, Ch!InTransit, ReceivePop
  <2>5. CASE UNCHANGED <<queue, received>>
    BY <2>5 DEF Ch!cvars
  <2>6. ASSUME NEW t \in Threads, Call(t) \/ Expire(t) \/ SpuriousWake(t)
        PROVE  UNCHANGED <<queue, received>>
    BY <2>6 DEF Call, SendCall, Release, ReceiveCall, Expire, SpuriousWake
  <2>7. ASSUME NEW t \in Threads, SendWait(t) \/ ReceiveWait(t) \/ ExpiredReturn(t)
        PROVE  UNCHANGED <<queue, received>>
    BY <2>7 DEF SendWait, ReceiveWait, ExpiredReturn
  <2>8. CASE UNCHANGED vars
    BY <2>5, <2>8 DEF vars
  <2> QED
    BY <2>3, <2>4, <2>5, <2>6, <2>7, <2>8 DEF Next, Step
<1> QED
  BY <1>1, <1>2, InductiveInvariant, PTL DEF Spec, ChannelSpec, Ch!Spec
=============================================================================
