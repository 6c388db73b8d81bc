------------------------------ MODULE Channel ------------------------------
(***************************************************************************)
(* The promise of a mailbox: a FIFO channel between any number of senders  *)
(* and receivers that holds at most Capacity messages.  Nothing is lost,   *)
(* duplicated or reordered: what has been delivered is a prefix of what    *)
(* has been sent.                                                          *)
(***************************************************************************)
EXTENDS Naturals, Sequences

CONSTANTS Messages, Capacity, Unbounded

VARIABLES log, delivered
cvars == <<log, delivered>>

InTransit == Len(log) - Len(delivered)

CInit == log = <<>> /\ delivered = <<>>

Put(m) == /\ Capacity # Unbounded => InTransit < Capacity
          /\ log' = Append(log, m)
          /\ UNCHANGED delivered

Take == /\ InTransit > 0
        /\ delivered' = Append(delivered, log[Len(delivered) + 1])
        /\ UNCHANGED log

Spec == CInit /\ [][Take \/ \E m \in Messages : Put(m)]_cvars
=============================================================================
