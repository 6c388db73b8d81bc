---------------------------- MODULE ReentrantLock ----------------------------
(***************************************************************************)
(* What a set of reentrant locks promises its clients, in the clients' own *)
(* terms: there is no owner field and no queue, only how deeply each       *)
(* client has entered each lock and from which it is suspended (waiting on *)
(* a condition after giving the lock up).                                  *)
(***************************************************************************)
EXTENDS Naturals

CONSTANTS Clients, Locks

VARIABLES depth, suspended
lvars == <<depth, suspended>>

Has(t, s) == depth[t][s] > 0 /\ s \notin suspended[t]

LInit == /\ depth = [t \in Clients |-> [s \in Locks |-> 0]]
         /\ suspended = [t \in Clients |-> {}]

(* Entering needs that no other client is inside. *)
Acquire(t, s) ==
  /\ \A u \in Clients \ {t} : ~Has(u, s)
  /\ s \notin suspended[t]
  /\ depth' = [depth EXCEPT ![t][s] = @ + 1]
  /\ UNCHANGED suspended

Release(t, s) ==
  /\ Has(t, s)
  /\ depth' = [depth EXCEPT ![t][s] = @ - 1]
  /\ UNCHANGED suspended

(* Waiting gives the whole lock up and keeps the depth for the return. *)
Suspend(t, s) ==
  /\ Has(t, s)
  /\ suspended' = [suspended EXCEPT ![t] = @ \cup {s}]
  /\ UNCHANGED depth

Resume(t, s) ==
  /\ s \in suspended[t]
  /\ \A u \in Clients \ {t} : ~Has(u, s)
  /\ suspended' = [suspended EXCEPT ![t] = @ \ {s}]
  /\ UNCHANGED depth

LNext == \E t \in Clients, s \in Locks :
           Acquire(t, s) \/ Release(t, s) \/ Suspend(t, s) \/ Resume(t, s)

Spec == LInit /\ [][LNext]_lvars
=============================================================================
