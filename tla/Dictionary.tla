----------------------------- MODULE Dictionary -----------------------------
(***************************************************************************)
(* What a hash table promises to its user: it is a function from keys to   *)
(* values, whatever buckets it keeps them in.  Keys that the test of the   *)
(* table takes for one another are one name.  The table also receives keys *)
(* nothing is promised about; they change no entry of the others.          *)
(***************************************************************************)
CONSTANTS Names, Vals, Absent, Unspecified  \* the last two are not in Vals

VARIABLES
  map,    \* the value of each name, Absent if it has no entry
  answer  \* what the last operation returned

TypeOK == /\ map \in [Names -> Vals \cup {Absent}]
          /\ answer \in Vals \cup BOOLEAN \cup {Absent, Unspecified}

Init == /\ map = [n \in Names |-> Absent]
        /\ answer = Unspecified

Put(n, v) == /\ map' = [map EXCEPT ![n] = v]
             /\ answer' = v

Get(n) == /\ answer' = map[n]
          /\ UNCHANGED map

Remove(n) == /\ answer' = (map[n] # Absent)
             /\ map' = [map EXCEPT ![n] = Absent]

Clear == /\ map' = [n \in Names |-> Absent]
         /\ answer' = Unspecified

(* An operation on a key without a promise. *)
Elsewhere == /\ answer' = Unspecified
             /\ UNCHANGED map

Next == \/ \E n \in Names :
             \/ \E v \in Vals : Put(n, v)
             \/ Get(n)
             \/ Remove(n)
        \/ Clear
        \/ Elsewhere

Spec == Init /\ [][Next]_<<map, answer>>
=============================================================================
