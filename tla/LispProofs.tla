----------------------------- MODULE LispProofs -----------------------------
(***************************************************************************)
(* The parts of the Lisp runtime that one thread uses alone.               *)
(*                                                                         *)
(* First, the count, maphash and the dictionary of a hash table, for any   *)
(* keys and values, any number of buckets, and whatever the collector      *)
(* moves between two operations.  Second, non-local exits, for any nest of *)
(* primitives whose cleanups keep to the client assumptions.               *)
(***************************************************************************)
EXTENDS HashTable, NonLocalExit,
        FiniteSetTheorems, SequenceTheorems, WellFoundedInduction, TLAPS

-----------------------------------------------------------------------------
(* Hash tables *)
(* A bucket has at most one of the keys that match: what makes a walk of a
   bucket stop at the only entry there is. *)
Unique ==
  \A b \in Buckets : \A p, q \in DOMAIN table[b] :
    Match(table[b][p].key, table[b][q].key) => p = q

(* An entry with a steady key is in the bucket where it is looked for. *)
Homed ==
  \A b \in Buckets : \A p \in DOMAIN table[b] :
    Steady(table[b][p].key) => b = Index(table[b][p].key)

(***************************************************************************)
(* What maphash has yet to visit in its bucket is the end of the bucket,   *)
(* no key of which is the current one or has been seen; what it owes is    *)
(* there, or in a later bucket.                                            *)
(***************************************************************************)
Passed == Len(table[walk.i]) - Len(walk.rest)
Ahead ==
  /\ walk.i \in Buckets /\ Passed \in Nat
  /\ \A j \in 1..Len(walk.rest) : walk.rest[j] = table[walk.i][Passed + j].key
Fresh ==
  /\ \A j \in 1..Len(walk.rest) : /\ ~Match(walk.rest[j], walk.current)
                                  /\ <<walk.rest[j], walk.i>> \notin seen
  /\ \A e \in seen : e[2] <= walk.i
Owing ==
  \A e \in due :
    \/ e[2] = walk.i /\ \E j \in 1..Len(walk.rest) : e[1] = walk.rest[j]
    \/ e[2] > walk.i /\ \E p \in DOMAIN table[e[2]] : e[1] = table[e[2]][p].key
Walking == Ahead /\ Fresh /\ Owing
WalkInv == IF walk = Idle THEN seen = {} /\ due = {} ELSE Walking

IInv == TypeOK /\ IsFiniteSet(Places) /\ CountExact /\ Unique /\ Homed /\ WalkInv

-----------------------------------------------------------------------------
(* Keys *)
LEMMA MatchIsEquivalence ==
  /\ \A k : Match(k, k)
  /\ \A j, k : Match(j, k) => Match(k, j)
  /\ \A j, k, l : Match(j, k) /\ Match(k, l) => Match(j, l)
BY HashTableAssumption DEF Match, Same

LEMMA IndexType ==
  ASSUME TypeOK, NEW k \in Keys
  PROVE  Index(k) \in Buckets
<1> DEFINE h == IF ByContent(k) THEN Content[Hashed(k)] % NBuckets ELSE bits[Hashed(k)]
<1>1. Hashed(k) \in Keys
  BY HashTableAssumption, ConsAssumption DEF Hashed
<1>2. h \in Buckets
  <2>1. CASE ByContent(k)
    <3>1. Content[Hashed(k)] \in Nat /\ NBuckets \in Nat \ {0}
      BY <2>1, HashTableAssumption, ConsAssumption DEF ByContent
    <3>2. Content[Hashed(k)] % NBuckets \in 0 .. NBuckets - 1
      BY <3>1
    <3> QED
      BY <2>1, <3>2 DEF Buckets
  <2>2. CASE ~ByContent(k)
    BY <1>1, <2>2 DEF TypeOK
  <2> QED
    BY <2>1, <2>2
<1>3. Index(k) \in {h, Scatter[h]}
  BY DEF Index
<1> HIDE DEF h
<1>4. Scatter[h] \in Buckets
  BY <1>2, HashTableAssumption, ConsAssumption DEF Buckets
<1> QED
  BY <1>2, <1>3, <1>4

(* The walk of a bucket finds the one entry that matches. *)
LEMMA PositionIsUnique ==
  ASSUME TypeOK, Unique, NEW k \in Keys, Present(k)
  PROVE  /\ Position(k) \in Positions(k)
         /\ Positions(k) = {Position(k)}
         /\ Position(k) \in DOMAIN table[Index(k)]
         /\ Match(table[Index(k)][Position(k)].key, k)
<1>1. \A p, q \in Positions(k) : p = q
  BY IndexType, MatchIsEquivalence DEF Positions, Unique
<1>2. PICK p \in Positions(k) : TRUE
  BY DEF Present
<1>3. p \in Nat
  BY IndexType DEF Positions, TypeOK
<1>4. \A q \in Positions(k) : p <= q
  BY <1>1, <1>3
<1>5. Position(k) \in Positions(k)
  BY <1>2, <1>4 DEF Position
<1> QED
  BY <1>1, <1>5 DEF Positions

-----------------------------------------------------------------------------
(* Buckets *)
LEMMA InsertFront ==
  ASSUME NEW S, NEW s \in Seq(S), NEW e \in S
  PROVE  /\ <<e>> \o s \in Seq(S)
         /\ Len(<<e>> \o s) = Len(s) + 1
         /\ (<<e>> \o s)[1] = e
         /\ \A q \in 1..Len(s) : (<<e>> \o s)[q + 1] = s[q]
OBVIOUS

LEMMA RemoveOne ==
  ASSUME NEW S, NEW s \in Seq(S), NEW p \in 1..Len(s)
  PROVE  /\ RemoveAt(s, p) \in Seq(S)
         /\ Len(RemoveAt(s, p)) = Len(s) - 1
         /\ \A q \in 1 .. Len(s) - 1 : RemoveAt(s, p)[q] = IF q < p THEN s[q] ELSE s[q + 1]
<1> DEFINE a == SubSeq(s, 1, p - 1)
           z == SubSeq(s, p + 1, Len(s))
<1>1. Len(s) \in Nat /\ p \in Nat /\ 1 <= p /\ p <= Len(s)
  OBVIOUS
<1>2. /\ a \in Seq(S) /\ Len(a) = p - 1
      /\ \A q \in 1 .. p - 1 : a[q] = s[q]
  BY <1>1
<1>3. /\ z \in Seq(S) /\ Len(z) = Len(s) - p
      /\ \A q \in 1 .. Len(s) - p : z[q] = s[p + q]
  BY <1>1
<1>4. RemoveAt(s, p) = a \o z
  BY DEF RemoveAt
<1> HIDE DEF a, z
<1>5. /\ a \o z \in Seq(S) /\ Len(a \o z) = Len(a) + Len(z)
      /\ \A q \in 1 .. Len(a) + Len(z) :
           (a \o z)[q] = IF q <= Len(a) THEN a[q] ELSE z[q - Len(a)]
  BY <1>2, <1>3, ConcatProperties
<1> DEFINE r == a \o z
<1> HIDE DEF r
<1>6. /\ r \in Seq(S) /\ Len(r) = Len(s) - 1
      /\ \A q \in 1 .. Len(s) - 1 : r[q] = IF q <= p - 1 THEN a[q] ELSE z[q - (p - 1)]
  BY <1>1, <1>2, <1>3, <1>5 DEF r
<1>7. ASSUME NEW q \in 1 .. Len(s) - 1
      PROVE  r[q] = IF q < p THEN s[q] ELSE s[q + 1]
  <2>1. CASE q < p
    BY <1>1, <1>2, <1>6, <2>1
  <2>2. CASE q >= p
    <3>1. q - (p - 1) \in 1 .. Len(s) - p /\ p + (q - (p - 1)) = q + 1
      BY <1>1, <2>2
    <3> QED
      BY <1>1, <1>3, <1>6, <2>2, <3>1
  <2> QED
    BY <1>1, <2>1, <2>2
<1> QED
  BY <1>4, <1>6, <1>7 DEF r

(* The places of two tables that differ by one entry. *)
PlacesOf(t) == UNION {{b} \X DOMAIN t[b] : b \in Buckets}

LEMMA PlacesAre ==
  ASSUME NEW t \in [Buckets -> Seq(Pairs)]
  PROVE  PlacesOf(t) = {x \in Buckets \X Nat : x[2] \in 1..Len(t[x[1]])}
<1>1. \A b \in Buckets : DOMAIN t[b] = 1..Len(t[b]) /\ 1..Len(t[b]) \subseteq Nat
  OBVIOUS
<1>2. \A x : x \in PlacesOf(t) <=> \E b \in Buckets : x \in {b} \X DOMAIN t[b]
  BY DEF PlacesOf
<1> QED
  BY <1>1, <1>2

LEMMA PlaceAdded ==
  ASSUME NEW t \in [Buckets -> Seq(Pairs)], NEW u \in [Buckets -> Seq(Pairs)],
         NEW c \in Buckets, Len(u[c]) = Len(t[c]) + 1,
         \A b \in Buckets \ {c} : Len(u[b]) = Len(t[b]),
         IsFiniteSet(PlacesOf(t)) \/ IsFiniteSet(PlacesOf(u))
  PROVE  /\ IsFiniteSet(PlacesOf(t)) /\ IsFiniteSet(PlacesOf(u))
         /\ Cardinality(PlacesOf(t)) \in Nat
         /\ Cardinality(PlacesOf(u)) = Cardinality(PlacesOf(t)) + 1
<1> DEFINE n == Len(t[c]) + 1
           x == <<c, n>>
<1>1. Len(t[c]) \in Nat /\ n \in Nat
  OBVIOUS
<1>2. 1..Len(u[c]) = (1..Len(t[c])) \cup {n} /\ n \notin 1..Len(t[c])
  BY <1>1
<1>3. PlacesOf(u) = PlacesOf(t) \cup {x} /\ x \notin PlacesOf(t)
  <2>1. /\ PlacesOf(t) = {z \in Buckets \X Nat : z[2] \in 1..Len(t[z[1]])}
        /\ PlacesOf(u) = {z \in Buckets \X Nat : z[2] \in 1..Len(u[z[1]])}
    BY PlacesAre
  <2>2. x \in Buckets \X Nat /\ x[1] = c /\ x[2] = n
    BY <1>1
  <2>3. ASSUME NEW z \in Buckets \X Nat
        PROVE  z[2] \in 1..Len(u[z[1]]) <=> z[2] \in 1..Len(t[z[1]]) \/ z = x
    <3>1. z = x <=> z[1] = c /\ z[2] = n
      OBVIOUS
    <3> HIDE DEF n, x
    <3>2. CASE z[1] = c
      BY <1>2, <3>1, <3>2
    <3>3. CASE z[1] # c
      <4>1. Len(u[z[1]]) = Len(t[z[1]])
        BY <3>3
      <4> QED
        BY <3>1, <3>3, <4>1
    <3> QED
      BY <3>2, <3>3
  <2> HIDE DEF n, x
  <2>4. x[2] \notin 1..Len(t[x[1]]) /\ x[2] \in 1..Len(u[x[1]])
    BY <1>2, <2>2
  <2> QED
    BY <2>1, <2>2, <2>3, <2>4
<1> HIDE DEF x
<1>4. IsFiniteSet(PlacesOf(t))
  BY <1>3, FS_Subset
<1> QED
  BY <1>3, <1>4, FS_AddElement, FS_CardinalityType

-----------------------------------------------------------------------------
(* What the operations do to the table. *)
LEMMA Overwritten ==
  ASSUME TypeOK, NEW k \in Keys, NEW v \in Vals, NEW p \in DOMAIN table[Index(k)],
         table' = [table EXCEPT ![Index(k)][p].val = v]
  PROVE  /\ table' \in [Buckets -> Seq(Pairs)]
         /\ \A b \in Buckets : /\ Len(table'[b]) = Len(table[b])
                              /\ DOMAIN table'[b] = DOMAIN table[b]
                              /\ \A q \in DOMAIN table[b] :
                                   /\ table'[b][q].key = table[b][q].key
                                   /\ table'[b][q].val = IF b = Index(k) /\ q = p THEN v
                                                         ELSE table[b][q].val
<1> DEFINE c == Index(k)
           s == table[c]
           e == [key |-> s[p].key, val |-> v]
<1>1. c \in Buckets /\ s \in Seq(Pairs) /\ p \in 1..Len(s) /\ table \in [Buckets -> Seq(Pairs)]
  BY IndexType DEF TypeOK
<1>2. s[p] \in Pairs /\ e \in Pairs /\ [s[p] EXCEPT !.val = v] = e
  <2>1. s[p] \in Pairs
    BY <1>1
  <2> HIDE DEF s
  <2> QED
    BY <2>1 DEF Pairs
<1>3. table' = [table EXCEPT ![c] = [s EXCEPT ![p] = e]]
  BY <1>1, <1>2
<1> HIDE DEF c, s, e
<1>4. [s EXCEPT ![p] = e] \in Seq(Pairs) /\ Len([s EXCEPT ![p] = e]) = Len(s)
  BY <1>1, <1>2
<1>5. table' \in [Buckets -> Seq(Pairs)]
  BY <1>1, <1>3, <1>4
<1>6. ASSUME NEW b \in Buckets, b # c
      PROVE  table'[b] = table[b]
  BY <1>1, <1>3, <1>6
<1>7. /\ table'[c] = [s EXCEPT ![p] = e] /\ table[c] = s
      /\ e.key = s[p].key /\ e.val = v
  BY <1>1, <1>3 DEF s, e
<1>8. /\ Len(table'[c]) = Len(s) /\ DOMAIN table'[c] = DOMAIN s
      /\ \A q \in DOMAIN s : table'[c][q] = IF q = p THEN e ELSE s[q]
  BY <1>1, <1>4, <1>7
<1> QED
  BY <1>5, <1>6, <1>7, <1>8 DEF c

LEMMA Entered ==
  ASSUME TypeOK, NEW k \in Keys, NEW v \in Vals,
         table' = [table EXCEPT ![Index(k)] = <<[key |-> k, val |-> v]>> \o @]
  PROVE  /\ table' \in [Buckets -> Seq(Pairs)]
         /\ \A b \in Buckets \ {Index(k)} : table'[b] = table[b]
         /\ Len(table'[Index(k)]) = Len(table[Index(k)]) + 1
         /\ table'[Index(k)][1] = [key |-> k, val |-> v]
         /\ \A q \in 1..Len(table[Index(k)]) :
              table'[Index(k)][q + 1] = table[Index(k)][q]
<1> DEFINE e == [key |-> k, val |-> v]
<1>1. /\ Index(k) \in Buckets /\ table[Index(k)] \in Seq(Pairs) /\ e \in Pairs
      /\ table \in [Buckets -> Seq(Pairs)]
  BY IndexType DEF TypeOK, Pairs
<1>2. table' = [table EXCEPT ![Index(k)] = <<e>> \o table[Index(k)]]
  BY <1>1
<1> HIDE DEF e
<1> DEFINE s == <<e>> \o table[Index(k)]
<1>3. /\ s \in Seq(Pairs) /\ Len(s) = Len(table[Index(k)]) + 1 /\ s[1] = e
      /\ \A q \in 1..Len(table[Index(k)]) : s[q + 1] = table[Index(k)][q]
  BY <1>1, InsertFront
<1> HIDE DEF s
<1>4. table' = [table EXCEPT ![Index(k)] = s]
  BY <1>2 DEF s
<1> QED
  BY <1>1, <1>3, <1>4 DEF e

LEMMA Removed ==
  ASSUME TypeOK, NEW k \in Keys, NEW p \in DOMAIN table[Index(k)],
         table' = [table EXCEPT ![Index(k)] = RemoveAt(@, p)]
  PROVE  /\ table' \in [Buckets -> Seq(Pairs)]
         /\ \A b \in Buckets \ {Index(k)} : table'[b] = table[b]
         /\ Len(table'[Index(k)]) = Len(table[Index(k)]) - 1
         /\ \A q \in 1 .. Len(table[Index(k)]) - 1 :
              table'[Index(k)][q] = IF q < p THEN table[Index(k)][q]
                                    ELSE table[Index(k)][q + 1]
<1>1. /\ Index(k) \in Buckets /\ table[Index(k)] \in Seq(Pairs)
      /\ table \in [Buckets -> Seq(Pairs)] /\ p \in 1..Len(table[Index(k)])
  BY IndexType DEF TypeOK
<1> DEFINE s == RemoveAt(table[Index(k)], p)
<1>2. /\ s \in Seq(Pairs) /\ Len(s) = Len(table[Index(k)]) - 1
      /\ \A q \in 1 .. Len(table[Index(k)]) - 1 :
           s[q] = IF q < p THEN table[Index(k)][q] ELSE table[Index(k)][q + 1]
  BY <1>1, RemoveOne
<1>3. table' = [table EXCEPT ![Index(k)] = s]
  BY <1>1
<1> HIDE DEF s
<1> QED
  BY <1>1, <1>2, <1>3

LEMMA TailOfBucket ==
  ASSUME TypeOK, Ahead
  PROVE  /\ Len(walk.rest) \in Nat /\ Len(table[walk.i]) \in Nat
         /\ Passed + Len(walk.rest) = Len(table[walk.i])
         /\ \A j \in 1..Len(walk.rest) : Passed + j \in DOMAIN table[walk.i]
         /\ walk # Idle
<1>1. /\ walk.rest \in Seq(Keys) /\ table[walk.i] \in Seq(Pairs)
      /\ walk.i \in Buckets /\ Passed \in Nat
  BY DEF TypeOK, Ahead
<1>2. /\ Len(walk.rest) \in Nat /\ Len(table[walk.i]) \in Nat
      /\ DOMAIN table[walk.i] = 1..Len(table[walk.i])
  BY <1>1
<1>3. Passed + Len(walk.rest) = Len(table[walk.i])
  BY <1>2 DEF Passed
<1>4. walk # Idle
  BY <1>1, HashTableAssumption DEF Idle, Buckets
<1> QED
  BY <1>1, <1>2, <1>3, <1>4

LEMMA SameTest ==
  ASSUME test' = test
  PROVE  /\ \A j, k : Match(j, k)' <=> Match(j, k)
         /\ \A k : Hashed(k)' = Hashed(k) /\ (ByContent(k)' <=> ByContent(k))
         /\ \A k : Steady(k)' <=> Steady(k)
         /\ bits' = bits => \A k : Index(k)' = Index(k)
<1>1. \A j, k : Match(j, k)' <=> Match(j, k)
  BY DEF Match
<1>2. \A k : Hashed(k)' = Hashed(k) /\ (ByContent(k)' <=> ByContent(k))
  BY DEF ByContent, Hashed
<1>3. \A k : Steady(k)' <=> Steady(k)
  BY <1>1, <1>2 DEF Steady
<1>4. bits' = bits => \A k : Index(k)' = Index(k)
  BY <1>2 DEF Index
<1> QED
  BY <1>1, <1>2, <1>3, <1>4

-----------------------------------------------------------------------------
(* Each operation on the table keeps the invariant. *)
LEMMA OverwriteIInv ==
  ASSUME IInv, NEW k \in Keys, NEW v \in Vals, Present(k),
         table' = [table EXCEPT ![Index(k)][Position(k)].val = v],
         UNCHANGED <<test, count, bits, walk, seen, due>>, TypeOK'
  PROVE  IInv'
<1>1. TypeOK /\ Unique /\ Homed /\ IsFiniteSet(Places) /\ CountExact /\ WalkInv
  BY DEF IInv
<1>2. /\ table \in [Buckets -> Seq(Pairs)] /\ table' \in [Buckets -> Seq(Pairs)]
      /\ \A b \in Buckets : /\ Len(table'[b]) = Len(table[b])
                           /\ DOMAIN table'[b] = DOMAIN table[b]
                           /\ \A q \in DOMAIN table[b] : table'[b][q].key = table[b][q].key
  BY <1>1, PositionIsUnique, Overwritten DEF TypeOK
<1>3. IsFiniteSet(Places)' /\ CountExact'
  <2>1. PlacesOf(table') = PlacesOf(table)
    <3>1. /\ PlacesOf(table) = {z \in Buckets \X Nat : z[2] \in 1..Len(table[z[1]])}
          /\ PlacesOf(table') = {z \in Buckets \X Nat : z[2] \in 1..Len(table'[z[1]])}
      BY <1>2, PlacesAre
    <3>2. \A z \in Buckets \X Nat : Len(table'[z[1]]) = Len(table[z[1]])
      BY <1>2
    <3> QED
      BY <3>1, <3>2
  <2> QED
    BY <1>1, <2>1 DEF PlacesOf, Places, CountExact
<1>4. Unique'
  BY <1>1, <1>2, SameTest DEF Unique
<1>5. Homed'
  BY <1>1, <1>2, SameTest DEF Homed
<1>6. WalkInv'
  <2>1. CASE walk # Idle
    <3>1. Ahead /\ Fresh /\ Owing /\ walk.i \in Buckets
      BY <1>1, <2>1 DEF WalkInv, Walking, Ahead
    <3>2. Ahead'
      <4>1. Passed' = Passed
        BY <1>2, <3>1 DEF Passed
      <4> QED
        BY <1>1, <1>2, <3>1, <4>1, TailOfBucket DEF Ahead
    <3>3. Fresh'
      BY <3>1, SameTest DEF Fresh
    <3>4. Owing'
      <4> SUFFICES ASSUME NEW e \in due, ~(e[2] = walk.i /\ \E j \in 1..Len(walk.rest) : e[1] = walk.rest[j])
                   PROVE  e[2] > walk.i /\ \E p \in DOMAIN table'[e[2]] : e[1] = table'[e[2]][p].key
        BY DEF Owing
      <4>1. e[2] \in Buckets
        BY <1>1 DEF TypeOK
      <4>2. e[2] > walk.i /\ \E p \in DOMAIN table[e[2]] : e[1] = table[e[2]][p].key
        BY <3>1 DEF Owing
      <4> QED
        BY <1>2, <4>1, <4>2
    <3> QED
      BY <2>1, <3>2, <3>3, <3>4 DEF WalkInv, Walking
  <2> QED
    BY <1>1, <2>1 DEF WalkInv
<1> QED
  BY <1>3, <1>4, <1>5, <1>6 DEF IInv

LEMMA EnterIInv ==
  ASSUME IInv, NEW k \in Keys, NEW v \in Vals, ~Present(k),
         table' = [table EXCEPT ![Index(k)] = <<[key |-> k, val |-> v]>> \o @],
         count' = count + 1, UNCHANGED <<test, bits, walk, seen, due>>, TypeOK'
  PROVE  IInv'
<1> DEFINE c == Index(k)
           n == Len(table[c])
<1>1. TypeOK /\ Unique /\ Homed /\ IsFiniteSet(Places) /\ CountExact /\ WalkInv
  BY DEF IInv
<1>2. /\ table \in [Buckets -> Seq(Pairs)] /\ table' \in [Buckets -> Seq(Pairs)]
      /\ c \in Buckets /\ n \in Nat /\ Len(table'[c]) = n + 1
      /\ DOMAIN table[c] = 1..n /\ DOMAIN table'[c] = 1..(n + 1)
      /\ \A b \in Buckets \ {c} : table'[b] = table[b]
      /\ table'[c][1].key = k
      /\ \A q \in 1..n : table'[c][q + 1] = table[c][q]
  <2>1. c \in Buckets /\ table \in [Buckets -> Seq(Pairs)] /\ table[c] \in Seq(Pairs)
    BY <1>1, IndexType DEF TypeOK
  <2>2. /\ table' \in [Buckets -> Seq(Pairs)] /\ Len(table'[c]) = n + 1
        /\ \A b \in Buckets \ {c} : table'[b] = table[b]
        /\ table'[c][1] = [key |-> k, val |-> v]
        /\ \A q \in 1..n : table'[c][q + 1] = table[c][q]
    BY <1>1, Entered
  <2>3. table'[c] \in Seq(Pairs)
    BY <2>1, <2>2
  <2> HIDE DEF c
  <2> QED
    BY <2>1, <2>2, <2>3
<1>3. \A q \in 1..n : ~Match(table[c][q].key, k) /\ ~Match(k, table[c][q].key)
  BY <1>2, MatchIsEquivalence DEF Present, Positions
<1> HIDE DEF c, n
<1>4. IsFiniteSet(Places)' /\ CountExact'
  <2>1. \A b \in Buckets \ {c} : Len(table'[b]) = Len(table[b])
    BY <1>2
  <2>2. IsFiniteSet(PlacesOf(table)) /\ count = Cardinality(PlacesOf(table))
    BY <1>1 DEF PlacesOf, Places, CountExact
  <2>3. Len(table'[c]) = Len(table[c]) + 1
    BY <1>2 DEF n
  <2>4. /\ IsFiniteSet(PlacesOf(table'))
        /\ Cardinality(PlacesOf(table')) = Cardinality(PlacesOf(table)) + 1
    BY <1>2, <2>1, <2>2, <2>3, PlaceAdded
  <2> QED
    BY <2>2, <2>4 DEF PlacesOf, Places, CountExact
<1>5. Unique'
  <2> SUFFICES ASSUME NEW b \in Buckets, NEW p \in DOMAIN table'[b], NEW q \in DOMAIN table'[b],
                      Match(table'[b][p].key, table'[b][q].key)
               PROVE  p = q
    BY SameTest DEF Unique
  <2>1. CASE b # c
    BY <1>1, <1>2, <2>1 DEF Unique
  <2>2. CASE b = c
    <3>1. \A r \in 1..(n + 1) : r = 1 \/ (r - 1 \in 1..n /\ table'[c][r] = table[c][r - 1])
      <4> TAKE r \in 1..(n + 1)
      <4>1. CASE r # 1
        <5>1. r - 1 \in 1..n /\ (r - 1) + 1 = r
          BY <1>2, <4>1
        <5> QED
          BY <1>2, <5>1
      <4> QED
        BY <4>1
    <3>2. p \in 1..(n + 1) /\ q \in 1..(n + 1)
      BY <1>2, <2>2
    <3>3. CASE p = 1 \/ q = 1
      BY <1>2, <1>3, <2>2, <3>1, <3>2, <3>3
    <3>4. CASE p # 1 /\ q # 1
      <4>0. /\ p - 1 \in 1..n /\ table'[b][p] = table[c][p - 1]
            /\ q - 1 \in 1..n /\ table'[b][q] = table[c][q - 1]
        BY <2>2, <3>1, <3>2, <3>4
      <4>1. /\ p - 1 \in DOMAIN table[c] /\ q - 1 \in DOMAIN table[c]
            /\ Match(table[c][p - 1].key, table[c][q - 1].key) /\ c \in Buckets
        BY <1>2, <4>0
      <4>2. p - 1 = q - 1
        BY <1>1, <4>1 DEF Unique
      <4> QED
        BY <3>2, <4>2
    <3> QED
      BY <3>3, <3>4
  <2> QED
    BY <2>1, <2>2
<1>6. Homed'
  <2> SUFFICES ASSUME NEW b \in Buckets, NEW p \in DOMAIN table'[b], Steady(table'[b][p].key)
               PROVE  b = Index(table'[b][p].key)
    BY SameTest DEF Homed
  <2>1. CASE b # c
    BY <1>1, <1>2, <2>1 DEF Homed
  <2>2. CASE b = c /\ p = 1
    BY <1>2, <2>2 DEF c
  <2>3. CASE b = c /\ p # 1
    <3>1. p - 1 \in 1..n /\ (p - 1) + 1 = p
      BY <1>2, <2>3
    <3>2. table'[b][p] = table[c][p - 1]
      BY <1>2, <2>3, <3>1
    <3>3. Steady(table[c][p - 1].key)
      BY <2>3, <3>2
    <3>4. c = Index(table[c][p - 1].key)
      BY <1>1, <1>2, <3>1, <3>3 DEF Homed
    <3> QED
      BY <2>3, <3>2, <3>4
  <2> QED
    BY <2>1, <2>2, <2>3
<1>7. WalkInv'
  <2>1. CASE walk # Idle
    <3>1. Ahead /\ Fresh /\ Owing /\ walk.i \in Buckets
      BY <1>1, <2>1 DEF WalkInv, Walking, Ahead
    <3>2. Ahead'
      <4>1. CASE walk.i = c
        <5>1. Passed' = Passed + 1 /\ Passed \in Nat /\ Passed + 1 \in Nat
          <6>1. /\ Passed' = Len(table'[c]) - Len(walk.rest) /\ Passed = Len(table[c]) - Len(walk.rest)
                /\ Passed \in Nat /\ Len(walk.rest) \in Nat
            BY <1>1, <3>1, <4>1, TailOfBucket DEF Passed, Ahead
          <6>2. Len(table[c]) = n
            BY DEF n
          <6> QED
            BY <1>2, <6>1, <6>2
        <5>2. ASSUME NEW j \in 1..Len(walk.rest)
              PROVE  walk.rest[j] = table'[c][(Passed + 1) + j].key
          <6>1. /\ Passed + j \in 1..n /\ (Passed + j) + 1 = (Passed + 1) + j
                /\ walk.rest[j] = table[c][Passed + j].key
            <7>1. /\ Passed + j \in DOMAIN table[walk.i]
                  /\ walk.rest[j] = table[walk.i][Passed + j].key
              BY <1>1, <3>1, TailOfBucket DEF Ahead
            <7>2. Passed + j \in 1..n
              BY <1>2, <4>1, <7>1
            <7>3. j \in Nat
              BY <1>1, <3>1, TailOfBucket
            <7> HIDE DEF Passed
            <7> QED
              BY <4>1, <5>1, <7>1, <7>2, <7>3
          <6> QED
            BY <1>2, <6>1
        <5> QED
          BY <3>1, <4>1, <5>1, <5>2 DEF Ahead
      <4>2. CASE walk.i # c
        BY <1>2, <3>1, <4>2 DEF Ahead, Passed
      <4> QED
        BY <4>1, <4>2
    <3>3. Fresh'
      BY <3>1, SameTest DEF Fresh
    <3>4. Owing'
      <4> SUFFICES ASSUME NEW e \in due, ~(e[2] = walk.i /\ \E j \in 1..Len(walk.rest) : e[1] = walk.rest[j])
                   PROVE  e[2] > walk.i /\ \E p \in DOMAIN table'[e[2]] : e[1] = table'[e[2]][p].key
        BY DEF Owing
      <4>1. e[2] \in Buckets
        BY <1>1 DEF TypeOK
      <4>2. PICK p \in DOMAIN table[e[2]] : e[1] = table[e[2]][p].key
        BY <3>1 DEF Owing
      <4>3. e[2] > walk.i
        BY <3>1 DEF Owing
      <4>4. CASE e[2] = c
        <5>1. p + 1 \in DOMAIN table'[e[2]] /\ table'[e[2]][p + 1] = table[e[2]][p]
          BY <1>2, <4>4
        <5> QED
          BY <4>2, <4>3, <5>1
      <4>5. CASE e[2] # c
        BY <1>2, <4>1, <4>2, <4>3, <4>5
      <4> QED
        BY <4>4, <4>5
    <3> QED
      BY <2>1, <3>2, <3>3, <3>4 DEF WalkInv, Walking
  <2> QED
    BY <1>1, <2>1 DEF WalkInv
<1> QED
  BY <1>4, <1>5, <1>6, <1>7 DEF IInv

LEMMA RemoveIInv ==
  ASSUME IInv, NEW k \in Keys, Allowed(k), Present(k),
         table' = [table EXCEPT ![Index(k)] = RemoveAt(@, Position(k))],
         count' = count - 1,
         due' = due \ {<<table[Index(k)][Position(k)].key, Index(k)>>},
         UNCHANGED <<test, bits, walk, seen>>, TypeOK'
  PROVE  IInv'
<1> DEFINE c == Index(k)
           n == Len(table[c])
           x == Position(k)
<1>1. TypeOK /\ Unique /\ Homed /\ IsFiniteSet(Places) /\ CountExact /\ WalkInv
  BY DEF IInv
<1>2. /\ table \in [Buckets -> Seq(Pairs)] /\ table' \in [Buckets -> Seq(Pairs)]
      /\ c \in Buckets /\ n \in Nat /\ Len(table'[c]) = n - 1
      /\ DOMAIN table[c] = 1..n /\ DOMAIN table'[c] = 1..(n - 1)
      /\ \A b \in Buckets \ {c} : table'[b] = table[b]
      /\ x \in 1..n /\ Match(table[c][x].key, k)
      /\ \A q \in 1..(n - 1) : table'[c][q] = IF q < x THEN table[c][q] ELSE table[c][q + 1]
  <2>1. c \in Buckets /\ table \in [Buckets -> Seq(Pairs)] /\ table[c] \in Seq(Pairs)
    BY <1>1, IndexType DEF TypeOK
  <2>2. x \in DOMAIN table[c] /\ Match(table[c][x].key, k)
    BY <1>1, PositionIsUnique
  <2>3. /\ table' \in [Buckets -> Seq(Pairs)] /\ Len(table'[c]) = n - 1
        /\ \A b \in Buckets \ {c} : table'[b] = table[b]
        /\ \A q \in 1..(n - 1) : table'[c][q] = IF q < x THEN table[c][q] ELSE table[c][q + 1]
    BY <1>1, <2>2, Removed
  <2>4. table'[c] \in Seq(Pairs)
    BY <2>1, <2>3
  <2> HIDE DEF c, x
  <2> QED
    BY <2>1, <2>2, <2>3, <2>4
<1>3. due' = due \ {<<table[c][x].key, c>>}
  OBVIOUS
<1> HIDE DEF c, n, x
(* Where an entry of the bucket comes from, and where one that stays goes. *)
<1>4. /\ \A q \in 1..(n - 1) : \E r \in 1..n : /\ table'[c][q] = table[c][r]
                                          /\ r = IF q < x THEN q ELSE q + 1
      /\ \A r \in 1..n : r # x => \E q \in 1..(n - 1) : table'[c][q] = table[c][r]
  <2>1. \A q \in 1..(n - 1) : q \in 1..n /\ q + 1 \in 1..n
    BY <1>2
  <2>2. ASSUME NEW r \in 1..n, r # x
        PROVE  \E q \in 1..(n - 1) : table'[c][q] = table[c][r]
    <3>1. CASE r < x
      <4>1. r \in 1..(n - 1)
        BY <1>2, <3>1
      <4> QED
        BY <1>2, <3>1, <4>1
    <3>2. CASE r > x
      <4>1. r - 1 \in 1..(n - 1) /\ ~(r - 1 < x) /\ (r - 1) + 1 = r
        BY <1>2, <3>2
      <4> QED
        BY <1>2, <4>1
    <3> QED
      BY <1>2, <2>2, <3>1, <3>2
  <2> QED
    BY <1>2, <2>1, <2>2
<1>5. IsFiniteSet(Places)' /\ CountExact'
  <2>1. \A b \in Buckets \ {c} : Len(table[b]) = Len(table'[b])
    BY <1>2
  <2>2. Len(table[c]) = Len(table'[c]) + 1
    <3>1. Len(table[c]) = n
      BY DEF n
    <3> QED
      BY <1>2, <3>1
  <2>3. /\ IsFiniteSet(PlacesOf(table')) /\ Cardinality(PlacesOf(table')) \in Nat
        /\ Cardinality(PlacesOf(table)) = Cardinality(PlacesOf(table')) + 1
    BY <1>1, <1>2, <2>1, <2>2, PlaceAdded DEF PlacesOf, Places
  <2> QED
    BY <1>1, <2>3 DEF PlacesOf, Places, CountExact
<1>6. Unique'
  <2> SUFFICES ASSUME NEW b \in Buckets, NEW p \in DOMAIN table'[b], NEW q \in DOMAIN table'[b],
                      Match(table'[b][p].key, table'[b][q].key)
               PROVE  p = q
    BY SameTest DEF Unique
  <2>1. CASE b # c
    BY <1>1, <1>2, <2>1 DEF Unique
  <2>2. CASE b = c
    <3>1. p \in 1..(n - 1) /\ q \in 1..(n - 1)
      BY <1>2, <2>2
    <3>2. PICK r \in 1..n : table'[c][p] = table[c][r] /\ r = IF p < x THEN p ELSE p + 1
      BY <1>4, <3>1
    <3>3. PICK t \in 1..n : table'[c][q] = table[c][t] /\ t = IF q < x THEN q ELSE q + 1
      BY <1>4, <3>1
    <3>4. r = t
      <4>1. Match(table[c][r].key, table[c][t].key)
        BY <2>2, <3>2, <3>3
      <4> QED
        BY <1>1, <1>2, <4>1 DEF Unique
    <3>5. n \in Nat /\ x \in Nat
      BY <1>2
    <3> QED
      BY <3>1, <3>2, <3>3, <3>4, <3>5
  <2> QED
    BY <2>1, <2>2
<1>7. Homed'
  <2> SUFFICES ASSUME NEW b \in Buckets, NEW p \in DOMAIN table'[b], Steady(table'[b][p].key)
               PROVE  b = Index(table'[b][p].key)
    BY SameTest DEF Homed
  <2>1. CASE b # c
    BY <1>1, <1>2, <2>1 DEF Homed
  <2>2. CASE b = c
    <3>1. p \in 1..(n - 1)
      BY <1>2, <2>2
    <3>2. PICK r \in 1..n : table'[c][p] = table[c][r]
      BY <1>4, <3>1
    <3>3. r \in DOMAIN table[c] /\ Steady(table[c][r].key)
      BY <1>2, <2>2, <3>2
    <3> QED
      BY <1>1, <1>2, <2>2, <3>2, <3>3 DEF Homed
  <2> QED
    BY <2>1, <2>2
<1>8. WalkInv'
  <2>1. CASE walk # Idle
    <3>1. Ahead /\ Fresh /\ Owing /\ walk.i \in Buckets /\ walk.current = k
      BY <1>1, <2>1 DEF WalkInv, Walking, Ahead, Allowed
    <3>2. Ahead'
      <4>1. CASE walk.i = c
        <5>1. Passed \in Nat /\ Len(walk.rest) \in Nat /\ Passed + Len(walk.rest) = n
          BY <1>1, <3>1, <4>1, TailOfBucket DEF Ahead, n
        (* The entry is not in what maphash has yet to visit. *)
        <5>2. x <= Passed
          <6> SUFFICES ASSUME x > Passed PROVE FALSE
            BY <1>2, <5>1
          <6>1. x - Passed \in 1..Len(walk.rest) /\ Passed + (x - Passed) = x
            BY <1>2, <5>1
          <6>2. walk.rest[x - Passed] = table[c][x].key
            BY <3>1, <4>1, <6>1 DEF Ahead
          <6>3. ~Match(walk.rest[x - Passed], k)
            BY <3>1, <6>1 DEF Fresh
          <6> QED
            BY <1>2, <6>2, <6>3
        <5>3. Passed' = Passed - 1 /\ Passed - 1 \in Nat
          BY <1>2, <4>1, <5>1, <5>2 DEF Passed
        <5>4. ASSUME NEW j \in 1..Len(walk.rest)
              PROVE  walk.rest[j] = table'[c][(Passed - 1) + j].key
          <6>1. /\ (Passed - 1) + j \in 1..(n - 1) /\ ~((Passed - 1) + j < x)
                /\ ((Passed - 1) + j) + 1 = Passed + j
            BY <1>2, <5>1, <5>2
          <6>2. walk.rest[j] = table[c][Passed + j].key
            BY <3>1, <4>1 DEF Ahead
          <6> QED
            BY <1>2, <6>1, <6>2
        <5> QED
          BY <3>1, <4>1, <5>3, <5>4 DEF Ahead
      <4>2. CASE walk.i # c
        BY <1>2, <3>1, <4>2 DEF Ahead, Passed
      <4> QED
        BY <4>1, <4>2
    <3>3. Fresh'
      BY <3>1, SameTest DEF Fresh
    <3>4. Owing'
      <4> SUFFICES ASSUME NEW e \in due', ~(e[2] = walk.i /\ \E j \in 1..Len(walk.rest) : e[1] = walk.rest[j])
                   PROVE  e[2] > walk.i /\ \E p \in DOMAIN table'[e[2]] : e[1] = table'[e[2]][p].key
        BY DEF Owing
      <4>1. e \in due /\ e[2] \in Buckets /\ e = <<e[1], e[2]>>
        BY <1>1, <1>3 DEF TypeOK
      <4>2. PICK p \in DOMAIN table[e[2]] : e[1] = table[e[2]][p].key
        BY <3>1, <4>1 DEF Owing
      <4>3. e[2] > walk.i
        BY <3>1, <4>1 DEF Owing
      <4>4. CASE e[2] = c
        <5>1. p # x
          BY <1>3, <4>1, <4>2, <4>4
        <5>2. \E q \in 1..(n - 1) : table'[c][q] = table[c][p]
          BY <1>2, <1>4, <4>4, <5>1
        <5> QED
          BY <1>2, <4>2, <4>3, <4>4, <5>2
      <4>5. CASE e[2] # c
        BY <1>2, <4>1, <4>2, <4>3, <4>5
      <4> QED
        BY <4>4, <4>5
    <3> QED
      BY <2>1, <3>2, <3>3, <3>4 DEF WalkInv, Walking
  <2>2. CASE walk = Idle
    BY <1>1, <2>2 DEF WalkInv
  <2> QED
    BY <2>1, <2>2
<1> QED
  BY <1>5, <1>6, <1>7, <1>8 DEF IInv

(* The other operations leave the entries alone. *)
LEMMA SameTable ==
  ASSUME IInv, UNCHANGED <<test, table, count, bits>>, TypeOK', WalkInv'
  PROVE  IInv'
<1>1. (IsFiniteSet(Places) /\ CountExact)'
  BY DEF IInv, Places, CountExact, Buckets
<1>2. Unique' /\ Homed'
  BY SameTest DEF IInv, Unique, Homed, Buckets
<1> QED
  BY <1>1, <1>2 DEF IInv

LEMMA SameWalk ==
  ASSUME WalkInv, UNCHANGED <<test, table, walk, seen, due>>
  PROVE  WalkInv'
BY SameTest DEF WalkInv, Walking, Ahead, Fresh, Owing, Passed, Buckets, Idle

LEMMA SomethingToRemove ==
  ASSUME IInv, NEW k \in Keys, Present(k)
  PROVE  count - 1 \in Nat
<1>1. TypeOK /\ Unique /\ IsFiniteSet(Places) /\ count = Cardinality(Places) /\ count \in Nat
  BY DEF IInv, TypeOK, CountExact
<1>2. Index(k) \in Buckets /\ Position(k) \in DOMAIN table[Index(k)]
  BY <1>1, IndexType, PositionIsUnique
<1>3. <<Index(k), Position(k)>> \in Places
  BY <1>2 DEF Places
<1>4. count # 0
  BY <1>1, <1>3, FS_EmptySet
<1> QED
  BY <1>1, <1>4

LEMMA KeysInType ==
  ASSUME TypeOK, NEW b \in Buckets
  PROVE  /\ KeysIn(b) \in Seq(Keys) /\ Len(KeysIn(b)) = Len(table[b])
         /\ Len(table[b]) \in Nat /\ DOMAIN table[b] = 1..Len(table[b])
         /\ \A p \in 1..Len(table[b]) : /\ KeysIn(b)[p] = table[b][p].key
                                       /\ table[b][p].key \in Keys
<1>1. table[b] \in Seq(Pairs)
  BY DEF TypeOK
<1>2. Len(table[b]) \in Nat /\ DOMAIN table[b] = 1..Len(table[b])
  BY <1>1
<1>3. \A p \in 1..Len(table[b]) : table[b][p] \in Pairs
  BY <1>1
<1>4. \A p \in 1..Len(table[b]) : table[b][p].key \in Keys
  BY <1>3 DEF Pairs
<1>5. KeysIn(b) = [p \in 1..Len(table[b]) |-> table[b][p].key]
  BY <1>2 DEF KeysIn
<1> QED
  BY <1>2, <1>4, <1>5

(* What maphash owes when it begins. *)
LEMMA EntriesAre ==
  ASSUME TypeOK, NEW e \in Entries
  PROVE  /\ e = <<e[1], e[2]>> /\ e[1] \in Keys /\ e[2] \in Buckets
         /\ \E p \in 1..Len(table[e[2]]) : e[1] = table[e[2]][p].key
<1>1. PICK b \in Buckets : e \in Range(KeysIn(b)) \X {b}
  BY DEF Entries
<1>2. e = <<e[1], e[2]>> /\ e[2] = b /\ e[1] \in Range(KeysIn(b))
  BY <1>1
<1>3. PICK p \in DOMAIN KeysIn(b) : e[1] = KeysIn(b)[p]
  BY <1>2 DEF Range
<1>4. p \in 1..Len(table[b])
  BY <1>3, KeysInType DEF KeysIn
<1> QED
  BY <1>2, <1>3, <1>4, KeysInType

LEMMA StepTypes ==
  ASSUME IInv, [Next]_vars
  PROVE  TypeOK'
<1> USE HashTableAssumption
<1>0. TypeOK /\ Unique
  BY DEF IInv
<1>1. CASE UNCHANGED vars
  BY <1>0, <1>1 DEF vars, TypeOK, Buckets, Pairs
<1>2. ASSUME NEW k \in Keys, NEW r \in Vals \cup BOOLEAN \cup {Absent}, Reply(k, r)
      PROVE  reply' \in Vals \cup BOOLEAN \cup {Absent, Unspecified}
  BY <1>2 DEF Reply
<1>3. ASSUME NEW k \in Keys, Gethash(k)
      PROVE  TypeOK'
  <2>1. Present(k) => table[Index(k)][Position(k)] \in Pairs
    BY <1>0, IndexType, PositionIsUnique DEF TypeOK
  <2>2. Present(k) => table[Index(k)][Position(k)].val \in Vals
    BY <2>1 DEF Pairs
  <2> DEFINE r == IF Present(k) THEN table[Index(k)][Position(k)].val ELSE Absent
  <2>3. r \in Vals \cup BOOLEAN \cup {Absent} /\ Reply(k, r)
    BY <1>3, <2>2 DEF Gethash
  <2> HIDE DEF r
  <2>4. reply' \in Vals \cup BOOLEAN \cup {Absent, Unspecified}
    BY <1>2, <2>3
  <2> QED
    BY <1>0, <1>3, <2>4 DEF Gethash, maphashing, TypeOK, Buckets
<1>4. ASSUME NEW k \in Keys, NEW v \in Vals, HashSet(k, v)
      PROVE  TypeOK'
  <2>1. reply' \in Vals \cup BOOLEAN \cup {Absent, Unspecified}
    BY <1>2, <1>4 DEF HashSet
  <2>2. table' \in [Buckets -> Seq(Pairs)] /\ count' \in Nat
    <3>1. CASE Present(k)
      BY <1>0, <1>4, <3>1, PositionIsUnique, Overwritten DEF HashSet, TypeOK
    <3>2. CASE ~Present(k)
      <4>1. /\ table' = [table EXCEPT ![Index(k)] = <<[key |-> k, val |-> v]>> \o @]
            /\ count' = count + 1 /\ count \in Nat
        BY <1>0, <1>4, <3>2 DEF HashSet, TypeOK
      <4>2. table' \in [Buckets -> Seq(Pairs)]
        BY <1>0, <4>1, Entered
      <4>3. count' \in Nat
        BY <4>1
      <4> QED
        BY <4>2, <4>3
    <3> QED
      BY <3>1, <3>2
  <2> QED
    BY <1>0, <1>4, <2>1, <2>2 DEF HashSet, maphashing, TypeOK, Buckets
<1>5. ASSUME NEW k \in Keys, Remhash(k)
      PROVE  TypeOK'
  <2>1. reply' \in Vals \cup BOOLEAN \cup {Absent, Unspecified}
    <3>1. Present(k) \in BOOLEAN
      BY DEF Present
    <3> QED
      BY <1>2, <1>5, <3>1 DEF Remhash
  <2>2. table' \in [Buckets -> Seq(Pairs)] /\ count' \in Nat /\ due' \subseteq due
    <3>1. CASE Present(k)
      BY <1>0, <1>5, <3>1, PositionIsUnique, Removed, SomethingToRemove DEF Remhash
    <3>2. CASE ~Present(k)
      BY <1>0, <1>5, <3>2 DEF Remhash, TypeOK
    <3> QED
      BY <3>1, <3>2
  <2> QED
    BY <1>0, <1>5, <2>1, <2>2 DEF Remhash, TypeOK, Buckets
<1>6. CASE Clrhash
  BY <1>0, <1>6 DEF Clrhash, maphashing, TypeOK, Buckets
<1>7. CASE MaphashBegin
  <2>1. 0 \in Buckets
    BY DEF Buckets
  <2>2. KeysIn(0) \in Seq(Keys) /\ 0 \in 0..NBuckets
    BY <1>0, <2>1, KeysInType DEF Buckets
  <2>3. Entries \subseteq Keys \X Buckets
    <3> SUFFICES ASSUME NEW e \in Entries PROVE e \in Keys \X Buckets
      OBVIOUS
    <3>1. e = <<e[1], e[2]>> /\ e[1] \in Keys /\ e[2] \in Buckets
      BY <1>0, EntriesAre
    <3> QED
      BY <3>1
  <2>4. walk' = [i |-> 0, rest |-> KeysIn(0), current |-> Nobody] /\ due' = Entries
    BY <1>7 DEF MaphashBegin
  <2> QED
    BY <1>0, <1>7, <2>2, <2>3, <2>4 DEF MaphashBegin, TypeOK, Buckets
<1>w. walk = [i |-> walk.i, rest |-> walk.rest, current |-> walk.current]
  BY <1>0 DEF TypeOK
<1>x. walk.rest \in Seq(Keys) /\ walk.i \in 0..NBuckets /\ walk.current \in Keys \cup {Nobody}
  BY <1>0 DEF TypeOK
<1>y. walk # Idle => walk.i \in Buckets
  BY DEF IInv, WalkInv, Walking, Ahead
<1>8. CASE MaphashCall
  <2>1. Head(walk.rest) \in Keys /\ Tail(walk.rest) \in Seq(Keys)
    BY <1>8, <1>x DEF MaphashCall
  <2>2. walk' = [i |-> walk.i, rest |-> Tail(walk.rest), current |-> Head(walk.rest)]
    BY <1>8, <1>w DEF MaphashCall
  <2>3. /\ seen' = seen \cup {<<Head(walk.rest), walk.i>>} /\ due' \subseteq due
        /\ UNCHANGED <<test, table, count, bits, reply>> /\ walk.i \in Buckets
    BY <1>8, <1>y DEF MaphashCall
  <2>4. walk' \in [i : 0 .. NBuckets, rest : Seq(Keys), current : Keys \cup {Nobody}]
    BY <1>x, <2>1, <2>2
  <2>5. seen' \subseteq Keys \X Buckets /\ due' \subseteq Keys \X Buckets
    BY <1>0, <2>1, <2>3 DEF TypeOK
  <2> QED
    BY <1>0, <2>3, <2>4, <2>5 DEF TypeOK, Buckets
<1>9. CASE MaphashReturn
  BY <1>0, <1>9 DEF MaphashReturn, TypeOK, Buckets
<1>10. CASE MaphashBucket
  <2>1. \/ walk.i + 1 < NBuckets /\ walk' = [walk EXCEPT !.i = @ + 1, !.rest = KeysIn(walk.i + 1)]
        \/ walk' = Idle
    BY <1>10 DEF MaphashBucket
  <2>2. walk' \in [i : 0 .. NBuckets, rest : Seq(Keys), current : Keys \cup {Nobody}]
    <3>1. CASE walk' = Idle
      BY <3>1 DEF Idle
    <3>2. CASE walk.i + 1 < NBuckets /\ walk' = [walk EXCEPT !.i = @ + 1, !.rest = KeysIn(walk.i + 1)]
      <4>1. walk.i + 1 \in Buckets /\ walk.i + 1 \in 0..NBuckets
        BY <1>x, <3>2 DEF Buckets
      <4>2. KeysIn(walk.i + 1) \in Seq(Keys)
        BY <1>0, <4>1, KeysInType
      <4>3. walk' = [i |-> walk.i + 1, rest |-> KeysIn(walk.i + 1), current |-> walk.current]
        BY <1>w, <3>2
      <4> QED
        BY <1>x, <4>1, <4>2, <4>3
    <3> QED
      BY <2>1, <3>1, <3>2
  <2>3. seen' \subseteq seen /\ due' \subseteq due /\ UNCHANGED <<test, table, count, bits, reply>>
    BY <1>10 DEF MaphashBucket
  <2> QED
    BY <1>0, <2>2, <2>3 DEF TypeOK, Buckets
<1>11. ASSUME NEW k \in Keys, Move(k)
       PROVE  TypeOK'
  <2>1. PICK i \in Buckets : bits' = [bits EXCEPT ![k] = i]
    BY <1>11 DEF Move
  <2>2. bits \in [Keys -> Buckets]
    BY <1>0 DEF TypeOK
  <2>3. bits' \in [Keys -> Buckets]
    BY <2>1, <2>2
  <2>4. test' = test /\ table' = table /\ count' = count /\ walk' = walk
        /\ seen' = seen /\ due' = due /\ reply' = reply
    BY <1>11 DEF Move, maphashing
  <2> QED
    BY <1>0, <2>3, <2>4 DEF TypeOK
<1> QED
  BY <1>1, <1>3, <1>4, <1>5, <1>6, <1>7, <1>8, <1>9, <1>10, <1>11 DEF Next
-----------------------------------------------------------------------------
(* Each step of maphash keeps what it has yet to visit. *)
LEMMA NobodyMatches ==
  ASSUME NEW k \in Keys
  PROVE  ~Match(k, Nobody)
BY HashTableAssumption, ConsAssumption DEF Match

LEMMA WalkIs ==
  ASSUME IInv
  PROVE  /\ TypeOK /\ Unique /\ walk.rest \in Seq(Keys) /\ walk.i \in 0..NBuckets
         /\ walk = [i |-> walk.i, rest |-> walk.rest, current |-> walk.current]
         /\ walk # Idle => Ahead /\ Fresh /\ Owing /\ walk.i \in Buckets
         /\ walk = Idle => seen = {} /\ due = {}
<1>1. TypeOK /\ Unique /\ WalkInv
  BY DEF IInv
<1>2. /\ walk.rest \in Seq(Keys) /\ walk.i \in 0..NBuckets
      /\ walk = [i |-> walk.i, rest |-> walk.rest, current |-> walk.current]
  BY <1>1 DEF TypeOK
<1> QED
  BY <1>1, <1>2 DEF WalkInv, Walking, Ahead

(* A bucket maphash has just come to. *)
LEMMA NewBucket ==
  ASSUME IInv, NEW b \in Buckets,
         walk' = [i |-> b, rest |-> KeysIn(b), current |-> Nobody],
         UNCHANGED <<test, table, seen>>,
         \A e \in seen : e[2] < b,
         \A e \in due' : /\ e[2] \in Nat /\ e[2] >= b
                         /\ \E p \in 1..Len(table[e[2]]) : e[1] = table[e[2]][p].key
  PROVE  Walking'
<1>1. /\ walk'.i = b /\ walk'.rest = KeysIn(b) /\ walk'.current = Nobody
      /\ b \in Nat /\ NBuckets \in Nat
  BY HashTableAssumption DEF Buckets
<1>2. /\ KeysIn(b) \in Seq(Keys) /\ Len(KeysIn(b)) = Len(table[b]) /\ Len(table[b]) \in Nat
      /\ \A p \in 1..Len(table[b]) : KeysIn(b)[p] = table[b][p].key /\ KeysIn(b)[p] \in Keys
  BY KeysInType DEF IInv
<1>3. Ahead'
  <2>1. Passed' = 0
    BY <1>1, <1>2 DEF Passed
  <2> QED
    BY <1>1, <1>2, <2>1 DEF Ahead, Buckets
<1>4. Fresh'
  <2>1. ASSUME NEW j \in 1..Len(KeysIn(b))
        PROVE  ~Match(KeysIn(b)[j], Nobody) /\ <<KeysIn(b)[j], b>> \notin seen
    BY <1>1, <1>2, NobodyMatches
  <2>2. \A e \in seen : e[2] <= b
    <3> SUFFICES ASSUME NEW e \in seen PROVE e[2] <= b
      OBVIOUS
    <3>1. e[2] \in Nat /\ e[2] < b
      BY <1>1 DEF IInv, TypeOK, Buckets
    <3> QED
      BY <1>1, <3>1
  <2> QED
    BY <1>1, <2>1, <2>2, SameTest DEF Fresh
<1>5. Owing'
  <2> SUFFICES ASSUME NEW e \in due'
               PROVE  \/ e[2] = b /\ \E j \in 1..Len(KeysIn(b)) : e[1] = KeysIn(b)[j]
                      \/ e[2] > b /\ \E p \in DOMAIN table[e[2]] : e[1] = table[e[2]][p].key
    BY <1>1 DEF Owing
  <2>1. PICK p \in 1..Len(table[e[2]]) : e[1] = table[e[2]][p].key
    OBVIOUS
  <2>2. CASE e[2] = b
    BY <1>2, <2>1, <2>2
  <2>3. CASE e[2] > b
    BY <2>1, <2>3
  <2> QED
    BY <1>1, <2>2, <2>3
<1> QED
  BY <1>3, <1>4, <1>5 DEF Walking

LEMMA BeginIInv ==
  ASSUME IInv, MaphashBegin, TypeOK'
  PROVE  IInv'
<1>1. TypeOK /\ seen = {} /\ 0 \in Buckets /\ NBuckets \in Nat \ {0}
  BY WalkIs, HashTableAssumption DEF MaphashBegin, Buckets
<1>2. \A e \in due' : /\ e[2] \in Nat /\ e[2] >= 0
                      /\ \E p \in 1..Len(table[e[2]]) : e[1] = table[e[2]][p].key
  <2> SUFFICES ASSUME NEW e \in Entries
               PROVE  /\ e[2] \in Nat /\ e[2] >= 0
                      /\ \E p \in 1..Len(table[e[2]]) : e[1] = table[e[2]][p].key
    BY DEF MaphashBegin
  <2>1. e[2] \in Buckets /\ \E p \in 1..Len(table[e[2]]) : e[1] = table[e[2]][p].key
    BY <1>1, EntriesAre
  <2> QED
    BY <2>1 DEF Buckets
<1>3. Walking'
  BY <1>1, <1>2, NewBucket DEF MaphashBegin
<1>4. walk' # Idle
  BY <1>1 DEF MaphashBegin, Idle
<1> QED
  BY <1>3, <1>4, SameTable DEF MaphashBegin, WalkInv

LEMMA CallIInv ==
  ASSUME IInv, MaphashCall, TypeOK'
  PROVE  /\ IInv'
         /\ <<Head(walk.rest), walk.i>> \notin seen
<1> DEFINE r == walk.rest
           i == walk.i
           t == Tail(r)
           s == table[i]
<1>1. /\ TypeOK /\ Unique /\ Ahead /\ Fresh /\ Owing /\ i \in Buckets
      /\ r \in Seq(Keys) /\ r # <<>>
  BY WalkIs DEF MaphashCall
<1>2. walk' = [i |-> i, rest |-> t, current |-> Head(r)]
  BY WalkIs DEF MaphashCall
<1>3. /\ seen' = seen \cup {<<r[1], i>>} /\ due' = due \ {<<r[1], i>>} /\ Head(r) = r[1]
      /\ UNCHANGED <<test, table, count, bits>>
  BY <1>1 DEF MaphashCall
<1>4. /\ Len(r) \in Nat /\ Len(r) # 0 /\ Len(t) = Len(r) - 1 /\ t \in Seq(Keys)
      /\ \A j \in 1..Len(t) : t[j] = r[j + 1]
  BY <1>1, HeadTailProperties, EmptySeq
<1>5. /\ Passed \in Nat /\ \A j \in 1..Len(r) : /\ r[j] = s[Passed + j].key
                                               /\ Passed + j \in DOMAIN s
  BY <1>1, TailOfBucket DEF Ahead
<1>6. walk'.i = i /\ walk'.rest = t /\ walk'.current = r[1]
  BY <1>2, <1>3
<1>7. \A j \in 1..Len(t) : j + 1 \in 1..Len(r) /\ j + 1 # 1
  BY <1>4
<1>8. 1 \in 1..Len(r) /\ i \in Nat
  BY <1>1, <1>4 DEF Buckets
<1>9. /\ \A j \in 1..Len(r) : ~Match(r[j], walk.current) /\ <<r[j], i>> \notin seen
      /\ \A e \in seen : e[2] <= i
  BY <1>1 DEF Fresh
<1>10. \A e \in due : /\ e = <<e[1], e[2]>> /\ e[2] \in Nat
                      /\ \/ e[2] = i /\ \E j \in 1..Len(r) : e[1] = r[j]
                         \/ e[2] > i /\ \E p \in DOMAIN table[e[2]] : e[1] = table[e[2]][p].key
  <2> SUFFICES ASSUME NEW e \in due
               PROVE  /\ e = <<e[1], e[2]>> /\ e[2] \in Nat
                      /\ \/ e[2] = i /\ \E j \in 1..Len(r) : e[1] = r[j]
                         \/ e[2] > i /\ \E p \in DOMAIN table[e[2]] : e[1] = table[e[2]][p].key
    OBVIOUS
  <2>1. e \in Keys \X Buckets
    BY <1>1 DEF TypeOK
  <2>2. e = <<e[1], e[2]>> /\ e[2] \in Nat
    BY <2>1 DEF Buckets
  <2> QED
    BY <1>1, <2>2 DEF Owing
<1>11. Passed' = Len(s) - Len(t) /\ Passed = Len(s) - Len(r) /\ Len(s) \in Nat
  BY <1>1, <1>3, <1>6, TailOfBucket DEF Passed
<1>12. \A p, q \in DOMAIN s : Match(s[p].key, s[q].key) => p = q
  BY <1>1 DEF Unique
<1> HIDE DEF r, i, t, s
<1>13. Passed' = Passed + 1
  BY <1>4, <1>11
<1>14. Ahead'
  <2>1. ASSUME NEW j \in 1..Len(t)
        PROVE  t[j] = s[(Passed + 1) + j].key
    <3>1. Passed + (j + 1) = (Passed + 1) + j
      BY <1>4, <1>5
    <3> QED
      BY <1>4, <1>5, <1>7, <3>1
  <2> QED
    BY <1>1, <1>3, <1>5, <1>6, <1>13, <2>1 DEF Ahead, Buckets, s
<1>15. Fresh'
  <2>1. ASSUME NEW j \in 1..Len(t)
        PROVE  ~Match(t[j], r[1]) /\ <<t[j], i>> \notin seen'
    <3>1. t[j] = r[j + 1] /\ j + 1 \in 1..Len(r) /\ j \in Nat
      BY <1>4, <1>7
    <3>2. ~Match(r[j + 1], r[1])
      <4>1. Passed + (j + 1) # Passed + 1
        BY <1>5, <3>1
      <4> QED
        BY <1>5, <1>8, <1>12, <3>1, <4>1
    <3>3. r[j + 1] # r[1]
      BY <3>2, MatchIsEquivalence
    <3> QED
      BY <1>3, <1>9, <3>1, <3>2, <3>3
  <2>2. \A e \in seen' : e[2] <= i
    BY <1>3, <1>8, <1>9
  <2> QED
    BY <1>3, <1>6, <2>1, <2>2, SameTest DEF Fresh
<1>16. Owing'
  <2> SUFFICES ASSUME NEW e \in due'
               PROVE  \/ e[2] = i /\ \E j \in 1..Len(t) : e[1] = t[j]
                      \/ e[2] > i /\ \E p \in DOMAIN table[e[2]] : e[1] = table[e[2]][p].key
    BY <1>3, <1>6 DEF Owing
  <2>1. e \in due /\ e # <<r[1], i>> /\ e = <<e[1], e[2]>>
    BY <1>3, <1>10
  <2>2. CASE e[2] = i
    <3>1. PICK j \in 1..Len(r) : e[1] = r[j]
      BY <1>8, <1>10, <2>1, <2>2
    <3>2. j # 1
      BY <2>1, <2>2, <3>1
    <3>3. j - 1 \in 1..Len(t) /\ (j - 1) + 1 = j
      BY <1>4, <3>1, <3>2
    <3> QED
      BY <1>4, <2>2, <3>1, <3>3
  <2> QED
    BY <1>10, <2>1, <2>2
<1>17. walk' # Idle
  BY <1>1, <1>6, HashTableAssumption DEF Idle, Buckets
<1>18. WalkInv'
  BY <1>14, <1>15, <1>16, <1>17 DEF WalkInv, Walking
<1> QED
  BY <1>3, <1>8, <1>9, <1>18, SameTable DEF r, i, MaphashCall

LEMMA ReturnIInv ==
  ASSUME IInv, MaphashReturn, TypeOK'
  PROVE  IInv'
<1>1. /\ TypeOK /\ Ahead /\ Fresh /\ Owing /\ walk.i \in Buckets /\ walk.rest \in Seq(Keys)
      /\ UNCHANGED <<test, table, count, bits, seen, due>>
  BY WalkIs DEF MaphashReturn
<1>2. walk' = [i |-> walk.i, rest |-> walk.rest, current |-> Nobody]
  BY WalkIs DEF MaphashReturn
<1>3. walk'.i = walk.i /\ walk'.rest = walk.rest /\ walk'.current = Nobody
  BY <1>2
<1>4. Ahead' /\ Owing'
  BY <1>1, <1>3 DEF Ahead, Owing, Passed, Buckets
<1>5. Fresh'
  <2>1. \A j \in 1..Len(walk.rest) : walk.rest[j] \in Keys
    BY <1>1
  <2> QED
    BY <1>1, <1>3, <2>1, NobodyMatches, SameTest DEF Fresh
<1>6. walk' # Idle
  BY <1>1, <1>3, HashTableAssumption DEF Idle, Buckets
<1> QED
  BY <1>1, <1>4, <1>5, <1>6, SameTable DEF WalkInv, Walking

(* In a bucket that has been visited nothing is owed. *)
LEMMA OwedLater ==
  ASSUME IInv, walk # Idle, walk.rest = <<>>, NEW e \in due
  PROVE  /\ e[2] \in Buckets /\ e[2] > walk.i
         /\ \E p \in 1..Len(table[e[2]]) : e[1] = table[e[2]][p].key
<1>1. TypeOK /\ Owing /\ Len(walk.rest) = 0
  BY WalkIs
<1>2. ~\E j \in 1..Len(walk.rest) : e[1] = walk.rest[j]
  BY <1>1
<1>3. e[2] > walk.i /\ \E p \in DOMAIN table[e[2]] : e[1] = table[e[2]][p].key
  BY <1>1, <1>2 DEF Owing
<1>4. e[2] \in Buckets
  BY <1>1 DEF TypeOK
<1> QED
  BY <1>1, <1>3, <1>4, KeysInType

LEMMA BucketIInv ==
  ASSUME IInv, MaphashBucket, TypeOK'
  PROVE  /\ IInv'
         /\ walk' = Idle => due = {}
<1>1. /\ walk # Idle /\ walk.rest = <<>> /\ walk.current = Nobody
      /\ UNCHANGED <<test, table, count, bits>>
  BY DEF MaphashBucket
<1>2. TypeOK /\ Fresh /\ walk.i \in Nat /\ walk.i < NBuckets /\ NBuckets \in Nat
  BY <1>1, WalkIs, HashTableAssumption DEF Buckets
<1>3. CASE walk.i + 1 < NBuckets
  <2>1. /\ walk' = [walk EXCEPT !.i = @ + 1, !.rest = KeysIn(walk.i + 1)]
        /\ UNCHANGED <<seen, due>>
    BY <1>2, <1>3 DEF MaphashBucket
  <2>2. walk' = [i |-> walk.i + 1, rest |-> KeysIn(walk.i + 1), current |-> Nobody]
    BY <1>1, <2>1, WalkIs
  <2>3. walk.i + 1 \in Buckets
    BY <1>2, <1>3 DEF Buckets
  <2>4. \A e \in seen : e[2] < walk.i + 1
    <3> SUFFICES ASSUME NEW e \in seen PROVE e[2] < walk.i + 1
      OBVIOUS
    <3>1. e[2] \in Nat /\ e[2] <= walk.i
      BY <1>2 DEF TypeOK, Buckets, Fresh
    <3> QED
      BY <1>2, <3>1
  <2>5. \A e \in due' : /\ e[2] \in Nat /\ e[2] >= walk.i + 1
                        /\ \E p \in 1..Len(table[e[2]]) : e[1] = table[e[2]][p].key
    <3> SUFFICES ASSUME NEW e \in due
                 PROVE  /\ e[2] \in Nat /\ e[2] >= walk.i + 1
                        /\ \E p \in 1..Len(table[e[2]]) : e[1] = table[e[2]][p].key
      BY <2>1
    <3>1. /\ e[2] \in Buckets /\ e[2] > walk.i
          /\ \E p \in 1..Len(table[e[2]]) : e[1] = table[e[2]][p].key
      BY <1>1, OwedLater
    <3>2. e[2] \in Nat
      BY <3>1 DEF Buckets
    <3> QED
      BY <1>2, <3>1, <3>2
  <2>6. Walking'
    BY <1>1, <2>1, <2>2, <2>3, <2>4, <2>5, NewBucket
  <2>7. walk' # Idle
    BY <1>2, <1>3, <2>2 DEF Idle
  <2> QED
    BY <1>1, <2>6, <2>7, SameTable DEF WalkInv
<1>4. CASE ~(walk.i + 1 < NBuckets)
  <2>1. walk' = Idle /\ seen' = {} /\ due' = {} /\ walk.i + 1 = NBuckets
    BY <1>4 DEF MaphashBucket
  <2>2. \A e \in due : FALSE
    <3> SUFFICES ASSUME NEW e \in due PROVE FALSE
      OBVIOUS
    <3>1. e[2] \in Nat /\ e[2] < NBuckets /\ e[2] > walk.i
      BY <1>1, <1>2, OwedLater DEF Buckets
    <3> QED
      BY <1>2, <2>1, <3>1
  <2> QED
    BY <1>1, <2>1, <2>2, SameTable DEF WalkInv, Idle
<1> QED
  BY <1>3, <1>4

-----------------------------------------------------------------------------
LEMMA InitIInv ==
  ASSUME Init
  PROVE  IInv
<1> USE HashTableAssumption
<1>1. /\ table = [b \in Buckets |-> <<>>] /\ count = 0 /\ walk = Idle
      /\ seen = {} /\ due = {} /\ bits \in [Keys -> Buckets] /\ reply = Unspecified
      /\ test \in {"eq", "eql", "equal"}
  BY DEF Init
<1>2. TypeOK
  <2>1. table \in [Buckets -> Seq(Pairs)]
    BY <1>1
  <2>2. walk \in [i : 0 .. NBuckets, rest : Seq(Keys), current : Keys \cup {Nobody}]
    BY <1>1 DEF Idle
  <2> QED
    BY <1>1, <2>1, <2>2 DEF TypeOK
<1>3. \A b \in Buckets : DOMAIN table[b] = {}
  BY <1>1
<1>4. Places = {}
  BY <1>3 DEF Places
<1>5. IsFiniteSet(Places) /\ CountExact
  BY <1>1, <1>4, FS_EmptySet DEF CountExact
<1>6. Unique /\ Homed
  BY <1>3 DEF Unique, Homed
<1> QED
  BY <1>1, <1>2, <1>5, <1>6 DEF IInv, WalkInv

LEMMA ClearIInv ==
  ASSUME IInv, Clrhash, TypeOK'
  PROVE  IInv'
<1>1. /\ table' = [b \in Buckets |-> <<>>] /\ count' = 0 /\ walk = Idle
      /\ UNCHANGED <<test, bits, walk, seen, due>>
  BY DEF Clrhash, maphashing
<1>2. \A b \in Buckets : DOMAIN table'[b] = {}
  BY <1>1
<1>3. Places' = {}
  BY <1>2 DEF Places, Buckets
<1>4. IsFiniteSet(Places)' /\ CountExact'
  BY <1>1, <1>3, FS_EmptySet DEF CountExact
<1>5. Unique' /\ Homed'
  BY <1>2 DEF Unique, Homed, Buckets
<1>6. WalkInv'
  BY <1>1, WalkIs DEF WalkInv, Idle
<1> QED
  BY <1>4, <1>5, <1>6 DEF IInv

(* A move changes where a key is looked for only when the key is not steady. *)
LEMMA MoveIInv ==
  ASSUME IInv, NEW k \in Keys, Move(k), TypeOK'
  PROVE  IInv'
<1>1. /\ k \notin Fixed /\ UNCHANGED <<test, table, count, walk, seen, due>>
      /\ \A j \in Keys \ {k} : bits'[j] = bits[j]
  BY DEF Move, maphashing, IInv, TypeOK
<1>2. ASSUME NEW j \in Keys, Steady(j)
      PROVE  Index(j)' = Index(j)
  <2>1. ByContent(j) \/ Hashed(j) \in Fixed
    BY <1>2, MatchIsEquivalence DEF Steady
  <2>2. ~ByContent(j) => bits'[Hashed(j)] = bits[Hashed(j)]
    BY <1>1, <2>1, HashTableAssumption, ConsAssumption
  <2> QED
    BY <1>1, <2>2, SameTest DEF Index
<1>3. Homed'
  <2> SUFFICES ASSUME NEW b \in Buckets, NEW p \in DOMAIN table[b], Steady(table[b][p].key)
               PROVE  b = Index(table[b][p].key)'
    BY <1>1, SameTest DEF Homed, Buckets
  <2>1. table[b][p].key \in Keys
    BY KeysInType DEF IInv
  <2>2. b = Index(table[b][p].key)
    BY DEF IInv, Homed
  <2>3. Index(table[b][p].key)' = Index(table[b][p].key)
    BY <1>1, <1>2, <2>1
  <2> QED
    BY <2>2, <2>3
<1>4. Unique'
  BY <1>1, SameTest DEF IInv, Unique, Buckets
<1>5. (IsFiniteSet(Places) /\ CountExact)'
  BY <1>1 DEF IInv, Places, CountExact, Buckets
<1>6. WalkInv'
  BY <1>1, SameWalk DEF IInv
<1> QED
  BY <1>3, <1>4, <1>5, <1>6 DEF IInv

LEMMA StepIInv ==
  ASSUME IInv, [Next]_vars
  PROVE  IInv'
<1>0. TypeOK' /\ WalkInv
  BY StepTypes DEF IInv
<1>1. CASE UNCHANGED vars
  BY <1>0, <1>1, SameTable, SameWalk DEF vars
<1>2. ASSUME NEW k \in Keys, Gethash(k)
      PROVE  IInv'
  BY <1>0, <1>2, SameTable, SameWalk DEF Gethash, maphashing
<1>3. ASSUME NEW k \in Keys, NEW v \in Vals, HashSet(k, v)
      PROVE  IInv'
  <2>1. CASE Present(k)
    BY <1>0, <1>3, <2>1, OverwriteIInv DEF HashSet, maphashing
  <2>2. CASE ~Present(k)
    BY <1>0, <1>3, <2>2, EnterIInv DEF HashSet, maphashing
  <2> QED
    BY <2>1, <2>2
<1>4. ASSUME NEW k \in Keys, Remhash(k)
      PROVE  IInv'
  <2>1. CASE Present(k)
    BY <1>0, <1>4, <2>1, RemoveIInv DEF Remhash
  <2>2. CASE ~Present(k)
    BY <1>0, <1>4, <2>2, SameTable, SameWalk DEF Remhash
  <2> QED
    BY <2>1, <2>2
<1>5. ASSUME NEW k \in Keys, Move(k)
      PROVE  IInv'
  BY <1>0, <1>5, MoveIInv
<1>6. CASE Clrhash
  BY <1>0, <1>6, ClearIInv
<1>7. CASE MaphashBegin
  BY <1>0, <1>7, BeginIInv
<1>8. CASE MaphashCall
  BY <1>0, <1>8, CallIInv
<1>9. CASE MaphashReturn
  BY <1>0, <1>9, ReturnIInv
<1>10. CASE MaphashBucket
  BY <1>0, <1>10, BucketIInv
<1> QED
  BY <1>1, <1>2, <1>3, <1>4, <1>5, <1>6, <1>7, <1>8, <1>9, <1>10 DEF Next

(* The hash table is in a state of IInv after every step. *)
THEOREM InductiveInvariant == Spec => []IInv
<1>1. Init => IInv
  BY InitIInv
<1>2. IInv /\ [Next]_vars => IInv'
  BY StepIInv
<1> QED
  BY <1>1, <1>2, PTL DEF Spec

(* The fields of a table and of a walk keep their types: an index stays within
   the buckets and the count never falls below zero. *)
THEOREM TypeCorrect == Spec => []TypeOK
<1>1. IInv => TypeOK
  BY DEF IInv
<1> QED
  BY <1>1, InductiveInvariant, PTL

(* hash-table-count answers the number of entries in the buckets, wherever the
   collector has moved their keys. *)
THEOREM CountExactHolds == Spec => []CountExact
<1>1. IInv => CountExact
  BY DEF IInv
<1> QED
  BY <1>1, InductiveInvariant, PTL

(* maphash calls its function with every entry it owes a call, and with none
   of them twice. *)
THEOREM MaphashCompleteHolds == Spec => MaphashComplete
<1> DEFINE Complete ==
      /\ walk # Idle /\ walk' = Idle => due = {}
      /\ walk.current = Nobody /\ walk'.current # Nobody =>
           <<walk'.current, walk.i>> \notin seen
<1>1. ASSUME IInv, [Next]_vars
      PROVE  [Complete]_vars
  <2> USE <1>1
  <2>0. TypeOK'
    BY StepTypes
  <2>1. CASE walk' = walk
    BY <2>1
  <2>2. CASE MaphashBegin
    BY <2>2 DEF MaphashBegin
  <2>3. CASE MaphashCall
    <3>1. <<Head(walk.rest), walk.i>> \notin seen /\ walk'.current = Head(walk.rest)
      BY <2>0, <2>3, CallIInv, WalkIs DEF MaphashCall
    <3>2. Head(walk.rest) \in Keys
      BY <2>3, WalkIs DEF MaphashCall
    <3>3. walk' # Idle
      BY <3>1, <3>2, HashTableAssumption DEF Idle
    <3> QED
      BY <3>1, <3>3
  <2>4. CASE MaphashReturn
    <3>1. walk'.current = Nobody /\ walk'.i = walk.i /\ walk.i \in Buckets
      BY <2>4, WalkIs DEF MaphashReturn
    <3>2. walk' # Idle
      BY <3>1, HashTableAssumption DEF Idle, Buckets
    <3> QED
      BY <3>1, <3>2
  <2>5. CASE MaphashBucket
    <3>1. walk' = Idle => due = {}
      BY <2>0, <2>5, BucketIInv
    <3>2. walk'.current = Nobody
      <4>1. /\ walk.current = Nobody
            /\ \/ walk' = [walk EXCEPT !.i = @ + 1, !.rest = KeysIn(walk.i + 1)]
               \/ walk' = Idle
        BY <2>5 DEF MaphashBucket
      <4>2. walk = [i |-> walk.i, rest |-> walk.rest, current |-> walk.current]
        BY WalkIs
      <4>3. CASE walk' = [walk EXCEPT !.i = @ + 1, !.rest = KeysIn(walk.i + 1)]
        <5>1. walk' = [i |-> walk.i + 1, rest |-> KeysIn(walk.i + 1), current |-> walk.current]
          BY <4>2, <4>3
        <5> QED
          BY <4>1, <5>1
      <4> QED
        BY <4>1, <4>3 DEF Idle
    <3> QED
      BY <3>1, <3>2
  <2> QED
    BY <2>1, <2>2, <2>3, <2>4, <2>5 DEF Next, Gethash, HashSet, Remhash, Clrhash, Move, maphashing, vars
<1>2. IInv /\ [Next]_vars => [Complete]_vars
  BY <1>1
<1> QED
  BY <1>2, InductiveInvariant, PTL DEF Spec, MaphashComplete
-----------------------------------------------------------------------------
(***************************************************************************)
(* The dictionary.  The keys that match a steady key are one name, and     *)
(* are all looked for in one bucket: there is at most one entry for it.    *)
(***************************************************************************)
Name(k) == {j \in Keys : Match(j, k)}
Held(t) == UNION {Range(t[b]) : b \in Buckets}
FoundIn(t, c) == {e \in Held(t) : e.key \in c}

(* Equal conses lead to the same leaf, or to equal ones. *)
LEMMA EqualLeaves ==
  ASSUME NEW j \in Conses, NEW k \in Conses, Same(j, k), Leaf[k] \in Strings \/ Leaf[j] \in Strings
  PROVE  Leaf[j] \in Strings /\ Leaf[k] \in Strings /\ Content[Leaf[j]] = Content[Leaf[k]]
<1>1. \/ Leaf[j] = Leaf[k]
      \/ {Leaf[j], Leaf[k]} \in (SUBSET Strings) \cup (SUBSET Numbers)
         /\ Content[Leaf[j]] = Content[Leaf[k]]
  BY HashTableAssumption, ConsAssumption DEF Same
<1>2. Strings \cap Numbers = {}
  BY HashTableAssumption, ConsAssumption
<1>3. CASE Leaf[j] = Leaf[k]
  BY <1>3
<1>4. CASE {Leaf[j], Leaf[k]} \subseteq Strings /\ Content[Leaf[j]] = Content[Leaf[k]]
  BY <1>4
<1>5. CASE {Leaf[j], Leaf[k]} \subseteq Numbers
  BY <1>2, <1>5
<1> QED
  BY <1>1, <1>3, <1>4, <1>5

LEMMA SteadyName ==
  ASSUME NEW k \in Keys, Steady(k)
  PROVE  /\ Name(k) \in Classes /\ IsName(Name(k))
         /\ \A j \in Name(k) : Steady(j) /\ Index(j) = Index(k)
<1>0. /\ Strings \cap Numbers = {} /\ Conses \cap Strings = {} /\ Conses \cap Numbers = {}
      /\ DOMAIN Content = Strings \cup Numbers \cup Conses
      /\ \A c \in Conses : Leaf[c] \in Keys /\ Leaf[c] \notin Conses
      /\ Strings \subseteq Keys /\ Conses \subseteq Keys
  BY HashTableAssumption, ConsAssumption
<1>1. \A j \in Name(k) : Match(j, k) /\ j \in Keys /\ Name(k) = {l \in Keys : Match(l, j)}
  BY MatchIsEquivalence DEF Name
<1>2. k \in Name(k)
  BY MatchIsEquivalence DEF Name
<1>3. CASE k \in Strings /\ test = "equal"
  <2>1. Name(k) = {j \in Strings : Same(j, k)}
    BY <1>0, <1>3 DEF Name, Match, Same
  <2>2. \A j \in Name(k) : /\ Hashed(j) = j /\ ByContent(j) /\ Content[j] = Content[k]
    BY <1>0, <1>3, <2>1 DEF Hashed, ByContent, Same
  <2>3. \A j \in Name(k) : Steady(j) /\ Index(j) = Index(k)
    BY <1>1, <1>2, <2>2 DEF Steady, Index, Name
  <2> QED
    BY <1>1, <1>3, <2>1, <2>3 DEF IsName, Classes
<1>4. CASE k \in Conses /\ test = "equal"
  <2>1. Name(k) = {j \in Conses : Same(j, k)}
    BY <1>0, <1>4 DEF Name, Match, Same
  <2>2. \A j \in Name(k) : Hashed(j) = Leaf[j] /\ Leaf[j] # j /\ Same(j, k)
    BY <1>0, <1>4, <2>1 DEF Hashed
  <2>3. ASSUME Leaf[k] \in Strings
        PROVE  \A j \in Name(k) : Steady(j) /\ Index(j) = Index(k)
    <3>1. \A j \in Name(k) : ByContent(j) /\ Content[Hashed(j)] = Content[Hashed(k)]
      BY <1>2, <1>4, <2>1, <2>2, <2>3, EqualLeaves DEF ByContent
    <3>2. \A j \in Name(k) : Steady(j)
      BY <1>1, <3>1 DEF Steady, Name
    <3>3. ASSUME NEW j \in Name(k)
          PROVE  Index(j) = Scatter[Content[Hashed(k)] % NBuckets]
      BY <2>2, <3>1 DEF Index
    <3> QED
      BY <1>2, <3>2, <3>3
  <2>4. ASSUME Leaf[k] \notin Strings
        PROVE  \A j \in Name(k) : Steady(j) /\ Index(j) = Index(k)
    <3>1. \A j \in Name(k) : Hashed(j) \notin Strings
      BY <1>4, <2>1, <2>2, <2>4, EqualLeaves
    <3>2. \A j \in Name(k) : ~ByContent(j) /\ Hashed(j) = Hashed(k) /\ Hashed(k) \in Fixed
      BY <1>1, <3>1 DEF ByContent, Steady
    <3>3. \A j \in Name(k) : Steady(j)
      BY <1>1, <3>2 DEF Steady, Name
    <3>4. ASSUME NEW j \in Name(k)
          PROVE  Index(j) = Scatter[bits[Hashed(k)]]
      <4>1. Hashed(j) # j /\ ~ByContent(j) /\ Hashed(j) = Hashed(k)
        BY <2>2, <3>2
      <4> QED
        BY <4>1 DEF Index
    <3> QED
      BY <1>2, <3>3, <3>4
  <2>5. \A j \in Name(k) : Steady(j) /\ Index(j) = Index(k)
    BY <2>3, <2>4
  <2> QED
    BY <1>1, <1>4, <2>1, <2>5 DEF IsName, Classes
<1>5. CASE k \notin Strings \cup Conses \/ test # "equal"
  <2>1. Hashed(k) = k /\ ~ByContent(k)
    BY <1>5 DEF Hashed, ByContent
  <2>2. k \in Fixed
    BY <2>1, MatchIsEquivalence DEF Steady
  <2>3. \A j \in Keys : Match(j, k) => j = k
    <3> SUFFICES ASSUME NEW j \in Keys, Match(j, k), j # k PROVE FALSE
      OBVIOUS
    <3>1. j \in Numbers
      BY <1>5 DEF Match
    <3>2. Hashed(j) = j /\ ~ByContent(j)
      BY <1>0, <3>1 DEF Hashed, ByContent
    <3> QED
      BY <2>1, <3>2 DEF Steady
  <2>4. Name(k) = {k}
    BY <2>3, MatchIsEquivalence DEF Name
  <2> QED
    BY <1>1, <2>2, <2>4 DEF IsName, Classes
<1> QED
  BY <1>3, <1>4, <1>5

(* A key that matches one of a name is of that name. *)
LEMMA NameOf ==
  ASSUME NEW c, IsName(c), NEW j \in c, NEW k \in Keys, Match(j, k)
  PROVE  Steady(k) /\ c = Name(k)
<1>1. c = {l \in Keys : Match(l, j)}
  BY DEF IsName
<1>2. k \in c
  BY <1>1, MatchIsEquivalence
<1> QED
  BY <1>2 DEF IsName, Name

LEMMA ValueIs ==
  ASSUME NEW c
  PROVE  /\ Value(c) = IF IsName(c) /\ FoundIn(table, c) # {}
                         THEN (CHOOSE e \in FoundIn(table, c) : TRUE).val ELSE Absent
         /\ test' = test =>
              Value(c)' = IF IsName(c) /\ FoundIn(table', c) # {}
                            THEN (CHOOSE e \in FoundIn(table', c) : TRUE).val ELSE Absent
<1>1. ASSUME test' = test
      PROVE  IsName(c)' <=> IsName(c)
  BY <1>1, SameTest DEF IsName
<1> QED
  BY <1>1 DEF Value, FoundIn, Held, Buckets

(* What holds of every entry of a table. *)
LEMMA HeldIn ==
  ASSUME NEW t, NEW e
  PROVE  e \in Held(t) <=> \E b \in Buckets : \E p \in DOMAIN t[b] : e = t[b][p]
BY DEF Held, Range

LEMMA OnlyEntry ==
  ASSUME NEW t, NEW c, NEW h \in Buckets, NEW p \in DOMAIN t[h], t[h][p].key \in c,
         \A b \in Buckets : \A q \in DOMAIN t[b] : t[b][q].key \in c => b = h /\ q = p
  PROVE  FoundIn(t, c) = {t[h][p]}
<1>1. \A e : e \in FoundIn(t, c) <=>
        e.key \in c /\ \E b \in Buckets : \E q \in DOMAIN t[b] : e = t[b][q]
  BY HeldIn DEF FoundIn
<1> QED
  BY <1>1

(* The entries that can be of the name of a steady key. *)
LEMMA SameEntry ==
  ASSUME IInv, NEW k \in Keys, Steady(k),
         NEW b \in Buckets, NEW p \in DOMAIN table[b], table[b][p].key \in Name(k)
  PROVE  /\ b = Index(k) /\ p \in Positions(k) /\ Present(k)
         /\ p = Position(k)
<1>1. Match(table[b][p].key, k) /\ Steady(table[b][p].key)
      /\ Index(table[b][p].key) = Index(k)
  BY SteadyName DEF Name
<1>2. b = Index(k)
  BY <1>1 DEF IInv, Homed
<1>3. p \in Positions(k) /\ Present(k)
  BY <1>1, <1>2 DEF Positions, Present
<1> QED
  BY <1>2, <1>3, PositionIsUnique DEF IInv

LEMMA LookUp ==
  ASSUME IInv, NEW k \in Keys, Steady(k)
  PROVE  Value(Name(k)) = IF Present(k) THEN table[Index(k)][Position(k)].val ELSE Absent
<1>1. CASE Present(k)
  <2>1. /\ Index(k) \in Buckets /\ Position(k) \in DOMAIN table[Index(k)]
        /\ Match(table[Index(k)][Position(k)].key, k)
    BY <1>1, IndexType, PositionIsUnique DEF IInv
  <2>2. table[Index(k)][Position(k)].key \in Name(k)
    BY <2>1, KeysInType DEF IInv, Name
  <2>3. FoundIn(table, Name(k)) = {table[Index(k)][Position(k)]}
    BY <2>1, <2>2, SameEntry, OnlyEntry
  <2> QED
    BY <1>1, <2>3, ValueIs, SteadyName
<1>2. CASE ~Present(k)
  <2>1. FoundIn(table, Name(k)) = {}
    BY <1>2, HeldIn, SameEntry DEF FoundIn
  <2> QED
    BY <1>2, <2>1, ValueIs
<1> QED
  BY <1>1, <1>2

-----------------------------------------------------------------------------
(* An operation on a key touches no entry that does not match it. *)
OthersHeld(k) ==
  \A e : ~Match(e.key, k) => (e \in Held(table') <=> e \in Held(table))

LEMMA OthersKept ==
  ASSUME test' = test, NEW k \in Keys, OthersHeld(k), NEW c,
         ~(Steady(k) /\ c = Name(k))
  PROVE  Value(c)' = Value(c)
<1>1. CASE IsName(c)
  <2>1. \A e : e.key \in c => ~Match(e.key, k)
    BY <1>1, NameOf
  <2>2. FoundIn(table', c) = FoundIn(table, c)
    BY <2>1 DEF FoundIn, OthersHeld
  <2> QED
    BY <2>2, ValueIs
<1>2. CASE ~IsName(c)
  BY <1>2, ValueIs
<1> QED
  BY <1>1, <1>2

LEMMA OverwriteHeld ==
  ASSUME IInv, NEW k \in Keys, NEW v \in Vals, NEW name, name = Name(k), Present(k),
         HashSet(k, v)
  PROVE  /\ OthersHeld(k)
         /\ Steady(k) => Value(name)' = v
<1> DEFINE c == Index(k)
           x == Position(k)
<1>1. /\ c \in Buckets /\ x \in DOMAIN table[c] /\ Match(table[c][x].key, k)
      /\ table[c][x].key \in Keys
  BY IndexType, PositionIsUnique, KeysInType DEF IInv
<1>2. \A b \in Buckets : /\ DOMAIN table'[b] = DOMAIN table[b]
                        /\ \A q \in DOMAIN table[b] : table'[b][q].key = table[b][q].key
  BY <1>1, Overwritten DEF IInv, HashSet
<1>3. table'[c][x].val = v
  <2>1. ASSUME NEW b \in Buckets, NEW q \in DOMAIN table[b]
        PROVE  table'[b][q].val = IF b = Index(k) /\ q = x THEN v ELSE table[b][q].val
    BY <1>1, Overwritten DEF IInv, HashSet
  <2> QED
    BY <1>1, <2>1
<1>4. ASSUME NEW b \in Buckets, NEW q \in DOMAIN table[b], ~(b = c /\ q = x)
      PROVE  table'[b][q] = table[b][q]
  <2>1. table \in [Buckets -> Seq(Pairs)]
    BY DEF IInv, TypeOK
  <2> HIDE DEF c, x
  <2>2. table' = [table EXCEPT ![c][x].val = v]
    BY DEF c, x, HashSet
  <2> QED
    BY <1>1, <1>4, <2>1, <2>2
<1> HIDE DEF c, x
<1>5. OthersHeld(k)
  <2> SUFFICES ASSUME NEW e, ~Match(e.key, k)
               PROVE  e \in Held(table') <=> e \in Held(table)
    BY DEF OthersHeld
  <2>1. \A b \in Buckets : \A q \in DOMAIN table[b] : e = table'[b][q] <=> e = table[b][q]
    <3> SUFFICES ASSUME NEW b \in Buckets, NEW q \in DOMAIN table[b]
                 PROVE  e = table'[b][q] <=> e = table[b][q]
      OBVIOUS
    <3>1. CASE b = c /\ q = x
      <4>1. Match(table'[b][q].key, k) /\ Match(table[b][q].key, k)
        BY <1>1, <1>2, <3>1
      <4>2. e # table'[b][q] /\ e # table[b][q]
        BY <4>1
      <4> QED
        BY <4>2
    <3>2. CASE ~(b = c /\ q = x)
      BY <1>4, <3>2
    <3> QED
      BY <3>1, <3>2
  <2>2. e \in Held(table) <=> \E b \in Buckets : \E q \in DOMAIN table[b] : e = table[b][q]
    BY HeldIn
  <2>3. e \in Held(table') <=> \E b \in Buckets : \E q \in DOMAIN table'[b] : e = table'[b][q]
    BY HeldIn
  <2> QED
    BY <1>2, <2>1, <2>2, <2>3
<1>6. ASSUME Steady(k)
      PROVE  Value(name)' = v
  <2>1. x \in DOMAIN table'[c] /\ table'[c][x].key \in name
    BY <1>1, <1>2 DEF Name
  <2>2. \A b \in Buckets : \A q \in DOMAIN table'[b] :
          table'[b][q].key \in name => b = c /\ q = x
    BY <1>2, <1>6, SameEntry DEF c, x
  <2>3. FoundIn(table', name) = {table'[c][x]}
    <3>1. \A e : e \in FoundIn(table', name) <=> e \in Held(table') /\ e.key \in name
      BY DEF FoundIn
    <3>2. \A e : e \in Held(table') => \E b \in Buckets : \E q \in DOMAIN table'[b] : e = table'[b][q]
      BY HeldIn
    <3>3. table'[c][x] \in Held(table')
      BY <1>1, <2>1, HeldIn
    <3> QED
      BY <2>1, <2>2, <3>1, <3>2, <3>3
  <2> QED
    BY <1>3, <1>6, <2>3, ValueIs, SteadyName DEF HashSet
<1> QED
  BY <1>5, <1>6

LEMMA EnterHeld ==
  ASSUME IInv, NEW k \in Keys, NEW v \in Vals, NEW name, name = Name(k), ~Present(k),
         HashSet(k, v)
  PROVE  /\ OthersHeld(k)
         /\ Steady(k) => Value(name)' = v
<1> DEFINE c == Index(k)
           n == Len(table[c])
           new == [key |-> k, val |-> v]
<1>1. /\ c \in Buckets /\ n \in Nat /\ DOMAIN table[c] = 1..n
      /\ DOMAIN table'[c] = 1..(n + 1) /\ table'[c][1] = new
      /\ \A b \in Buckets \ {c} : table'[b] = table[b]
      /\ \A q \in 1..n : table'[c][q + 1] = table[c][q]
  <2>1. c \in Buckets /\ n \in Nat /\ DOMAIN table[c] = 1..n
    BY IndexType, KeysInType DEF IInv
  <2>2. /\ table' \in [Buckets -> Seq(Pairs)]
        /\ \A b \in Buckets \ {c} : table'[b] = table[b]
        /\ Len(table'[c]) = n + 1 /\ table'[c][1] = new
        /\ \A q \in 1..n : table'[c][q + 1] = table[c][q]
    BY Entered DEF IInv, HashSet
  <2>3. table'[c] \in Seq(Pairs)
    BY <2>1, <2>2
  <2> HIDE DEF c, n, new
  <2> QED
    BY <2>1, <2>2, <2>3
<1>2. new.key = k /\ new.val = v /\ Match(new.key, k)
  BY MatchIsEquivalence
<1> HIDE DEF c, n, new
<1>3. \A r \in 1..(n + 1) : r = 1 \/ (r - 1 \in 1..n /\ table'[c][r] = table[c][r - 1])
  <2> TAKE r \in 1..(n + 1)
  <2>1. CASE r # 1
    <3>1. r - 1 \in 1..n /\ (r - 1) + 1 = r
      BY <1>1, <2>1
    <3> QED
      BY <1>1, <3>1
  <2> QED
    BY <2>1
<1>4. \A q \in 1..n : q + 1 \in 1..(n + 1)
  BY <1>1
<1>5. OthersHeld(k)
  <2> SUFFICES ASSUME NEW e, ~Match(e.key, k)
               PROVE  e \in Held(table') <=> e \in Held(table)
    BY DEF OthersHeld
  <2>1. ASSUME NEW b \in Buckets
        PROVE  (\E q \in DOMAIN table'[b] : e = table'[b][q])
               <=> (\E q \in DOMAIN table[b] : e = table[b][q])
    <3>1. CASE b # c
      BY <1>1, <3>1
    <3>2. CASE b = c
      <4>1. e # table'[c][1]
        BY <1>1, <1>2
      <4>2. ASSUME NEW q \in DOMAIN table'[c], e = table'[c][q]
            PROVE  \E r \in DOMAIN table[c] : e = table[c][r]
        BY <1>1, <1>3, <4>1, <4>2
      <4>3. ASSUME NEW q \in DOMAIN table[c], e = table[c][q]
            PROVE  \E r \in DOMAIN table'[c] : e = table'[c][r]
        BY <1>1, <1>4, <4>3
      <4> QED
        BY <3>2, <4>2, <4>3
    <3> QED
      BY <3>1, <3>2
  <2>2. e \in Held(table) <=> \E b \in Buckets : \E q \in DOMAIN table[b] : e = table[b][q]
    BY HeldIn
  <2>3. e \in Held(table') <=> \E b \in Buckets : \E q \in DOMAIN table'[b] : e = table'[b][q]
    BY HeldIn
  <2> QED
    BY <2>1, <2>2, <2>3
<1>6. ASSUME Steady(k)
      PROVE  Value(name)' = v
  <2>0. 1 \in 1..(n + 1)
    BY <1>1
  <2>1. 1 \in DOMAIN table'[c] /\ table'[c][1].key \in name
    BY <1>1, <1>2, <2>0 DEF Name
  <2>2. ASSUME NEW b \in Buckets, NEW q \in DOMAIN table'[b],
               table'[b][q].key \in name, ~(b = c /\ q = 1)
        PROVE  FALSE
    <3>1. CASE b # c
      BY <1>1, <1>6, <2>2, <3>1, SameEntry
    <3>2. CASE b = c
      <4>1. q - 1 \in DOMAIN table[c] /\ table[c][q - 1].key \in Name(k)
        BY <1>1, <1>3, <2>2, <3>2
      <4> QED
        BY <1>1, <1>6, <4>1, SameEntry
    <3> QED
      BY <3>1, <3>2
  <2>3. FoundIn(table', name) = {table'[c][1]}
    <3>1. \A e : e \in FoundIn(table', name) <=> e \in Held(table') /\ e.key \in name
      BY DEF FoundIn
    <3>2. \A e : e \in Held(table') => \E b \in Buckets : \E q \in DOMAIN table'[b] : e = table'[b][q]
      BY HeldIn
    <3>3. table'[c][1] \in Held(table')
      BY <1>1, <2>1, HeldIn
    <3> QED
      BY <2>1, <2>2, <3>1, <3>2, <3>3
  <2> QED
    BY <1>1, <1>2, <1>6, <2>3, ValueIs, SteadyName DEF HashSet
<1> QED
  BY <1>5, <1>6

LEMMA RemoveHeld ==
  ASSUME IInv, NEW k \in Keys, NEW name, name = Name(k), Present(k), Remhash(k)
  PROVE  /\ OthersHeld(k)
         /\ Steady(k) => Value(name)' = Absent
<1> DEFINE c == Index(k)
           n == Len(table[c])
           x == Position(k)
<1>1. /\ c \in Buckets /\ n \in Nat /\ DOMAIN table[c] = 1..n
      /\ DOMAIN table'[c] = 1..(n - 1) /\ x \in 1..n /\ Match(table[c][x].key, k)
      /\ \A b \in Buckets \ {c} : table'[b] = table[b]
      /\ \A q \in 1..(n - 1) : table'[c][q] = IF q < x THEN table[c][q] ELSE table[c][q + 1]
  <2>1. c \in Buckets /\ n \in Nat /\ DOMAIN table[c] = 1..n
    BY IndexType, KeysInType DEF IInv
  <2>2. x \in DOMAIN table[c] /\ Match(table[c][x].key, k)
    BY PositionIsUnique DEF IInv
  <2>3. /\ table' \in [Buckets -> Seq(Pairs)] /\ Len(table'[c]) = n - 1
        /\ \A b \in Buckets \ {c} : table'[b] = table[b]
        /\ \A q \in 1..(n - 1) : table'[c][q] = IF q < x THEN table[c][q] ELSE table[c][q + 1]
    BY <2>2, Removed DEF IInv, Remhash
  <2>4. table'[c] \in Seq(Pairs)
    BY <2>1, <2>3
  <2> HIDE DEF c, n, x
  <2> QED
    BY <2>1, <2>2, <2>3, <2>4
<1> HIDE DEF c, n, x
<1>2. \A q \in 1..(n - 1) : \E r \in 1..n : r # x /\ table'[c][q] = table[c][r]
  <2> TAKE q \in 1..(n - 1)
  <2>1. q \in 1..n /\ q + 1 \in 1..n
    BY <1>1
  <2>2. CASE q < x
    BY <1>1, <2>1, <2>2
  <2>3. CASE ~(q < x)
    <3>1. q + 1 # x
      BY <1>1, <2>3
    <3> QED
      BY <1>1, <2>1, <2>3, <3>1
  <2> QED
    BY <2>2, <2>3
<1>3. \A r \in 1..n : r # x => \E q \in 1..(n - 1) : table'[c][q] = table[c][r]
  <2> SUFFICES ASSUME NEW r \in 1..n, r # x
               PROVE  \E q \in 1..(n - 1) : table'[c][q] = table[c][r]
    OBVIOUS
  <2>1. CASE r < x
    <3>1. r \in 1..(n - 1)
      BY <1>1, <2>1
    <3> QED
      BY <1>1, <2>1, <3>1
  <2>2. CASE r > x
    <3>1. r - 1 \in 1..(n - 1) /\ ~(r - 1 < x) /\ (r - 1) + 1 = r
      BY <1>1, <2>2
    <3> QED
      BY <1>1, <3>1
  <2> QED
    BY <1>1, <2>1, <2>2
<1>4. OthersHeld(k)
  <2> SUFFICES ASSUME NEW e, ~Match(e.key, k)
               PROVE  e \in Held(table') <=> e \in Held(table)
    BY DEF OthersHeld
  <2>1. ASSUME NEW b \in Buckets
        PROVE  (\E q \in DOMAIN table'[b] : e = table'[b][q])
               <=> (\E q \in DOMAIN table[b] : e = table[b][q])
    <3>1. CASE b # c
      BY <1>1, <3>1
    <3>2. CASE b = c
      <4>1. e # table[c][x]
        BY <1>1
      <4>2. ASSUME NEW q \in DOMAIN table'[c], e = table'[c][q]
            PROVE  \E r \in DOMAIN table[c] : e = table[c][r]
        BY <1>1, <1>2, <4>2
      <4>3. ASSUME NEW q \in DOMAIN table[c], e = table[c][q]
            PROVE  \E r \in DOMAIN table'[c] : e = table'[c][r]
        BY <1>1, <1>3, <4>1, <4>3
      <4> QED
        BY <3>2, <4>2, <4>3
    <3> QED
      BY <3>1, <3>2
  <2>2. e \in Held(table) <=> \E b \in Buckets : \E q \in DOMAIN table[b] : e = table[b][q]
    BY HeldIn
  <2>3. e \in Held(table') <=> \E b \in Buckets : \E q \in DOMAIN table'[b] : e = table'[b][q]
    BY HeldIn
  <2> QED
    BY <2>1, <2>2, <2>3
<1>5. ASSUME Steady(k)
      PROVE  Value(name)' = Absent
  <2>1. ASSUME NEW b \in Buckets, NEW q \in DOMAIN table'[b], table'[b][q].key \in name
        PROVE  FALSE
    <3>1. CASE b # c
      BY <1>1, <1>5, <2>1, <3>1, SameEntry DEF c
    <3>2. CASE b = c
      <4>1. PICK r \in 1..n : r # x /\ table'[c][q] = table[c][r]
        BY <1>1, <1>2, <2>1, <3>2
      <4>2. r \in DOMAIN table[c] /\ table[c][r].key \in Name(k)
        BY <1>1, <2>1, <3>2, <4>1
      <4>3. r = Position(k)
        BY <1>1, <1>5, <4>2, SameEntry
      <4> QED
        BY <4>1, <4>3 DEF x
    <3> QED
      BY <3>1, <3>2
  <2>2. FoundIn(table', name) = {}
    BY <2>1, HeldIn DEF FoundIn
  <2> QED
    BY <2>2, ValueIs DEF Remhash
<1> QED
  BY <1>4, <1>5

-----------------------------------------------------------------------------
(* The map of the dictionary after an operation. *)
Map == [c \in Classes |-> Value(c)]

LEMMA MapUpdated ==
  ASSUME test' = test, NEW k \in Keys, NEW name, name = Name(k), OthersHeld(k)
  PROVE  /\ ~Steady(k) => Map' = Map
         /\ \A v : Steady(k) /\ Value(name)' = v => Map' = [Map EXCEPT ![name] = v]
<1>1. \A c \in Classes : ~(Steady(k) /\ c = name) => Value(c)' = Value(c)
  BY OthersKept
<1>2. Map' = [c \in Classes |-> Value(c)']
  BY DEF Map
<1> QED
  BY <1>1, <1>2, SteadyName DEF Map

LEMMA MapSame ==
  ASSUME test' = test, table' = table
  PROVE  Map' = Map
<1>1. \A c \in Classes : Value(c)' = Value(c)
  BY ValueIs
<1>2. Map' = [c \in Classes |-> Value(c)']
  BY DEF Map
<1> QED
  BY <1>1, <1>2 DEF Map

LEMMA EmptyTable ==
  ASSUME NEW t, t = [b \in Buckets |-> <<>>], NEW c
  PROVE  FoundIn(t, c) = {}
BY HeldIn DEF FoundIn

LEMMA DictionaryStep ==
  ASSUME IInv, [Next]_vars
  PROVE  [Ideal!Next]_<<Map, reply>>
<1>1. CASE UNCHANGED vars
  BY <1>1, MapSame DEF vars
<1>2. ASSUME NEW k \in Keys, Gethash(k)
      PROVE  Ideal!Next
  <2>1. Map' = Map
    BY <1>2, MapSame DEF Gethash
  <2>2. CASE Steady(k)
    <3>1. Name(k) \in Classes /\ reply' = Map[Name(k)]
      BY <1>2, <2>2, LookUp, SteadyName DEF Gethash, Reply, Map
    <3> QED
      BY <2>1, <3>1 DEF Ideal!Next, Ideal!Get, Map
  <2>3. CASE ~Steady(k)
    BY <1>2, <2>1, <2>3 DEF Gethash, Reply, Ideal!Next, Ideal!Elsewhere, Map
  <2> QED
    BY <2>2, <2>3
<1>3. ASSUME NEW k \in Keys, NEW v \in Vals, HashSet(k, v)
      PROVE  Ideal!Next
  <2>N. PICK name : name = Name(k)
    OBVIOUS
  <2>1. OthersHeld(k) /\ (Steady(k) => Value(name)' = v)
    <3>1. CASE Present(k)
      BY <1>3, <3>1, <2>N, OverwriteHeld
    <3>2. CASE ~Present(k)
      BY <1>3, <3>2, <2>N, EnterHeld
    <3> QED
      BY <3>1, <3>2
  <2>2. CASE Steady(k)
    <3>1. Map' = [Map EXCEPT ![name] = v] /\ reply' = v /\ name \in Classes
      BY <1>3, <2>1, <2>2, <2>N, MapUpdated, SteadyName DEF HashSet, Reply
    <3> QED
      BY <3>1 DEF Ideal!Next, Ideal!Put, Map
  <2>3. CASE ~Steady(k)
    <3>1. Map' = Map /\ reply' = Unspecified
      BY <1>3, <2>1, <2>3, <2>N, MapUpdated DEF HashSet, Reply
    <3> QED
      BY <3>1 DEF Ideal!Next, Ideal!Elsewhere, Map
  <2> QED
    BY <2>2, <2>3
<1>4. ASSUME NEW k \in Keys, Remhash(k)
      PROVE  Ideal!Next
  <2>0. test' = test
    BY <1>4 DEF Remhash
  <2>N. PICK name : name = Name(k)
    OBVIOUS
  <2>1. OthersHeld(k) /\ (Steady(k) => Value(name)' = Absent)
    <3>1. CASE Present(k)
      BY <1>4, <3>1, <2>N, RemoveHeld
    <3>2. CASE ~Present(k)
      <4>1. table' = table
        BY <1>4, <3>2 DEF Remhash
      <4>2. Value(name)' = Value(name)
        BY <2>0, <4>1, ValueIs
      <4> QED
        BY <3>2, <4>1, <4>2, <2>N, LookUp DEF OthersHeld
    <3> QED
      BY <3>1, <3>2
  <2>2. CASE Steady(k)
    <3>1. Map' = [Map EXCEPT ![name] = Absent] /\ name \in Classes
      BY <2>0, <2>1, <2>2, <2>N, MapUpdated, SteadyName
    <3>2. Present(k) <=> Value(name) # Absent
      <4>1. Present(k) => table[Index(k)][Position(k)] \in Pairs
        BY IndexType, PositionIsUnique DEF IInv, TypeOK
      <4>2. Present(k) => table[Index(k)][Position(k)].val # Absent
        BY <4>1, HashTableAssumption DEF Pairs
      <4> QED
        BY <2>2, <4>2, <2>N, LookUp
    <3>3. reply' = (Map[name] # Absent)
      <4>1. reply' = Present(k)
        BY <1>4, <2>2 DEF Remhash, Reply
      <4>2. Present(k) \in BOOLEAN
        BY DEF Present
      <4>3. Map[name] = Value(name)
        BY <3>1 DEF Map
      <4> QED
        BY <3>2, <4>1, <4>2, <4>3
    <3> QED
      BY <3>1, <3>3 DEF Ideal!Next, Ideal!Remove, Map
  <2>3. CASE ~Steady(k)
    <3>1. Map' = Map /\ reply' = Unspecified
      BY <1>4, <2>0, <2>1, <2>3, <2>N, MapUpdated DEF Remhash, Reply
    <3> QED
      BY <3>1 DEF Ideal!Next, Ideal!Elsewhere, Map
  <2> QED
    BY <2>2, <2>3
<1>5. CASE Clrhash
  <2>1. test' = test /\ table' = [b \in Buckets |-> <<>>] /\ reply' = Unspecified
    BY <1>5 DEF Clrhash
  <2>2. \A c \in Classes : Value(c)' = Absent
    BY <2>1, EmptyTable, ValueIs
  <2>3. Map' = [c \in Classes |-> Absent]
    BY <2>2 DEF Map
  <2> QED
    BY <2>1, <2>3 DEF Ideal!Next, Ideal!Clear, Map
<1>6. CASE MaphashBegin \/ MaphashCall \/ MaphashReturn \/ MaphashBucket
  BY <1>6, MapSame DEF MaphashBegin, MaphashCall, MaphashReturn, MaphashBucket
<1>7. ASSUME NEW k \in Keys, Move(k)
      PROVE  UNCHANGED <<Map, reply>>
  BY <1>7, MapSame DEF Move
<1> QED
  BY <1>1, <1>2, <1>3, <1>4, <1>5, <1>6, <1>7 DEF Next

(* For the keys with a steady hash the table is a dictionary: every step is one
   of the dictionary's, or leaves map and reply alone. *)
THEOREM TableIsDictionary == Spec => DictionarySpec
<1>1. Init => Ideal!Init
  <2> SUFFICES ASSUME Init PROVE Ideal!Init
    OBVIOUS
  <2>1. table = [b \in Buckets |-> <<>>] /\ reply = Unspecified
    BY DEF Init
  <2>2. \A c \in Classes : Value(c) = Absent
    BY <2>1, EmptyTable, ValueIs
  <2> QED
    BY <2>1, <2>2 DEF Ideal!Init
<1>2. IInv /\ [Next]_vars => [Ideal!Next]_<<[c \in Classes |-> Value(c)], reply>>
  BY DictionaryStep DEF Map
<1> QED
  BY <1>1, <1>2, InductiveInvariant, PTL DEF Spec, DictionarySpec, Ideal!Spec
-----------------------------------------------------------------------------
(* Non-local exits *)

(* The exit that the flags of its kind show: the one under way, or the one
   that showed before, when a cleanup has suspended it. *)
Seen(x, e, old) == IF e # None /\ e.kind = x THEN e ELSE old

(* The primitives that save these flags and clear them. *)
Hides(x) == IF x = "return" THEN {"loop"} ELSE {"handler", "toplevel"}

(* b[i] is the exit that shows below frame i. *)
Chain(x, s, b) ==
  /\ b[1] = None
  /\ \A i \in 1..Len(s) :
       b[i + 1] = IF s[i].kind \in Hides(x) THEN None ELSE Seen(x, s[i].exit, b[i])

Shown(flag, value, e) == (flag <=> e # None) /\ (e # None => value = e.value)

(* The flags that every unwind-protect saves tell of the exit e. *)
Carries(f, e) ==
  /\ f.abort <=> e # None
  /\ f.target = IF e # None /\ e.kind = "from" THEN e.name ELSE NoTarget
  /\ f.throw <=> e # None /\ e.kind = "throw"
  /\ f.throwTag = IF e # None /\ e.kind = "throw" THEN e.name ELSE NoTarget

(* An exit that has come down to frame i stays inside the cleanups it started
   in, and the frame it looks for has its value. *)
Reaches(s, i, e) ==
  /\ \A k \in 1 .. i - 1 :
       s[k].kind = "cleanup" => \E j \in k + 1 .. i - 1 : IsExitPoint(s[j], e)
  /\ e.kind \in {"from", "throw"} =>
       \E j \in 1 .. i - 1 : /\ IsExitPoint(s[j], e) /\ s[j].value = e.value
                             /\ \A k \in j + 1 .. i - 1 : ~IsExitPoint(s[k], e)
  /\ e.kind = "error" => i > 1

(* What a frame f at place i of the nest s keeps; the exits r and x show below. *)
Fits(f, s, i, r, x) ==
  /\ f.kind = "toplevel" <=> i = 1
  /\ f.exit # None => f.kind = "cleanup" /\ Reaches(s, i, f.exit)
  /\ f.kind = "cleanup" => Carries(f.saved, f.exit)
  /\ f.kind \in {"protect", "cleanup"} => f.name = Nil
  /\ f.kind = "loop" => Shown(f.saved.break, f.saved.breakValue, r)
  /\ f.exit # None /\ f.exit.kind = "return" => r = None
  /\ f.kind = "handler" => Shown(f.saved.cond, f.saved.slot, x)

Nest(s, b, c) ==
  /\ Chain("return", s, b) /\ Chain("error", s, c)
  /\ \A i \in 1..Len(s) : Fits(s[i], s, i, b[i], c[i])

Now(s, f, e, b, c) ==
  /\ Carries(f, e)
  /\ e # None => Reaches(s, Len(s) + 1, e)
  /\ e # None /\ e.kind = "return" => b[Len(s) + 1] = None
  /\ Shown(f.break, f.breakValue, Seen("return", e, b[Len(s) + 1]))
  /\ Len(s) > 0 => Shown(f.cond, f.slot, Seen("error", e, c[Len(s) + 1]))

Consistent(s, f, e) == \E b, c : Nest(s, b, c) /\ Now(s, f, e, b, c)
Sound == ExitTypeOK /\ Consistent(stack, flags, exit)
ExitIInv == ExitTypeOK /\ (~astray => Consistent(stack, flags, exit))

-----------------------------------------------------------------------------
LEMMA LastOf ==
  ASSUME NEW n \in Nat, NEW I \in SUBSET (1..n), I # {}
  PROVE  Innermost(I) \in I /\ \A j \in I : j <= Innermost(I)
<1> DEFINE R == OpToRel(<, Nat)
           T == {n - i : i \in I}
<1>1. \A x, y \in Nat : <<x, y>> \in R <=> x < y
  BY DEF OpToRel
<1>2. \A i \in I : i \in Nat /\ n - i \in Nat
  OBVIOUS
<1>3. T \subseteq Nat /\ T # {}
  BY <1>2
<1>4. IsWellFoundedOn(R, Nat)
  BY NatLessThanWellFounded
<1> HIDE DEF R
<1>5. \E x \in T : \A y \in T : <<y, x>> \notin R
  BY <1>3, <1>4, WFMin
<1>6. PICK x \in T : \A y \in T : <<y, x>> \notin R
  BY <1>5
<1>7. PICK i \in I : x = n - i
  OBVIOUS
<1>8. \A j \in I : ~(n - j < n - i)
  BY <1>1, <1>2, <1>6, <1>7
<1>9. \A j \in I : j <= i
  BY <1>2, <1>8
<1> QED
  BY <1>9 DEF Innermost

LEMMA FrontIs ==
  ASSUME NEW S, NEW s \in Seq(S), s # <<>>
  PROVE  /\ Len(s) \in Nat /\ Len(s) >= 1 /\ Len(s) \in 1..Len(s)
         /\ Front(s) \in Seq(S) /\ Len(Front(s)) = Len(s) - 1
         /\ \A i \in 1 .. Len(s) - 1 : Front(s)[i] = s[i]
         /\ Last(s) = s[Len(s)] /\ s[Len(s)] \in S
<1>1. Len(s) \in Nat /\ Len(s) # 0
  BY EmptySeq
<1>2. Len(s) >= 1 /\ Len(s) \in 1..Len(s) /\ Len(s) - 1 \in Nat
  BY <1>1
<1>3. s[Len(s)] \in S
  BY <1>2, ElementOfSeq
<1>4. Front(s) = SubSeq(s, 1, Len(s) - 1) /\ Last(s) = s[Len(s)]
  BY DEF Front, Last
<1>5. /\ SubSeq(s, 1, Len(s) - 1) \in Seq(S) /\ Len(SubSeq(s, 1, Len(s) - 1)) = Len(s) - 1
      /\ \A i \in 1 .. Len(s) - 1 : SubSeq(s, 1, Len(s) - 1)[i] = s[i]
  <2> DEFINE n == Len(s) - 1
  <2>1. n \in Nat /\ \A i \in 1 .. n : s[i] \in S
    BY <1>1, <1>2
  <2> HIDE DEF n
  <2>2. /\ SubSeq(s, 1, n) \in Seq(S)
        /\ Len(SubSeq(s, 1, n)) = IF 1 <= n THEN n - 1 + 1 ELSE 0
        /\ \A i \in 1 .. n - 1 + 1 : SubSeq(s, 1, n)[i] = s[1 + i - 1]
    BY <2>1, SubSeqProperties
  <2>3. Len(SubSeq(s, 1, n)) = n /\ \A i \in 1 .. n : SubSeq(s, 1, n)[i] = s[i]
    BY <2>1, <2>2
  <2> QED
    BY <2>2, <2>3 DEF n
<1> QED
  BY <1>1, <1>2, <1>3, <1>4, <1>5

(* The three parts of the flags. *)
LEMMA ExitFromIs ==
  ASSUME NEW f \in Flags, NEW g \in Flags
  PROVE  LET h == ExitFrom(f, g)
         IN  /\ h \in Flags
             /\ h.abort = g.abort /\ h.target = g.target
             /\ h.throw = g.throw /\ h.throwTag = g.throwTag
             /\ h.break = f.break /\ h.breakValue = f.breakValue
             /\ h.cond = f.cond /\ h.slot = f.slot
BY DEF ExitFrom, Flags

LEMMA BreakFromIs ==
  ASSUME NEW f \in Flags, NEW g \in Flags
  PROVE  LET h == BreakFrom(f, g)
         IN  /\ h \in Flags
             /\ h.abort = f.abort /\ h.target = f.target
             /\ h.throw = f.throw /\ h.throwTag = f.throwTag
             /\ h.break = g.break /\ h.breakValue = g.breakValue
             /\ h.cond = f.cond /\ h.slot = f.slot
BY DEF BreakFrom, Flags

LEMMA CondFromIs ==
  ASSUME NEW f \in Flags, NEW g \in Flags
  PROVE  LET h == CondFrom(f, g)
         IN  /\ h \in Flags
             /\ h.abort = f.abort /\ h.target = f.target
             /\ h.throw = f.throw /\ h.throwTag = f.throwTag
             /\ h.break = f.break /\ h.breakValue = f.breakValue
             /\ h.cond = g.cond /\ h.slot = g.slot
BY DEF CondFrom, Flags

LEMMA QuiescentIs ==
  /\ Quiescent \in Flags
  /\ Quiescent.abort = FALSE /\ Quiescent.target = NoTarget
  /\ Quiescent.throw = FALSE /\ Quiescent.throwTag = NoTarget
  /\ Quiescent.break = FALSE /\ Quiescent.breakValue = NilValue
  /\ Quiescent.cond = FALSE /\ Quiescent.slot = NilValue
BY ExitAssumption DEF Quiescent, Flags

LEMMA FlagsEqual ==
  ASSUME NEW f \in Flags, NEW g \in Flags,
         f.abort = g.abort, f.target = g.target, f.throw = g.throw, f.throwTag = g.throwTag,
         f.break = g.break, f.breakValue = g.breakValue, f.cond = g.cond, f.slot = g.slot
  PROVE  f = g
BY DEF Flags

LEMMA FrameIs ==
  ASSUME NEW kind \in Kinds, NEW name \in Names \cup Tags, NEW saved \in Flags
  PROVE  LET fr == Frame(kind, name, saved)
         IN  /\ fr \in Frames /\ fr.kind = kind /\ fr.name = name
             /\ fr.saved = saved /\ fr.exit = None
BY ExitAssumption DEF Frame, Frames

-----------------------------------------------------------------------------
(* Types *)
LEMMA PushTypes ==
  ASSUME ExitTypeOK, NEW fr \in Frames, stack' = Append(stack, fr), Len(stack) < MaxFrames,
         flags' \in Flags, exit' \in Exits \cup {None}, delivered' \in Values,
         unchecked' \in BOOLEAN, astray' \in BOOLEAN
  PROVE  ExitTypeOK'
<1>1. Append(stack, fr) \in Seq(Frames) /\ Len(Append(stack, fr)) = Len(stack) + 1
      /\ Len(stack) \in Nat
  BY DEF ExitTypeOK
<1>2. Len(stack) + 1 <= MaxFrames
  BY <1>1, ExitAssumption
<1> QED
  BY <1>1, <1>2 DEF ExitTypeOK, Flags, Exits, Frames

LEMMA PopTypes ==
  ASSUME ExitTypeOK, stack # <<>>, stack' = Rest,
         flags' \in Flags, exit' \in Exits \cup {None}, delivered' \in Values,
         unchecked' \in BOOLEAN, astray' \in BOOLEAN
  PROVE  ExitTypeOK'
<1>1. Rest \in Seq(Frames) /\ Len(Rest) = Len(stack) - 1 /\ Len(stack) \in Nat
  BY FrontIs DEF ExitTypeOK, Rest
<1>2. Len(Rest) <= MaxFrames
  BY <1>1, ExitAssumption DEF ExitTypeOK
<1> QED
  BY <1>1, <1>2 DEF ExitTypeOK

LEMMA TopTypes ==
  ASSUME ExitTypeOK, stack # <<>>
  PROVE  /\ Top = stack[Len(stack)] /\ Top \in Frames
         /\ Top.kind \in Kinds /\ Top.name \in Names \cup Tags /\ Top.value \in Values
         /\ Top.saved \in Flags /\ Top.exit \in Exits \cup {None}
<1>1. Top = stack[Len(stack)] /\ Top \in Frames
  BY FrontIs DEF ExitTypeOK, Top
<1> QED
  BY <1>1 DEF Frames

LEMMA EnterTypes ==
  ASSUME ExitTypeOK, NEW kind \in Kinds, NEW name \in Names \cup Tags, NEW saved \in Flags,
         NEW f \in Flags, Enter(kind, name, saved, f)
  PROVE  ExitTypeOK'
<1>1. Frame(kind, name, saved) \in Frames
  BY FrameIs
<1>2. unchecked' \in BOOLEAN /\ astray' \in BOOLEAN
  BY DEF Enter, ExitTypeOK
<1> QED
  BY <1>1, <1>2, PushTypes DEF Enter, ExitTypeOK

LEMMA RequestIs ==
  ASSUME NEW kind \in {"from", "throw", "return", "error"}, NEW name \in Names \cup Tags,
         NEW v \in Values
  PROVE  LET e == Request(kind, name, v)
         IN  e \in Exits /\ e # None /\ e.kind = kind /\ e.name = name /\ e.value = v
BY NoneIsNoExit DEF Request, Exits

(* return-from and throw put the value in the frame it is for. *)
WithValue(t, s, i, v) == t = [s EXCEPT ![i].value = v]

LEMMA ValuePut ==
  ASSUME ExitTypeOK, NEW e, ExitPoints(e) # {}, NEW i, i = Innermost(ExitPoints(e)),
         NEW v \in Values, NEW t, WithValue(t, stack, i, v)
  PROVE  /\ t \in Seq(Frames) /\ Len(t) = Len(stack)
         /\ i \in 1..Len(stack) /\ IsExitPoint(stack[i], e)
         /\ \A j \in 1..Len(stack) : IsExitPoint(stack[j], e) => j <= i
         /\ \A j \in 1..Len(stack) :
              /\ t[j].kind = stack[j].kind /\ t[j].name = stack[j].name
              /\ t[j].saved = stack[j].saved /\ t[j].exit = stack[j].exit
              /\ j # i => t[j] = stack[j]
         /\ t[i].value = v
<1>1. stack \in Seq(Frames) /\ Len(stack) \in Nat /\ DOMAIN stack = 1..Len(stack)
  BY DEF ExitTypeOK
<1>2. ExitPoints(e) \subseteq 1..Len(stack)
  BY <1>1 DEF ExitPoints
<1>3. i \in ExitPoints(e) /\ \A j \in ExitPoints(e) : j <= i
  BY <1>1, <1>2, LastOf
<1>4. i \in 1..Len(stack) /\ IsExitPoint(stack[i], e)
  BY <1>1, <1>3 DEF ExitPoints
<1>5. \A j \in 1..Len(stack) : IsExitPoint(stack[j], e) => j <= i
  BY <1>1, <1>3 DEF ExitPoints
<1> DEFINE fr == [stack[i] EXCEPT !.value = v]
<1>6. stack[i] \in Frames
  BY <1>1, <1>4
<1>7. /\ fr \in Frames /\ fr.kind = stack[i].kind /\ fr.name = stack[i].name
      /\ fr.saved = stack[i].saved /\ fr.exit = stack[i].exit /\ fr.value = v
  BY <1>6 DEF Frames
<1>8. t = [stack EXCEPT ![i] = fr]
  BY <1>1 DEF WithValue
<1> HIDE DEF fr
<1>9. /\ t \in Seq(Frames) /\ Len(t) = Len(stack)
      /\ \A j \in 1..Len(stack) : t[j] = IF j = i THEN fr ELSE stack[j]
  <2>1. [stack EXCEPT ![i] = fr] \in Seq(Frames) /\ Len([stack EXCEPT ![i] = fr]) = Len(stack)
    BY <1>1, <1>4, <1>7
  <2>2. \A j \in 1..Len(stack) : [stack EXCEPT ![i] = fr][j] = IF j = i THEN fr ELSE stack[j]
    BY <1>1
  <2> QED
    BY <1>8, <2>1, <2>2
<1> QED
  BY <1>4, <1>5, <1>7, <1>9

LEMMA SignalTypes ==
  ASSUME ExitTypeOK, NEW v \in Values, Signal(v), unchecked' \in BOOLEAN
  PROVE  ExitTypeOK'
<1>1. Request("error", Nil, v) \in Exits
  BY RequestIs, ExitAssumption
<1>2. flags' \in Flags
  BY DEF Signal, ExitTypeOK, Flags
<1>3. astray' \in BOOLEAN
  BY DEF Signal, Asks
<1> QED
  BY <1>1, <1>2, <1>3 DEF Signal, Asks, ExitTypeOK

LEMMA TransferTypes ==
  ASSUME ExitTypeOK, NEW e \in Exits, NEW f \in Flags, Transfer(e, f)
  PROVE  ExitTypeOK'
<1>1. e.value \in Values
  BY DEF Exits
<1>2. ExitPoints(e) # {} /\ WithValue(stack', stack, Innermost(ExitPoints(e)), e.value)
  BY DEF Transfer, WithValue
<1>3. stack' \in Seq(Frames) /\ Len(stack') = Len(stack)
  BY <1>1, <1>2, ValuePut
<1>4. astray' \in BOOLEAN
  BY DEF Transfer, Asks
<1> QED
  BY <1>3, <1>4 DEF Transfer, Asks, ExitTypeOK

LEMMA ExitStepTypes ==
  ASSUME ExitTypeOK, [ExitNext]_exitVars
  PROVE  ExitTypeOK'
<1> USE ExitAssumption
<1>0. /\ flags \in Flags /\ exit \in Exits \cup {None} /\ delivered \in Values
      /\ unchecked \in BOOLEAN /\ astray \in BOOLEAN
  BY DEF ExitTypeOK
<1>1. CASE UNCHANGED exitVars
  BY <1>1 DEF exitVars, ExitTypeOK
<1>2. CASE EnterToplevel
  <2>1. CondFrom(Quiescent, flags) \in Flags
    BY <1>0, CondFromIs, QuiescentIs
  <2>2. Frame("toplevel", Nil, CondFrom(Quiescent, flags)) \in Frames
    BY <2>1, FrameIs DEF Kinds
  <2>3. flags' \in Flags
    BY <1>0, <1>2, QuiescentIs DEF EnterToplevel, Flags
  <2>4. stack' = <<Frame("toplevel", Nil, CondFrom(Quiescent, flags))>>
    BY <1>2 DEF EnterToplevel
  <2>5. stack' \in Seq(Frames) /\ Len(stack') = 1
    BY <2>2, <2>4
  <2> QED
    <3>1. unchecked' \in BOOLEAN /\ astray' \in BOOLEAN
      BY <1>2 DEF EnterToplevel
    <3> QED
      BY <1>0, <1>2, <2>3, <2>5, <3>1 DEF EnterToplevel, ExitTypeOK
<1>3. CASE EnterProtect \/ EnterLoop \/ EnterHandler
  <2>1. /\ BreakFrom(Quiescent, flags) \in Flags /\ BreakFrom(flags, Quiescent) \in Flags
        /\ CondFrom(Quiescent, flags) \in Flags /\ [flags EXCEPT !.cond = FALSE] \in Flags
    BY <1>0, BreakFromIs, CondFromIs, QuiescentIs DEF Flags
  <2> QED
    BY <1>0, <1>3, <2>1, QuiescentIs, EnterTypes DEF EnterProtect, EnterLoop, EnterHandler, Kinds
<1>4. ASSUME NEW n \in Names, EnterBlock(n)
      PROVE  ExitTypeOK'
  BY <1>0, <1>4, QuiescentIs, EnterTypes DEF EnterBlock, Kinds
<1>5. ASSUME NEW tag \in Tags, EnterCatch(tag)
      PROVE  ExitTypeOK'
  BY <1>0, <1>5, QuiescentIs, EnterTypes DEF EnterCatch, Kinds
<1>6. ASSUME NEW v \in Values, Error(v) \/ CoerceFails(v)
      PROVE  ExitTypeOK'
  BY <1>6, SignalTypes DEF Error, CoerceFails
<1>7. ASSUME NEW v \in Values, LoopReturn(v)
      PROVE  ExitTypeOK'
  <2>1. Request("return", Nil, v) \in Exits
    BY RequestIs
  <2>2. flags' \in Flags
    BY <1>0, <1>7 DEF LoopReturn, Flags
  <2>3. astray' \in BOOLEAN
    BY <1>7 DEF LoopReturn, Asks
  <2> QED
    BY <1>7, <2>1, <2>2, <2>3 DEF LoopReturn, Asks, ExitTypeOK
<1>8. ASSUME NEW v \in Values, NEW n \in Names, ReturnFrom(n, v)
      PROVE  ExitTypeOK'
  <2>1. Request("from", n, v) \in Exits
    BY RequestIs
  <2>2. [flags EXCEPT !.abort = TRUE, !.target = n] \in Flags
    BY <1>0 DEF Flags
  <2> QED
    BY <1>8, <2>1, <2>2, TransferTypes DEF ReturnFrom
<1>9. ASSUME NEW v \in Values, NEW tag \in Tags, Throw(tag, v)
      PROVE  ExitTypeOK'
  <2>1. Request("throw", tag, v) \in Exits
    BY RequestIs
  <2>2. [flags EXCEPT !.abort = TRUE, !.throw = TRUE, !.throwTag = tag] \in Flags
    BY <1>0 DEF Flags
  <2> QED
    BY <1>9, <2>1, <2>2, TransferTypes DEF Throw
<1>10. ASSUME NEW v \in Values, NEW n \in Names, ReturnFromFails(n, v)
       PROVE  ExitTypeOK'
  BY <1>6, <1>10 DEF ReturnFromFails, ExitFails
<1>11. ASSUME NEW v \in Values, NEW tag \in Tags, ThrowFails(tag, v)
       PROVE  ExitTypeOK'
  BY <1>6, <1>11 DEF ThrowFails, ExitFails
<1>12. ASSUME stack # <<>>, NEW f \in Flags, NEW v \in Values, Consume(f, v)
       PROVE  ExitTypeOK'
  <2>1. [f EXCEPT !.abort = FALSE] \in Flags
    BY DEF Flags
  <2>2. unchecked' \in BOOLEAN /\ astray' \in BOOLEAN
    BY <1>12 DEF Consume, Pop
  <2> QED
    BY <1>12, <2>1, <2>2, PopTypes DEF Consume, Pop
<1>13. ASSUME stack # <<>>, NEW f \in Flags, PassOn(f)
       PROVE  ExitTypeOK'
  <2>1. unchecked' \in BOOLEAN /\ astray' \in BOOLEAN
    BY <1>13 DEF PassOn, Pop
  <2> QED
    BY <1>0, <1>13, <2>1, PopTypes DEF PassOn, Pop
<1>14. CASE LeaveBlock
  <2>1. stack # <<>> /\ Top.value \in Values /\ flags.breakValue \in Values
    BY <1>0, <1>14, TopTypes DEF LeaveBlock, In, Flags
  <2>2. [flags EXCEPT !.target = NoTarget] \in Flags /\ [flags EXCEPT !.break = FALSE] \in Flags
    BY <1>0 DEF Flags
  <2> QED
    BY <1>0, <1>12, <1>13, <1>14, <2>1, <2>2 DEF LeaveBlock
<1>15. CASE LeaveLoop
  <2>1. stack # <<>> /\ flags.breakValue \in Values /\ BreakFrom(flags, Top.saved) \in Flags
    BY <1>0, <1>15, TopTypes, BreakFromIs DEF LeaveLoop, In, Flags
  <2> QED
    BY <1>12, <1>13, <1>15, <2>1 DEF LeaveLoop
<1>16. CASE LeaveCatch
  <2>1. stack # <<>> /\ Top.value \in Values
    BY <1>16, TopTypes DEF LeaveCatch, In
  <2>2. [flags EXCEPT !.throw = FALSE, !.throwTag = NoTarget] \in Flags
    BY <1>0 DEF Flags
  <2> QED
    BY <1>0, <1>12, <1>13, <1>16, <2>1, <2>2 DEF LeaveCatch
<1>17. CASE LeaveHandler \/ LeaveToplevel
  <2>1. stack # <<>> /\ flags.slot \in Values /\ CondFrom(flags, Top.saved) \in Flags
    BY <1>0, <1>17, TopTypes, CondFromIs DEF LeaveHandler, LeaveToplevel, In, Flags
  <2> QED
    BY <1>12, <1>13, <1>17, <2>1 DEF LeaveHandler, LeaveToplevel, LeaveGuarded
<1>18. CASE BeginCleanup
  <2> DEFINE fr == [Top EXCEPT !.kind = "cleanup", !.exit = exit,
                               !.saved = ExitFrom(Quiescent, flags)]
  <2>1. stack # <<>> /\ stack' = Append(Rest, fr) /\ flags' = ExitFrom(flags, Quiescent)
        /\ exit' = None /\ delivered' = delivered /\ unchecked' = FALSE /\ astray' = astray
    BY <1>18 DEF BeginCleanup, Protected, In
  <2>2. flags' \in Flags /\ ExitFrom(Quiescent, flags) \in Flags
    BY <1>0, <2>1, ExitFromIs, QuiescentIs
  <2>3. fr \in Frames
    BY <1>0, <2>1, <2>2, TopTypes DEF Frames, Kinds
  <2> HIDE DEF fr
  <2>4. Rest \in Seq(Frames) /\ Len(Rest) = Len(stack) - 1 /\ Len(stack) \in Nat
    BY <2>1, FrontIs DEF ExitTypeOK, Rest
  <2>5. Append(Rest, fr) \in Seq(Frames) /\ Len(Append(Rest, fr)) = Len(stack)
    BY <2>3, <2>4
  <2> QED
    BY <1>0, <2>1, <2>2, <2>5 DEF ExitTypeOK
<1>19. CASE EndCleanup
  <2>1. stack # <<>> /\ ExitFrom(flags, Top.saved) \in Flags /\ Top.exit \in Exits \cup {None}
    BY <1>0, <1>19, TopTypes, ExitFromIs DEF EndCleanup, In
  <2>2. unchecked' \in BOOLEAN /\ astray' \in BOOLEAN
    BY <1>19 DEF EndCleanup, Pop
  <2> QED
    BY <1>0, <1>19, <2>1, <2>2, PopTypes DEF EndCleanup, Pop
<1> QED
  BY <1>1, <1>2, <1>3, <1>4, <1>5, <1>6, <1>7, <1>8, <1>9, <1>10, <1>11, <1>14, <1>15,
     <1>16, <1>17, <1>18, <1>19 DEF ExitNext, Open, Begin, Close
-----------------------------------------------------------------------------
(* Nests *)
LEMMA ReachesBelow ==
  ASSUME NEW s, NEW t, NEW i \in Nat, NEW e,
         \A j \in 1 .. i - 1 : t[j] = s[j], Reaches(s, i, e)
  PROVE  Reaches(t, i, e)
<1>1. ASSUME NEW k \in 1 .. i - 1, t[k].kind = "cleanup"
      PROVE  \E j \in k + 1 .. i - 1 : IsExitPoint(t[j], e)
  <2>1. PICK j \in k + 1 .. i - 1 : IsExitPoint(s[j], e)
    BY <1>1 DEF Reaches
  <2>2. j \in 1 .. i - 1
    OBVIOUS
  <2> QED
    BY <2>1, <2>2
<1>2. ASSUME e.kind \in {"from", "throw"}
      PROVE  \E j \in 1 .. i - 1 : /\ IsExitPoint(t[j], e) /\ t[j].value = e.value
                                   /\ \A k \in j + 1 .. i - 1 : ~IsExitPoint(t[k], e)
  <2>1. PICK j \in 1 .. i - 1 : /\ IsExitPoint(s[j], e) /\ s[j].value = e.value
                                /\ \A k \in j + 1 .. i - 1 : ~IsExitPoint(s[k], e)
    BY <1>2 DEF Reaches
  <2>2. \A k \in j + 1 .. i - 1 : k \in 1 .. i - 1
    OBVIOUS
  <2> QED
    BY <2>1, <2>2
<1> QED
  BY <1>1, <1>2 DEF Reaches

LEMMA FitsBelow ==
  ASSUME NEW f, NEW s, NEW t, NEW i \in Nat, NEW r, NEW x,
         \A j \in 1 .. i - 1 : t[j] = s[j], Fits(f, s, i, r, x)
  PROVE  Fits(f, t, i, r, x)
BY ReachesBelow DEF Fits

LEMMA PopNest ==
  ASSUME NEW s \in Seq(Frames), s # <<>>, NEW b, NEW c, Nest(s, b, c), NEW t, t = Front(s)
  PROVE  Nest(t, b, c)
<1>1. /\ Len(s) \in Nat /\ Len(t) = Len(s) - 1
      /\ \A i \in 1 .. Len(s) - 1 : t[i] = s[i]
  BY FrontIs
<1>2. Chain("return", t, b) /\ Chain("error", t, c)
  BY <1>1 DEF Nest, Chain
<1>3. ASSUME NEW i \in 1..Len(t)
      PROVE  Fits(t[i], t, i, b[i], c[i])
  <2>1. i \in Nat /\ i \in 1..Len(s) /\ t[i] = s[i]
    BY <1>1
  <2>2. \A j \in 1 .. i - 1 : t[j] = s[j]
    BY <1>1
  <2> QED
    BY <2>1, <2>2, FitsBelow DEF Nest
<1> QED
  BY <1>2, <1>3 DEF Nest

(* A primitive is entered: its frame fits, and its flags show nothing it hides. *)
LEMMA PushConsistent ==
  ASSUME NEW s \in Seq(Frames), NEW fr \in Frames, NEW b, NEW c, Nest(s, b, c),
         Fits(fr, s, Len(s) + 1, b[Len(s) + 1], c[Len(s) + 1]),
         NEW t, t = Append(s, fr), NEW g, Carries(g, None),
         Shown(g.break, g.breakValue, IF fr.kind = "loop" THEN None
                                      ELSE Seen("return", fr.exit, b[Len(s) + 1])),
         Shown(g.cond, g.slot, IF fr.kind \in {"handler", "toplevel"} THEN None
                               ELSE Seen("error", fr.exit, c[Len(s) + 1]))
  PROVE  Consistent(t, g, None)
<1> DEFINE n == Len(s)
           sb == IF fr.kind = "loop" THEN None ELSE Seen("return", fr.exit, b[n + 1])
           sc == IF fr.kind \in {"handler", "toplevel"} THEN None
                 ELSE Seen("error", fr.exit, c[n + 1])
           b2 == [i \in Nat |-> IF i = n + 2 THEN sb ELSE b[i]]
           c2 == [i \in Nat |-> IF i = n + 2 THEN sc ELSE c[i]]
<1>1. /\ n \in Nat /\ Len(t) = n + 1 /\ t[n + 1] = fr
      /\ \A i \in 1..n : t[i] = s[i]
  OBVIOUS
<1>2. /\ Hides("return") = {"loop"} /\ Hides("error") = {"handler", "toplevel"}
  BY DEF Hides
<1>3. /\ \A i \in 1 .. n + 1 : b2[i] = b[i] /\ c2[i] = c[i]
      /\ b2[n + 2] = sb /\ c2[n + 2] = sc
  BY <1>1
<1> HIDE DEF b2, c2
<1>4. \A i \in 1 .. n + 1 : i \in 1..n \/ i = n + 1
  BY <1>1
<1>5. Chain("return", t, b2)
  <2>1. b2[1] = None
    BY <1>1, <1>3 DEF Nest, Chain
  <2>2. ASSUME NEW i \in 1..n
        PROVE  b2[i + 1] = IF t[i].kind \in Hides("return") THEN None
                           ELSE Seen("return", t[i].exit, b2[i])
    <3>1. i \in 1 .. n + 1 /\ i + 1 \in 1 .. n + 1
      BY <1>1
    <3>2. b[i + 1] = IF s[i].kind \in Hides("return") THEN None
                     ELSE Seen("return", s[i].exit, b[i])
      BY DEF Nest, Chain
    <3> QED
      BY <1>1, <1>3, <3>1, <3>2
  <2>3. b2[(n + 1) + 1] = IF t[n + 1].kind \in Hides("return") THEN None
                          ELSE Seen("return", t[n + 1].exit, b2[n + 1])
    <3>1. (n + 1) + 1 = n + 2 /\ n + 1 \in 1 .. n + 1
      BY <1>1
    <3> QED
      BY <1>1, <1>2, <1>3, <3>1
  <2> QED
    BY <1>1, <1>4, <2>1, <2>2, <2>3 DEF Chain
<1>6. Chain("error", t, c2)
  <2>1. c2[1] = None
    BY <1>1, <1>3 DEF Nest, Chain
  <2>2. ASSUME NEW i \in 1..n
        PROVE  c2[i + 1] = IF t[i].kind \in Hides("error") THEN None
                           ELSE Seen("error", t[i].exit, c2[i])
    <3>1. i \in 1 .. n + 1 /\ i + 1 \in 1 .. n + 1
      BY <1>1
    <3>2. c[i + 1] = IF s[i].kind \in Hides("error") THEN None
                     ELSE Seen("error", s[i].exit, c[i])
      BY DEF Nest, Chain
    <3> QED
      BY <1>1, <1>3, <3>1, <3>2
  <2>3. c2[(n + 1) + 1] = IF t[n + 1].kind \in Hides("error") THEN None
                          ELSE Seen("error", t[n + 1].exit, c2[n + 1])
    <3>1. (n + 1) + 1 = n + 2 /\ n + 1 \in 1 .. n + 1
      BY <1>1
    <3> QED
      BY <1>1, <1>2, <1>3, <3>1
  <2> QED
    BY <1>1, <1>4, <2>1, <2>2, <2>3 DEF Chain
<1>7. ASSUME NEW i \in 1..Len(t)
      PROVE  Fits(t[i], t, i, b2[i], c2[i])
  <2>0. i \in Nat /\ i \in 1 .. n + 1 /\ b2[i] = b[i] /\ c2[i] = c[i]
    BY <1>1, <1>3
  <2>1. \A j \in 1 .. i - 1 : t[j] = s[j]
    BY <1>1
  <2>2. Fits(t[i], s, i, b[i], c[i])
    BY <1>1, <1>4, <2>0 DEF Nest
  <2>3. Fits(t[i], t, i, b[i], c[i])
    BY <2>0, <2>1, <2>2, FitsBelow
  <2> QED
    BY <2>0, <2>3
<1>8. Nest(t, b2, c2)
  BY <1>5, <1>6, <1>7 DEF Nest
<1>9. Len(t) + 1 = n + 2
  BY <1>1
<1>10. b2[Len(t) + 1] = sb /\ c2[Len(t) + 1] = sc
  BY <1>3, <1>9
<1>11. \A x, old : Seen(x, None, old) = old
  BY DEF Seen
<1>12. Now(t, g, None, b2, c2)
  BY <1>10, <1>11 DEF Now
<1> QED
  BY <1>8, <1>12 DEF Consistent

(* What the invariant says of the innermost frame. *)
LEMMA TopIs ==
  ASSUME NEW s \in Seq(Frames), s # <<>>, NEW b, NEW c, Nest(s, b, c),
         NEW n, n = Len(s), NEW top, top = s[n]
  PROVE  /\ Fits(top, s, n, b[n], c[n])
         /\ b[n + 1] = IF top.kind = "loop" THEN None ELSE Seen("return", top.exit, b[n])
         /\ c[n + 1] = IF top.kind \in {"handler", "toplevel"} THEN None
                       ELSE Seen("error", top.exit, c[n])
<1>1. n \in 1..Len(s)
  BY FrontIs
<1>2. Hides("return") = {"loop"} /\ Hides("error") = {"handler", "toplevel"}
  BY DEF Hides
<1> QED
  BY <1>1, <1>2 DEF Nest, Chain

(* An exit that is not for the innermost frame goes further. *)
LEMMA PopReaches ==
  ASSUME NEW s \in Seq(Frames), s # <<>>, NEW b, NEW c, Nest(s, b, c),
         NEW n, n = Len(s), NEW d, Reaches(s, n + 1, d), ~IsExitPoint(s[n], d)
  PROVE  Reaches(s, n, d)
<1>1. n \in Nat /\ n >= 1 /\ n \in 1..Len(s)
  BY FrontIs
<1>2. n + 1 - 1 = n
  BY <1>1
<1>3. \A j \in 1..n : IsExitPoint(s[j], d) => j \in 1 .. n - 1
  BY <1>1
<1>4. ASSUME NEW k \in 1 .. n - 1, s[k].kind = "cleanup"
      PROVE  \E j \in k + 1 .. n - 1 : IsExitPoint(s[j], d)
  <2>1. PICK j \in k + 1 .. n : IsExitPoint(s[j], d)
    BY <1>1, <1>2, <1>4 DEF Reaches
  <2>2. j \in k + 1 .. n - 1
    BY <1>1, <1>3, <2>1
  <2> QED
    BY <2>1, <2>2
<1>5. ASSUME d.kind \in {"from", "throw"}
      PROVE  \E j \in 1 .. n - 1 : /\ IsExitPoint(s[j], d) /\ s[j].value = d.value
                                   /\ \A k \in j + 1 .. n - 1 : ~IsExitPoint(s[k], d)
  <2>1. PICK j \in 1 .. n : /\ IsExitPoint(s[j], d) /\ s[j].value = d.value
                            /\ \A k \in j + 1 .. n : ~IsExitPoint(s[k], d)
    BY <1>1, <1>2, <1>5 DEF Reaches
  <2>2. j \in 1 .. n - 1 /\ \A k \in j + 1 .. n - 1 : k \in j + 1 .. n
    BY <1>1, <1>3, <2>1
  <2> QED
    BY <2>1, <2>2
<1>6. ASSUME d.kind = "error"
      PROVE  n > 1
  <2>1. Fits(s[n], s, n, b[n], c[n])
    BY <1>1 DEF Nest
  <2>2. n = 1 => IsExitPoint(s[n], d)
    BY <1>6, <2>1 DEF Fits, IsExitPoint
  <2> QED
    BY <1>1, <2>2
<1> QED
  BY <1>4, <1>5, <1>6 DEF Reaches

(* A frame is left. *)
LEMMA PopConsistent ==
  ASSUME NEW s \in Seq(Frames), s # <<>>, NEW b, NEW c, Nest(s, b, c),
         NEW n, n = Len(s), NEW t, t = Front(s), NEW g, NEW d,
         d # None => Reaches(s, n, d),
         Carries(g, d),
         d # None /\ d.kind = "return" => b[n] = None,
         Shown(g.break, g.breakValue, Seen("return", d, b[n])),
         n > 1 => Shown(g.cond, g.slot, Seen("error", d, c[n]))
  PROVE  Consistent(t, g, d)
<1>0. /\ Len(s) \in Nat /\ Len(s) >= 1 /\ Len(t) = Len(s) - 1
      /\ \A i \in 1 .. Len(s) - 1 : t[i] = s[i]
  BY FrontIs
<1>1. /\ n \in Nat /\ Len(t) + 1 = n /\ (Len(t) > 0 => n > 1)
      /\ \A i \in 1 .. n - 1 : t[i] = s[i]
  BY <1>0
<1>2. Nest(t, b, c)
  BY PopNest
<1>3. d # None => Reaches(t, n, d)
  BY <1>1, ReachesBelow
<1>4. Now(t, g, d, b, c)
  BY <1>1, <1>3 DEF Now
<1> QED
  BY <1>2, <1>4 DEF Consistent

(* An exit sets out: its value goes to the frame it is for, and no suspended
   exit looked for that frame. *)
LEMMA ValueNest ==
  ASSUME NEW s \in Seq(Frames), NEW t \in Seq(Frames), Len(t) = Len(s), NEW b, NEW c,
         Nest(s, b, c), NEW e, NEW i \in 1..Len(s), IsExitPoint(s[i], e),
         \A j \in 1..Len(s) : IsExitPoint(s[j], e) => j <= i,
         \A j \in 1..Len(s) :
           /\ t[j].kind = s[j].kind /\ t[j].name = s[j].name
           /\ t[j].saved = s[j].saved /\ t[j].exit = s[j].exit
           /\ j # i => t[j] = s[j],
         t[i].value = e.value, e.kind \in {"from", "throw"},
         \A k \in 1..Len(s) : s[k].kind = "cleanup" =>
                                \E j \in 1..Len(s) : IsExitPoint(s[j], e) /\ j > k
  PROVE  Nest(t, b, c) /\ Reaches(t, Len(t) + 1, e)
<1> DEFINE n == Len(s)
<1>0. n \in Nat /\ Len(t) = n /\ n + 1 - 1 = n
  OBVIOUS
<1> HIDE DEF n
<1>1. Chain("return", t, b) /\ Chain("error", t, c)
  BY <1>0 DEF Nest, Chain, n
<1>2. \A k \in 1..n : s[k].kind = "cleanup" => k < i
  BY <1>0 DEF n
<1>3. ASSUME NEW k \in 1..n
      PROVE  Fits(t[k], t, k, b[k], c[k])
  <2>1. Fits(t[k], s, k, b[k], c[k])
    BY DEF Nest, Fits, n
  <2>2. CASE k < i
    <3>1. \A j \in 1 .. k - 1 : j \in 1..n /\ j # i
      BY <1>0, <2>2
    <3>2. \A j \in 1 .. k - 1 : t[j] = s[j]
      BY <3>1 DEF n
    <3> QED
      BY <2>1, <3>2, FitsBelow
  <2>3. CASE ~(k < i)
    <3>1. t[k].kind # "cleanup"
      BY <1>2, <2>3 DEF n
    <3> QED
      BY <2>1, <3>1 DEF Fits
  <2> QED
    BY <2>2, <2>3
<1>4. \A j \in 1..n : IsExitPoint(t[j], e) <=> IsExitPoint(s[j], e)
  BY DEF IsExitPoint, n
<1>5. ASSUME NEW k \in 1..n, t[k].kind = "cleanup"
      PROVE  \E j \in k + 1 .. n : IsExitPoint(t[j], e)
  <2>1. PICK j \in 1..n : IsExitPoint(s[j], e) /\ j > k
    BY <1>5 DEF n
  <2>2. j \in k + 1 .. n
    BY <1>0, <2>1
  <2> QED
    BY <1>4, <2>1, <2>2
<1>6. \E j \in 1..n : /\ IsExitPoint(t[j], e) /\ t[j].value = e.value
                      /\ \A k \in j + 1 .. n : ~IsExitPoint(t[k], e)
  <2>1. i \in 1..n /\ IsExitPoint(t[i], e) /\ t[i].value = e.value
    BY <1>4 DEF n
  <2>2. ASSUME NEW k \in i + 1 .. n
        PROVE  ~IsExitPoint(t[k], e)
    <3>1. k \in 1..n /\ ~(k <= i)
      BY <1>0, <2>1
    <3> QED
      BY <1>4, <3>1 DEF n
  <2> QED
    BY <2>1, <2>2
<1>7. Nest(t, b, c)
  BY <1>0, <1>1, <1>3 DEF Nest
<1>8. n > 0
  BY <1>0 DEF n
<1>9. Reaches(t, n + 1, e)
  BY <1>0, <1>5, <1>6, <1>8 DEF Reaches
<1> QED
  BY <1>0, <1>7, <1>9

(* An exit sets out that puts its value in the flags. *)
LEMMA StartReaches ==
  ASSUME NEW s \in Seq(Frames), s # <<>>, NEW e, e.kind \in {"return", "error"},
         \A k \in 1..Len(s) : s[k].kind = "cleanup" =>
                                \E j \in 1..Len(s) : IsExitPoint(s[j], e) /\ j > k
  PROVE  Reaches(s, Len(s) + 1, e)
<1> DEFINE n == Len(s)
<1>1. n \in Nat /\ n >= 1 /\ n + 1 - 1 = n
  BY FrontIs
<1> HIDE DEF n
<1>2. ASSUME NEW k \in 1..n, s[k].kind = "cleanup"
      PROVE  \E j \in k + 1 .. n : IsExitPoint(s[j], e)
  <2>1. PICK j \in 1..n : IsExitPoint(s[j], e) /\ j > k
    BY <1>2 DEF n
  <2>2. j \in k + 1 .. n
    BY <1>1, <2>1
  <2> QED
    BY <2>1, <2>2
<1>3. n + 1 > 1
  BY <1>1
<1> QED
  BY <1>1, <1>2, <1>3 DEF Reaches, n

(* An innermost frame looks at the flags, and takes the exit when it is an exit
   point for it; the value it takes is the one the exit set out with.  Only a
   block named NIL may take an exit for which it is none. *)
Recognises(top, f, e) ==
  /\ top.kind = "block" =>
       /\ f.abort /\ f.target = top.name <=>
            e # None /\ e.kind = "from" /\ e.name = top.name
       /\ e # None /\ e.kind = "return" /\ top.name = Nil =>
            f.abort /\ top.name = Nil /\ f.break
  /\ top.kind = "loop" => (f.break <=> e # None /\ e.kind = "return")
  /\ top.kind = "catch" =>
       (f.abort /\ f.throw /\ f.throwTag = top.name <=>
          e # None /\ e.kind = "throw" /\ e.name = top.name)
  /\ top.kind \in {"handler", "toplevel"} =>
       (f.cond <=> e # None /\ e.kind = "error")
  /\ e # None /\ e.kind \in {"from", "throw"} /\ IsExitPoint(top, e) =>
       top.value = e.value
  /\ e # None /\ e.kind = "return" => f.breakValue = e.value
  /\ e # None /\ e.kind = "error" => f.slot = e.value

LEMMA Recognised ==
  ASSUME NEW s \in Seq(Frames), s # <<>>, NEW f, NEW e \in Exits \cup {None}, NEW b, NEW c,
         Nest(s, b, c), Now(s, f, e, b, c), NEW top, top = s[Len(s)]
  PROVE  Recognises(top, f, e)
<1> DEFINE n == Len(s)
<1>0. n \in Nat /\ n >= 1 /\ n \in 1..Len(s) /\ s[n] \in Frames /\ n + 1 - 1 = n
  <2>1. n \in Nat /\ n >= 1 /\ n \in 1..Len(s) /\ s[n] \in Frames
    BY FrontIs
  <2> QED
    BY <2>1
<1>1. top.name \in Names \cup Tags
  BY <1>0 DEF Frames
<1>2. /\ Fits(top, s, n, b[n], c[n])
      /\ b[n + 1] = IF top.kind = "loop" THEN None ELSE Seen("return", top.exit, b[n])
      /\ c[n + 1] = IF top.kind \in {"handler", "toplevel"} THEN None
                    ELSE Seen("error", top.exit, c[n])
  BY TopIs
<1>3. Carries(f, e) /\ (e # None => Reaches(s, n + 1, e))
  BY DEF Now
<1>4. Shown(f.break, f.breakValue, Seen("return", e, b[n + 1]))
      /\ Shown(f.cond, f.slot, Seen("error", e, c[n + 1]))
  BY <1>0 DEF Now
<1> HIDE DEF n
<1>5. top.kind = "block" => (f.abort /\ f.target = top.name <=>
                               e # None /\ e.kind = "from" /\ e.name = top.name)
  BY <1>1, <1>3, ExitAssumption DEF Carries
<1>6. top.kind = "block" /\ e # None /\ e.kind = "return" => f.abort /\ f.break
  BY <1>3, <1>4 DEF Carries, Shown, Seen
<1>7. top.kind = "loop" => (f.break <=> e # None /\ e.kind = "return")
  BY <1>2, <1>4 DEF Shown, Seen
<1>8. top.kind = "catch" => (f.abort /\ f.throw /\ f.throwTag = top.name <=>
                               e # None /\ e.kind = "throw" /\ e.name = top.name)
  BY <1>1, <1>3, ExitAssumption DEF Carries
<1>9. top.kind \in {"handler", "toplevel"} => (f.cond <=> e # None /\ e.kind = "error")
  BY <1>2, <1>4 DEF Shown, Seen
<1>10. ASSUME e # None, e.kind \in {"from", "throw"}, IsExitPoint(top, e)
       PROVE  top.value = e.value
  <2>1. PICK j \in 1 .. n : /\ IsExitPoint(s[j], e) /\ s[j].value = e.value
                            /\ \A k \in j + 1 .. n : ~IsExitPoint(s[k], e)
    BY <1>0, <1>3, <1>10 DEF Reaches
  <2>2. top = s[n]
    BY DEF n
  <2>3. j = n
    BY <1>0, <1>10, <2>1, <2>2
  <2> QED
    BY <2>1, <2>2, <2>3
<1>11. e # None /\ e.kind = "return" => f.breakValue = e.value
  BY <1>4 DEF Shown, Seen
<1>12. e # None /\ e.kind = "error" => f.slot = e.value
  BY <1>4 DEF Shown, Seen
<1> QED
  BY <1>5, <1>6, <1>7, <1>8, <1>9, <1>10, <1>11, <1>12 DEF Recognises
-----------------------------------------------------------------------------
(* Steps *)
LEMMA NoneUnderWay ==
  ASSUME NEW f, NEW e, Carries(f, e), ~f.abort
  PROVE  e = None
BY DEF Carries

LEMMA EnterKeeps ==
  ASSUME Sound, NEW kind \in Kinds \ {"toplevel", "cleanup"}, NEW name \in Names \cup Tags,
         NEW saved \in Flags, NEW g \in Flags, Enter(kind, name, saved, g),
         ~flags.abort, kind = "protect" => name = Nil,
         g.abort = flags.abort, g.target = flags.target,
         g.throw = flags.throw, g.throwTag = flags.throwTag,
         IF kind = "loop" THEN /\ saved.break = flags.break
                               /\ saved.breakValue = flags.breakValue /\ ~g.break
                          ELSE g.break = flags.break /\ g.breakValue = flags.breakValue,
         IF kind = "handler" THEN saved.cond = flags.cond /\ saved.slot = flags.slot /\ ~g.cond
                             ELSE g.cond = flags.cond /\ g.slot = flags.slot
  PROVE  Consistent(stack, flags, exit)'
<1>1. PICK b, c : Nest(stack, b, c) /\ Now(stack, flags, exit, b, c)
  BY DEF Sound, Consistent
<1> DEFINE n == Len(stack)
           fr == Frame(kind, name, saved)
<1>2. /\ stack \in Seq(Frames) /\ stack # <<>>
      /\ stack' = Append(stack, fr) /\ flags' = g /\ exit' = exit
  BY DEF Sound, ExitTypeOK, Enter, Running
<1>3. n \in Nat /\ n > 0 /\ n + 1 # 1
  BY <1>2, FrontIs
<1>4. fr \in Frames /\ fr.kind = kind /\ fr.name = name /\ fr.saved = saved /\ fr.exit = None
  BY FrameIs
<1> HIDE DEF fr
<1>5. exit = None
  BY <1>1, <1>2, NoneUnderWay DEF Now
<1>6. /\ Carries(flags, None)
      /\ Shown(flags.break, flags.breakValue, b[n + 1])
      /\ Shown(flags.cond, flags.slot, c[n + 1])
  BY <1>1, <1>3, <1>5 DEF Now, Seen
<1> HIDE DEF n
<1>7. Fits(fr, stack, n + 1, b[n + 1], c[n + 1])
  BY <1>3, <1>4, <1>6 DEF Fits, Shown
<1>8. Carries(g, None)
  BY <1>6 DEF Carries
<1>9. /\ Shown(g.break, g.breakValue, IF fr.kind = "loop" THEN None
                                      ELSE Seen("return", fr.exit, b[n + 1]))
      /\ Shown(g.cond, g.slot, IF fr.kind \in {"handler", "toplevel"} THEN None
                               ELSE Seen("error", fr.exit, c[n + 1]))
  BY <1>4, <1>6 DEF Shown, Seen
<1>10. \A t : t = Append(stack, fr) => Consistent(t, g, None)
  BY <1>1, <1>2, <1>4, <1>7, <1>8, <1>9, PushConsistent DEF n
<1> QED
  BY <1>2, <1>5, <1>10

LEMMA EnterToplevelKeeps ==
  ASSUME ExitTypeOK, EnterToplevel
  PROVE  Consistent(stack, flags, exit)'
<1> DEFINE fr == Frame("toplevel", Nil, CondFrom(Quiescent, flags))
           g == [Quiescent EXCEPT !.slot = flags.slot]
           b == [i \in {1} |-> None]
<1>1. stack = <<>> /\ stack' = <<fr>> /\ flags' = g /\ exit' = None
  BY DEF EnterToplevel
<1>2. CondFrom(Quiescent, flags) \in Flags
  BY QuiescentIs, CondFromIs DEF ExitTypeOK
<1>3. fr \in Frames /\ fr.kind = "toplevel" /\ fr.exit = None
  BY <1>2, FrameIs, ExitAssumption DEF Kinds
<1>4. ~g.abort /\ g.target = NoTarget /\ ~g.throw /\ g.throwTag = NoTarget
      /\ ~g.break /\ ~g.cond
  BY QuiescentIs DEF Flags
<1>5. b[1] = None
  OBVIOUS
<1> HIDE DEF fr, g, b
<1>6. Len(stack) = 0 /\ Len(stack) + 1 = 1 /\ stack \in Seq(Frames) /\ Append(stack, fr) = <<fr>>
  BY <1>1
<1>7. Nest(stack, b, b)
  BY <1>5, <1>6 DEF Nest, Chain
<1>8. Fits(fr, stack, 1, b[1], b[1])
  BY <1>3 DEF Fits
<1>9. Carries(g, None)
  BY <1>4 DEF Carries
<1>10. /\ Shown(g.break, g.breakValue, IF fr.kind = "loop" THEN None
                                       ELSE Seen("return", fr.exit, b[1]))
       /\ Shown(g.cond, g.slot, IF fr.kind \in {"handler", "toplevel"} THEN None
                                ELSE Seen("error", fr.exit, b[1]))
  BY <1>3, <1>4, <1>5 DEF Shown, Seen
<1>11. \A t : t = Append(stack, fr) => Consistent(t, g, None)
  BY <1>3, <1>6, <1>7, <1>8, <1>9, <1>10, PushConsistent
<1> QED
  BY <1>1, <1>6, <1>11

(* An exit that does not go astray stays inside the cleanup it starts in. *)
LEMMA StaysInside ==
  ASSUME ExitTypeOK, NEW e, ~Escapes(e)
  PROVE  \A k \in 1..Len(stack) : stack[k].kind = "cleanup" =>
           \E j \in 1..Len(stack) : IsExitPoint(stack[j], e) /\ j > k
<1>1. DOMAIN stack = 1..Len(stack) /\ Len(stack) \in Nat
  BY DEF ExitTypeOK
<1>2. ExitPoints(e) \subseteq 1..Len(stack)
  BY <1>1 DEF ExitPoints
<1>3. \A j, k \in 1..Len(stack) : ~(j <= k) => j > k
  BY <1>1
<1> QED
  BY <1>1, <1>2, <1>3 DEF Escapes, ExitPoints

(* Compiled code sees the exit under way, unless it has gone on from a conversion. *)
LEMMA AsksIs ==
  ASSUME NEW e, Asks(e), ~astray'
  PROVE  ~astray /\ ~flags.abort /\ ~Escapes(e) /\ ~Overwrites(e)
         /\ exit' = e /\ delivered' = delivered
BY DEF Asks

LEMMA StartKeeps ==
  ASSUME Sound, Running, NEW e, e # None, e.kind \in {"return", "error"},
         Asks(e), ~astray', NEW g, g = flags', stack' = stack,
         g.abort, g.target = flags.target, g.throw = flags.throw, g.throwTag = flags.throwTag,
         IF e.kind = "return" THEN g.break /\ g.breakValue = e.value
                              ELSE g.break = flags.break /\ g.breakValue = flags.breakValue,
         IF e.kind = "error" THEN g.cond /\ g.slot = e.value
                             ELSE g.cond = flags.cond /\ g.slot = flags.slot
  PROVE  Consistent(stack, flags, exit)'
<1>1. PICK b, c : Nest(stack, b, c) /\ Now(stack, flags, exit, b, c)
  BY DEF Sound, Consistent
<1>2. /\ stack \in Seq(Frames) /\ stack # <<>> /\ Len(stack) > 0
      /\ ~flags.abort /\ ~Escapes(e) /\ ~Overwrites(e) /\ exit' = e
  BY AsksIs, FrontIs DEF Sound, ExitTypeOK, Running
<1>3. exit = None
  BY <1>1, <1>2, NoneUnderWay DEF Now
<1>4. Reaches(stack, Len(stack) + 1, e)
  BY <1>2, StaysInside, StartReaches DEF Sound
<1>5. Carries(g, e)
  BY <1>1, <1>3 DEF Now, Carries
<1>6. /\ Shown(g.break, g.breakValue, Seen("return", e, b[Len(stack) + 1]))
      /\ Shown(g.cond, g.slot, Seen("error", e, c[Len(stack) + 1]))
  BY <1>1, <1>2, <1>3 DEF Now, Shown, Seen
<1>7. e.kind = "return" => b[Len(stack) + 1] = None
  BY <1>1, <1>2, <1>3 DEF Now, Shown, Seen, Overwrites
<1>8. Now(stack, g, e, b, c)
  BY <1>4, <1>5, <1>6, <1>7 DEF Now
<1>9. Consistent(stack, g, e)
  BY <1>1, <1>8 DEF Consistent
<1> QED
  BY <1>2, <1>9

LEMMA TransferKeeps ==
  ASSUME Sound, NEW e \in Exits, e # None, e.kind \in {"from", "throw"},
         NEW g, Transfer(e, g), ~astray', g.abort, g.break = flags.break, g.breakValue = flags.breakValue,
         g.cond = flags.cond, g.slot = flags.slot,
         IF e.kind = "from" THEN g.target = e.name ELSE g.target = flags.target,
         IF e.kind = "throw" THEN g.throw /\ g.throwTag = e.name
                             ELSE g.throw = flags.throw /\ g.throwTag = flags.throwTag
  PROVE  Consistent(stack, flags, exit)'
<1>1. PICK b, c : Nest(stack, b, c) /\ Now(stack, flags, exit, b, c)
  BY DEF Sound, Consistent
<1> DEFINE t == stack'
<1>2. /\ stack \in Seq(Frames) /\ stack # <<>> /\ Len(stack) > 0 /\ flags' = g
      /\ ExitPoints(e) # {} /\ WithValue(t, stack, Innermost(ExitPoints(e)), e.value)
      /\ ~flags.abort /\ ~Escapes(e) /\ exit' = e
  BY AsksIs, FrontIs DEF Sound, ExitTypeOK, Running, Transfer, WithValue
<1> HIDE DEF t
<1>3. exit = None
  BY <1>1, <1>2, NoneUnderWay DEF Now
<1>4. e.value \in Values
  BY DEF Exits
<1> DEFINE i == Innermost(ExitPoints(e))
<1>5. WithValue(t, stack, i, e.value)
  BY <1>2
<1> HIDE DEF i
<1>6. /\ t \in Seq(Frames) /\ Len(t) = Len(stack)
      /\ i \in 1..Len(stack) /\ IsExitPoint(stack[i], e)
      /\ \A j \in 1..Len(stack) : IsExitPoint(stack[j], e) => j <= i
      /\ \A j \in 1..Len(stack) :
           /\ t[j].kind = stack[j].kind /\ t[j].name = stack[j].name
           /\ t[j].saved = stack[j].saved /\ t[j].exit = stack[j].exit
           /\ j # i => t[j] = stack[j]
      /\ t[i].value = e.value
  BY <1>2, <1>4, <1>5, ValuePut DEF Sound, i
<1>7. Nest(t, b, c) /\ Reaches(t, Len(t) + 1, e)
  BY <1>1, <1>2, <1>6, StaysInside, ValueNest DEF Sound
<1>8. Carries(g, e)
  BY <1>1, <1>3 DEF Now, Carries
<1>9. /\ Shown(g.break, g.breakValue, Seen("return", e, b[Len(t) + 1]))
      /\ Shown(g.cond, g.slot, Seen("error", e, c[Len(t) + 1]))
  BY <1>1, <1>2, <1>3, <1>6 DEF Now, Shown, Seen
<1>10. Now(t, g, e, b, c)
  BY <1>7, <1>8, <1>9 DEF Now
<1>11. Consistent(t, g, e)
  BY <1>7, <1>10 DEF Consistent
<1> QED
  BY <1>2, <1>11 DEF t

(* A primitive other than unwind-protect is left: it ends the exit that is for
   it, puts back what it saved, and leaves the other flags alone. *)
LEMMA LeaveKeeps ==
  ASSUME Sound, stack # <<>>, NEW top, top = Top, top.kind \notin {"protect", "cleanup"},
         NEW e, e = exit, NEW f, f = flags, NEW g, g = flags', NEW d, d = exit', stack' = Rest,
         d = IF e # None /\ IsExitPoint(top, e) THEN None ELSE e,
         Carries(g, d),
         IF top.kind = "loop"
         THEN g.break = top.saved.break /\ g.breakValue = top.saved.breakValue
         ELSE IF d # e /\ e.kind = "return" THEN ~g.break
              ELSE g.break = f.break /\ g.breakValue = f.breakValue,
         IF top.kind \in {"handler", "toplevel"}
         THEN g.cond = top.saved.cond /\ g.slot = top.saved.slot
         ELSE g.cond = f.cond /\ g.slot = f.slot
  PROVE  Consistent(stack, flags, exit)'
<1>1. PICK b, c : Nest(stack, b, c) /\ Now(stack, f, e, b, c)
  BY DEF Sound, Consistent
<1> DEFINE n == Len(stack)
<1>2. stack \in Seq(Frames) /\ top = stack[n] /\ stack' = Front(stack)
  BY FrontIs DEF Sound, ExitTypeOK, Top, Rest
<1>3. /\ Fits(top, stack, n, b[n], c[n])
      /\ b[n + 1] = IF top.kind = "loop" THEN None ELSE Seen("return", top.exit, b[n])
      /\ c[n + 1] = IF top.kind \in {"handler", "toplevel"} THEN None
                    ELSE Seen("error", top.exit, c[n])
  BY <1>1, <1>2, TopIs
<1>4. /\ e # None => Reaches(stack, n + 1, e)
      /\ e # None /\ e.kind = "return" => b[n + 1] = None
      /\ Shown(f.break, f.breakValue, Seen("return", e, b[n + 1]))
      /\ Shown(f.cond, f.slot, Seen("error", e, c[n + 1]))
  <2>1. n > 0
    BY <1>2, FrontIs
  <2> QED
    BY <1>1, <2>1 DEF Now
<1>5. d # None => Reaches(stack, n, d)
  BY <1>1, <1>2, <1>4, PopReaches
<1> HIDE DEF n
<1>6. top.exit = None
  BY <1>3 DEF Fits
<1>7. Shown(g.break, g.breakValue, Seen("return", d, b[n]))
  BY <1>3, <1>4, <1>6 DEF Fits, Shown, Seen, IsExitPoint
<1>8. n # 1 => Shown(g.cond, g.slot, Seen("error", d, c[n]))
  BY <1>3, <1>4, <1>6 DEF Fits, Shown, Seen, IsExitPoint
<1>9. d # None /\ d.kind = "return" => b[n] = None
  BY <1>3, <1>4, <1>6 DEF Seen, IsExitPoint
<1>10. \A t : t = Front(stack) => Consistent(t, g, d)
  <2>1. n > 1 => n # 1
    BY FrontIs, <1>2 DEF n
  <2> QED
    BY <1>1, <1>2, <1>5, <1>7, <1>8, <1>9, <2>1, PopConsistent DEF n
<1> QED
  BY <1>2, <1>10

LEMMA RecognisedNow ==
  ASSUME Sound, stack # <<>>, NEW top, top = Top
  PROVE  Recognises(top, flags, exit)
<1>1. PICK b, c : Nest(stack, b, c) /\ Now(stack, flags, exit, b, c)
  BY DEF Sound, Consistent
<1>2. /\ stack \in Seq(Frames) /\ exit \in Exits \cup {None} /\ top = stack[Len(stack)]
  BY TopTypes DEF Sound, ExitTypeOK
<1> QED
  BY <1>1, <1>2, Recognised

(* The exit that arrives at a frame is the one meant for it, with the value it
   set out with. *)
Leaves ==
  /\ stack # <<>> /\ Top.kind \notin {"protect", "cleanup"}
  /\ stack' = Rest
  /\ IF exit # None /\ IsExitPoint(Top, exit)
     THEN exit' = None /\ delivered' = exit.value
     ELSE UNCHANGED <<exit, delivered>>

LEMMA LeaveBlockKeeps ==
  ASSUME Sound, LeaveBlock, ~astray'
  PROVE  Leaves /\ Consistent(stack, flags, exit)'
<1>1. PICK b, c : Nest(stack, b, c) /\ Now(stack, flags, exit, b, c)
  BY DEF Sound, Consistent
<1>2. /\ stack # <<>> /\ stack \in Seq(Frames) /\ flags \in Flags /\ exit \in Exits \cup {None}
      /\ Top = stack[Len(stack)] /\ Top.kind = "block"
  BY TopTypes DEF LeaveBlock, In, Sound, ExitTypeOK
<1>3. /\ ForBlock <=> exit # None /\ exit.kind = "from" /\ exit.name = Top.name
      /\ exit # None /\ exit.kind = "return" /\ Top.name = Nil => ForNilBlock
      /\ exit # None /\ exit.kind = "from" /\ IsExitPoint(Top, exit) => Top.value = exit.value
      /\ exit # None /\ exit.kind = "return" => flags.breakValue = exit.value
  BY <1>2, RecognisedNow DEF Recognises, ForBlock, ForNilBlock
<1>4. ~ForBlock /\ ForNilBlock => exit # None /\ exit.kind = "return" /\ Top.name = Nil
  <2>1. ~Mistakes
    BY DEF LeaveBlock, Consume, PassOn, Pop
  <2> QED
    BY <1>2, <2>1 DEF Mistakes, In, Asked, ForNilBlock
<1>5. IsExitPoint(Top, exit) <=> \/ exit.kind = "from" /\ Top.name = exit.name
                                 \/ exit.kind = "return" /\ Top.name = Nil
  BY <1>2 DEF IsExitPoint
<1>6. stack' = Rest
  BY DEF LeaveBlock, Consume, PassOn, Pop
<1>7. /\ ForBlock => /\ flags' = [[flags EXCEPT !.target = NoTarget] EXCEPT !.abort = FALSE]
                     /\ exit' = None /\ delivered' = Top.value
      /\ ~ForBlock /\ ForNilBlock =>
           /\ flags' = [[flags EXCEPT !.break = FALSE] EXCEPT !.abort = FALSE]
           /\ exit' = None /\ delivered' = flags.breakValue
      /\ ~ForBlock /\ ~ForNilBlock =>
           flags' = flags /\ exit' = exit /\ delivered' = delivered
  BY DEF LeaveBlock, Consume, PassOn
<1>8. Leaves
  BY <1>2, <1>3, <1>4, <1>5, <1>6, <1>7 DEF Leaves
<1>9. exit' = IF exit # None /\ IsExitPoint(Top, exit) THEN None ELSE exit
  BY <1>8 DEF Leaves
<1>10. Carries(flags, exit)
  BY <1>1 DEF Now
<1>11. /\ Carries(flags', exit') /\ flags'.cond = flags.cond /\ flags'.slot = flags.slot
       /\ IF exit' # exit /\ exit.kind = "return" THEN ~flags'.break
          ELSE flags'.break = flags.break /\ flags'.breakValue = flags.breakValue
  <2>1. CASE ForBlock
    BY <1>2, <1>3, <1>7, <1>10, <2>1 DEF Carries, Flags
  <2>2. CASE ~ForBlock /\ ForNilBlock
    BY <1>2, <1>3, <1>4, <1>7, <1>10, <2>2 DEF Carries, Flags
  <2>3. CASE ~ForBlock /\ ~ForNilBlock
    BY <1>7, <1>10, <2>3
  <2> QED
    BY <2>1, <2>2, <2>3
<1> QED
  BY <1>2, <1>6, <1>8, <1>9, <1>11, LeaveKeeps
LEMMA LeaveLoopKeeps ==
  ASSUME Sound, LeaveLoop
  PROVE  Leaves /\ Consistent(stack, flags, exit)'
<1>1. /\ stack # <<>> /\ Top.kind = "loop" /\ flags \in Flags /\ Top.saved \in Flags
      /\ exit \in Exits \cup {None} /\ Carries(flags, exit)
  BY TopTypes DEF LeaveLoop, In, Sound, ExitTypeOK, Consistent, Now
<1>2. /\ flags.break <=> exit # None /\ exit.kind = "return"
      /\ exit # None /\ exit.kind = "return" => flags.breakValue = exit.value
  BY <1>1, RecognisedNow DEF Recognises
<1>3. IsExitPoint(Top, exit) <=> exit.kind = "return"
  BY <1>1 DEF IsExitPoint
<1> DEFINE r == BreakFrom(flags, Top.saved)
<1>4. /\ r \in Flags /\ r.abort = flags.abort /\ r.target = flags.target
      /\ r.throw = flags.throw /\ r.throwTag = flags.throwTag
      /\ r.break = Top.saved.break /\ r.breakValue = Top.saved.breakValue
      /\ r.cond = flags.cond /\ r.slot = flags.slot
  BY <1>1, BreakFromIs
<1>5. /\ stack' = Rest
      /\ flags.break => /\ flags' = [r EXCEPT !.abort = FALSE]
                        /\ exit' = None /\ delivered' = flags.breakValue
      /\ ~flags.break => flags' = r /\ exit' = exit /\ delivered' = delivered
  BY DEF LeaveLoop, Consume, PassOn, Pop
<1> HIDE DEF r
<1>6. Leaves
  BY <1>1, <1>2, <1>3, <1>5 DEF Leaves
<1>7. exit' = IF exit # None /\ IsExitPoint(Top, exit) THEN None ELSE exit
  BY <1>6 DEF Leaves
<1>8. /\ Carries(flags', exit') /\ flags'.cond = flags.cond /\ flags'.slot = flags.slot
      /\ flags'.break = Top.saved.break /\ flags'.breakValue = Top.saved.breakValue
  <2>1. CASE flags.break
    BY <1>1, <1>2, <1>4, <1>5, <2>1 DEF Carries, Flags
  <2>2. CASE ~flags.break
    BY <1>1, <1>4, <1>5, <2>2 DEF Carries
  <2> QED
    BY <2>1, <2>2
<1> QED
  BY <1>1, <1>5, <1>6, <1>7, <1>8, LeaveKeeps

LEMMA LeaveCatchKeeps ==
  ASSUME Sound, LeaveCatch
  PROVE  Leaves /\ Consistent(stack, flags, exit)'
<1>1. /\ stack # <<>> /\ Top.kind = "catch" /\ flags \in Flags
      /\ exit \in Exits \cup {None} /\ Carries(flags, exit)
  BY DEF LeaveCatch, In, Sound, ExitTypeOK, Consistent, Now
<1>2. /\ ForCatch <=> exit # None /\ exit.kind = "throw" /\ exit.name = Top.name
      /\ exit # None /\ exit.kind = "throw" /\ IsExitPoint(Top, exit) => Top.value = exit.value
  BY <1>1, RecognisedNow DEF Recognises, ForCatch
<1>3. IsExitPoint(Top, exit) <=> exit.kind = "throw" /\ Top.name = exit.name
  BY <1>1 DEF IsExitPoint
<1>4. /\ stack' = Rest
      /\ ForCatch =>
           /\ flags' = [[flags EXCEPT !.throw = FALSE, !.throwTag = NoTarget] EXCEPT !.abort = FALSE]
           /\ exit' = None /\ delivered' = Top.value
      /\ ~ForCatch => flags' = flags /\ exit' = exit /\ delivered' = delivered
  BY DEF LeaveCatch, Consume, PassOn, Pop
<1>5. Leaves
  BY <1>1, <1>2, <1>3, <1>4 DEF Leaves
<1>6. exit' = IF exit # None /\ IsExitPoint(Top, exit) THEN None ELSE exit
  BY <1>5 DEF Leaves
<1>7. /\ Carries(flags', exit') /\ flags'.cond = flags.cond /\ flags'.slot = flags.slot
      /\ flags'.break = flags.break /\ flags'.breakValue = flags.breakValue
  <2>1. CASE ForCatch
    BY <1>1, <1>2, <1>4, <2>1 DEF Carries, Flags
  <2>2. CASE ~ForCatch
    BY <1>1, <1>4, <2>2
  <2> QED
    BY <2>1, <2>2
<1>8. exit' # exit => exit.kind # "return"
  BY <1>1, <1>3, <1>6
<1> QED
  BY <1>1, <1>4, <1>5, <1>6, <1>7, <1>8, LeaveKeeps

LEMMA LeaveGuardedKeeps ==
  ASSUME Sound, LeaveHandler \/ LeaveToplevel
  PROVE  Leaves /\ Consistent(stack, flags, exit)'
<1>1. /\ stack # <<>> /\ Top.kind \in {"handler", "toplevel"}
      /\ flags \in Flags /\ Top.saved \in Flags
      /\ exit \in Exits \cup {None} /\ Carries(flags, exit)
  BY TopTypes DEF LeaveHandler, LeaveToplevel, In, Sound, ExitTypeOK, Consistent, Now
<1>2. /\ flags.cond <=> exit # None /\ exit.kind = "error"
      /\ exit # None /\ exit.kind = "error" => flags.slot = exit.value
  BY <1>1, RecognisedNow DEF Recognises
<1>3. IsExitPoint(Top, exit) <=> exit.kind = "error"
  BY <1>1 DEF IsExitPoint
<1> DEFINE r == CondFrom(flags, Top.saved)
<1>4. /\ r \in Flags /\ r.abort = flags.abort /\ r.target = flags.target
      /\ r.throw = flags.throw /\ r.throwTag = flags.throwTag
      /\ r.break = flags.break /\ r.breakValue = flags.breakValue
      /\ r.cond = Top.saved.cond /\ r.slot = Top.saved.slot
  BY <1>1, CondFromIs
<1>5. /\ stack' = Rest
      /\ flags.cond => /\ flags' = [r EXCEPT !.abort = FALSE]
                       /\ exit' = None /\ delivered' = flags.slot
      /\ ~flags.cond => flags' = r /\ exit' = exit /\ delivered' = delivered
  BY DEF LeaveHandler, LeaveToplevel, LeaveGuarded, Consume, PassOn, Pop
<1> HIDE DEF r
<1>6. Leaves
  BY <1>1, <1>2, <1>3, <1>5 DEF Leaves
<1>7. exit' = IF exit # None /\ IsExitPoint(Top, exit) THEN None ELSE exit
  BY <1>6 DEF Leaves
<1>8. /\ Carries(flags', exit') /\ flags'.cond = Top.saved.cond /\ flags'.slot = Top.saved.slot
      /\ flags'.break = flags.break /\ flags'.breakValue = flags.breakValue
  <2>1. CASE flags.cond
    BY <1>1, <1>2, <1>4, <1>5, <2>1 DEF Carries, Flags
  <2>2. CASE ~flags.cond
    BY <1>1, <1>4, <1>5, <2>2 DEF Carries
  <2> QED
    BY <2>1, <2>2
<1>9. exit' # exit => exit.kind # "return"
  BY <1>1, <1>3, <1>7
<1> QED
  BY <1>1, <1>5, <1>6, <1>7, <1>8, <1>9, LeaveKeeps

LEMMA BeginCleanupKeeps ==
  ASSUME Sound, BeginCleanup
  PROVE  Consistent(stack, flags, exit)'
<1>1. PICK b, c : Nest(stack, b, c) /\ Now(stack, flags, exit, b, c)
  BY DEF Sound, Consistent
<1> DEFINE n == Len(stack)
           saved == ExitFrom(Quiescent, flags)
           fr == [Top EXCEPT !.kind = "cleanup", !.exit = exit, !.saved = saved]
           g == ExitFrom(flags, Quiescent)
<1>2. /\ stack # <<>> /\ Top.kind = "protect" /\ stack' = Append(Rest, fr)
      /\ flags' = g /\ exit' = None
  BY DEF BeginCleanup, Protected, In
<1>3. /\ stack \in Seq(Frames) /\ flags \in Flags /\ exit \in Exits \cup {None}
      /\ Top = stack[n] /\ Top \in Frames
  BY <1>2, TopTypes DEF Sound, ExitTypeOK
<1>4. /\ Fits(Top, stack, n, b[n], c[n])
      /\ b[n + 1] = IF Top.kind = "loop" THEN None ELSE Seen("return", Top.exit, b[n])
      /\ c[n + 1] = IF Top.kind \in {"handler", "toplevel"} THEN None
                    ELSE Seen("error", Top.exit, c[n])
  BY <1>1, <1>2, <1>3, TopIs
<1>5. b[n + 1] = b[n] /\ c[n + 1] = c[n] /\ n # 1 /\ Top.name = Nil
  BY <1>2, <1>4 DEF Fits, Seen
<1>6. exit # None => Reaches(stack, n, exit)
  <2>1. ~IsExitPoint(stack[n], exit)
    BY <1>2, <1>3 DEF IsExitPoint
  <2>2. exit # None => Reaches(stack, n + 1, exit)
    BY <1>1 DEF Now
  <2> QED
    BY <1>1, <1>2, <1>3, <2>1, <2>2, PopReaches
<1>7. /\ Rest \in Seq(Frames) /\ Len(Rest) + 1 = n /\ n \in Nat
      /\ \A i \in 1 .. n - 1 : Rest[i] = stack[i]
  <2>1. /\ n \in Nat /\ n >= 1 /\ Rest \in Seq(Frames) /\ Len(Rest) = n - 1
        /\ \A i \in 1 .. n - 1 : Rest[i] = stack[i]
    BY <1>2, <1>3, FrontIs DEF Rest
  <2> QED
    BY <2>1
<1>8. Nest(Rest, b, c)
  BY <1>1, <1>2, <1>3, PopNest DEF Rest
<1>9. /\ saved \in Flags
      /\ saved.abort = flags.abort /\ saved.target = flags.target
      /\ saved.throw = flags.throw /\ saved.throwTag = flags.throwTag
  BY <1>3, QuiescentIs, ExitFromIs
<1>10. /\ ~g.abort /\ g.target = NoTarget /\ ~g.throw /\ g.throwTag = NoTarget
       /\ g.break = flags.break /\ g.breakValue = flags.breakValue
       /\ g.cond = flags.cond /\ g.slot = flags.slot
  BY <1>3, QuiescentIs, ExitFromIs
<1> HIDE DEF saved, g, n
<1>11. /\ fr \in Frames /\ fr.kind = "cleanup" /\ fr.name = Top.name
       /\ fr.exit = exit /\ fr.saved = saved
  BY <1>3, <1>9 DEF Frames, Kinds
<1> HIDE DEF fr
<1>12. exit # None => Reaches(Rest, n, exit)
  BY <1>6, <1>7, ReachesBelow
<1>13. Carries(saved, exit)
  BY <1>1, <1>9 DEF Now, Carries
<1>14. Fits(fr, Rest, n, b[n], c[n])
  BY <1>1, <1>5, <1>11, <1>12, <1>13 DEF Fits, Now, n
<1>15. Carries(g, None)
  BY <1>10 DEF Carries
<1>16. /\ Shown(flags.break, flags.breakValue, Seen("return", exit, b[n]))
       /\ Shown(flags.cond, flags.slot, Seen("error", exit, c[n]))
  BY <1>1, <1>5, <1>7 DEF Now, n
<1>17. /\ Shown(g.break, g.breakValue, IF fr.kind = "loop" THEN None
                                       ELSE Seen("return", fr.exit, b[n]))
       /\ Shown(g.cond, g.slot, IF fr.kind \in {"handler", "toplevel"} THEN None
                                ELSE Seen("error", fr.exit, c[n]))
  BY <1>10, <1>11, <1>16 DEF Shown
<1>18. \A t : t = Append(Rest, fr) => Consistent(t, g, None)
  BY <1>7, <1>8, <1>11, <1>14, <1>15, <1>17, PushConsistent
<1> QED
  BY <1>2, <1>18

(* No exit is under way when a cleanup ends: it would have left the cleanup. *)
LEMMA EndCleanupKeeps ==
  ASSUME Sound, EndCleanup
  PROVE  exit = None /\ Consistent(stack, flags, exit)'
<1>1. PICK b, c : Nest(stack, b, c) /\ Now(stack, flags, exit, b, c)
  BY DEF Sound, Consistent
<1> DEFINE n == Len(stack)
           top == Top
           g == ExitFrom(flags, top.saved)
<1>2. /\ stack # <<>> /\ top.kind = "cleanup" /\ stack' = Rest
      /\ flags' = g /\ exit' = top.exit
  BY DEF EndCleanup, In, Pop
<1>3. /\ stack \in Seq(Frames) /\ flags \in Flags /\ top = stack[n] /\ top.saved \in Flags
  BY <1>2, TopTypes DEF Sound, ExitTypeOK
<1>4. /\ Fits(top, stack, n, b[n], c[n])
      /\ b[n + 1] = IF top.kind = "loop" THEN None ELSE Seen("return", top.exit, b[n])
      /\ c[n + 1] = IF top.kind \in {"handler", "toplevel"} THEN None
                    ELSE Seen("error", top.exit, c[n])
  BY <1>1, <1>2, <1>3, TopIs
<1>5. n \in Nat /\ n >= 1 /\ n > 0
  BY <1>2, <1>3, FrontIs
<1>6. /\ g.abort = top.saved.abort /\ g.target = top.saved.target
      /\ g.throw = top.saved.throw /\ g.throwTag = top.saved.throwTag
      /\ g.break = flags.break /\ g.breakValue = flags.breakValue
      /\ g.cond = flags.cond /\ g.slot = flags.slot
  BY <1>3, ExitFromIs
<1>7. exit = None
  <2>1. ASSUME exit # None
        PROVE  FALSE
    <3>1. Reaches(stack, n + 1, exit)
      BY <1>1, <2>1 DEF Now
    <3>2. n + 1 - 1 = n /\ n \in 1..n /\ n + 1 .. n = {}
      BY <1>5
    <3> HIDE DEF n
    <3>3. \E j \in n + 1 .. n : IsExitPoint(stack[j], exit)
      BY <1>2, <1>3, <3>1, <3>2 DEF Reaches
    <3> QED
      BY <3>2, <3>3
  <2> QED
    BY <2>1
<1> HIDE DEF g, top
<1>8. /\ top.exit # None => Reaches(stack, n, top.exit)
      /\ top.exit # None /\ top.exit.kind = "return" => b[n] = None
      /\ Carries(g, top.exit)
  BY <1>2, <1>4, <1>6 DEF Fits, Carries
<1>9. /\ Shown(g.break, g.breakValue, Seen("return", top.exit, b[n]))
      /\ Shown(g.cond, g.slot, Seen("error", top.exit, c[n]))
  BY <1>1, <1>2, <1>4, <1>5, <1>6, <1>7 DEF Now, Shown, Seen
<1>10. \A t : t = Front(stack) => Consistent(t, g, top.exit)
  BY <1>1, <1>2, <1>3, <1>8, <1>9, PopConsistent
<1> QED
  BY <1>2, <1>7, <1>10 DEF Rest
LEMMA SignalKeeps ==
  ASSUME Sound, NEW v \in Values, Signal(v), ~astray'
  PROVE  Consistent(stack, flags, exit)'
<1> DEFINE e == Request("error", Nil, v)
<1>1. e \in Exits /\ e # None /\ e.kind = "error" /\ e.value = v
  BY RequestIs, ExitAssumption
<1>2. Running /\ Asks(e) /\ stack' = stack
      /\ flags' = [flags EXCEPT !.slot = v, !.cond = TRUE, !.abort = TRUE]
  BY DEF Signal
<1>3. /\ flags'.abort /\ flags'.target = flags.target /\ flags'.throw = flags.throw
      /\ flags'.throwTag = flags.throwTag /\ flags'.break = flags.break
      /\ flags'.breakValue = flags.breakValue /\ flags'.cond /\ flags'.slot = v
  BY <1>2 DEF Sound, ExitTypeOK, Flags
<1> HIDE DEF e
<1> QED
  BY <1>1, <1>2, <1>3, StartKeeps

LEMMA LoopReturnKeeps ==
  ASSUME Sound, NEW v \in Values, LoopReturn(v), ~astray'
  PROVE  Consistent(stack, flags, exit)'
<1> DEFINE e == Request("return", Nil, v)
<1>1. e \in Exits /\ e # None /\ e.kind = "return" /\ e.value = v
  BY RequestIs, ExitAssumption
<1>2. Running /\ Asks(e) /\ stack' = stack
      /\ flags' = [flags EXCEPT !.breakValue = v, !.break = TRUE, !.abort = TRUE]
  BY DEF LoopReturn
<1>3. /\ flags'.abort /\ flags'.target = flags.target /\ flags'.throw = flags.throw
      /\ flags'.throwTag = flags.throwTag /\ flags'.break /\ flags'.breakValue = v
      /\ flags'.cond = flags.cond /\ flags'.slot = flags.slot
  BY <1>2 DEF Sound, ExitTypeOK, Flags
<1> HIDE DEF e
<1> QED
  BY <1>1, <1>2, <1>3, StartKeeps

LEMMA ReturnFromKeeps ==
  ASSUME Sound, NEW n \in Names, NEW v \in Values, ReturnFrom(n, v), ~astray'
  PROVE  Consistent(stack, flags, exit)'
<1> DEFINE e == Request("from", n, v)
           g == [flags EXCEPT !.abort = TRUE, !.target = n]
<1>1. e \in Exits /\ e # None /\ e.kind = "from" /\ e.value = v /\ e.name = n
  BY RequestIs
<1>2. Transfer(e, g)
  BY DEF ReturnFrom
<1>3. /\ g.abort /\ g.target = n /\ g.throw = flags.throw
      /\ g.throwTag = flags.throwTag /\ g.break = flags.break
      /\ g.breakValue = flags.breakValue
      /\ g.cond = flags.cond /\ g.slot = flags.slot
  BY DEF Sound, ExitTypeOK, Flags
<1> HIDE DEF e, g
<1> QED
  BY <1>1, <1>2, <1>3, TransferKeeps

LEMMA ThrowKeeps ==
  ASSUME Sound, NEW tag \in Tags, NEW v \in Values, Throw(tag, v), ~astray'
  PROVE  Consistent(stack, flags, exit)'
<1> DEFINE e == Request("throw", tag, v)
           g == [flags EXCEPT !.abort = TRUE, !.throw = TRUE, !.throwTag = tag]
<1>1. e \in Exits /\ e # None /\ e.kind = "throw" /\ e.value = v /\ e.name = tag
  BY RequestIs
<1>2. Transfer(e, g)
  BY DEF Throw
<1>3. /\ g.abort /\ g.throw /\ g.throwTag = tag
      /\ g.target = flags.target /\ g.break = flags.break
      /\ g.breakValue = flags.breakValue
      /\ g.cond = flags.cond /\ g.slot = flags.slot
  BY DEF Sound, ExitTypeOK, Flags
<1> HIDE DEF e, g
<1> QED
  BY <1>1, <1>2, <1>3, TransferKeeps

LEMMA EnterStepsKeep ==
  ASSUME Sound,
         \/ EnterProtect \/ EnterLoop \/ EnterHandler
         \/ \E n \in Names : EnterBlock(n)
         \/ \E tag \in Tags : EnterCatch(tag),
         ~astray'
  PROVE  Consistent(stack, flags, exit)'
<1> USE ExitAssumption
<1>1. flags \in Flags /\ ~flags.abort
  BY DEF Sound, ExitTypeOK, EnterProtect, EnterLoop, EnterHandler, EnterBlock, EnterCatch, Enter
<1>2. CASE EnterProtect
  BY <1>1, <1>2, QuiescentIs, EnterKeeps DEF EnterProtect, Kinds
<1>3. CASE EnterLoop
  <2> DEFINE g == BreakFrom(flags, Quiescent)
             r == BreakFrom(Quiescent, flags)
  <2>1. /\ g \in Flags /\ g.abort = flags.abort /\ g.target = flags.target
        /\ g.throw = flags.throw /\ g.throwTag = flags.throwTag /\ ~g.break
        /\ g.cond = flags.cond /\ g.slot = flags.slot
        /\ r \in Flags /\ r.break = flags.break /\ r.breakValue = flags.breakValue
    BY <1>1, QuiescentIs, BreakFromIs
  <2>2. Enter("loop", Nil, r, g)
    BY <1>3 DEF EnterLoop
  <2> HIDE DEF g, r
  <2> QED
    BY <1>1, <2>1, <2>2, EnterKeeps DEF Kinds
<1>4. CASE EnterHandler
  <2> DEFINE g == [flags EXCEPT !.cond = FALSE]
             r == CondFrom(Quiescent, flags)
  <2>1. /\ r \in Flags /\ r.cond = flags.cond /\ r.slot = flags.slot
    BY <1>1, QuiescentIs, CondFromIs
  <2>2. /\ g \in Flags /\ g.abort = flags.abort /\ g.target = flags.target
        /\ g.throw = flags.throw /\ g.throwTag = flags.throwTag /\ ~g.cond
        /\ g.break = flags.break /\ g.breakValue = flags.breakValue
    BY <1>1 DEF Flags
  <2>3. Enter("handler", Nil, r, g)
    BY <1>4 DEF EnterHandler
  <2> HIDE DEF g, r
  <2> QED
    BY <1>1, <2>1, <2>2, <2>3, EnterKeeps DEF Kinds
<1>5. ASSUME NEW n \in Names, EnterBlock(n)
      PROVE  Consistent(stack, flags, exit)'
  BY <1>1, <1>5, QuiescentIs, EnterKeeps DEF EnterBlock, Kinds
<1>6. ASSUME NEW tag \in Tags, EnterCatch(tag)
      PROVE  Consistent(stack, flags, exit)'
  BY <1>1, <1>6, QuiescentIs, EnterKeeps DEF EnterCatch, Kinds
<1> QED
  BY <1>2, <1>3, <1>4, <1>5, <1>6

(* Nothing but a new form brings back an exit that went astray. *)
LEMMA StaysAstray ==
  ASSUME [ExitNext]_exitVars, ~EnterToplevel, ~astray'
  PROVE  ~astray
<1>1. CASE UNCHANGED exitVars
  BY <1>1 DEF exitVars
<1>2. CASE Open
  BY <1>2 DEF Open, EnterProtect, EnterLoop, EnterHandler, EnterBlock, EnterCatch, Enter
<1>3. CASE Begin
  BY <1>3 DEF Begin, Error, CoerceFails, LoopReturn, ReturnFrom, ReturnFromFails, Throw,
              ThrowFails, ExitFails, Signal, Transfer, Asks
<1>4. CASE Close
  BY <1>4 DEF Close, LeaveBlock, LeaveLoop, LeaveCatch, BeginCleanup, EndCleanup, LeaveHandler,
              LeaveToplevel, LeaveGuarded, Protected, Consume, PassOn, Pop
<1> QED
  BY <1>1, <1>2, <1>3, <1>4 DEF ExitNext

LEMMA ExitStepKeeps ==
  ASSUME ExitIInv, [ExitNext]_exitVars
  PROVE  ExitIInv'
<1>1. ExitTypeOK'
  BY ExitStepTypes DEF ExitIInv
<1> SUFFICES ASSUME ~astray'
             PROVE  Consistent(stack, flags, exit)'
  BY <1>1 DEF ExitIInv
<1>2. CASE EnterToplevel
  BY <1>2, EnterToplevelKeeps DEF ExitIInv
<1>3. CASE ~EnterToplevel
  <2>1. Sound
    BY <1>3, StaysAstray DEF ExitIInv, Sound
  <2>2. CASE UNCHANGED exitVars
    BY <2>1, <2>2 DEF exitVars, Sound
  <2>3. CASE Open
    BY <1>3, <2>1, <2>3, EnterStepsKeep DEF Open
  <2>4. CASE Begin
    <3>1. PICK v \in Values :
            \/ Error(v) \/ CoerceFails(v) \/ LoopReturn(v)
            \/ \E n \in Names : ReturnFrom(n, v) \/ ReturnFromFails(n, v)
            \/ \E tag \in Tags : Throw(tag, v) \/ ThrowFails(tag, v)
      BY <2>4 DEF Begin
    <3>2. CASE LoopReturn(v)
      BY <2>1, <3>2, LoopReturnKeeps
    <3>3. CASE \E n \in Names : ReturnFrom(n, v)
      BY <2>1, <3>3, ReturnFromKeeps
    <3>4. CASE \E tag \in Tags : Throw(tag, v)
      BY <2>1, <3>4, ThrowKeeps
    <3>5. CASE Error(v) \/ CoerceFails(v)
      BY <2>1, <3>5, SignalKeeps DEF Error, CoerceFails
    <3> QED
      BY <3>1, <3>2, <3>3, <3>4, <3>5 DEF ReturnFromFails, ThrowFails, ExitFails
  <2>5. CASE Close
    BY <2>1, <2>5, LeaveBlockKeeps, LeaveLoopKeeps, LeaveCatchKeeps, LeaveGuardedKeeps,
       BeginCleanupKeeps, EndCleanupKeeps DEF Close
  <2> QED
    BY <2>2, <2>3, <2>4, <2>5 DEF ExitNext
<1> QED
  BY <1>2, <1>3

LEMMA ExitInitIInv == ExitInit => ExitIInv
<1> SUFFICES ASSUME ExitInit
             PROVE  ExitIInv
  OBVIOUS
<1>1. /\ stack = <<>> /\ flags = Quiescent /\ exit = None /\ delivered = NilValue
      /\ unchecked = FALSE /\ astray = FALSE /\ Len(stack) = 0
  BY DEF ExitInit
<1>2. ExitTypeOK
  <2>1. unchecked \in BOOLEAN /\ astray \in BOOLEAN
    BY <1>1
  <2>2. stack \in Seq(Frames) /\ Len(stack) <= MaxFrames
    BY <1>1, ExitAssumption
  <2> QED
    BY <1>1, <2>1, <2>2, QuiescentIs, ExitAssumption DEF ExitTypeOK
<1> DEFINE b == [i \in {1} |-> None]
<1>3. Nest(stack, b, b)
  BY <1>1 DEF Nest, Chain
<1>4. Now(stack, flags, exit, b, b)
  <2>1. b[1] = None /\ Len(stack) + 1 = 1
    BY <1>1
  <2> HIDE DEF b
  <2> QED
    BY <1>1, <2>1, QuiescentIs DEF Now, Carries, Shown, Seen
<1> QED
  BY <1>2, <1>3, <1>4 DEF ExitIInv, Consistent

(* Every frame and every flag keeps its type, whatever compiled code does. *)
THEOREM ExitTypeCorrect == ExitSpec => []ExitTypeOK
<1>1. ExitInit => ExitTypeOK
  BY ExitInitIInv DEF ExitIInv
<1>2. ExitTypeOK /\ [ExitNext]_exitVars => ExitTypeOK'
  BY ExitStepTypes
<1> QED
  BY <1>1, <1>2, PTL DEF ExitSpec

(* In a form in which no exit went astray the flags, the flags that the
   primitives under way have saved, and the exits that cleanups have suspended
   stay consistent: the inductive invariant. *)
THEOREM ExitInductiveInvariant == ExitSpec => []ExitIInv
<1>1. ExitInit => ExitIInv
  BY ExitInitIInv
<1>2. ExitIInv /\ [ExitNext]_exitVars => ExitIInv'
  BY ExitStepKeeps
<1> QED
  BY <1>1, <1>2, PTL DEF ExitSpec

LEMMA FirstOf ==
  ASSUME NEW I \in SUBSET Nat, I # {}
  PROVE  \E i \in I : \A j \in I : ~(j < i)
<1> DEFINE R == OpToRel(<, Nat)
<1>1. \A x, y \in Nat : <<x, y>> \in R <=> x < y
  BY DEF OpToRel
<1>2. IsWellFoundedOn(R, Nat)
  BY NatLessThanWellFounded
<1> HIDE DEF R
<1>3. \E x \in I : \A y \in I : <<y, x>> \notin R
  BY <1>2, WFMin
<1> QED
  BY <1>1, <1>3

(* Where no cleanup has suspended an exit, none shows below any frame. *)
LEMMA NothingShows ==
  ASSUME NEW x, NEW s, Len(s) \in Nat, NEW b, Chain(x, s, b),
         \A i \in 1..Len(s) : s[i].exit = None
  PROVE  b[Len(s) + 1] = None
<1> DEFINE n == Len(s)
           I == {i \in 1 .. n + 1 : b[i] # None}
<1>1. I \subseteq Nat
  OBVIOUS
<1>2. ASSUME I # {}
      PROVE  FALSE
  <2>1. PICK i \in I : \A j \in I : ~(j < i)
    BY <1>1, <1>2, FirstOf
  <2>2. i # 1
    BY <2>1 DEF Chain
  <2> DEFINE k == i - 1
  <2>3. k \in 1..n /\ k + 1 = i /\ k < i /\ k \in 1 .. n + 1
    BY <2>1, <2>2
  <2>4. b[k] = None
    BY <2>1, <2>3
  <2>5. b[k + 1] = IF s[k].kind \in Hides(x) THEN None ELSE Seen(x, s[k].exit, b[k])
    BY <2>3 DEF Chain
  <2>6. s[k].exit = None
    BY <2>3
  <2> HIDE DEF k
  <2>7. b[i] = None
    BY <2>3, <2>4, <2>5, <2>6 DEF Seen
  <2> QED
    BY <2>1, <2>7
<1>3. n + 1 \in 1 .. n + 1
  OBVIOUS
<1> QED
  BY <1>2, <1>3

LEMMA ExitIInvNoStray == ExitIInv => NoStrayFlags
<1> SUFFICES ASSUME ExitIInv, stack # <<>>, ~astray
             PROVE  NoStrayFlags
  BY DEF NoStrayFlags
<1>1. PICK b, c : Nest(stack, b, c) /\ Now(stack, flags, exit, b, c)
  BY DEF ExitIInv, Consistent
<1>2. /\ flags \in Flags /\ Len(stack) \in Nat /\ Len(stack) > 0
      /\ DOMAIN stack = 1..Len(stack)
  BY FrontIs DEF ExitIInv, ExitTypeOK
<1>3. Carries(flags, exit)
  BY <1>1 DEF Now
<1>4. ASSUME exit = None, ~Suspended
      PROVE  flags = [Quiescent EXCEPT !.breakValue = flags.breakValue, !.slot = flags.slot]
  <2>1. \A i \in 1..Len(stack) : stack[i].exit = None
    BY <1>2, <1>4 DEF Suspended
  <2>2. b[Len(stack) + 1] = None /\ c[Len(stack) + 1] = None
    BY <1>1, <1>2, <2>1, NothingShows DEF Nest
  <2>3. ~flags.break /\ ~flags.cond
    BY <1>1, <1>2, <1>4, <2>2 DEF Now, Shown, Seen
  <2>4. ~flags.abort /\ flags.target = NoTarget /\ ~flags.throw /\ flags.throwTag = NoTarget
    BY <1>3, <1>4 DEF Carries
  <2>5. flags.abort \in BOOLEAN /\ flags.throw \in BOOLEAN
        /\ flags.break \in BOOLEAN /\ flags.cond \in BOOLEAN
    BY <1>2 DEF Flags
  <2>6. /\ flags.abort = FALSE /\ flags.throw = FALSE
        /\ flags.break = FALSE /\ flags.cond = FALSE
    BY <2>3, <2>4, <2>5
  <2>7. flags.breakValue \in Values /\ flags.slot \in Values
    BY <1>2 DEF Flags
  <2> DEFINE h == [Quiescent EXCEPT !.breakValue = flags.breakValue, !.slot = flags.slot]
  <2>8. /\ h \in Flags /\ h.abort = FALSE /\ h.target = NoTarget /\ h.throw = FALSE
        /\ h.throwTag = NoTarget /\ h.break = FALSE /\ h.breakValue = flags.breakValue
        /\ h.cond = FALSE /\ h.slot = flags.slot
    BY <2>7, QuiescentIs DEF Flags
  <2> HIDE DEF h
  <2>9. flags = h
    BY <1>2, <2>4, <2>6, <2>8, FlagsEqual
  <2> QED
    BY <2>9 DEF h
<1> QED
  BY <1>3, <1>4 DEF NoStrayFlags, Carries

(* Unless one went astray in the form, no exit leaves a flag behind that a later
   primitive could take for its own. *)
THEOREM NoStrayFlagsHolds == ExitSpec => []NoStrayFlags
<1>1. ExitIInv => NoStrayFlags
  BY ExitIInvNoStray
<1> QED
  BY <1>1, ExitInductiveInvariant, PTL
-----------------------------------------------------------------------------
(* Refinement: what the abstract specification sees of a nest. *)
Plain(f) == [kind |-> f.kind, name |-> f.name, exit |-> f.exit]
Shape(s) == [i \in DOMAIN s |-> Plain(s[i])]

LEMMA ShapeIs ==
  ASSUME NEW s \in Seq(Frames)
  PROVE  /\ Shape(s) \in Seq({Plain(f) : f \in Frames}) /\ Len(Shape(s)) = Len(s)
         /\ \A i \in 1..Len(s) : Shape(s)[i] = Plain(s[i])
<1>1. Len(s) \in Nat /\ DOMAIN s = 1..Len(s) /\ \A i \in 1..Len(s) : s[i] \in Frames
  OBVIOUS
<1>2. Shape(s) = [i \in 1..Len(s) |-> Plain(s[i])]
  BY <1>1 DEF Shape
<1>3. Shape(s) \in [1..Len(s) -> {Plain(f) : f \in Frames}]
  BY <1>1, <1>2
<1> QED
  BY <1>1, <1>2, <1>3

LEMMA SameShape ==
  ASSUME NEW s \in Seq(Frames), NEW t \in Seq(Frames), Len(t) = Len(s),
         \A i \in 1..Len(s) : /\ t[i].kind = s[i].kind /\ t[i].name = s[i].name
                              /\ t[i].exit = s[i].exit
  PROVE  Shape(t) = Shape(s)
<1>1. DOMAIN s = 1..Len(s) /\ DOMAIN t = 1..Len(s)
  OBVIOUS
<1>2. \A i \in 1..Len(s) : Plain(t[i]) = Plain(s[i])
  BY DEF Plain
<1> QED
  BY <1>1, <1>2 DEF Shape

LEMMA ShapePushed ==
  ASSUME NEW s \in Seq(Frames), NEW fr \in Frames
  PROVE  Shape(Append(s, fr)) = Append(Shape(s), Plain(fr))
<1> DEFINE P == {Plain(f) : f \in Frames}
           t == Append(s, fr)
           u == Append(Shape(s), Plain(fr))
           n == Len(s)
<1>1. /\ n \in Nat /\ t \in Seq(Frames) /\ Len(t) = n + 1 /\ t[n + 1] = fr
      /\ \A i \in 1..n : t[i] = s[i]
  OBVIOUS
<1>2. /\ Shape(s) \in Seq(P) /\ Len(Shape(s)) = n
      /\ \A i \in 1..n : Shape(s)[i] = Plain(s[i])
  BY ShapeIs
<1>3. Plain(fr) \in P
  OBVIOUS
<1> HIDE DEF P, n
<1>4. /\ u \in Seq(P) /\ Len(u) = n + 1 /\ u[n + 1] = Plain(fr)
      /\ \A i \in 1..n : u[i] = Shape(s)[i]
  BY <1>2, <1>3
<1> HIDE DEF t, u
<1>5. /\ Shape(t) \in Seq(P) /\ Len(Shape(t)) = n + 1
      /\ \A i \in 1 .. n + 1 : Shape(t)[i] = Plain(t[i])
  BY <1>1, ShapeIs DEF P
<1>6. \A i \in 1 .. n + 1 : Shape(t)[i] = u[i]
  <2>1. \A i \in 1 .. n + 1 : i \in 1..n \/ i = n + 1
    BY <1>1
  <2> QED
    BY <1>1, <1>2, <1>4, <1>5, <2>1
<1>7. Shape(t) = u
  BY <1>4, <1>5, <1>6, SeqEqual
<1> QED
  BY <1>7 DEF t, u

LEMMA ShapePopped ==
  ASSUME NEW s \in Seq(Frames), s # <<>>
  PROVE  /\ Shape(s) # <<>> /\ Last(Shape(s)) = Plain(Last(s))
         /\ Shape(Front(s)) = Front(Shape(s))
<1> DEFINE P == {Plain(f) : f \in Frames}
           n == Len(s)
<1>1. /\ n \in Nat /\ n >= 1 /\ n \in 1..n /\ Front(s) \in Seq(Frames) /\ Len(Front(s)) = n - 1
      /\ \A i \in 1 .. n - 1 : Front(s)[i] = s[i]
      /\ Last(s) = s[n]
  BY FrontIs
<1>2. /\ Shape(s) \in Seq(P) /\ Len(Shape(s)) = n
      /\ \A i \in 1..n : Shape(s)[i] = Plain(s[i])
  BY ShapeIs
<1>3. /\ Shape(Front(s)) \in Seq(P) /\ Len(Shape(Front(s))) = n - 1
      /\ \A i \in 1 .. n - 1 : Shape(Front(s))[i] = Plain(Front(s)[i])
  BY <1>1, ShapeIs
<1> HIDE DEF P, n
<1>4. Shape(s) # <<>>
  BY <1>1, <1>2
<1>5. /\ Front(Shape(s)) \in Seq(P) /\ Len(Front(Shape(s))) = n - 1
      /\ \A i \in 1 .. n - 1 : Front(Shape(s))[i] = Shape(s)[i]
      /\ Last(Shape(s)) = Shape(s)[n]
  BY <1>2, <1>4, FrontIs
<1>6. \A i \in 1 .. n - 1 : i \in 1..n
  BY <1>1
<1>7. \A i \in 1 .. n - 1 : Shape(Front(s))[i] = Front(Shape(s))[i]
  BY <1>1, <1>2, <1>3, <1>5, <1>6
<1>8. Shape(Front(s)) = Front(Shape(s))
  BY <1>3, <1>5, <1>7, SeqEqual
<1> QED
  BY <1>1, <1>2, <1>4, <1>5, <1>8

LEMMA SamePoints ==
  ASSUME NEW f, NEW e
  PROVE  Unwind!IsExitPoint(Plain(f), e) <=> IsExitPoint(f, e)
BY DEF Unwind!IsExitPoint, IsExitPoint, Plain

LEMMA EntersFrame ==
  ASSUME Sound, NEW kind \in {"block", "loop", "catch", "protect", "handler"},
         NEW name \in Names \cup Tags, NEW saved \in Flags, NEW g, Enter(kind, name, saved, g),
         ~astray'
  PROVE  Unwind!UNext
<1>1. /\ stack \in Seq(Frames) /\ ~flags.abort /\ Carries(flags, exit)
      /\ stack' = Append(stack, Frame(kind, name, saved)) /\ exit' = exit
      /\ delivered' = delivered
  BY DEF Sound, ExitTypeOK, Consistent, Now, Enter, Running
<1>2. exit = None
  BY <1>1, NoneUnderWay
<1>3. Frame(kind, name, saved) \in Frames
      /\ Plain(Frame(kind, name, saved)) = [kind |-> kind, name |-> name, exit |-> None]
  BY FrameIs DEF Kinds, Plain
<1>4. Shape(stack') = Append(Shape(stack), [kind |-> kind, name |-> name, exit |-> None])
  BY <1>1, <1>3, ShapePushed
<1> QED
  BY <1>1, <1>2, <1>4 DEF Unwind!UNext, Unwind!Enter, Unwind!Open, Shape, Plain

LEMMA EntersToplevel ==
  ASSUME ExitTypeOK, EnterToplevel
  PROVE  Unwind!UNext
<1> DEFINE fr == Frame("toplevel", Nil, CondFrom(Quiescent, flags))
<1>1. /\ stack = <<>> /\ stack' = <<fr>> /\ exit' = None /\ delivered' = delivered
  BY DEF EnterToplevel
<1>2. CondFrom(Quiescent, flags) \in Flags
  BY QuiescentIs, CondFromIs DEF ExitTypeOK
<1>3. fr \in Frames /\ Plain(fr) = [kind |-> "toplevel", name |-> Nil, exit |-> None]
  BY <1>2, FrameIs, ExitAssumption DEF Kinds, Plain
<1> HIDE DEF fr
<1>4. Shape(stack) = <<>> /\ stack \in Seq(Frames) /\ stack' = Append(stack, fr)
  BY <1>1 DEF Shape
<1>5. Shape(stack') = Append(Shape(stack), [kind |-> "toplevel", name |-> Nil, exit |-> None])
  BY <1>3, <1>4, ShapePushed
<1>6. CASE exit = None
  BY <1>1, <1>5, <1>6, ExitAssumption
     DEF Unwind!UNext, Unwind!Enter, Unwind!Open, Shape, Plain
<1>7. CASE exit # None
  BY <1>1, <1>4, <1>5, <1>7 DEF Unwind!UNext, Unwind!Abandon, Unwind!Open, Shape, Plain
<1> QED
  BY <1>6, <1>7

LEMMA SameEnds ==
  ASSUME NEW s
  PROVE  Unwind!Last(s) = Last(s) /\ Unwind!Front(s) = Front(s)
BY DEF Unwind!Last, Last, Unwind!Front, Front

(* An exit with a place to go sets out as it was asked for. *)
LEMMA StartsExit ==
  ASSUME Sound, ~flags.abort, NEW e \in Unwind!Exits,
         e.kind \in {"return", "error"} \/ ExitPoints(e) # {},
         exit' = e, delivered' = delivered, Shape(stack') = Shape(stack)
  PROVE  Unwind!UNext
<1>1. /\ stack \in Seq(Frames) /\ DOMAIN stack = 1..Len(stack) /\ Carries(flags, exit)
  BY DEF Sound, ExitTypeOK, Consistent, Now
<1>2. exit = None
  BY <1>1, NoneUnderWay
<1>3. Unwind!HasExitPoint(e) \/ e.kind \in {"return", "error"}
  <2>1. CASE ExitPoints(e) # {}
    <3>1. PICK i \in DOMAIN stack : IsExitPoint(stack[i], e)
      BY <2>1 DEF ExitPoints
    <3>2. i \in DOMAIN Shape(stack) /\ Unwind!IsExitPoint(Shape(stack)[i], e)
      BY <3>1, SamePoints DEF Shape
    <3> QED
      BY <3>2 DEF Unwind!HasExitPoint, Shape, Plain
  <2> QED
    BY <2>1
<1>4. Unwind!Start(e)
  BY <1>2, <1>3 DEF Unwind!Start, Shape, Plain
<1> QED
  BY <1>4 DEF Unwind!UNext

LEMMA LeavesFrame ==
  ASSUME Sound, Leaves
  PROVE  Unwind!UNext
<1>1. PICK b, c : Nest(stack, b, c)
  BY DEF Sound, Consistent
<1>2. /\ stack # <<>> /\ stack \in Seq(Frames) /\ Top = stack[Len(stack)] /\ Top = Last(stack)
      /\ stack' = Front(stack)
  BY TopTypes DEF Leaves, Sound, ExitTypeOK, Top, Rest
<1>3. Fits(Top, stack, Len(stack), b[Len(stack)], c[Len(stack)])
  BY <1>1, <1>2, TopIs
<1>4. Top.kind \notin {"protect", "cleanup"} /\ Top.exit = None
  BY <1>3 DEF Leaves, Fits
<1>5. /\ Shape(stack) # <<>> /\ Last(Shape(stack)) = Plain(Top)
      /\ Shape(stack') = Front(Shape(stack))
  BY <1>2, ShapePopped
<1>6. Plain(Top).kind # "protect" /\ Plain(Top).exit = None
  BY <1>4 DEF Plain
<1>7. Unwind!IsExitPoint(Last(Shape(stack)), exit) <=> IsExitPoint(Top, exit)
  BY <1>5, SamePoints
<1>8. CASE exit = None
  <2>1. exit' = exit /\ delivered' = delivered
    BY <1>8 DEF Leaves
  <2> QED
    BY <1>5, <1>6, <1>8, <2>1, SameEnds DEF Unwind!UNext, Unwind!Leave, Shape, Plain
<1>9. CASE exit # None /\ IsExitPoint(Top, exit)
  <2>1. exit' = None /\ delivered' = exit.value
    BY <1>9 DEF Leaves
  <2> QED
    BY <1>5, <1>7, <1>9, <2>1, SameEnds DEF Unwind!UNext, Unwind!Arrive, Shape, Plain
<1>10. CASE exit # None /\ ~IsExitPoint(Top, exit)
  <2>1. exit' = exit /\ delivered' = delivered
    BY <1>10 DEF Leaves
  <2> QED
    BY <1>5, <1>6, <1>7, <1>10, <2>1, SameEnds DEF Unwind!UNext, Unwind!Unwind, Shape, Plain
<1> QED
  BY <1>8, <1>9, <1>10

LEMMA RunsCleanup ==
  ASSUME Sound, BeginCleanup
  PROVE  Unwind!UNext
<1>1. PICK b, c : Nest(stack, b, c)
  BY DEF Sound, Consistent
<1> DEFINE fr == [Top EXCEPT !.kind = "cleanup", !.exit = exit,
                             !.saved = ExitFrom(Quiescent, flags)]
<1>2. /\ stack # <<>> /\ stack' = Append(Rest, fr) /\ exit' = None /\ delivered' = delivered
      /\ Top.kind = "protect" /\ flags \in Flags /\ exit \in Exits \cup {None}
  BY DEF BeginCleanup, Protected, In, Sound, ExitTypeOK
<1>3. /\ stack \in Seq(Frames) /\ Top = stack[Len(stack)] /\ Top = Last(stack) /\ Top \in Frames
  BY <1>2, TopTypes DEF Sound, ExitTypeOK, Top
<1>4. Top.name = Nil
  BY <1>1, <1>2, <1>3, TopIs DEF Fits
<1>5. ExitFrom(Quiescent, flags) \in Flags
  BY <1>2, QuiescentIs, ExitFromIs
<1>6. fr \in Frames /\ Plain(fr) = [kind |-> "cleanup", name |-> Nil, exit |-> exit]
  BY <1>2, <1>3, <1>4, <1>5 DEF Frames, Kinds, Plain
<1> HIDE DEF fr
<1>7. Rest \in Seq(Frames)
  BY <1>2, <1>3, FrontIs DEF Rest
<1>8. /\ Shape(stack) # <<>> /\ Last(Shape(stack)) = Plain(Top)
      /\ Shape(Rest) = Front(Shape(stack))
  BY <1>2, <1>3, ShapePopped DEF Rest
<1>9. Shape(stack') = Append(Front(Shape(stack)),
                             [kind |-> "cleanup", name |-> Nil, exit |-> exit])
  BY <1>2, <1>6, <1>7, <1>8, ShapePushed
<1>10. Last(Shape(stack)).kind = "protect" /\ ~IsExitPoint(Top, exit)
  BY <1>2, <1>8 DEF Plain, IsExitPoint
<1>11. ~Unwind!IsExitPoint(Last(Shape(stack)), exit)
  BY <1>8, <1>10, SamePoints
<1>12. CASE exit = None
  BY <1>2, <1>8, <1>9, <1>10, <1>12, SameEnds DEF Unwind!UNext, Unwind!Leave, Unwind!Cleanup, Shape, Plain
<1>13. CASE exit # None
  BY <1>2, <1>8, <1>9, <1>10, <1>11, <1>13, SameEnds
     DEF Unwind!UNext, Unwind!Unwind, Unwind!Cleanup, Shape, Plain
<1> QED
  BY <1>12, <1>13

LEMMA EndsCleanup ==
  ASSUME Sound, EndCleanup
  PROVE  Unwind!UNext
<1>1. /\ stack # <<>> /\ stack \in Seq(Frames) /\ Top.kind = "cleanup" /\ Top = Last(stack)
      /\ stack' = Front(stack) /\ exit' = Top.exit /\ delivered' = delivered
  BY DEF EndCleanup, Pop, In, Sound, ExitTypeOK, Top, Rest
<1>2. exit = None
  BY EndCleanupKeeps
<1>3. /\ Shape(stack) # <<>> /\ Last(Shape(stack)) = Plain(Top)
      /\ Shape(stack') = Front(Shape(stack))
  BY <1>1, ShapePopped
<1>4. Last(Shape(stack)).kind # "protect" /\ Last(Shape(stack)).exit = Top.exit
  BY <1>1, <1>3 DEF Plain
<1> QED
  BY <1>1, <1>2, <1>3, <1>4, SameEnds DEF Unwind!UNext, Unwind!Leave, Shape, Plain

LEMMA RequestStarts ==
  ASSUME NEW kind, NEW name, NEW v \in Values,
         \/ kind = "from" /\ name \in Names
         \/ kind = "throw" /\ name \in Tags
         \/ kind \in {"return", "error"} /\ name = Nil
  PROVE  Request(kind, name, v) \in Unwind!Exits /\ Request(kind, name, v).kind = kind
BY DEF Request, Unwind!Exits

LEMMA SignalStarts ==
  ASSUME Sound, NEW v \in Values, Signal(v), ~astray'
  PROVE  Unwind!UNext
<1> DEFINE e == Request("error", Nil, v)
<1>1. e \in Unwind!Exits /\ e.kind = "error"
  BY RequestStarts
<1>2. stack' = stack /\ Asks(e)
  BY DEF Signal
<1> HIDE DEF e
<1>3. ~flags.abort /\ exit' = e /\ delivered' = delivered
  BY <1>2, AsksIs
<1>4. Shape(stack') = Shape(stack)
  BY <1>2
<1> QED
  BY <1>1, <1>3, <1>4, StartsExit

LEMMA LoopReturnStarts ==
  ASSUME Sound, NEW v \in Values, LoopReturn(v), ~astray'
  PROVE  Unwind!UNext
<1> DEFINE e == Request("return", Nil, v)
<1>1. e \in Unwind!Exits /\ e.kind = "return"
  BY RequestStarts
<1>2. stack' = stack /\ Asks(e)
  BY DEF LoopReturn
<1> HIDE DEF e
<1>3. ~flags.abort /\ exit' = e /\ delivered' = delivered
  BY <1>2, AsksIs
<1>4. Shape(stack') = Shape(stack)
  BY <1>2
<1> QED
  BY <1>1, <1>3, <1>4, StartsExit

(* The value that is put in a frame is no part of the shape of the nest. *)
LEMMA ValueHidden ==
  ASSUME ExitTypeOK, NEW e, ExitPoints(e) # {}, NEW v \in Values,
         NEW t, WithValue(t, stack, Innermost(ExitPoints(e)), v)
  PROVE  Shape(t) = Shape(stack)
<1> DEFINE i == Innermost(ExitPoints(e))
<1>1. WithValue(t, stack, i, v)
  OBVIOUS
<1> HIDE DEF i
<1>2. /\ t \in Seq(Frames) /\ Len(t) = Len(stack)
      /\ \A j \in 1..Len(stack) : /\ t[j].kind = stack[j].kind /\ t[j].name = stack[j].name
                                  /\ t[j].exit = stack[j].exit
  BY <1>1, ValuePut DEF i
<1>3. stack \in Seq(Frames)
  BY DEF ExitTypeOK
<1> QED
  BY <1>2, <1>3, SameShape

LEMMA TransferStarts ==
  ASSUME Sound, NEW e \in Unwind!Exits, e.value \in Values, NEW g, Transfer(e, g), ~astray'
  PROVE  Unwind!UNext
<1>1. /\ Asks(e) /\ ExitPoints(e) # {}
      /\ WithValue(stack', stack, Innermost(ExitPoints(e)), e.value)
  BY DEF Transfer, WithValue
<1>2. ~flags.abort /\ exit' = e /\ delivered' = delivered
  BY <1>1, AsksIs
<1>3. Shape(stack') = Shape(stack)
  BY <1>1, ValueHidden DEF Sound
<1> QED
  BY <1>1, <1>2, <1>3, StartsExit

LEMMA EnterStepsUnwind ==
  ASSUME Sound,
         \/ EnterProtect \/ EnterLoop \/ EnterHandler
         \/ \E n \in Names : EnterBlock(n)
         \/ \E tag \in Tags : EnterCatch(tag),
         ~astray'
  PROVE  Unwind!UNext
<1>1. /\ flags \in Flags /\ Quiescent \in Flags
      /\ BreakFrom(Quiescent, flags) \in Flags /\ CondFrom(Quiescent, flags) \in Flags
  BY QuiescentIs, BreakFromIs, CondFromIs DEF Sound, ExitTypeOK
<1> QED
  BY <1>1, EntersFrame, ExitAssumption
     DEF EnterProtect, EnterLoop, EnterHandler, EnterBlock, EnterCatch

LEMMA ExitStepUnwinds ==
  ASSUME ExitIInv, [ExitNext]_exitVars, ~astray'
  PROVE  Unwind!UNext \/ UNCHANGED <<Shape(stack), exit, delivered>>
<1>1. CASE UNCHANGED exitVars
  BY <1>1 DEF exitVars
<1>2. CASE EnterToplevel
  BY <1>2, EntersToplevel DEF ExitIInv
<1>3. CASE ExitNext /\ ~EnterToplevel
  <2>1. Sound
    BY <1>3, StaysAstray DEF ExitIInv, Sound
  <2>2. CASE Open
    BY <1>3, <2>1, <2>2, EnterStepsUnwind DEF Open
  <2>3. CASE Begin
    <3>1. PICK v \in Values :
            \/ Error(v) \/ CoerceFails(v) \/ LoopReturn(v)
            \/ \E n \in Names : ReturnFrom(n, v) \/ ReturnFromFails(n, v)
            \/ \E tag \in Tags : Throw(tag, v) \/ ThrowFails(tag, v)
      BY <2>3 DEF Begin
    <3>2. CASE LoopReturn(v)
      BY <2>1, <3>2, LoopReturnStarts
    <3>3. ASSUME NEW n \in Names, ReturnFrom(n, v)
          PROVE  Unwind!UNext
      <4>1. Request("from", n, v) \in Unwind!Exits /\ Request("from", n, v).value \in Values
        BY RequestStarts, RequestIs
      <4> QED
        BY <2>1, <3>3, <4>1, TransferStarts DEF ReturnFrom
    <3>4. ASSUME NEW tag \in Tags, Throw(tag, v)
          PROVE  Unwind!UNext
      <4>1. Request("throw", tag, v) \in Unwind!Exits /\ Request("throw", tag, v).value \in Values
        BY RequestStarts, RequestIs
      <4> QED
        BY <2>1, <3>4, <4>1, TransferStarts DEF Throw
    <3>5. CASE Error(v) \/ CoerceFails(v)
      BY <2>1, <3>5, SignalStarts DEF Error, CoerceFails
    <3> QED
      BY <3>1, <3>2, <3>3, <3>4, <3>5 DEF ReturnFromFails, ThrowFails, ExitFails
  <2>4. CASE Close
    BY <2>1, <2>4, LeaveBlockKeeps, LeaveLoopKeeps, LeaveCatchKeeps, LeaveGuardedKeeps,
       LeavesFrame, RunsCleanup, EndsCleanup DEF Close
  <2> QED
    BY <1>3, <2>2, <2>3, <2>4 DEF ExitNext
<1> QED
  BY <1>1, <1>2, <1>3

(* Until one goes astray the flags implement exits that know where they go, and
   each arrives at the frame it is for with the value it set out with. *)
THEOREM ExitsUnwind == ExitSpec => UnwindingSpec
<1>1. ExitInit => Unwind!UInit
  BY ExitAssumption DEF ExitInit, Unwind!UInit
<1>2. ExitIInv /\ [ExitNext]_exitVars => [~astray' => Unwind!UNext]_(Unwind!uvars)
  BY ExitStepUnwinds DEF Unwind!uvars, Shape, Plain
<1> QED
  BY <1>1, <1>2, ExitInductiveInvariant, PTL DEF ExitSpec, UnwindingSpec
=============================================================================
