------------------------------ MODULE HashTable ------------------------------
(***************************************************************************)
(* The hash tables of Lisp/core.lisp: a vector of buckets, each a list of  *)
(* (key . value) pairs, over the two hash functions of abi.rs.             *)
(*                                                                         *)
(* %word-hash hashes the bits of a word, that is the address of an object  *)
(* on the heap, and the collector moves objects; %equal-hash hashes the    *)
(* characters of a string, and of a cons what its cars lead to.  A key     *)
(* hashed by its address is findable only while it stays where it was when *)
(* it was entered.  The model says which keys a table serves correctly,    *)
(* with the others in the same buckets.  No program changes a cons that is *)
(* a key.                                                                  *)
(*                                                                         *)
(* maphash calls Lisp code between two entries.  That code may enter or    *)
(* remove the entry it was called with, as Common Lisp allows.             *)
(***************************************************************************)
EXTENDS Naturals, Sequences, FiniteSets, SequencesExt

CONSTANTS
  Keys,      \* objects used as keys
  Fixed,     \* those that never move: immediates, symbols, static objects
  Strings,   \* those %equal-hash hashes by their characters
  Numbers,   \* boxed numbers, which eql compares by value
  Conses,    \* those %equal-hash hashes by their cars
  Leaf,      \* what following the cars of a cons leads to
  Scatter,   \* what the hash of a leaf becomes in that of a cons
  Content,   \* the characters, the value or the structure of those
  MaxCount,  \* bound of the model: entries in the table
  Vals, NBuckets, Nobody, Absent, Unspecified

ASSUME HashTableAssumption ==
  /\ Fixed \subseteq Keys /\ Strings \subseteq Keys /\ Numbers \subseteq Keys
  /\ Strings \cap Numbers = {} /\ Conses \cap (Strings \cup Numbers) = {}
  /\ Content \in [Strings \cup Numbers \cup Conses -> Nat]
  /\ NBuckets \in Nat \ {0} /\ MaxCount \in Nat
  /\ Nobody \notin Keys
  /\ Absent \notin Vals /\ Unspecified \notin Vals \cup {Absent}

(* Equal conses have equal cars. *)
ASSUME ConsAssumption ==
  /\ Conses \subseteq Keys /\ Leaf \in [Conses -> Keys \ Conses]
  /\ Scatter \in [0 .. NBuckets - 1 -> 0 .. NBuckets - 1]
  /\ \A j, k \in Conses : Content[j] = Content[k] =>
       \/ Leaf[j] = Leaf[k]
       \/ {Leaf[j], Leaf[k]} \in (SUBSET Strings) \cup (SUBSET Numbers)
          /\ Content[Leaf[j]] = Content[Leaf[k]]

VARIABLES
  test,    \* "eq", "eql" or "equal", given to make-hash-table
  table,   \* bucket -> its pairs, the last one entered first
  count,   \* slot 1 of the vector
  bits,    \* what the bits of each key hash to: its address, unless immediate
  walk,    \* the maphash in progress: bucket index, keys left in it, and the
           \* key the function is being called with
  seen,    \* history: the entries it has been called with
  due,     \* history: those it owes a call: there since maphash began
  reply    \* what the last operation returned; Unspecified for unsteady keys

vars == <<test, table, count, bits, walk, seen, due, reply>>
maphashing == <<walk, seen, due>>

Buckets == 0 .. NBuckets - 1
Pairs == [key : Keys, val : Vals]
Idle == [i |-> NBuckets, rest |-> <<>>, current |-> Nobody]

TypeOK ==
  /\ test \in {"eq", "eql", "equal"}
  /\ table \in [Buckets -> Seq(Pairs)]
  /\ count \in Nat
  /\ bits \in [Keys -> Buckets]
  /\ walk \in [i : 0 .. NBuckets, rest : Seq(Keys), current : Keys \cup {Nobody}]
  /\ seen \subseteq Keys \X Buckets /\ due \subseteq Keys \X Buckets
  /\ reply \in Vals \cup BOOLEAN \cup {Absent, Unspecified}

(* %ht-keys-match *)
Same(j, k) == j \in DOMAIN Content /\ k \in DOMAIN Content /\ Content[j] = Content[k]
Match(j, k) ==
  \/ j = k
  \/ test # "eq" /\ {j, k} \subseteq Numbers /\ Same(j, k)
  \/ test = "equal" /\ {j, k} \subseteq Strings /\ Same(j, k)
  \/ test = "equal" /\ {j, k} \subseteq Conses /\ Same(j, k)

(* The object whose hash stands for that of k, and whether its characters are
   hashed. *)
Hashed(k) == IF test = "equal" /\ k \in Conses THEN Leaf[k] ELSE k
ByContent(k) == test = "equal" /\ Hashed(k) \in Strings

(* Faulty variant of Index: equal tables hash strings like any other object. *)
IndexByBits(k) == bits[k]

(* %ht-bucket-index: a hash is known by its remainder. *)
Index(k) ==
  LET h == IF ByContent(k) THEN Content[Hashed(k)] % NBuckets ELSE bits[Hashed(k)]
  IN  IF Hashed(k) = k THEN h ELSE Scatter[h]

(* The keys whose hash cannot change, nor differ from that of a match. *)
Steady(k) == \A j \in Keys :
  Match(j, k) => ByContent(j) \/ (Hashed(j) = Hashed(k) /\ Hashed(k) \in Fixed)

Positions(k) == {p \in DOMAIN table[Index(k)] : Match(table[Index(k)][p].key, k)}
Present(k) == Positions(k) # {}
Position(k) == CHOOSE p \in Positions(k) : \A q \in Positions(k) : p <= q

Reply(k, r) == reply' = IF Steady(k) THEN r ELSE Unspecified
-----------------------------------------------------------------------------
Init ==
  /\ test \in {"eq", "eql", "equal"}
  /\ table = [b \in Buckets |-> <<>>]
  /\ count = 0
  /\ bits \in [Keys -> Buckets]
  /\ walk = Idle /\ seen = {} /\ due = {}
  /\ reply = Unspecified

(* Only the entry maphash is at may be changed while it runs. *)
Allowed(k) == walk = Idle \/ walk.current = k

Gethash(k) ==
  /\ Reply(k, IF Present(k) THEN table[Index(k)][Position(k)].val ELSE Absent)
  /\ UNCHANGED <<test, table, count, bits, maphashing>>

HashSet(k, v) ==
  /\ Allowed(k)
  /\ IF Present(k)
       THEN /\ table' = [table EXCEPT ![Index(k)][Position(k)].val = v]
            /\ UNCHANGED count
       ELSE /\ count < MaxCount
            /\ table' = [table EXCEPT ![Index(k)] = <<[key |-> k, val |-> v]>> \o @]
            /\ count' = count + 1
  /\ Reply(k, v)
  /\ UNCHANGED <<test, bits, maphashing>>

(* Faulty variant of Remhash: the count is left as it was. *)
RemhashUncounted(k) ==
  /\ Allowed(k)
  /\ Present(k)
  /\ table' = [table EXCEPT ![Index(k)] = RemoveAt(@, Position(k))]
  /\ due' = due \ {<<table[Index(k)][Position(k)].key, Index(k)>>}
  /\ Reply(k, TRUE)
  /\ UNCHANGED <<test, count, bits, walk, seen>>

Remhash(k) ==
  /\ Allowed(k)
  /\ IF Present(k)
       THEN /\ table' = [table EXCEPT ![Index(k)] = RemoveAt(@, Position(k))]
            /\ count' = count - 1
            /\ due' = due \ {<<table[Index(k)][Position(k)].key, Index(k)>>}
       ELSE UNCHANGED <<table, count, due>>
  /\ Reply(k, Present(k))
  /\ UNCHANGED <<test, bits, walk, seen>>

Clrhash ==
  /\ walk = Idle
  /\ table' = [b \in Buckets |-> <<>>]
  /\ count' = 0
  /\ reply' = Unspecified
  /\ UNCHANGED <<test, bits, maphashing>>
-----------------------------------------------------------------------------
KeysIn(b) == [p \in DOMAIN table[b] |-> table[b][p].key]
Entries == UNION {Range(KeysIn(b)) \X {b} : b \in Buckets}

MaphashBegin ==
  /\ walk = Idle
  /\ walk' = [i |-> 0, rest |-> KeysIn(0), current |-> Nobody]
  /\ due' = Entries
  /\ UNCHANGED <<test, table, count, bits, seen, reply>>

(* The function is called with the next pair of the bucket.  The list maphash
   follows is the tail of the bucket: entries go in before it, and the only one
   that may be taken out is the one it has just passed. *)
MaphashCall ==
  /\ walk # Idle /\ walk.current = Nobody /\ walk.rest # <<>>
  /\ walk' = [walk EXCEPT !.current = Head(walk.rest), !.rest = Tail(@)]
  /\ seen' = seen \cup {<<Head(walk.rest), walk.i>>}
  /\ due' = due \ {<<Head(walk.rest), walk.i>>}
  /\ UNCHANGED <<test, table, count, bits, reply>>

MaphashReturn ==
  /\ walk # Idle /\ walk.current # Nobody
  /\ walk' = [walk EXCEPT !.current = Nobody]
  /\ UNCHANGED <<test, table, count, bits, seen, due, reply>>

(* Faulty variant of MaphashBucket: the last bucket is taken for the end. *)
MaphashShort ==
  /\ walk # Idle /\ walk.current = Nobody /\ walk.rest = <<>>
  /\ walk' = IF walk.i + 2 < NBuckets
               THEN [walk EXCEPT !.i = @ + 1, !.rest = KeysIn(walk.i + 1)] ELSE Idle
  /\ seen' = IF walk' = Idle THEN {} ELSE seen
  /\ due' = due
  /\ UNCHANGED <<test, table, count, bits, reply>>

MaphashBucket ==
  /\ walk # Idle /\ walk.current = Nobody /\ walk.rest = <<>>
  /\ \/ /\ walk.i + 1 < NBuckets
        /\ walk' = [walk EXCEPT !.i = @ + 1, !.rest = KeysIn(walk.i + 1)]
        /\ UNCHANGED <<seen, due>>
     \/ /\ walk.i + 1 = NBuckets
        /\ walk' = Idle
        /\ seen' = {} /\ due' = {}
  /\ UNCHANGED <<test, table, count, bits, reply>>

(* A collection moves an object that no stack refers to. *)
Move(k) ==
  /\ k \notin Fixed
  /\ walk.current # k
  /\ \E b \in Buckets \ {bits[k]} : bits' = [bits EXCEPT ![k] = b]
  /\ UNCHANGED <<test, table, count, maphashing, reply>>

Next == \/ \E k \in Keys : \/ Gethash(k)
                           \/ \E v \in Vals : HashSet(k, v)
                           \/ Remhash(k)
                           \/ Move(k)
        \/ Clrhash
        \/ MaphashBegin \/ MaphashCall \/ MaphashReturn \/ MaphashBucket

Spec == Init /\ [][Next]_vars
-----------------------------------------------------------------------------
(***************************************************************************)
(* For the keys whose hash is steady the table is a dictionary, whatever   *)
(* entries of other keys share their buckets and wherever those keys move: *)
(* gethash finds the last value entered, a removed key is gone, an equal   *)
(* string finds the entry of another one.                                  *)
(***************************************************************************)
Classes == {{k} : k \in Fixed \cup Strings \cup Conses}
           \cup {{j \in S : Same(j, k)} : S \in {Strings, Conses}, k \in Strings \cup Conses}
IsName(c) == \A k \in c : Steady(k) /\ c = {j \in Keys : Match(j, k)}
Value(c) ==
  LET found == {e \in UNION {Range(table[b]) : b \in Buckets} : e.key \in c}
  IN  IF IsName(c) /\ found # {} THEN (CHOOSE e \in found : TRUE).val ELSE Absent

Ideal == INSTANCE Dictionary WITH
           Names <- Classes,
           map <- [c \in Classes |-> Value(c)],
           answer <- reply
DictionarySpec == Ideal!Spec

(***************************************************************************)
(* hash-table-count is the number of entries in the buckets, also when a   *)
(* key that has moved is entered a second time or can not be removed.      *)
(***************************************************************************)
Places == UNION {{b} \X DOMAIN table[b] : b \in Buckets}
CountExact == count = Cardinality(Places)

(***************************************************************************)
(* maphash calls its function once with each entry: it misses none that    *)
(* was there when it began and was not removed, and meets none twice,      *)
(* while the function enters and removes the entry it is called with.      *)
(***************************************************************************)
MaphashComplete ==
  [][/\ walk # Idle /\ walk' = Idle => due = {}
     /\ walk.current = Nobody /\ walk'.current # Nobody =>
          <<walk'.current, walk.i>> \notin seen]_vars

(***************************************************************************)
(* The comment over %word-hash: hashing the raw bits is correct for eq and *)
(* eql tables, because values that are eq have identical bits.  So an      *)
(* entry is found under the very object it was entered with.               *)
(***************************************************************************)
EntriesAreFound ==
  \A b \in Buckets : \A p \in DOMAIN table[b] : Present(table[b][p].key)
=============================================================================
