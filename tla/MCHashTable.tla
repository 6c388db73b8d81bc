---------------------------- MODULE MCHashTable ----------------------------
EXTENDS HashTable

CONSTANTS symbol, string1, string2, cons1, cons2

(* A symbol and two equal strings *)
StringKeys == {symbol, string1, string2}
OneText == [k \in {string1, string2} |-> 1]

(* A symbol, a string and two equal conses of that string *)
ConsKeys == {symbol, string1, cons1, cons2}
OneForm == [k \in {string1, cons1, cons2} |-> 1]
CarIsString == [k \in {cons1, cons2} |-> string1]

NoCar == [k \in {} |-> symbol]
Swap == [b \in {0, 1} |-> 1 - b]

Symmetric == Permutations(Vals)
=============================================================================
