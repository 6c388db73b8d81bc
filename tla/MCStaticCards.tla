--------------------------- MODULE MCStaticCards ---------------------------
EXTENDS StaticCards, TLC

CONSTANTS c1, c2, c3, k1, k2

(* Two cells share a card, the third has one of its own. *)
TwoCards == c1 :> k1 @@ c2 :> k1 @@ c3 :> k2

Symmetric == Permutations(Mutators)
=============================================================================
