---------------------------- MODULE StaticCards ----------------------------
(***************************************************************************)
(* The write barrier of the static area (ncl-runtime/src/mutator.rs).      *)
(* Static cells (symbol value and function cells, closure environments)    *)
(* never move, but hold pointers to objects that do.  A store is followed  *)
(* by a card mark; a minor collection treats the pointers in dirty cards   *)
(* as roots and rewrites them, and its driver then cleans the cards that   *)
(* hold no pointer any more, after the other mutators have been released.  *)
(*                                                                         *)
(* The collector itself is newgc-core, an external crate: Collect is one   *)
(* step that needs every mutator at a safepoint, keeps what is reachable   *)
(* and moves what it likes.  Pointers between heap objects are its own     *)
(* business and left out.                                                  *)
(***************************************************************************)
EXTENDS Naturals

CONSTANTS
  Mutators,
  Cells,
  Cards,
  CardOf,           \* the card each static cell lies in
  Objects,          \* heap objects
  Imm,              \* a word that is no heap pointer
  Unborn, Dead,     \* what place holds outside an object's life
  MaxMoves,         \* bound on how often one object moves
  Rebound           \* value cells of the special variables Lisp code rebinds

ASSUME StaticCardsAssumption ==
  /\ CardOf \in [Cells -> Cards]
  /\ \A d \in Cards : \E c \in Cells : CardOf[c] = d
  /\ Imm \notin Objects \X Nat
  /\ {Unborn, Dead} \cap Nat = {}
  /\ MaxMoves \in Nat
  /\ Rebound \subseteq Cells

VARIABLES
  cell,     \* the word in each static cell
  dirty,    \* the cards marked dirty
  place,    \* where each object is: how often it has moved, Unborn or Dead
  held,     \* objects each mutator has roots for; the collector updates roots
  pc,       \* "run", "mark" (stored, card not marked yet), "cards", "card", "erase"
  at,       \* the cell the mutator has stored to
  cards,    \* the driver: cards it has yet to look at
  card,     \* the driver: the card it looks at
  unread,   \* the driver: cells of that card it has yet to read
  overtaken \* history, no part of the program: see Overtakes

vars == <<cell, dirty, place, held, pc, at, cards, card, unread, overtaken>>
driver == <<cards, card, unread>>

Word == {Imm} \cup (Objects \X Nat)
IsPointer(w) == w # Imm
Alive == {o \in Objects : place[o] \in Nat}
PointerTo(o) == <<o, place[o]>>
Current(w) == IsPointer(w) => w = PointerTo(w[1])
CellsOf(d) == {c \in Cells : CardOf[c] = d}
At(m, p) == [pc EXCEPT ![m] = p]

Init ==
  /\ cell = [c \in Cells |-> Imm]
  /\ dirty = {}
  /\ place = [o \in Objects |-> Unborn]
  /\ held = [m \in Mutators |-> {}]
  /\ pc = [m \in Mutators |-> "run"]
  /\ at \in [Mutators -> Cells]
  /\ cards = [m \in Mutators |-> {}]
  /\ card \in [Mutators -> Cards]
  /\ unread = [m \in Mutators |-> {}]
  /\ overtaken = {}

-----------------------------------------------------------------------------
(* Mutators *)
Allocate(m, o) ==
  /\ pc[m] = "run"
  /\ place[o] = Unborn
  /\ place' = [place EXCEPT ![o] = 0]
  /\ held' = [held EXCEPT ![m] = @ \cup {o}]
  /\ UNCHANGED <<cell, dirty, pc, at, driver, overtaken>>

Load(m, c) ==
  /\ pc[m] = "run"
  /\ IsPointer(cell[c])
  /\ Current(cell[c])  \* reading through a stale pointer is undefined
  /\ held' = [held EXCEPT ![m] = @ \cup {cell[c][1]}]
  /\ UNCHANGED <<cell, dirty, place, pc, at, driver, overtaken>>

Forget(m, o) ==
  /\ pc[m] = "run"
  /\ o \in held[m]
  /\ held' = [held EXCEPT ![m] = @ \ {o}]
  /\ UNCHANGED <<cell, dirty, place, pc, at, driver, overtaken>>

WordsOf(m) == {Imm} \cup {PointerTo(o) : o \in held[m]}

(* set_symbol_value, set_symbol_function and a cas_symbol_function that     *)
(* succeeds: the release store, then the card mark.                         *)
Store(m, c, w) ==
  /\ pc[m] = "run"
  /\ w \in WordsOf(m)
  /\ cell' = [cell EXCEPT ![c] = w]
  /\ at' = [at EXCEPT ![m] = c]
  /\ pc' = At(m, "mark")
  /\ UNCHANGED <<dirty, place, held, driver, overtaken>>

(***************************************************************************)
(* A driver is about to clean c's card and has already read c.  A mark     *)
(* made now may be wiped out, although the driver never saw the pointer:   *)
(* cells whose last mark fell into such a moment are overtaken.            *)
(***************************************************************************)
Overtakes(c) ==
  \E m \in Mutators :
    pc[m] \in {"card", "erase"} /\ card[m] = CardOf[c] /\ c \notin unread[m]

(* Faulty variant of MarkCard: the mark is left out. *)
MarkNothing(m) ==
  /\ pc[m] = "mark"
  /\ pc' = At(m, "run")
  /\ overtaken' = IF Overtakes(at[m]) THEN overtaken \cup {at[m]} ELSE overtaken \ {at[m]}
  /\ UNCHANGED <<cell, dirty, place, held, at, driver>>

MarkCard(m) ==
  /\ pc[m] = "mark"
  /\ dirty' = dirty \cup {CardOf[at[m]]}
  /\ pc' = At(m, "run")
  /\ overtaken' = IF Overtakes(at[m]) THEN overtaken \cup {at[m]} ELSE overtaken \ {at[m]}
  /\ UNCHANGED <<cell, place, held, at, driver>>

(* ncl_dynamic_bind stores the new value and hands the old one to its       *)
(* caller, ncl_dynamic_unbind stores that one back; neither marks the card. *)
DynamicBind(m, c, w) ==
  /\ c \in Rebound
  /\ pc[m] = "run"
  /\ w \in WordsOf(m)
  /\ Current(cell[c])
  /\ cell' = [cell EXCEPT ![c] = w]
  /\ held' = [held EXCEPT ![m] =
                @ \cup (IF IsPointer(cell[c]) THEN {cell[c][1]} ELSE {})]
  /\ UNCHANGED <<dirty, place, pc, at, driver, overtaken>>

-----------------------------------------------------------------------------
(* Collection *)
AtSafepoint == \A m \in Mutators : pc[m] = "run"
InDirtyCard(c) == CardOf[c] \in dirty
Scanned == {c \in Cells : InDirtyCard(c) /\ IsPointer(cell[c])}
Reachable ==
  (UNION {held[m] : m \in Mutators}) \cup {cell[c][1] : c \in Scanned}

(***************************************************************************)
(* drive_minor on m: with the world stopped, objects that are not          *)
(* reachable may die, and the reachable ones either stay (pinned) or move; *)
(* scan_static_dirty_cards rewrites the cells of dirty cards.  Then the    *)
(* world goes on and m turns to the cards.  What the collector does with a *)
(* stale pointer is undefined: the model ends there.                       *)
(***************************************************************************)
Collect(m, dying, moving) ==
  /\ AtSafepoint
  /\ \A c \in Scanned : Current(cell[c])
  /\ dying \subseteq Alive \ Reachable
  /\ moving \subseteq {o \in Alive \cap Reachable : place[o] < MaxMoves}
  /\ place' = [o \in Objects |-> IF o \in dying THEN Dead
                                 ELSE IF o \in moving THEN place[o] + 1
                                 ELSE place[o]]
  /\ cell' = [c \in Cells |-> IF c \in Scanned
                              THEN <<cell[c][1], place'[cell[c][1]]>>
                              ELSE cell[c]]
  /\ pc' = At(m, "cards")
  /\ cards' = [cards EXCEPT ![m] = Cards]
  /\ UNCHANGED <<dirty, held, at, card, unread, overtaken>>

(***************************************************************************)
(* clear_static_cards_unless_intergen: look at each dirty card in turn,    *)
(* read its cells until one holds a pointer, and clear the card if none    *)
(* does.  (The order of cards and cells does not matter here.)             *)
(***************************************************************************)
LookAtCard(m, d) ==
  /\ pc[m] = "cards"
  /\ d \in cards[m]
  /\ cards' = [cards EXCEPT ![m] = @ \ {d}]
  /\ IF d \in dirty
     THEN /\ card' = [card EXCEPT ![m] = d]
          /\ unread' = [unread EXCEPT ![m] = CellsOf(d)]
          /\ pc' = At(m, "card")
     ELSE UNCHANGED <<card, unread, pc>>
  /\ UNCHANGED <<cell, dirty, place, held, at, overtaken>>

(* Faulty variant of ReadCell: a card is judged by its first cell. *)
ReadFirstCell(m, c) ==
  /\ pc[m] = "card"
  /\ c \in unread[m]
  /\ unread' = [unread EXCEPT ![m] = {}]
  /\ pc' = At(m, IF IsPointer(cell[c]) THEN "cards" ELSE "erase")
  /\ UNCHANGED <<cell, dirty, place, held, at, cards, card, overtaken>>

ReadCell(m, c) ==
  /\ pc[m] = "card"
  /\ c \in unread[m]
  /\ unread' = [unread EXCEPT ![m] = @ \ {c}]
  /\ pc' = At(m, IF IsPointer(cell[c]) THEN "cards"
                 ELSE IF unread[m] = {c} THEN "erase" ELSE "card")
  /\ UNCHANGED <<cell, dirty, place, held, at, cards, card, overtaken>>

EraseCard(m) ==
  /\ pc[m] = "erase"
  /\ dirty' = dirty \ {card[m]}
  /\ pc' = At(m, "cards")
  /\ UNCHANGED <<cell, place, held, at, driver, overtaken>>

CardsDone(m) ==
  /\ pc[m] = "cards"
  /\ cards[m] = {}
  /\ pc' = At(m, "run")
  /\ UNCHANGED <<cell, dirty, place, held, at, driver, overtaken>>

Mutate(m) ==
  \/ \E o \in Objects : Allocate(m, o) \/ Forget(m, o)
  \/ \E c \in Cells : Load(m, c) \/ \E w \in WordsOf(m) :
                        Store(m, c, w) \/ DynamicBind(m, c, w)
  \/ MarkCard(m)

Drive(m) ==
  \/ \E dying, moving \in SUBSET Objects : Collect(m, dying, moving)
  \/ \E d \in Cards : LookAtCard(m, d)
  \/ \E c \in Cells : ReadCell(m, c)
  \/ EraseCard(m) \/ CardsDone(m)

Next == \E m \in Mutators : Mutate(m) \/ Drive(m)
Spec == Init /\ [][Next]_vars
-----------------------------------------------------------------------------
TypeOK ==
  /\ cell \in [Cells -> Word]
  /\ dirty \subseteq Cards
  /\ place \in [Objects -> Nat \cup {Unborn, Dead}]
  /\ held \in [Mutators -> SUBSET Objects]
  /\ pc \in [Mutators -> {"run", "mark", "cards", "card", "erase"}]
  /\ at \in [Mutators -> Cells]
  /\ cards \in [Mutators -> SUBSET Cards]
  /\ card \in [Mutators -> Cards]
  /\ unread \in [Mutators -> SUBSET Cells]
  /\ overtaken \subseteq Cells

(* Cells of which nothing is claimed: see NoStaleCell. *)
Exposed == Rebound \cup overtaken

(***************************************************************************)
(* No static cell ever holds a pointer to an object that has moved away or *)
(* died: what Lisp code loads from a symbol is the object it stored.  Only *)
(* two things break this, and DynamicBindUnmarked and CardClearRace show   *)
(* both: rebinding a special variable, and a mark that overtakes a driver  *)
(* on another thread.  That their cells do not spoil the ones they share a *)
(* card with is part of the claim.                                         *)
(***************************************************************************)
NoStaleCell == \A c \in Cells \ Exposed : Current(cell[c])

Marking(m, c) == pc[m] = "mark" /\ at[m] = c

Remembered(c) ==
  IsPointer(cell[c]) => InDirtyCard(c) \/ \E m \in Mutators : Marking(m, c)

(***************************************************************************)
(* The remembered set is complete: a cell with a heap pointer lies in a    *)
(* dirty card, but for the instant between the store and its mark, with    *)
(* any number of mutators storing while one of them cleans the cards.      *)
(***************************************************************************)
PointersInDirtyCards == \A c \in Cells \ Exposed : Remembered(c)

(***************************************************************************)
(* The same of every static cell, as static_area.rs states it: "Mutators   *)
(* dirty cards on every store of a heap pointer into a static cell".       *)
(***************************************************************************)
EveryStoreMarks == \A c \in Cells : Remembered(c)

(***************************************************************************)
(* The comment of clear_static_cards_unless_intergen: "keep a card dirty   *)
(* if any of its cells still holds a heap-pointer".                        *)
(***************************************************************************)
ClearedCardsHoldNoPointer ==
  [][\A c \in Cells : InDirtyCard(c) /\ IsPointer(cell[c]) => InDirtyCard(c)']_vars
=============================================================================
