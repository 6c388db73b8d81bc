------------------------- MODULE StaticCardsProofs -------------------------
(***************************************************************************)
(* The write barrier of the static area is right for any number of         *)
(* mutators, cells, cards and objects, except for cells that are rebound   *)
(* or whose mark has overtaken a driver on another thread.                 *)
(***************************************************************************)
EXTENDS StaticCards, TLAPS

(* A root keeps its object alive. *)
HeldAlive == \A m \in Mutators : held[m] \subseteq Alive

(* What a driver has read of a card holds no pointer, unless a mark is      *)
(* still to come or has overtaken it.                                       *)
ReadCellsImm ==
  \A m \in Mutators :
    /\ pc[m] \in {"card", "erase"} =>
         \A c \in CellsOf(card[m]) \ (unread[m] \cup Exposed) :
           cell[c] = Imm \/ \E n \in Mutators : Marking(n, c)
    /\ pc[m] = "erase" => unread[m] = {}

(* No collection comes between a store and its mark.                        *)
MarkedWordsCurrent ==
  \A m \in Mutators : pc[m] = "mark" => Current(cell[at[m]])

IInv == TypeOK /\ NoStaleCell /\ PointersInDirtyCards /\ HeldAlive
        /\ ReadCellsImm /\ MarkedWordsCurrent

LEMMA InitIInv == Init => IInv
BY StaticCardsAssumption DEF Init, IInv, TypeOK, NoStaleCell, PointersInDirtyCards,
  Remembered, HeldAlive, ReadCellsImm, MarkedWordsCurrent, Word, Current, IsPointer

(* A collection leaves every pointer in a static cell current.              *)
LEMMA CollectIInv ==
  ASSUME IInv, NEW m \in Mutators, NEW dying \in SUBSET Objects,
         NEW moving \in SUBSET Objects, Collect(m, dying, moving)
  PROVE  IInv'
<1> USE StaticCardsAssumption
<1>1. /\ place \in [Objects -> Nat \cup {Unborn, Dead}]
      /\ cell \in [Cells -> Word]
      /\ pc \in [Mutators -> {"run", "mark", "cards", "card", "erase"}]
  BY DEF IInv, TypeOK
<1>0. \A c \in Cells \ Exposed : IsPointer(cell[c]) => c \in Scanned
  BY DEF Collect, AtSafepoint, IInv, PointersInDirtyCards, Remembered, Marking, Exposed, Scanned
<1>2. \A c \in Scanned :
        /\ cell[c][1] \in Objects
        /\ cell[c] = <<cell[c][1], place[cell[c][1]]>>
        /\ place[cell[c][1]] \in Nat
  <2> SUFFICES ASSUME NEW c \in Scanned
               PROVE  /\ cell[c][1] \in Objects
                      /\ cell[c] = <<cell[c][1], place[cell[c][1]]>>
                      /\ place[cell[c][1]] \in Nat
    OBVIOUS
  <2>1. c \in Cells /\ IsPointer(cell[c])
    BY DEF Scanned
  <2>2. cell[c] \in Objects \X Nat
    BY <1>1, <2>1 DEF Word, IsPointer
  <2>3. cell[c] = <<cell[c][1], place[cell[c][1]]>>
    BY <2>1 DEF Collect, Current, PointerTo
  <2> QED
    BY <1>1, <2>2, <2>3
<1>3. \A o \in Objects : o \in Alive => o \in Reachable \/ place'[o] \in Nat \cup {Dead}
  BY <1>1 DEF Collect, Alive
<1>4. \A o \in Objects : o \in Alive /\ o \in Reachable => place'[o] \in Nat
  BY <1>1 DEF Collect, Alive
<1>5. place' \in [Objects -> Nat \cup {Unborn, Dead}]
  BY <1>1 DEF Collect, Alive
<1>6. \A c \in Scanned : cell[c][1] \in Reachable /\ cell[c][1] \in Alive
  <2> SUFFICES ASSUME NEW c \in Scanned
               PROVE  cell[c][1] \in Reachable /\ cell[c][1] \in Alive
    OBVIOUS
  <2>2. cell[c][1] \in Objects /\ place[cell[c][1]] \in Nat
    BY <1>2
  <2>3. cell[c][1] \in {cell[x][1] : x \in Scanned}
    OBVIOUS
  <2>4. {cell[x][1] : x \in Scanned} \subseteq Reachable
    BY DEF Reachable
  <2> QED
    BY <2>2, <2>3, <2>4 DEF Alive
<1>7. \A c \in Cells : cell'[c] = IF c \in Scanned
                                  THEN <<cell[c][1], place'[cell[c][1]]>> ELSE cell[c]
  BY DEF Collect
<1>8. cell' \in [Cells -> Word]
  <2>1. \A c \in Cells : cell'[c] \in Word
    <3> TAKE c \in Cells
    <3>1. CASE c \in Scanned
      <4>1. cell[c][1] \in Objects /\ place'[cell[c][1]] \in Nat
        BY <1>4, <1>6, <3>1 DEF Alive
      <4>2. <<cell[c][1], place'[cell[c][1]]>> \in Objects \X Nat
        BY <4>1
      <4> QED
        BY <1>7, <3>1, <4>2 DEF Word
    <3>2. CASE c \notin Scanned
      BY <1>1, <1>7, <3>2
    <3> QED
      BY <3>1, <3>2
  <2> QED
    BY <2>1 DEF Collect
<1>9. NoStaleCell'
  <2> SUFFICES ASSUME NEW c \in Cells \ Exposed, IsPointer(cell'[c])
               PROVE  cell'[c] = <<cell'[c][1], place'[cell'[c][1]]>>
    BY DEF Collect, NoStaleCell, Exposed, Current, PointerTo, IsPointer
  <2>1. c \in Scanned
    BY <1>0, <1>7
  <2>2. cell'[c] = <<cell[c][1], place'[cell[c][1]]>>
    BY <1>7, <2>1
  <2>3. cell'[c][1] = cell[c][1]
    BY <2>2
  <2> QED
    BY <2>2, <2>3
<1>10. TypeOK'
  BY <1>5, <1>8 DEF Collect, IInv, TypeOK, At
<1>11. PointersInDirtyCards'
  BY <1>0, <1>7 DEF Collect, PointersInDirtyCards, Remembered, Exposed, Scanned, InDirtyCard, IsPointer
<1>12. HeldAlive'
  BY <1>4 DEF Collect, HeldAlive, IInv, Alive, Reachable
<1>13. ReadCellsImm'
  BY <1>1 DEF Collect, AtSafepoint, ReadCellsImm, At
<1>14. MarkedWordsCurrent'
  BY <1>1 DEF Collect, AtSafepoint, MarkedWordsCurrent, At
<1> QED
  BY <1>9, <1>10, <1>11, <1>12, <1>13, <1>14 DEF IInv

(* A mark either keeps its promise or is recorded as overtaken.             *)
LEMMA MarkCardIInv ==
  ASSUME IInv, NEW m \in Mutators, MarkCard(m)
  PROVE  IInv'
<1> USE StaticCardsAssumption
<1>1. at[m] \in Cells /\ pc \in [Mutators -> {"run", "mark", "cards", "card", "erase"}]
  BY DEF IInv, TypeOK
<1>2. /\ UNCHANGED <<cell, place, held, at, cards, card, unread>>
      /\ dirty' = dirty \cup {CardOf[at[m]]}
      /\ pc[m] = "mark" /\ pc' = [pc EXCEPT ![m] = "run"]
  BY DEF MarkCard, At, driver
<1>3. overtaken' = IF Overtakes(at[m]) THEN overtaken \cup {at[m]} ELSE overtaken \ {at[m]}
  BY DEF MarkCard
<1>4. \A c \in Cells : c # at[m] => (c \in Exposed' <=> c \in Exposed)
  BY <1>3 DEF Exposed
<1>5. \A n \in Mutators, c \in Cells : c # at[m] => (Marking(n, c)' <=> Marking(n, c))
  BY <1>1, <1>2 DEF Marking
<1>6. TypeOK'
  BY <1>1, <1>2, <1>3 DEF IInv, TypeOK
<1>7. NoStaleCell'
  <2> SUFFICES ASSUME NEW c \in Cells, c \notin Exposed'
               PROVE  Current(cell[c])
    BY <1>2 DEF NoStaleCell, Current, PointerTo, IsPointer
  <2>1. CASE c = at[m]
    BY <1>2, <2>1 DEF IInv, MarkedWordsCurrent
  <2>2. CASE c # at[m]
    BY <1>4, <2>2 DEF IInv, NoStaleCell
  <2> QED
    BY <2>1, <2>2
<1>8. PointersInDirtyCards'
  <2> SUFFICES ASSUME NEW c \in Cells, c \notin Exposed'
               PROVE  Remembered(c)'
    BY DEF PointersInDirtyCards
  <2>1. CASE c = at[m]
    BY <1>2, <2>1 DEF Remembered, InDirtyCard
  <2>2. CASE c # at[m]
    <3>1. Remembered(c)
      BY <1>4, <2>2 DEF IInv, PointersInDirtyCards
    <3> QED
      BY <1>2, <1>5, <2>2, <3>1 DEF Remembered, InDirtyCard
  <2> QED
    BY <2>1, <2>2
<1>9. HeldAlive'
  BY <1>2 DEF IInv, HeldAlive, Alive
<1>10. MarkedWordsCurrent'
  BY <1>1, <1>2 DEF IInv, MarkedWordsCurrent, Current, PointerTo, IsPointer
<1>11. ReadCellsImm'
  <2>1. ASSUME NEW d \in Mutators, pc'[d] \in {"card", "erase"},
               NEW c \in CellsOf(card[d]), c \notin unread[d], c \notin Exposed'
        PROVE  cell[c] = Imm \/ \E n \in Mutators : Marking(n, c)'
    <3>1. d # m /\ pc[d] \in {"card", "erase"} /\ c \in Cells /\ CardOf[c] = card[d]
      BY <1>1, <1>2, <2>1 DEF CellsOf
    <3>2. c # at[m]
      BY <1>3, <2>1, <3>1 DEF Overtakes, Exposed
    <3> QED
      BY <1>4, <1>5, <2>1, <3>1, <3>2 DEF IInv, ReadCellsImm
  <2>2. \A d \in Mutators : pc'[d] = "erase" => unread'[d] = {}
    BY <1>1, <1>2 DEF IInv, ReadCellsImm
  <2> QED
    BY <1>2, <2>1, <2>2 DEF ReadCellsImm, CellsOf
<1> QED
  BY <1>6, <1>7, <1>8, <1>9, <1>10, <1>11 DEF IInv

LEMMA StepIInv ==
  ASSUME IInv, [Next]_vars
  PROVE  IInv'
<1> USE StaticCardsAssumption
<1> USE DEF TypeOK, NoStaleCell, PointersInDirtyCards, Remembered, HeldAlive, ReadCellsImm,
    MarkedWordsCurrent, Marking, Exposed, At, InDirtyCard, driver
<1>1. CASE UNCHANGED vars
  BY <1>1 DEF vars, IInv, Current, PointerTo, Alive, CellsOf, Word, IsPointer
<1>2. ASSUME NEW m \in Mutators, NEW o \in Objects, Allocate(m, o)
      PROVE  IInv'
  BY <1>2 DEF IInv, Allocate, Current, PointerTo, Alive, CellsOf, Word, IsPointer
<1>3. ASSUME NEW m \in Mutators, NEW o \in Objects, Forget(m, o)
      PROVE  IInv'
  BY <1>3 DEF IInv, Forget, Current, PointerTo, Alive, CellsOf, Word, IsPointer
<1>4. ASSUME NEW m \in Mutators, NEW c \in Cells, Load(m, c)
      PROVE  IInv'
  BY <1>4 DEF IInv, Load, Current, PointerTo, Alive, CellsOf, Word, IsPointer
<1>5. ASSUME NEW m \in Mutators, NEW c \in Cells, NEW w \in WordsOf(m), Store(m, c, w)
      PROVE  IInv'
  BY <1>5 DEF IInv, Store, WordsOf, Current, PointerTo, Alive, CellsOf, Word,
    IsPointer
<1>6. ASSUME NEW m \in Mutators, MarkCard(m)
      PROVE  IInv'
  BY <1>6, MarkCardIInv
<1>7. ASSUME NEW m \in Mutators, NEW d \in Cards, LookAtCard(m, d)
      PROVE  IInv'
  <2>1. CASE d \in dirty
    <3>1. TypeOK' /\ HeldAlive'
      BY <1>7, <2>1 DEF IInv, LookAtCard, Alive, CellsOf
    <3>3. NoStaleCell' /\ MarkedWordsCurrent'
      BY <1>7, <2>1 DEF IInv, LookAtCard, Current, PointerTo, IsPointer
    <3>4. PointersInDirtyCards'
      BY <1>7, <2>1 DEF IInv, LookAtCard, IsPointer
    <3>2. ReadCellsImm'
      BY <1>7, <2>1 DEF IInv, LookAtCard, CellsOf
    <3> QED
      BY <3>1, <3>2, <3>3, <3>4 DEF IInv
  <2>2. CASE d \notin dirty
    BY <1>7, <2>2 DEF IInv, LookAtCard, Current, PointerTo, Alive, CellsOf, IsPointer
  <2> QED
    BY <2>1, <2>2
<1>8. ASSUME NEW m \in Mutators, NEW c \in Cells, ReadCell(m, c)
      PROVE  IInv'
  BY <1>8 DEF IInv, ReadCell, Current, PointerTo, Alive, CellsOf, Word, IsPointer
<1>9. ASSUME NEW m \in Mutators, EraseCard(m)
      PROVE  IInv'
  BY <1>9 DEF IInv, EraseCard, Current, PointerTo, Alive, CellsOf, Word, IsPointer
<1>10. ASSUME NEW m \in Mutators, CardsDone(m)
      PROVE  IInv'
  BY <1>10 DEF IInv, CardsDone, Current, PointerTo, Alive, CellsOf, Word, IsPointer
<1>11. ASSUME NEW m \in Mutators, NEW c \in Cells, NEW w \in WordsOf(m),
              DynamicBind(m, c, w)
       PROVE  IInv'
  BY <1>11 DEF IInv, DynamicBind, WordsOf, Current, PointerTo, Alive, CellsOf, Word,
    IsPointer
<1> HIDE DEF TypeOK, NoStaleCell, PointersInDirtyCards, HeldAlive, ReadCellsImm,
    MarkedWordsCurrent, Marking, Exposed
<1> QED
  BY <1>1, <1>2, <1>3, <1>4, <1>5, <1>6, <1>7, <1>8, <1>9, <1>10, <1>11, CollectIInv
     DEF Next, Mutate, Drive

(* The state stays within its types, for any number of mutators.            *)
THEOREM TypeCorrect == Spec => []TypeOK
<1>1. IInv /\ [Next]_vars => IInv'
  BY StepIInv
<1>2. IInv => TypeOK
  BY DEF IInv
<1> QED
  BY <1>1, <1>2, InitIInv, PTL DEF Spec

(* However many threads store while one of them cleans the cards, a static  *)
(* cell holds a stale pointer only after it was rebound or after a mark of  *)
(* it overtook the driver.                                                  *)
THEOREM NoStaleCellHolds == Spec => []NoStaleCell
<1>1. IInv /\ [Next]_vars => IInv'
  BY StepIInv
<1>2. IInv => NoStaleCell
  BY DEF IInv
<1> QED
  BY <1>1, <1>2, InitIInv, PTL DEF Spec

(* Every heap pointer in a cell that is not one of those lies in a dirty    *)
(* card, but between its store and the mark.                                *)
THEOREM PointersInDirtyCardsHolds == Spec => []PointersInDirtyCards
<1>1. IInv /\ [Next]_vars => IInv'
  BY StepIInv
<1>2. IInv => PointersInDirtyCards
  BY DEF IInv
<1> QED
  BY <1>1, <1>2, InitIInv, PTL DEF Spec
=============================================================================
