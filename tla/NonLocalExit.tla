---------------------------- MODULE NonLocalExit ----------------------------
(***************************************************************************)
(* Non-local exits by pending flags (ncl-runtime/src/abi.rs).  Compiled    *)
(* code cannot be unwound, so an exit sets thread-local flags and returns; *)
(* compiled code tests ABORT_PENDING after every call and returns at once, *)
(* and each of block, loop, catch, unwind-protect and handler-case looks   *)
(* at the flags when its body comes back and decides whether the exit was  *)
(* for it.                                                                 *)
(*                                                                         *)
(* One thread; a frame is an active call of one of those primitives.  The  *)
(* saved state a primitive keeps in its own locals is in its frame.        *)
(*                                                                         *)
(* Compiled code may do anything between two tests of the flag: nothing is *)
(* assumed of it.  There are three things it can do that the flags do not  *)
(* survive; the history variable astray records that one of them happened. *)
(***************************************************************************)
EXTENDS Naturals, Sequences, SequencesExt

CONSTANTS
  Names,     \* block names
  Nil,       \* the block name NIL, for which return is return-from
  Tags,      \* catch tags
  NoTarget,  \* BLOCK_TARGET and THROW_TAG when there is none
  Values,    \* values exits carry
  NilValue,  \* the value of a frame to which nothing was returned
  None,
  MaxFrames  \* bound on the nesting of primitives

ASSUME ExitAssumption ==
  /\ Nil \in Names
  /\ NoTarget \notin Names \cup Tags
  /\ NilValue \in Values
  /\ MaxFrames \in Nat \ {0}

VARIABLES
  stack,      \* the primitives under way; BLOCK_STACK and CATCH_STACK are its
              \* block and catch frames
  flags,      \* the thread-local flags
  unchecked,  \* a pending condition that compiled code has not tested for yet
  exit,       \* history: the exit that was asked for and has not arrived
  delivered,  \* history: the value of the last exit that was consumed
  astray      \* history: in this form the flags have lost or confused an exit

exitVars == <<stack, flags, unchecked, exit, delivered, astray>>

Flags == [abort : BOOLEAN,                       \* ABORT_PENDING
          target : Names \cup {NoTarget},        \* BLOCK_TARGET
          throw : BOOLEAN,                       \* THROW_PENDING
          throwTag : Tags \cup {NoTarget},       \* THROW_TAG
          break : BOOLEAN, breakValue : Values,  \* LOOP_BREAK_...
          cond : BOOLEAN, slot : Values]         \* CONDITION_...

Quiescent == [abort |-> FALSE, target |-> NoTarget, throw |-> FALSE,
              throwTag |-> NoTarget, break |-> FALSE, breakValue |-> NilValue,
              cond |-> FALSE, slot |-> NilValue]

Exits == [kind : {"from", "throw", "return", "error"},
          name : Names \cup Tags, value : Values]
ASSUME NoneIsNoExit == None \notin Exits

Kinds == {"toplevel", "block", "loop", "catch", "protect", "cleanup", "handler"}
Frames == [kind : Kinds, name : Names \cup Tags, value : Values,
           saved : Flags, exit : Exits \cup {None}]

Top == Last(stack)
Rest == Front(stack)
In(kind) == stack # <<>> /\ Top.kind = kind

(* Compiled code tests for a pending exit after a call; the conversion to a  *)
(* float has no test after it.                                             *)
Running == stack # <<>> /\ (flags.abort => unchecked)

ExitInit == /\ stack = <<>>
            /\ flags = Quiescent
            /\ unchecked = FALSE
            /\ exit = None
            /\ delivered = NilValue
            /\ astray = FALSE

-----------------------------------------------------------------------------
(* The parts of the flags that the different primitives save and restore. *)
ExitFrom(f, g) == [f EXCEPT !.abort = g.abort, !.target = g.target,
                            !.throw = g.throw, !.throwTag = g.throwTag]
BreakFrom(f, g) == [f EXCEPT !.break = g.break, !.breakValue = g.breakValue]
CondFrom(f, g) == [f EXCEPT !.cond = g.cond, !.slot = g.slot]

(* Entering a primitive; name matters to blocks and catches only. *)
Frame(kind, name, saved) == [kind |-> kind, name |-> name, value |-> NilValue,
                             saved |-> saved, exit |-> None]

Enter(kind, name, saved, f) ==
  /\ Running
  /\ Len(stack) < MaxFrames
  /\ stack' = Append(stack, Frame(kind, name, saved))
  /\ flags' = f
  /\ astray' = (astray \/ flags.abort)
  /\ UNCHANGED <<unchecked, exit, delivered>>

(* A top-level form: reset_nonlocal_exit_state, then condition_guard_enter. *)
EnterToplevel ==
  /\ stack = <<>>
  /\ stack' = <<Frame("toplevel", Nil, CondFrom(Quiescent, flags))>>
  /\ flags' = [Quiescent EXCEPT !.slot = flags.slot]
  /\ unchecked' = FALSE
  /\ exit' = None
  /\ astray' = FALSE
  /\ UNCHANGED delivered

EnterBlock(n) == Enter("block", n, Quiescent, flags)
EnterCatch(tag) == Enter("catch", tag, Quiescent, flags)
EnterProtect == Enter("protect", Nil, Quiescent, flags)
EnterLoop == Enter("loop", Nil, BreakFrom(Quiescent, flags),
                   BreakFrom(flags, Quiescent))
EnterHandler == Enter("handler", Nil, CondFrom(Quiescent, flags),
                      [flags EXCEPT !.cond = FALSE])

-----------------------------------------------------------------------------
(* Starting an exit *)
IsExitPoint(f, e) ==
  \/ f.kind = "block" /\ e.kind = "from" /\ f.name = e.name
  \/ f.kind = "block" /\ e.kind = "return" /\ f.name = Nil
  \/ f.kind = "loop" /\ e.kind = "return"
  \/ f.kind = "catch" /\ e.kind = "throw" /\ f.name = e.name
  \/ f.kind \in {"handler", "toplevel"} /\ e.kind = "error"
ExitPoints(e) == {i \in DOMAIN stack : IsExitPoint(stack[i], e)}
Innermost(I) == CHOOSE i \in I : \A j \in I : j <= i

Request(kind, name, v) == [kind |-> kind, name |-> name, value |-> v]

(* The exit leaves a cleanup: EndCleanup will put back what the cleanup      *)
(* found, and the exit is lost.                                            *)
Escapes(e) == \E i \in DOMAIN stack : /\ stack[i].kind = "cleanup"
                                       /\ \A j \in ExitPoints(e) : j <= i

(* A return inside a cleanup, while the return that runs the cleanup still   *)
(* has its value in the same flag.                                         *)
Overwrites(e) == e.kind = "return" /\ flags.break

Asks(e) == /\ exit' = e
           /\ astray' = (astray \/ flags.abort \/ Escapes(e) \/ Overwrites(e))
           /\ UNCHANGED delivered

(* record_pending_condition *)
Signal(v) ==
  /\ Running
  /\ flags' = [flags EXCEPT !.slot = v, !.cond = TRUE, !.abort = TRUE]
  /\ Asks(Request("error", Nil, v))
  /\ UNCHANGED stack

(* error, and every call that signals: the test of the flag follows.         *)
Error(v) == Signal(v) /\ unchecked' = FALSE

(* coerce_to_f64 of what is no number: code goes on to its next call.        *)
CoerceFails(v) == Signal(v) /\ unchecked' = TRUE

LoopReturn(v) ==
  /\ Running
  /\ flags' = [flags EXCEPT !.breakValue = v, !.break = TRUE, !.abort = TRUE]
  /\ unchecked' = FALSE
  /\ Asks(Request("return", Nil, v))
  /\ UNCHANGED stack

(* The value goes to the innermost frame of that name at once. *)
Transfer(e, f) ==
  /\ Running
  /\ ExitPoints(e) # {}
  /\ stack' = [stack EXCEPT ![Innermost(ExitPoints(e))].value = e.value]
  /\ flags' = f
  /\ unchecked' = FALSE
  /\ Asks(e)

ReturnFrom(n, v) == Transfer(Request("from", n, v),
                             [flags EXCEPT !.abort = TRUE, !.target = n])

(* Faulty variant of Throw: it raises the flags of a block exit. *)
ThrowToBlock(tag, v) == Transfer(Request("throw", tag, v),
                                 [flags EXCEPT !.abort = TRUE, !.target = tag])

Throw(tag, v) ==
  Transfer(Request("throw", tag, v),
           [flags EXCEPT !.abort = TRUE, !.throw = TRUE, !.throwTag = tag])

(* return-from and throw without a frame signal a condition. *)
ExitFails(e, v) == ExitPoints(e) = {} /\ Error(v)
ReturnFromFails(n, v) == ExitFails(Request("from", n, v), v)
ThrowFails(tag, v) == ExitFails(Request("throw", tag, v), v)

-----------------------------------------------------------------------------
(* What each primitive does when its body has come back, normally or not.  *)
ForBlock == flags.abort /\ flags.target = Top.name
ForNilBlock == flags.abort /\ Top.name = Nil /\ flags.break
Asked(kind) == exit # None /\ exit.kind = kind

(* A nil block ends another exit: the return it sees is suspended, outside.  *)
Mistakes == In("block") /\ ~ForBlock /\ ForNilBlock /\ ~Asked("return")

Pop == /\ stack' = Rest
       /\ unchecked' = FALSE
       /\ astray' = (astray \/ Mistakes)

Consume(f, v) == /\ Pop
                 /\ flags' = [f EXCEPT !.abort = FALSE]
                 /\ exit' = None
                 /\ delivered' = v

PassOn(f) == /\ Pop
             /\ flags' = f
             /\ UNCHANGED <<exit, delivered>>

(* Faulty variant of LeaveBlock: BLOCK_TARGET stays set. *)
LeaveBlockStale ==
  /\ In("block")
  /\ \/ ForBlock /\ Consume(flags, Top.value)
     \/ /\ ~ForBlock /\ ForNilBlock
        /\ Consume([flags EXCEPT !.break = FALSE], flags.breakValue)
     \/ ~ForBlock /\ ~ForNilBlock /\ PassOn(flags)

LeaveBlock ==
  /\ In("block")
  /\ \/ ForBlock /\ Consume([flags EXCEPT !.target = NoTarget], Top.value)
     \/ /\ ~ForBlock /\ ForNilBlock
        /\ Consume([flags EXCEPT !.break = FALSE], flags.breakValue)
     \/ ~ForBlock /\ ~ForNilBlock /\ PassOn(flags)

(* Without a flag the loop goes round; it restores the break it found. *)
LeaveLoop ==
  LET restored == BreakFrom(flags, Top.saved) IN
  /\ In("loop")
  /\ \/ flags.break /\ Consume(restored, flags.breakValue)
     \/ ~flags.break /\ flags.abort /\ PassOn(restored)

ForCatch == flags.abort /\ flags.throw /\ flags.throwTag = Top.name

LeaveCatch ==
  /\ In("catch")
  /\ IF ForCatch
     THEN Consume([flags EXCEPT !.throw = FALSE, !.throwTag = NoTarget], Top.value)
     ELSE PassOn(flags)

(* unwind-protect: save and clear, run the cleanup, restore. *)
Protected(f) ==
  /\ In("protect")
  /\ stack' = Append(Rest, [Top EXCEPT !.kind = "cleanup", !.exit = exit,
                                       !.saved = ExitFrom(Quiescent, flags)])
  /\ flags' = f
  /\ unchecked' = FALSE
  /\ exit' = None
  /\ UNCHANGED <<delivered, astray>>

(* Faulty variant of BeginCleanup: the throw stays pending. *)
BeginCleanupThrowing ==
  Protected([flags EXCEPT !.abort = FALSE, !.target = NoTarget])

BeginCleanup == Protected(ExitFrom(flags, Quiescent))

EndCleanup ==
  /\ In("cleanup")
  /\ Pop
  /\ flags' = ExitFrom(flags, Top.saved)
  /\ exit' = Top.exit
  /\ UNCHANGED delivered

(* handler-case and the guard of the top level: the outer condition, if     *)
(* there is one, is pending again afterwards.                               *)
LeaveGuarded ==
  IF flags.cond THEN Consume(CondFrom(flags, Top.saved), flags.slot)
  ELSE PassOn(CondFrom(flags, Top.saved))
LeaveHandler == In("handler") /\ LeaveGuarded
LeaveToplevel == In("toplevel") /\ LeaveGuarded

-----------------------------------------------------------------------------
Open == \/ EnterToplevel \/ EnterProtect \/ EnterLoop \/ EnterHandler
        \/ \E n \in Names : EnterBlock(n)
        \/ \E tag \in Tags : EnterCatch(tag)

Begin == \E v \in Values :
           \/ Error(v) \/ CoerceFails(v) \/ LoopReturn(v)
           \/ \E n \in Names : ReturnFrom(n, v) \/ ReturnFromFails(n, v)
           \/ \E tag \in Tags : Throw(tag, v) \/ ThrowFails(tag, v)

Close == \/ LeaveBlock \/ LeaveLoop \/ LeaveCatch \/ BeginCleanup \/ EndCleanup
         \/ LeaveHandler \/ LeaveToplevel

ExitNext == Open \/ Begin \/ Close
ExitSpec == ExitInit /\ [][ExitNext]_exitVars
-----------------------------------------------------------------------------
ExitTypeOK ==
  /\ stack \in Seq(Frames)
  /\ Len(stack) <= MaxFrames
  /\ flags \in Flags
  /\ unchecked \in BOOLEAN /\ astray \in BOOLEAN
  /\ exit \in Exits \cup {None}
  /\ delivered \in Values

(***************************************************************************)
(* No exit leaves a flag behind: in a form in which none went astray,       *)
(* nothing is pending between exits, and outside the cleanups that suspend  *)
(* one, that a later block, catch, loop or handler could take for its own;  *)
(* and while one is under way, compiled code sees it.  What an earlier form *)
(* left behind, whatever it did, harms no later one.                        *)
(***************************************************************************)
Suspended == \E i \in DOMAIN stack : stack[i].exit # None
NoStrayFlags ==
  stack # <<>> /\ ~astray =>
    /\ flags.abort <=> exit # None
    /\ exit = None /\ ~Suspended =>
         flags = [Quiescent EXCEPT !.breakValue = flags.breakValue,
                                   !.slot = flags.slot]

(***************************************************************************)
(* Until one goes astray, the flags implement exits that know where they   *)
(* go: each runs every cleanup on its way, stops at the innermost exit     *)
(* point meant for it and nowhere else, and arrives with the value it set  *)
(* out with, whatever exits those cleanups use inside themselves.          *)
(***************************************************************************)
Unwind == INSTANCE Unwinding WITH
  frames <- [i \in DOMAIN stack |->
               [kind |-> stack[i].kind, name |-> stack[i].name,
                exit |-> stack[i].exit]]
UnwindingSpec ==
  Unwind!UInit /\ [][~astray' => Unwind!UNext]_(Unwind!uvars)

-----------------------------------------------------------------------------
(***************************************************************************)
(* What comments say of the three ways an exit goes astray.                *)
(***************************************************************************)

(* ABORT_PENDING is cleared by whichever primitive ends up consuming the exit *)
(* (abi.rs 2269-2271); the end of a cleanup consumes none.                    *)
ClearedByItsConsumer == [][EndCleanup /\ flags.abort => flags'.abort]_exitVars

(* A nil block consumes a return of which it is the nearest exit point        *)
(* (abi.rs 2479-2484): it ends no error that passes through it.               *)
NilBlockTakesReturns ==
  [][LeaveBlock /\ Asked("error") => UNCHANGED exit]_exitVars

(* The condition that a conversion signals stays pending until the caller's   *)
(* next test takes it (float.rs 78-80): no other exit replaces it.            *)
PendingConditionStands ==
  [][Begin /\ Asked("error") => UNCHANGED exit]_exitVars
=============================================================================
