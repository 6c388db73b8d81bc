----------------------------- MODULE Unwinding -----------------------------
(***************************************************************************)
(* Non-local exits as Lisp promises them.  A thread is inside a nest of    *)
(* frames.  An exit leaves the frames from the inside out until the first  *)
(* one that is an exit point for it, and delivers its value there.  On the *)
(* way every unwind-protect runs its cleanup, which suspends the exit and  *)
(* hands it on when it is done.                                            *)
(*                                                                         *)
(* There are no flags here: an exit knows what it is looking for.          *)
(***************************************************************************)
EXTENDS Sequences, SequencesExt

CONSTANTS Names, Tags, Nil, Values, None

VARIABLES
  frames,    \* [kind, name, exit]: the nest, the innermost last; a cleanup
             \* frame holds the exit it has suspended
  exit,      \* the exit under way: [kind, name, value], or None
  delivered  \* the value of the last exit that arrived
uvars == <<frames, exit, delivered>>

Exits ==
  [kind : {"from"}, name : Names, value : Values] \cup
  [kind : {"throw"}, name : Tags, value : Values] \cup
  [kind : {"return", "error"}, name : {Nil}, value : Values]

IsExitPoint(f, e) ==
  \/ f.kind = "block" /\ e.kind = "from" /\ f.name = e.name
  \/ f.kind = "block" /\ e.kind = "return" /\ f.name = Nil
  \/ f.kind = "loop" /\ e.kind = "return"
  \/ f.kind = "catch" /\ e.kind = "throw" /\ f.name = e.name
  \/ f.kind \in {"handler", "toplevel"} /\ e.kind = "error"
HasExitPoint(e) == \E i \in DOMAIN frames : IsExitPoint(frames[i], e)

Open(kind, name, e) ==
  frames' = Append(frames, [kind |-> kind, name |-> name, exit |-> e])
Cleanup(e) ==
  frames' = Append(Front(frames), [kind |-> "cleanup", name |-> Nil, exit |-> e])

UInit == frames = <<>> /\ exit = None /\ delivered \in Values

Enter ==
  /\ exit = None
  /\ \E kind \in {"block", "loop", "catch", "protect", "handler", "toplevel"},
        name \in Names \cup Tags : Open(kind, name, None)
  /\ UNCHANGED <<exit, delivered>>

(* An exit by name or tag without exit point is an error instead. *)
Start(e) ==
  /\ exit = None
  /\ exit' = IF HasExitPoint(e) \/ e.kind \in {"return", "error"} THEN e
             ELSE [kind |-> "error", name |-> Nil, value |-> e.value]
  /\ UNCHANGED <<frames, delivered>>

(* Nothing is under way: the innermost frame ends. *)
Leave ==
  /\ exit = None
  /\ frames # <<>>
  /\ IF Last(frames).kind = "protect"
     THEN Cleanup(None) /\ UNCHANGED exit
     ELSE /\ frames' = Front(frames)
          /\ exit' = Last(frames).exit
  /\ UNCHANGED delivered

Unwind ==
  /\ exit # None
  /\ frames # <<>>
  /\ ~IsExitPoint(Last(frames), exit)
  /\ IF Last(frames).kind = "protect"
     THEN Cleanup(exit) /\ exit' = None
     ELSE frames' = Front(frames) /\ UNCHANGED exit
  /\ UNCHANGED delivered

Arrive ==
  /\ exit # None
  /\ frames # <<>>
  /\ IsExitPoint(Last(frames), exit)
  /\ frames' = Front(frames)
  /\ exit' = None
  /\ delivered' = exit.value

(* A return with nowhere to go is forgotten when a new nest begins. *)
Abandon ==
  /\ exit # None
  /\ frames = <<>>
  /\ Open("toplevel", Nil, None)
  /\ exit' = None
  /\ UNCHANGED delivered

UNext == Enter \/ Leave \/ Unwind \/ Arrive \/ Abandon \/ \E e \in Exits : Start(e)

Spec == UInit /\ [][UNext]_uvars
=============================================================================
