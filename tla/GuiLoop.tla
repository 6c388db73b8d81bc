------------------------------- MODULE GuiLoop -------------------------------
(***************************************************************************)
(* The GUI: AppKit's main thread, which owns the windows, and the worker   *)
(* thread, which runs Lisp.  Neither waits for the other, but for a script *)
(* request and at the end.  The worker posts window commands, presents the *)
(* drawing of a window and marks it dirty; sixty times a second the main   *)
(* thread applies, repaints and posts events.  The event mailbox between   *)
(* them drops what does not fit.  (igui_mac/window.rs, scripting.rs,       *)
(* apple_events.rs and the two event loops of ncl-driver/src/main.rs.)     *)
(*                                                                         *)
(* The mailbox is a channel of bounded length and the catch-all queue that *)
(* EventDispatcher models in detail.  An event is FrameClose or any other: *)
(* each of those makes the worker run its loop once, whatever else it says *)
(***************************************************************************)
EXTENDS Naturals, Sequences, FiniteSets

CONSTANTS
  Main,          \* MAIN_ID, the IDE's window
  Children,      \* side windows; an id is used once
  IdeChildren,   \* bound of the model: those that are used in the IDE
  Timers,        \* redraw-timer threads
  None,
  Capacity,      \* length of the event channel
  MaxQueue,      \* bound of the model: events in the catch-all queue
  MaxCommands,   \* bound of the model: window commands under way
  MaxRequests    \* bound of the model: script requests under way

Windows == {Main} \cup Children

ASSUME GuiLoopAssumption ==
  /\ Main \notin Children /\ IdeChildren \subseteq Children
  /\ None \notin Windows \cup Timers \cup {"ahead", "due"}
  /\ Capacity \in Nat \ {0} /\ MaxQueue \in Nat \ {0}

VARIABLES
  ide,        \* TRUE: the IDE; FALSE: a standalone app, without its window
  had,        \* had_window: a standalone app has had a window
  loading,    \* load_progress: the IDE's worker compiles the library
  main,       \* where the main thread is
  todo, painting, latest,  \* the windows it has yet to report or to repaint,
              \* the one it paints and whether what it paints is the latest
  worker,     \* where the worker is
  target, next,            \* the window it presents to, and where it goes on
              \* when it has acted ("wait" while it does not act)
  channel, queue,          \* the mailbox
  quit,       \* FrameClose: "no", "sent" or "dropped"
  requests,   \* script requests not yet taken by the worker
  reply,      \* the reply to the request the main thread waits for is there
  deadline,   \* ANIM_DEADLINE_MS: None, "ahead" or "due"
  moving,     \* the IDE has something to animate
  commands,   \* cmd_queue
  known,      \* the window ids that Lisp has
  wins,       \* the open windows
  drawn,      \* windows that have been presented something
  shown,      \* those that show the latest they were presented
  dirty,
  failed,     \* those for whose latest drawing no image could be made
  bar,        \* the IDE's window was last presented the loading bar
  timer, flag, ticks,      \* thread -> where it is, its flag, its window
  redraw      \* redraw_flags: window -> its timer

app == <<ide, had, loading>>
mainThread == <<main, todo, painting, latest>>
workerThread == <<worker, target, next>>
mailbox == <<channel, queue>>
scripts == <<requests, reply>>
animation == <<deadline, moving>>
surfaces == <<drawn, shown, dirty, failed, bar>>
timers == <<timer, flag, ticks, redraw>>
vars == <<app, mainThread, workerThread, mailbox, quit, scripts, animation, commands, known, wins,
          surfaces, timers>>

MainTo(p) == main' = p /\ UNCHANGED <<todo, painting, latest>>
WorkerTo(p) == worker' = p /\ next' = "wait" /\ UNCHANGED target

(* igui_events::push: an event for a full channel is dropped. *)
Fits == Len(channel) < Capacity
Push(e) == channel' = IF Fits THEN Append(channel, e) ELSE channel

(* stop_redraw of every window in W. *)
StopRedraw(W) ==
  LET stopped == {redraw[w] : w \in W} \ {None}
  IN  /\ flag' = [t \in Timers |-> flag[t] /\ t \notin stopped]
      /\ redraw' = [w \in Windows |-> IF w \in W THEN None ELSE redraw[w]]
      /\ UNCHANGED <<timer, ticks>>

(* run opens the IDE's window and starts the worker, which presents to it and
   begins to load before the main thread turns to its events. *)
Init ==
  /\ ide \in BOOLEAN /\ had = FALSE /\ loading = ide
  /\ main = "loop" /\ todo = {} /\ painting = None /\ latest = FALSE
  /\ worker = (IF ide THEN "load" ELSE "act") /\ target = None /\ next = "wait"
  /\ channel = <<>> /\ queue = <<>> /\ quit = "no"
  /\ requests = 0 /\ reply = FALSE
  /\ deadline = None /\ moving = FALSE
  /\ commands = <<>>
  /\ known = IF ide THEN {Main} ELSE {}
  /\ wins = IF ide THEN {Main} ELSE {}
  /\ drawn = wins /\ shown = {} /\ dirty = wins /\ failed = {} /\ bar = FALSE
  /\ timer = [t \in Timers |-> "off"]
  /\ flag = [t \in Timers |-> FALSE]
  /\ ticks = [t \in Timers |-> None]
  /\ redraw = [w \in Windows |-> None]
-----------------------------------------------------------------------------
(* The mailbox's dispatcher thread, and the passing of time. *)
Dispatch ==
  /\ channel # <<>> /\ Len(queue) < MaxQueue
  /\ channel' = Tail(channel)
  /\ queue' = Append(queue, Head(channel))
  /\ UNCHANGED <<app, mainThread, workerThread, quit, scripts, animation,
                 commands, known, wins, surfaces, timers>>

DeadlinePasses ==
  /\ deadline = "ahead"
  /\ deadline' = "due"
  /\ UNCHANGED <<app, mainThread, workerThread, mailbox, quit, scripts, moving,
                 commands, known, wins, surfaces, timers>>
-----------------------------------------------------------------------------
(* The main thread: what AppKit calls between two timer callbacks *)

(* A key, a click, a resize, a change of the theme or of the focus. *)
Input ==
  /\ main = "loop"
  /\ Push("event")
  /\ UNCHANGED <<app, mainThread, workerThread, queue, quit, scripts,
                 animation, commands, known, wins, surfaces, timers>>

(* The handler of an Apple event: submit sends the request, then wakes the
   worker; the handler waits for the reply, thirty seconds at most. *)
Submit ==
  /\ main = "loop" /\ requests < MaxRequests
  /\ requests' = requests + 1
  /\ MainTo("wake")
  /\ UNCHANGED <<app, workerThread, mailbox, quit, reply, animation, commands,
                 known, wins, surfaces, timers>>

(* Faulty variant of Wake: no event for a worker that is not asleep. *)
WakeSleeper ==
  /\ main = "wake"
  /\ IF worker = "wait" THEN Push("event") ELSE UNCHANGED channel
  /\ MainTo("recv")
  /\ UNCHANGED <<app, workerThread, queue, quit, scripts, animation, commands,
                 known, wins, surfaces, timers>>

Wake ==
  /\ main = "wake"
  /\ Push("event")
  /\ MainTo("recv")
  /\ UNCHANGED <<app, workerThread, queue, quit, scripts, animation, commands,
                 known, wins, surfaces, timers>>

Answered ==
  /\ main = "recv" /\ reply
  /\ reply' = FALSE
  /\ MainTo("loop")
  /\ UNCHANGED <<app, workerThread, mailbox, quit, requests, animation,
                 commands, known, wins, surfaces, timers>>

TimedOut ==
  /\ main = "recv" /\ ~reply
  /\ MainTo("loop")
  /\ UNCHANGED <<app, workerThread, mailbox, quit, scripts, animation,
                 commands, known, wins, surfaces, timers>>

(* Every quit: FrameClose, then join_worker_for_quit. *)
Quitting ==
  /\ quit' = IF Fits THEN "sent" ELSE "dropped"
  /\ Push("quit")
  /\ MainTo("join")

Quit ==
  /\ main = "loop" \/ main = "late"
  /\ Quitting
  /\ UNCHANGED <<app, workerThread, queue, scripts, animation, commands, known,
                 wins, surfaces, timers>>

Terminate ==
  /\ main = "join" /\ worker = "gone"
  /\ MainTo("exit")
  /\ UNCHANGED <<app, workerThread, mailbox, quit, scripts, animation,
                 commands, known, wins, surfaces, timers>>
-----------------------------------------------------------------------------
(* The main thread: the callback of the 60 Hz timer *)

(* WindowManager::open and close, of the windows the commands name: a window
   that opens is dirty, one that closes loses its timer. *)
DrainCommands ==
  LET named(op) == {commands[k].win : k \in {j \in DOMAIN commands : commands[j].op = op}}
      opened == named("open") \ wins
      closed == named("close") \cap (wins \cup opened)
  IN  /\ main = "loop"
      /\ commands' = <<>>
      /\ wins' = (wins \cup opened) \ closed
      /\ dirty' = dirty \cup opened
      /\ shown' = shown \ (opened \cup closed)
      /\ StopRedraw(closed)
      /\ MainTo(IF ide THEN "bar" ELSE "sweep")
      /\ UNCHANGED <<app, workerThread, mailbox, quit, scripts, animation,
                     known, drawn, failed, bar>>

(* While the worker loads, the main thread presents to the IDE's window itself:
   the loading bar, when it has advanced. *)
CheckLoading ==
  /\ main = "bar"
  /\ MainTo("tick") \/ (loading /\ MainTo("draw"))
  /\ UNCHANGED <<app, workerThread, mailbox, quit, scripts, animation,
                 commands, known, wins, surfaces, timers>>

PresentBar ==
  /\ main = "draw"
  /\ drawn' = drawn \cup {Main} /\ shown' = shown \ {Main}
  /\ failed' = failed \ {Main} /\ bar' = TRUE
  /\ MainTo("mark")
  /\ UNCHANGED <<app, workerThread, mailbox, quit, scripts, animation,
                 commands, known, wins, dirty, timers>>

MarkBar ==
  /\ main = "mark"
  /\ dirty' = dirty \cup {Main}
  /\ MainTo("tick")
  /\ UNCHANGED <<app, workerThread, mailbox, quit, scripts, animation,
                 commands, known, wins, drawn, shown, failed, bar, timers>>

(* sweep_closed, in a standalone app: W is what the user has closed since, and
   nothing when the app is hidden. *)
SweepClosed(W) ==
  /\ main = "sweep" /\ W \subseteq wins
  /\ wins' = wins \ W /\ shown' = shown \ W
  /\ StopRedraw(W)
  /\ main' = "report" /\ todo' = W /\ UNCHANGED <<painting, latest>>
  /\ UNCHANGED <<app, workerThread, mailbox, quit, scripts, animation, commands,
                 known, drawn, dirty, failed, bar>>

ReportClose(w) ==
  /\ main = "report" /\ w \in todo
  /\ todo' = todo \ {w}
  /\ Push("event")
  /\ UNCHANGED <<app, main, painting, latest, workerThread, queue, quit, scripts,
                 animation, commands, known, wins, surfaces, timers>>

(* A standalone app without a window quits, once it has had one. *)
NoWindowLeft ==
  /\ main = "report" /\ todo = {}
  /\ had' = (had \/ wins # {})
  /\ IF had /\ wins = {} THEN Quitting
     ELSE MainTo("tick") /\ UNCHANGED <<channel, quit>>
  /\ UNCHANGED <<ide, loading, workerThread, queue, scripts, animation, commands,
                 known, wins, surfaces, timers>>

(* The animation wake: load, store, push. *)
LoadDeadline ==
  /\ main = "tick"
  /\ MainTo(IF deadline = "due" THEN "clear" ELSE "late")
  /\ UNCHANGED <<app, workerThread, mailbox, quit, scripts, animation,
                 commands, known, wins, surfaces, timers>>

ClearDeadline ==
  /\ main = "clear"
  /\ deadline' = None
  /\ MainTo("post")
  /\ UNCHANGED <<app, workerThread, mailbox, quit, scripts, moving, commands,
                 known, wins, surfaces, timers>>

PostTick ==
  /\ main = "post"
  /\ Push("event")
  /\ MainTo("late")
  /\ UNCHANGED <<app, workerThread, queue, quit, scripts, animation, commands,
                 known, wins, surfaces, timers>>

(* repaint_dirty takes the dirty windows, then the latest batch of each. *)
RepaintDirty ==
  /\ main = "late"
  /\ main' = "paint" /\ todo' = dirty
  /\ dirty' = {}
  /\ UNCHANGED <<app, painting, latest, workerThread, mailbox, quit, scripts,
                 animation, commands, known, wins, drawn, shown, failed, bar, timers>>

TakeBatch(w) ==
  /\ main = "paint" /\ painting = None /\ w \in todo
  /\ todo' = todo \ {w}
  /\ IF w \in wins \cap drawn THEN painting' = w /\ latest' = TRUE
     ELSE UNCHANGED <<painting, latest>>
  /\ UNCHANGED <<app, main, workerThread, mailbox, quit, scripts, animation,
                 commands, known, wins, surfaces, timers>>

SetImage ==
  /\ main = "paint" /\ painting # None
  /\ shown' = IF latest THEN shown \cup {painting} ELSE shown \ {painting}
  /\ painting' = None /\ latest' = FALSE
  /\ UNCHANGED <<app, main, todo, workerThread, mailbox, quit, scripts, animation,
                 commands, known, wins, drawn, dirty, failed, bar, timers>>

(* cg_image gives nothing: the window keeps what it shows. *)
NoImage ==
  /\ main = "paint" /\ painting # None
  /\ failed' = IF latest /\ painting \notin shown THEN failed \cup {painting} ELSE failed
  /\ painting' = None /\ latest' = FALSE
  /\ UNCHANGED <<app, main, todo, workerThread, mailbox, quit, scripts, animation,
                 commands, known, wins, drawn, shown, dirty, bar, timers>>

(* Faulty variant of CallbackReturns: the dirty set is cleared after the repaint. *)
CallbackClears ==
  /\ main = "paint" /\ painting = None /\ todo = {}
  /\ dirty' = {}
  /\ MainTo("loop")
  /\ UNCHANGED <<app, workerThread, mailbox, quit, scripts, animation,
                 commands, known, wins, drawn, shown, failed, bar, timers>>

CallbackReturns ==
  /\ main = "paint" /\ painting = None /\ todo = {}
  /\ MainTo("loop")
  /\ UNCHANGED <<app, workerThread, mailbox, quit, scripts, animation,
                 commands, known, wins, surfaces, timers>>
-----------------------------------------------------------------------------
(* The worker: what a handler or an evaluated form may do to the GUI.  One such
   operation per event is a bound of the model. *)

(* present stores the batch under one lock, then marks it under another. *)
Store(w) ==
  /\ drawn' = drawn \cup {w} /\ shown' = shown \ {w}
  /\ failed' = failed \ {w} /\ bar' = (bar /\ w # Main)
  /\ latest' = (latest /\ painting # w)
  /\ worker' = "mark" /\ target' = w
  /\ UNCHANGED <<app, main, todo, painting, mailbox, quit, scripts, animation,
                 commands, known, wins, dirty, timers>>

Present(w) == Store(w) /\ UNCHANGED next

MarkDirty ==
  /\ worker = "mark"
  /\ dirty' = dirty \cup {target}
  /\ worker' = next /\ next' = "wait" /\ target' = None
  /\ UNCHANGED <<app, mainThread, mailbox, quit, scripts, animation,
                 commands, known, wins, drawn, shown, failed, bar, timers>>

Done == WorkerTo(next)

Post(op, w) ==
  /\ Len(commands) < MaxCommands
  /\ commands' = Append(commands, [op |-> op, win |-> w])
  /\ Done
  /\ UNCHANGED <<app, mainThread, mailbox, quit, scripts, animation, wins,
                 surfaces, timers>>

Close(w) == Post("close", w) /\ UNCHANGED known

(* open-child takes an id nobody has had. *)
OpenChild(w) ==
  /\ w \in (IF ide THEN IdeChildren ELSE Children) \ known
  /\ known' = known \cup {w}
  /\ Post("open", w)

StartTimer(w, t) ==
  /\ timer[t] = "off"
  /\ timer' = [timer EXCEPT ![t] = "asleep"]
  /\ ticks' = [ticks EXCEPT ![t] = w]
  /\ redraw' = [redraw EXCEPT ![w] = t]

(* Faulty variant of SetRedrawRate: the timer it replaces is not told. *)
AddRedrawRate(w, t) ==
  /\ StartTimer(w, t)
  /\ flag' = [flag EXCEPT ![t] = TRUE]
  /\ Done
  /\ UNCHANGED <<app, mainThread, mailbox, quit, scripts, animation, commands,
                 known, wins, surfaces>>

(* set_redraw_rate: a new thread t, or with ms <= 0 none. *)
SetRedrawRate(w, t) ==
  /\ StartTimer(w, t)
  /\ flag' = [u \in Timers |-> u = t \/ (flag[u] /\ u # redraw[w])]
  /\ Done
  /\ UNCHANGED <<app, mainThread, mailbox, quit, scripts, animation, commands,
                 known, wins, surfaces>>

NoRedraw(w) ==
  /\ StopRedraw({w})
  /\ Done
  /\ UNCHANGED <<app, mainThread, mailbox, quit, scripts, animation, commands,
                 known, wins, surfaces>>

Act ==
  /\ worker = "act"
  /\ \/ Done /\ UNCHANGED <<app, mainThread, mailbox, quit, scripts, animation,
                            commands, known, wins, surfaces, timers>>
     \/ \E w \in Children : OpenChild(w)
     \/ \E w \in known : Present(w) \/ Close(w)
     \/ \E w \in known \ {Main} : NoRedraw(w) \/ \E t \in Timers : SetRedrawRate(w, t)
-----------------------------------------------------------------------------
(* The worker: the start-up and the event loops of run_mac_gui and run_mac_app *)

(* The IDE's worker may present while it loads; when it has loaded it runs what
   the command line says and presents the IDE. *)
Library == worker = "load" /\ Store(Main) /\ next' = "finish"

FinishLoading ==
  /\ worker \in {"load", "finish"}
  /\ loading' = FALSE
  /\ worker' = "act" /\ next' = "greet"
  /\ UNCHANGED <<ide, had, mainThread, target, mailbox, quit, scripts, animation,
                 commands, known, wins, surfaces, timers>>

Greet == worker = "greet" /\ Store(Main) /\ next' = "wait"

Handle ==
  /\ worker' = "act" /\ next' = IF ide THEN "serve" ELSE "wait"
  /\ UNCHANGED target

(* Faulty variant of NextEvent: only the IDE's loop looks for FrameClose. *)
NextEventIde ==
  /\ worker = "wait" /\ queue # <<>>
  /\ queue' = Tail(queue)
  /\ IF ide /\ Head(queue) = "quit" THEN WorkerTo("gone") ELSE Handle
  /\ UNCHANGED <<app, mainThread, channel, quit, scripts, animation, commands,
                 known, wins, surfaces, timers>>

NextEvent ==
  /\ worker = "wait" /\ queue # <<>>
  /\ queue' = Tail(queue)
  /\ IF Head(queue) = "quit" THEN WorkerTo("gone") ELSE Handle
  /\ UNCHANGED <<app, mainThread, channel, quit, scripts, animation, commands,
                 known, wins, surfaces, timers>>

(* The IDE serves the script requests; only the last can have a handler that
   still waits for it. *)
Serve ==
  /\ worker = "serve" /\ requests > 0
  /\ requests' = requests - 1
  /\ worker' = "act" /\ next' = "reply"
  /\ UNCHANGED <<app, mainThread, target, mailbox, quit, reply, animation,
                 commands, known, wins, surfaces, timers>>

Reply ==
  /\ worker = "reply"
  /\ reply' = (reply \/ (requests = 0 /\ main \in {"wake", "recv"}))
  /\ WorkerTo("serve")
  /\ UNCHANGED <<app, mainThread, mailbox, quit, requests, animation, commands,
                 known, wins, surfaces, timers>>

(* Faulty variant of Animate: the loop over the requests may stop early. *)
AnimateEarly ==
  /\ worker = "serve"
  /\ WorkerTo("arm")
  /\ UNCHANGED <<app, mainThread, mailbox, quit, scripts, animation, commands,
                 known, wins, surfaces, timers>>

(* animate: repaint if anything moved, then ask for the next tick. *)
Animate ==
  /\ worker = "serve" /\ requests = 0
  /\ \/ /\ WorkerTo("arm")
        /\ UNCHANGED <<app, mainThread, mailbox, quit, scripts, animation, commands,
                       known, wins, surfaces, timers>>
     \/ Store(Main) /\ next' = "arm"

RequestTick ==
  /\ worker = "arm"
  /\ moving' \in BOOLEAN
  /\ deadline' = IF moving' THEN "ahead" ELSE None
  /\ WorkerTo("wait")
  /\ UNCHANGED <<app, mainThread, mailbox, quit, scripts, commands, known,
                 wins, surfaces, timers>>
-----------------------------------------------------------------------------
(* A redraw timer: sleep, look at the flag, post a tick. *)
GoesOn(t, p) ==
  /\ timer' = [timer EXCEPT ![t] = IF flag[t] THEN p ELSE "off"]
  /\ ticks' = [ticks EXCEPT ![t] = IF flag[t] THEN @ ELSE None]
  /\ UNCHANGED <<flag, redraw>>

TimerWakes(t) ==
  /\ timer[t] = "asleep"
  /\ GoesOn(t, "post")
  /\ UNCHANGED <<app, mainThread, workerThread, mailbox, quit, scripts,
                 animation, commands, known, wins, surfaces>>

TimerTick(t) ==
  /\ timer[t] = "post"
  /\ Push("event")
  /\ GoesOn(t, "asleep")
  /\ UNCHANGED <<app, mainThread, workerThread, queue, quit, scripts,
                 animation, commands, known, wins, surfaces>>
-----------------------------------------------------------------------------
Callback == \/ DrainCommands \/ CheckLoading \/ PresentBar \/ MarkBar
            \/ (\E W \in SUBSET wins : SweepClosed(W))
            \/ (\E w \in Windows : ReportClose(w)) \/ NoWindowLeft
            \/ LoadDeadline \/ ClearDeadline \/ PostTick
            \/ RepaintDirty \/ (\E w \in Windows : TakeBatch(w))
            \/ SetImage \/ NoImage \/ CallbackReturns
MainStep == Callback \/ Input \/ Submit \/ Wake \/ Answered \/ TimedOut \/ Quit \/ Terminate
WorkerStep == \/ Library \/ FinishLoading \/ Greet
              \/ Act \/ MarkDirty \/ NextEvent \/ Serve \/ Reply \/ Animate \/ RequestTick
TimerStep(t) == TimerWakes(t) \/ TimerTick(t)

Next == \/ MainStep \/ WorkerStep \/ Dispatch \/ DeadlinePasses
        \/ \E t \in Timers : TimerStep(t)

(* The threads are scheduled and Lisp handlers return. *)
Fairness == /\ WF_vars(WorkerStep) /\ WF_vars(Dispatch) /\ WF_vars(MainStep)

Spec == Init /\ [][Next]_vars
FairSpec == Spec /\ Fairness
-----------------------------------------------------------------------------
TypeOK ==
  /\ ide \in BOOLEAN /\ had \in BOOLEAN /\ loading \in BOOLEAN
  /\ main \in {"loop", "wake", "recv", "bar", "draw", "mark", "sweep", "report", "tick",
               "clear", "post", "late", "paint", "join", "exit"}
  /\ todo \subseteq Windows /\ painting \in Windows \cup {None} /\ latest \in BOOLEAN
  /\ worker \in {"load", "finish", "greet", "act", "mark", "wait", "serve", "reply", "arm",
                 "gone"}
  /\ target \in Windows \cup {None}
  /\ next \in {"finish", "greet", "wait", "serve", "reply", "arm"}
  /\ channel \in Seq({"event", "quit"}) /\ Len(channel) <= Capacity
  /\ queue \in Seq({"event", "quit"})
  /\ quit \in {"no", "sent", "dropped"}
  /\ requests \in Nat /\ reply \in BOOLEAN
  /\ deadline \in {None, "ahead", "due"} /\ moving \in BOOLEAN
  /\ commands \in Seq([op : {"open", "close"}, win : Windows])
  /\ known \subseteq Windows
  /\ wins \subseteq known /\ drawn \subseteq Windows
  /\ shown \subseteq wins \cap drawn /\ dirty \subseteq Windows
  /\ failed \subseteq drawn /\ bar \in BOOLEAN
  /\ timer \in [Timers -> {"off", "asleep", "post"}]
  /\ flag \in [Timers -> BOOLEAN] /\ ticks \in [Timers -> Windows \cup {None}]
  /\ redraw \in [Windows -> Timers \cup {None}]

(***************************************************************************)
(* No drawing is lost between the two locks of present and the two steps   *)
(* of a repaint, though the main thread presents its loading bar between   *)
(* the worker's drawings: an open window that does not show the latest it  *)
(* was presented will be repainted, unless no image could be made of that. *)
(***************************************************************************)
NoLostRepaint ==
  \A w \in (wins \cap drawn) \ (shown \cup failed) :
    \/ w \in dirty
    \/ main = "paint" /\ w \in todo
    \/ painting = w /\ latest
    \/ worker = "mark" /\ target = w
    \/ main = "mark" /\ w = Main

(***************************************************************************)
(* The worker never sleeps over work that came while it was busy, though   *)
(* the mailbox drops the event that was to wake it: a script request, or   *)
(* the next frame of an animation.                                         *)
(***************************************************************************)
Awake == worker # "wait" \/ queue # <<>> \/ channel # <<>>
NoForgottenWork ==
  ide => /\ requests > 0 => Awake \/ main = "wake"
         /\ moving => Awake \/ deadline # None \/ main = "post"

(***************************************************************************)
(* Only one timer runs for a window, and it is the one that closing the    *)
(* window stops, however often the rate was set before.                    *)
(***************************************************************************)
RunningTimersAreKnown ==
  \A t \in Timers : flag[t] => redraw[ticks[t]] = t

(***************************************************************************)
(* In the IDE a queued script request is not left: the worker goes on to   *)
(* serve the first of them, also those whose handler has given up, unless  *)
(* the program quits.                                                      *)
(***************************************************************************)
Serving == next = "reply" \/ worker = "reply"
RequestsServed == ide /\ requests > 0 ~> Serving \/ quit # "no"

(***************************************************************************)
(* Once the mailbox has taken FrameClose the worker leaves its loop and    *)
(* the main thread, which waits for it, terminates.                        *)
(***************************************************************************)
QuitCompletes == quit = "sent" ~> main = "exit"

(***************************************************************************)
(* What the driver says of the end of the loading, and the code does not   *)
(* keep: the loading bar is hidden and the IDE takes over.  When its       *)
(* worker sleeps, the last the IDE's window was presented is the IDE.      *)
(***************************************************************************)
IdeTakesOver == worker = "wait" => ~bar
=============================================================================
