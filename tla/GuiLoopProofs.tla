---------------------------- MODULE GuiLoopProofs ----------------------------
(***************************************************************************)
(* The safety properties of GuiLoop, for any number of windows, of timers, *)
(* of commands and requests under way, and any length of the mailbox.      *)
(***************************************************************************)
EXTENDS GuiLoop, TLAPS

Mail == queue # <<>> \/ channel # <<>>

(* The worker presents to a window, and Lisp commands a window, it knows. *)
NamedWindows ==
  /\ worker = "mark" => target \in Windows
  /\ \A k \in DOMAIN commands : commands[k].win \in known

(* The main thread repaints in one place, and only what is open and drawn. *)
Repainting ==
  /\ todo # {} => main \in {"report", "paint"}
  /\ painting # None => main = "paint" /\ painting \in wins \cap drawn
  /\ main \in {"bar", "draw", "mark"} => ide

(* A window that is painted with a batch that is no longer the latest will be
   painted again. *)
Outdated ==
  painting # None /\ ~latest =>
    \/ painting \in dirty \/ (main = "paint" /\ painting \in todo)
    \/ worker = "mark" /\ target = painting

(* The worker has not yet entered its loop. *)
Starting == \/ worker \in {"load", "finish", "greet"}
            \/ worker \in {"act", "mark"} /\ next \in {"finish", "greet", "wait"}

(* The worker will sleep before it looks at the requests. *)
Past == Starting \/ worker \in {"wait", "arm"} \/ (worker \in {"act", "mark"} /\ next = "arm")

RequestsWake ==
  ide /\ requests > 0 /\ Past => Mail \/ main = "wake"

AnimationWakes ==
  /\ ide /\ moving /\ worker = "wait" =>
       Mail \/ deadline # None \/ main = "post"
  /\ ide /\ Starting => ~moving

(* A timer that has ended has no flag. *)
TimersOff ==
  \A t \in Timers :
    /\ timer[t] = "off" => ~flag[t]
    /\ flag[t] => ticks[t] \in Windows

Types == TypeOK /\ NamedWindows /\ Repainting
Drawing == Outdated /\ NoLostRepaint
Waking == RequestsWake /\ AnimationWakes
Timing == TimersOff /\ RunningTimersAreKnown
IInv == Types /\ Drawing /\ Waking /\ Timing

LEMMA InitIInv == Init => IInv
<1> USE GuiLoopAssumption DEF Init
<1>1. ASSUME Init PROVE Types
  <2>1. /\ channel \in Seq({"event", "quit"}) /\ Len(channel) <= Capacity
        /\ queue \in Seq({"event", "quit"})
        /\ commands \in Seq([op : {"open", "close"}, win : Windows])
    BY <1>1
  <2>2. /\ known \subseteq Windows /\ wins \subseteq known /\ drawn \subseteq Windows
        /\ shown \subseteq wins \cap drawn /\ dirty \subseteq Windows
    BY <1>1 DEF Windows
  <2>3. /\ timer \in [Timers -> {"off", "asleep", "post"}]
        /\ flag \in [Timers -> BOOLEAN] /\ ticks \in [Timers -> Windows \cup {None}]
        /\ redraw \in [Windows -> Timers \cup {None}]
    BY <1>1
  <2>4. reply \in BOOLEAN /\ moving \in BOOLEAN /\ latest \in BOOLEAN /\ ide \in BOOLEAN
    BY <1>1
  <2>5. TypeOK
    BY <1>1, <2>1, <2>2, <2>3, <2>4 DEF TypeOK
  <2>6. NamedWindows
    BY <1>1 DEF NamedWindows
  <2> QED
    BY <1>1, <2>5, <2>6 DEF Types, Repainting
<1>2. ASSUME Init PROVE Drawing
  BY <1>2 DEF Drawing, Outdated, NoLostRepaint
<1>3. ASSUME Init PROVE Waking
  BY <1>3 DEF Waking, Starting, Past, RequestsWake, AnimationWakes
<1>4. ASSUME Init PROVE Timing
  BY <1>4 DEF Timing, TimersOff, RunningTimersAreKnown
<1> QED
  BY <1>1, <1>2, <1>3, <1>4 DEF IInv

LEMMA PushType ==
  ASSUME TypeOK, NEW e \in {"event", "quit"}, Push(e)
  PROVE  channel' \in Seq({"event", "quit"}) /\ Len(channel') <= Capacity
BY GuiLoopAssumption DEF TypeOK, Push, Fits

LEMMA StopType ==
  ASSUME TypeOK, NEW W \in SUBSET Windows, StopRedraw(W)
  PROVE  /\ flag' \in [Timers -> BOOLEAN]
         /\ redraw' \in [Windows -> Timers \cup {None}]
BY DEF TypeOK, StopRedraw

LEMMA StepTypes ==
  ASSUME Types, [Next]_vars
  PROVE  Types'
<1> USE GuiLoopAssumption
<1> USE DEF Types, TypeOK, NamedWindows, Repainting, app, MainTo, WorkerTo, mainThread,
    workerThread, mailbox, scripts, animation, surfaces, timers
<1>1. CASE UNCHANGED vars
  BY <1>1 DEF vars
<1>29. ASSUME NEW w \in Windows, Store(w),
              next' \in {"finish", "greet", "wait", "serve", "reply", "arm"}
       PROVE  Types'
  <2>1. latest' \in BOOLEAN /\ bar' \in BOOLEAN
    BY <1>29 DEF Store
  <2>2. drawn' \subseteq Windows /\ shown' \subseteq wins \cap drawn' /\ failed' \subseteq drawn'
    BY <1>29 DEF Store
  <2> QED
    BY <1>29, <2>1, <2>2 DEF Store
<1>2. CASE Dispatch
  BY <1>2 DEF Dispatch
<1>3. CASE DeadlinePasses
  BY <1>3 DEF DeadlinePasses
<1>4. CASE Input
  BY <1>4, PushType DEF Input
<1>5. CASE Submit
  BY <1>5 DEF Submit
<1>6. CASE Wake
  BY <1>6, PushType DEF Wake
<1>7. CASE Answered
  <2>1. reply' \in BOOLEAN
    BY <1>7 DEF Answered
  <2> QED
    BY <1>7, <2>1 DEF Answered
<1>8. CASE TimedOut
  BY <1>8 DEF TimedOut
<1>9. CASE Quit
  BY <1>9, PushType DEF Quit, Quitting
<1>10. CASE Terminate
  BY <1>10 DEF Terminate
<1>11. CASE DrainCommands
  BY <1>11, StopType DEF StopRedraw, DrainCommands
<1>12. ASSUME NEW W \in SUBSET wins, SweepClosed(W)
       PROVE  Types'
  BY <1>12, PushType, StopType DEF StopRedraw, SweepClosed
<1>13. CASE \/ CheckLoading \/ PresentBar \/ MarkBar \/ NoWindowLeft
            \/ \E w \in Windows : ReportClose(w)
  <2>1. CASE CheckLoading
    BY <2>1 DEF CheckLoading
  <2>2. CASE PresentBar
    BY <2>2 DEF PresentBar, Windows
  <2>3. CASE MarkBar
    BY <2>3 DEF MarkBar, Windows
  <2>4. CASE NoWindowLeft
    <3>1. had' \in BOOLEAN
      BY <2>4 DEF NoWindowLeft
    <3>2. CASE Quitting
      BY <2>4, <3>1, <3>2, PushType DEF NoWindowLeft, Quitting
    <3>3. CASE MainTo("tick") /\ UNCHANGED <<channel, quit>>
      BY <2>4, <3>1, <3>3 DEF NoWindowLeft
    <3> QED
      BY <2>4, <3>2, <3>3 DEF NoWindowLeft
  <2>5. ASSUME NEW w \in Windows, ReportClose(w)
        PROVE  Types'
    BY <2>5, PushType DEF ReportClose
  <2> QED
    BY <1>13, <2>1, <2>2, <2>3, <2>4, <2>5
<1>14. CASE LoadDeadline
  BY <1>14 DEF LoadDeadline
<1>15. CASE ClearDeadline
  BY <1>15 DEF ClearDeadline
<1>16. CASE PostTick
  BY <1>16, PushType DEF PostTick
<1>17. CASE RepaintDirty
  BY <1>17 DEF RepaintDirty
<1>18. ASSUME NEW w \in Windows, TakeBatch(w)
       PROVE  Types'
  <2>1. latest' \in BOOLEAN
    BY <1>18 DEF TakeBatch
  <2>2. todo' \subseteq Windows /\ painting' \in Windows \cup {None}
    BY <1>18 DEF TakeBatch
  <2>3. Repainting'
    BY <1>18 DEF TakeBatch
  <2> QED
    BY <1>18, <2>1, <2>2, <2>3 DEF TakeBatch
<1>19. CASE SetImage
  <2>1. latest' \in BOOLEAN /\ painting' = None
    BY <1>19 DEF SetImage
  <2>2. shown' \subseteq wins \cap drawn
    BY <1>19 DEF SetImage
  <2> QED
    BY <1>19, <2>1, <2>2 DEF SetImage
<1>20. CASE NoImage \/ CallbackReturns
  <2>1. CASE NoImage
    <3>1. latest' \in BOOLEAN /\ painting' = None
      BY <2>1 DEF NoImage
    <3>2. failed' \subseteq drawn
      BY <2>1 DEF NoImage
    <3> QED
      BY <2>1, <3>1, <3>2 DEF NoImage
  <2>2. CASE CallbackReturns
    BY <2>2 DEF CallbackReturns
  <2> QED
    BY <1>20, <2>1, <2>2
<1>21. CASE Act
  <2>1. ASSUME Done, UNCHANGED <<app, mainThread, mailbox, quit, scripts, animation,
                                 commands, known, wins, surfaces, timers>>
        PROVE  Types'
    BY <1>21, <2>1 DEF Act, Done
  <2>2. ASSUME NEW w \in Children, OpenChild(w)
        PROVE  Types'
    BY <1>21, <2>2 DEF Act, OpenChild, Post, Done, Windows
  <2>3. ASSUME NEW w \in known, Present(w)
        PROVE  Types'
    BY <1>21, <1>29, <2>3 DEF Act, Present
  <2>4. ASSUME NEW w \in known, Close(w)
        PROVE  Types'
    BY <1>21, <2>4 DEF Act, Close, Post, Done
  <2>5. ASSUME NEW w \in known \ {Main}, NoRedraw(w)
        PROVE  Types'
    BY <1>21, <2>5, StopType DEF StopRedraw, Act, NoRedraw, Done
  <2>6. ASSUME NEW w \in known \ {Main}, NEW t \in Timers, SetRedrawRate(w, t)
        PROVE  Types'
    BY <1>21, <2>6 DEF Act, SetRedrawRate, StartTimer, Done
  <2> QED
    BY <1>21, <2>1, <2>2, <2>3, <2>4, <2>5, <2>6 DEF Act
<1>22. CASE MarkDirty
  BY <1>22 DEF MarkDirty
<1>23. CASE NextEvent
  BY <1>23 DEF NextEvent, Handle
<1>24. CASE Serve
  BY <1>24 DEF Serve
<1>25. CASE Reply
  BY <1>25 DEF Reply
<1>26. CASE Animate
  <2>1. CASE Store(Main) /\ next' = "arm"
    BY <1>29, <2>1 DEF Windows
  <2>2. CASE ~Store(Main)
    BY <1>26, <2>2 DEF Animate
  <2> QED
    BY <1>26, <2>1, <2>2 DEF Animate
<1>27. CASE RequestTick
  BY <1>27 DEF RequestTick
<1>28. ASSUME NEW t \in Timers, TimerStep(t)
       PROVE  Types'
  <2>1. CASE TimerWakes(t)
    BY <2>1 DEF TimerWakes, GoesOn
  <2>2. CASE TimerTick(t)
    BY <2>2, PushType DEF TimerTick, GoesOn
  <2> QED
    BY <1>28, <2>1, <2>2 DEF TimerStep
<1>30. CASE Library \/ FinishLoading \/ Greet
  <2>1. CASE Library \/ Greet
    BY <1>29, <2>1 DEF Library, Greet, Windows
  <2>2. CASE FinishLoading
    <3>1. had' \in BOOLEAN /\ ide' \in BOOLEAN /\ bar' \in BOOLEAN /\ moving' \in BOOLEAN
      BY <2>2 DEF FinishLoading
    <3>2. latest' \in BOOLEAN /\ reply' \in BOOLEAN
      BY <2>2 DEF FinishLoading
    <3>3. NamedWindows' /\ Repainting'
      BY <2>2 DEF FinishLoading
    <3>4. worker' = "act" /\ next' = "greet" /\ loading' = FALSE
      BY <2>2 DEF FinishLoading
    <3> QED
      BY <2>2, <3>1, <3>2, <3>3, <3>4 DEF FinishLoading
  <2> QED
    BY <1>30, <2>1, <2>2
<1> QED
  BY <1>1, <1>2, <1>3, <1>4, <1>5, <1>6, <1>7, <1>8, <1>9, <1>10, <1>11, <1>12, <1>13, <1>14,
     <1>15, <1>16, <1>17, <1>18, <1>19, <1>20, <1>21, <1>22, <1>23, <1>24, <1>25, <1>26, <1>27,
     <1>28, <1>30
     DEF Next, MainStep, Callback, WorkerStep

(* A step leaves the drawings alone, or is one of the steps named here. *)
LEMMA StepDrawing ==
  ASSUME Types, Drawing, [Next]_vars
  PROVE  Drawing'
<1> USE GuiLoopAssumption
<1> USE DEF Types, TypeOK, NamedWindows, Repainting, Drawing, Outdated, NoLostRepaint, app, MainTo,
    WorkerTo, mainThread, workerThread, surfaces
<1>1. CASE UNCHANGED <<todo, painting, latest, target, wins, surfaces>>
           /\ (worker = "mark" <=> worker' = "mark")
           /\ (main \in {"paint", "mark"} => main' = main)
  BY <1>1
<1>2. CASE DrainCommands
  BY <1>2 DEF DrainCommands
<1>3. ASSUME NEW W \in SUBSET wins, SweepClosed(W)
      PROVE  Drawing'
  BY <1>3 DEF SweepClosed
<1>4. CASE RepaintDirty
  BY <1>4 DEF RepaintDirty
<1>5. ASSUME NEW w \in Windows, TakeBatch(w)
      PROVE  Drawing'
  BY <1>5 DEF TakeBatch
<1>6. CASE SetImage \/ NoImage
  BY <1>6 DEF SetImage, NoImage
<1>7. ASSUME NEW w \in Windows, worker # "mark", Store(w)
      PROVE  Drawing'
  BY <1>7 DEF Store
<1>8. CASE MarkDirty
  BY <1>8 DEF MarkDirty
<1>9. CASE Animate
  <2>1. CASE Store(Main)
    BY <1>7, <1>9, <2>1 DEF Animate, Windows
  <2>2. CASE ~Store(Main)
    BY <1>1, <1>9, <2>2 DEF Animate
  <2> QED
    BY <2>1, <2>2
<1>10. CASE Act
  <2>1. CASE \E w \in known : Present(w)
    BY <1>7, <1>10, <2>1 DEF Act, Present
  <2>2. CASE ~\E w \in known : Present(w)
    BY <1>1, <1>10, <2>2 DEF Act, Done, OpenChild, Close, Post, NoRedraw, SetRedrawRate
  <2> QED
    BY <2>1, <2>2
<1>11. CASE UNCHANGED vars \/ DeadlinePasses \/ Dispatch \/ \E t \in Timers : TimerStep(t)
  BY <1>1, <1>11 DEF vars, DeadlinePasses, Dispatch, TimerStep, TimerWakes, TimerTick
<1>12. CASE Input \/ Submit \/ Wake \/ Answered \/ TimedOut \/ Quit \/ Terminate
  BY <1>1, <1>12 DEF Input, Submit, Wake, Answered, TimedOut, Quit, Quitting, Terminate
<1>13. CASE \/ CheckLoading \/ PresentBar \/ MarkBar \/ NoWindowLeft
            \/ \E w \in Windows : ReportClose(w)
  BY <1>13 DEF CheckLoading, PresentBar, MarkBar, NoWindowLeft, Quitting, ReportClose
<1>15. CASE LoadDeadline \/ ClearDeadline \/ PostTick \/ CallbackReturns
  BY <1>15 DEF LoadDeadline, ClearDeadline, PostTick, CallbackReturns
<1>16. CASE Library \/ FinishLoading \/ Greet
  <2>1. CASE Library \/ Greet
    BY <1>7, <2>1 DEF Library, Greet, Windows
  <2>2. CASE FinishLoading
    BY <1>1, <2>2 DEF FinishLoading
  <2> QED
    BY <1>16, <2>1, <2>2
<1>14. CASE NextEvent \/ Serve \/ Reply \/ RequestTick
  BY <1>1, <1>14 DEF NextEvent, Handle, Serve, Reply, RequestTick
<1> QED
  BY <1>2, <1>3, <1>4, <1>5, <1>6, <1>8, <1>9, <1>10, <1>11, <1>12, <1>13, <1>14, <1>15, <1>16
     DEF Next, MainStep, Callback, WorkerStep

LEMMA StepTiming ==
  ASSUME Types, Timing, [Next]_vars
  PROVE  Timing'
<1> USE GuiLoopAssumption
<1> USE DEF Types, TypeOK, Timing, TimersOff, RunningTimersAreKnown
<1>1. CASE UNCHANGED timers
  BY <1>1 DEF timers
<1>2. ASSUME NEW W \in SUBSET Windows, StopRedraw(W)
      PROVE  Timing'
  <2>1. TimersOff'
    BY <1>2 DEF StopRedraw
  <2>2. ASSUME NEW t \in Timers, flag'[t]
        PROVE  redraw'[ticks'[t]] = t
    <3>1. flag[t] /\ ticks' = ticks /\ ticks[t] \in Windows /\ redraw[ticks[t]] = t
      BY <1>2, <2>2 DEF StopRedraw
    <3>2. t \notin {redraw[w] : w \in W} \ {None}
      BY <1>2, <2>2 DEF StopRedraw
    <3>3. ticks[t] \notin W
      BY <3>1, <3>2
    <3> QED
      BY <1>2, <3>1, <3>3 DEF StopRedraw
  <2> QED
    BY <2>1, <2>2
<1>3. ASSUME NEW w \in known, NEW t \in Timers, SetRedrawRate(w, t)
      PROVE  Timing'
  BY <1>3 DEF SetRedrawRate, StartTimer
<1>4. ASSUME NEW t \in Timers, TimerStep(t)
      PROVE  Timing'
  <2>1. GoesOn(t, "post") \/ GoesOn(t, "asleep")
    BY <1>4 DEF TimerStep, TimerWakes, TimerTick
  <2>2. ASSUME NEW p \in {"post", "asleep"}, GoesOn(t, p)
        PROVE  Timing'
    BY <2>2 DEF GoesOn
  <2> QED
    BY <2>1, <2>2
<1>5. CASE DrainCommands
  <2> DEFINE named(op) ==
               {commands[k].win : k \in {j \in DOMAIN commands : commands[j].op = op}}
             closed == named("close") \cap (wins \cup (named("open") \ wins))
  <2>1. StopRedraw(closed)
    BY <1>5 DEF DrainCommands
  <2>2. closed \subseteq known
    BY DEF NamedWindows
  <2> QED
    BY <1>2, <2>1, <2>2
<1>6. ASSUME NEW W \in SUBSET wins, SweepClosed(W)
      PROVE  Timing'
  BY <1>2, <1>6 DEF SweepClosed
<1>7. CASE Act
  <2>1. CASE \E w \in known : NoRedraw(w) \/ \E t \in Timers : SetRedrawRate(w, t)
    BY <1>2, <1>3, <2>1 DEF NoRedraw
  <2>2. CASE ~\E w \in known : NoRedraw(w) \/ \E t \in Timers : SetRedrawRate(w, t)
    BY <1>1, <1>7, <2>2 DEF Act, OpenChild, Close, Post, Present, Store
  <2> QED
    BY <2>1, <2>2
<1>8. CASE UNCHANGED vars \/ DeadlinePasses \/ Dispatch
  BY <1>1, <1>8 DEF vars, DeadlinePasses, Dispatch
<1>9. CASE Input \/ Submit \/ Wake \/ Answered \/ TimedOut \/ Quit \/ Terminate
  BY <1>1, <1>9 DEF Input, Submit, Wake, Answered, TimedOut, Quit, Terminate
<1>10. CASE LoadDeadline \/ ClearDeadline \/ PostTick \/ CallbackReturns
  BY <1>1, <1>10 DEF LoadDeadline, ClearDeadline, PostTick, CallbackReturns
<1>11. CASE RepaintDirty \/ SetImage \/ NoImage \/ \E w \in Windows : TakeBatch(w)
  BY <1>1, <1>11 DEF RepaintDirty, SetImage, NoImage, TakeBatch
<1>12. CASE MarkDirty \/ NextEvent \/ Serve \/ Reply \/ Animate \/ RequestTick
  BY <1>1, <1>12 DEF MarkDirty, NextEvent, Serve, Reply, Animate, Store, RequestTick
<1>13. CASE \/ CheckLoading \/ PresentBar \/ MarkBar \/ NoWindowLeft
            \/ \E w \in Windows : ReportClose(w)
  BY <1>1, <1>13 DEF CheckLoading, PresentBar, MarkBar, NoWindowLeft, ReportClose
<1>14. CASE Library \/ FinishLoading \/ Greet
  BY <1>1, <1>14 DEF Library, FinishLoading, Greet, Store
<1> QED
  BY <1>4, <1>5, <1>6, <1>7, <1>8, <1>9, <1>10, <1>11, <1>12, <1>13, <1>14
     DEF Next, MainStep, Callback, WorkerStep

(* An event that is dropped finds an event under way. *)
LEMMA PushMail ==
  ASSUME TypeOK, NEW e \in {"event", "quit"}, Push(e)
  PROVE  channel' # <<>>
<1>1. CASE Fits
  <2>1. channel \in Seq({"event", "quit"}) /\ channel' = Append(channel, e)
    BY <1>1 DEF TypeOK, Push
  <2> QED
    BY <2>1
<1>2. CASE ~Fits
  <2>1. channel' = channel /\ Len(channel) # 0
    BY <1>2, GuiLoopAssumption DEF TypeOK, Push, Fits
  <2> QED
    BY <2>1
<1> QED
  BY <1>1, <1>2

LEMMA StepWaking ==
  ASSUME Types, Waking, [Next]_vars
  PROVE  Waking'
<1> USE GuiLoopAssumption
<1> USE DEF Types, TypeOK, Waking, RequestsWake, AnimationWakes, Starting, Past, Mail, app, MainTo,
    WorkerTo,
    mainThread, workerThread, mailbox, scripts, animation
<1>1. CASE UNCHANGED <<ide, main, worker, next, mailbox, requests, animation>>
  BY <1>1
<1>2. CASE Dispatch
  <2>1. queue' # <<>>
    BY <1>2 DEF Dispatch
  <2> QED
    BY <1>2, <2>1 DEF Dispatch
<1>3. CASE Input \/ Wake \/ Quit \/ PostTick \/ \E w \in Windows : ReportClose(w)
  <2>1. channel' # <<>>
    BY <1>3, PushMail DEF Input, Wake, Quit, Quitting, PostTick, ReportClose
  <2> QED
    BY <1>3, <2>1 DEF Input, Wake, Quit, Quitting, PostTick, ReportClose
<1>4. ASSUME NEW W \in SUBSET wins, SweepClosed(W)
      PROVE  Waking'
  BY <1>4 DEF SweepClosed
<1>17. CASE NoWindowLeft
  <2>1. CASE Quitting
    <3>1. channel' # <<>>
      BY <2>1, PushMail DEF Quitting
    <3> QED
      BY <1>17, <2>1, <3>1 DEF NoWindowLeft, Quitting
  <2>2. CASE MainTo("tick") /\ UNCHANGED <<channel, quit>>
    BY <1>17, <2>2 DEF NoWindowLeft
  <2> QED
    BY <1>17, <2>1, <2>2 DEF NoWindowLeft
<1>18. CASE CheckLoading \/ PresentBar \/ MarkBar
  BY <1>18 DEF CheckLoading, PresentBar, MarkBar
<1>19. CASE Library \/ FinishLoading \/ Greet
  <2>1. CASE Library \/ Greet
    BY <2>1 DEF Library, Greet, Store
  <2>2. CASE FinishLoading
    BY <2>2 DEF FinishLoading
  <2> QED
    BY <1>19, <2>1, <2>2
<1>5. ASSUME NEW t \in Timers, TimerStep(t)
      PROVE  Waking'
  <2>1. CASE TimerWakes(t)
    BY <1>1, <2>1 DEF TimerWakes
  <2>2. CASE TimerTick(t)
    BY <2>2, PushMail DEF TimerTick
  <2> QED
    BY <1>5, <2>1, <2>2 DEF TimerStep
<1>6. CASE Submit \/ Answered \/ TimedOut \/ Terminate
  BY <1>6 DEF Submit, Answered, TimedOut, Terminate
<1>7. CASE DeadlinePasses \/ DrainCommands \/ LoadDeadline \/ ClearDeadline
  <2>1. CASE DeadlinePasses
    BY <2>1 DEF DeadlinePasses
  <2>2. CASE DrainCommands
    BY <2>2 DEF DrainCommands
  <2>3. CASE LoadDeadline \/ ClearDeadline
    BY <2>3 DEF LoadDeadline, ClearDeadline
  <2> QED
    BY <1>7, <2>1, <2>2, <2>3
<1>8. CASE RepaintDirty \/ SetImage \/ NoImage \/ CallbackReturns \/ \E w \in Windows : TakeBatch(w)
  BY <1>8 DEF RepaintDirty, SetImage, NoImage, CallbackReturns, TakeBatch
<1>9. CASE Act
  <2>1. /\ worker = "act"
        /\ \/ worker' = next /\ next' = "wait"
           \/ worker' = "mark" /\ next' = next
        /\ UNCHANGED <<ide, main, mailbox, requests, animation>>
    BY <1>9 DEF Act, Done, OpenChild, Close, Post, Present, Store, NoRedraw, SetRedrawRate
  <2> QED
    BY <2>1
<1>10. CASE MarkDirty
  BY <1>10 DEF MarkDirty
<1>11. CASE NextEvent
  BY <1>11 DEF NextEvent, Handle
<1>12. CASE Serve
  BY <1>12 DEF Serve
<1>13. CASE Reply
  BY <1>13 DEF Reply
<1>14. CASE Animate
  BY <1>14 DEF Animate, Store
<1>15. CASE RequestTick
  BY <1>15 DEF RequestTick
<1>16. CASE UNCHANGED vars
  BY <1>1, <1>16 DEF vars
<1> QED
  BY <1>2, <1>3, <1>4, <1>5, <1>6, <1>7, <1>8, <1>9, <1>10, <1>11, <1>12, <1>13, <1>14, <1>15,
     <1>16, <1>17, <1>18, <1>19
     DEF Next, MainStep, Callback, WorkerStep

LEMMA InductiveInvariant == Spec => []IInv
<1>1. IInv /\ [Next]_vars => IInv'
  BY StepTypes, StepDrawing, StepWaking, StepTiming DEF IInv
<1> QED
  BY <1>1, InitIInv, PTL DEF Spec

(* The state of the GUI stays within its types: in particular the main      *)
(* thread shows only windows that are open and were presented to.           *)
THEOREM TypeCorrect == Spec => []TypeOK
<1>1. IInv => TypeOK
  BY DEF IInv, Types
<1> QED
  BY <1>1, InductiveInvariant, PTL

(* No drawing is lost between present and the repaint, for any windows: a   *)
(* window that does not show its latest drawing will be repainted, unless   *)
(* no image could be made of it.                                            *)
THEOREM NoLostRepaintHolds == Spec => []NoLostRepaint
<1>1. IInv => NoLostRepaint
  BY DEF IInv, Drawing
<1> QED
  BY <1>1, InductiveInvariant, PTL

(* The worker never sleeps over a request or an animation, however long the *)
(* mailbox and whatever it drops.                                           *)
THEOREM NoForgottenWorkHolds == Spec => []NoForgottenWork
<1>1. IInv => NoForgottenWork
  BY DEF IInv, Waking, RequestsWake, AnimationWakes, Starting, Past, Mail, NoForgottenWork, Awake
<1> QED
  BY <1>1, InductiveInvariant, PTL

(* Closing a window finds its running timer, for any windows and timers.    *)
THEOREM RunningTimersAreKnownHolds == Spec => []RunningTimersAreKnown
<1>1. IInv => RunningTimersAreKnown
  BY DEF IInv, Timing
<1> QED
  BY <1>1, InductiveInvariant, PTL
=============================================================================
