# A TLA+ model of the MacNCL runtime

MacNCL is a Common Lisp for Apple Silicon: a reader, a macro expander and
compiler, an LLVM JIT, and a Rust runtime (`src/ncl-runtime`) under the code it
generates. This directory holds TLA+ modules of the concurrent and stateful parts of
the runtime and of one pass of the compiler, TLC configurations that check them on
small instances, and TLAPS proofs of the safety properties of eight of them.

Paths below are relative to the repository's `src/`, `rt/` stands for
`src/ncl-runtime/src/`.

    tlc -config MCMonitor.cfg MCMonitor.tla        # a run: module and cfg of PROJECT.json
    tlapm MonitorProofs.tla                        # a proof module

## 1. Inventory

What the system is made of, what each part keeps, what it does, what is hard about
it and what makes it correct. The modules of section 2 model the first twelve (the
atomic counters aside).

**Critical sections and condition variables** (`rt/threads.rs` 640-890). State: a
registry of sections (owner, reentrance count, a Condvar for the queue) and one of
condition variables (a Condvar and `aux_mu`). Operations: allocate, enter, leave,
deallocate; wait, notify, broadcast, release. Lisp threads interact through them by
id; an operation looks the id up under the registry lock and goes on with an `Arc`.
Hard: barging newcomers, notify_one on a queue shared by enters and returning
waiters, the gap between releasing the section and parking, timeouts, spurious
wakes, deallocation under use, threads that end inside a section. Correct if: one
thread inside at a time, depths survive waiting, no wake-up is lost.

**Thread control** (`rt/threads.rs` 60-470). State: the thread registry with the
suspend, terminate and finished flags of each entry, the table of JoinHandles, a
thread-local id. Operations: create, join, exit, suspend, resume, terminate, and the
safepoint where the target obeys. Hard: the flags are cleared outside the mutex the
target parks with, the handle is stored after the spawn, an entry disappears while a
joiner looks at it. Correct if: resumes and terminations reach their target, joins of
ended threads return, a suspended thread stays put.

**Mailboxes** (`rt/threads.rs` 530-640). State: a registry, per mailbox a deque, a
capacity and two Condvars. Operations: make, send, receive (forever, at once, timed),
release. Hard: notify_one with several waiters of each kind, timed receivers that
leave as a word arrives. Correct if: it is a bounded FIFO channel and nobody sleeps
beside what he waits for.

**Atomic counters** (`rt/threads.rs` 470-530). One atomic instruction per operation.

**Static area** (`rt/static_area.rs`). State: a reserved range, `top`, and the
committed frontier. Operation: `try_alloc_cells`, a compare-exchange loop that commits
chunks on the way. Hard: races on `top`, racing commits, the last, shortened chunk.
Correct if: grants are disjoint, committed, contiguous.

**Write barrier of the static area** (`rt/mutator.rs`, `rt/abi.rs`,
`rt/gc_symbol.rs`). State: symbol cells, one dirty byte per card. Operations: stores
with their card marks, dynamic binding, the scan of dirty cards and the clearing of
cards after a minor collection. Hard: store and mark are two steps, clearing looks at
cells one by one while other threads run and store. Correct if: no cell holds a
stale pointer.

**Safepoints and blocking calls** (`rt/mutator.rs`, shims of `rt/threads.rs`). State:
each thread's mode in newgc's handshake, its published stack window. Operations: poll,
drive a collection, enter_blocked and leave_blocked around blocking calls. Hard: every
blocking call of the runtime has to be announced, each with a fresh window. Correct
if: a collection runs alone, sees every frame, and happens.

**GUI event mailbox** (`rt/igui_events.rs`). State: a bounded channel, the
dispatcher thread, a registry of queues, each reader's window filter. Operations:
push, dispatch, filter and unfilter, the next-event calls (blocking, timed, or a spin
over several windows). Hard: the dispatcher looks targets up under one lock and pushes
under others, notifies after unlocking; filters change meanwhile. Correct if: each
queue gets exactly its events, in order, no reader sleeps beside one, deadlines hold.

**Non-local exits and conditions** (`rt/abi.rs`). State: thread-local flags
(`ABORT_PENDING`, `BLOCK_TARGET`, `LOOP_BREAK_PENDING`, `THROW_PENDING`,
`CONDITION_PENDING` and their values), the stacks of block and catch frames.
Operations: block/return-from, loop/return, catch/throw, unwind-protect,
handler-case/error, the guard of a top-level form. Hard: four kinds of exit share one
flag, each primitive interprets the others' flags when its body comes back, cleanups
run exits of their own while one is suspended, a failing conversion to a float signals
without a test of the flag behind it. Correct if: each exit reaches the
innermost point meant for it, with its value, through every cleanup.

**Hash tables** (`Lisp/core.lisp` 2781-2953, the hash functions of `rt/abi.rs`).
State: a vector of a test, a count and buckets, each a list of pairs. Operations:
make, gethash and its setf, remhash, clrhash, maphash. Hard: objects are hashed by
their address and the collector moves them; maphash calls code that changes the
bucket it walks. Correct if: it is a dictionary for the keys it can serve, the count
is exact, maphash meets each entry once.

**The GUI loop** (`rt/igui_mac/window.rs`, `scripting.rs`, `apple_events.rs`, the
event loops of `ncl-driver/src/main.rs`). State: on AppKit's main thread the open
windows; shared, each behind a mutex or an atomic of its own, the progress of the
loading, the queue of window commands, the latest batch of each window, the dirty set, the animation deadline, the
redraw timers' flags, the script requests; on the worker thread, Lisp. Operations: the
60 Hz callback (apply commands, present the loading bar, sweep closed windows, post animation ticks,
repaint),
Apple-event handlers that wait thirty seconds for the worker, quitting, which waits
for it without limit; the worker's event loop, presenting, opening and closing,
set-redraw-rate. Hard: a batch and its mark are under different locks, the event that
wakes the worker may be dropped, deadlines are loaded and cleared in two steps, timers
are replaced while asleep, handlers time out with their request still queued. Correct
if: what is drawn is shown, no work is slept over, a closed window's timer stops,
requests are served, the program ends.

**Representation pass** (`ncl-compiler/src/optimize.rs` and the code `ncl-llvm` emits
for its nodes). A forward walk proves let bindings to be double floats and moves them
to unboxed slots. Hard: slots and local indices are reused by sibling scopes, floats
meet other numbers. Correct if: a function returns the same with and without it.

**Hot reload** (`rt/hot_reload.rs`): watcher callback, 500 ms debounce per path, a
de-duplicated queue of pending paths that Lisp drains. Seen while reading: a change
within the debounce interval of one that has been drained is dropped and never
reported, while `watcher_pending_shim` promises the paths that "have changed since the
last call".

**Symbols, packages, interning** (`rt/symbol.rs`, `rt/universe.rs`, `rt/mutator.rs`):
a mutex around a map. **Mutator heap interface** (`rt/mutator.rs`): TLABs, large
objects, root stack. **Collector**: the external crate newgc-core. **Legacy semispace
heap** (`rt/heap.rs`): used by its tests only. **Word layout**, **numeric tower**,
**printer, files, streams**, **drawing, text and the IDE's editor**, **audio**:
sequential code or bindings. **Reader, the rest of the compiler and of the LLVM back
end, the driver's command line, the Lisp library**: sequential translation of text and
trees; what the generated code does at run time appears as the clients of the modules
here. `crates/selkie` is a vendored diagram renderer, `crates/new-asm` a stub.
`PROJECT.json` gives the status of each and the reason.

How they interact: compiled code calls the C ABI (`abi.rs`), which calls the rest.
Every thread owns a `MutatorState`; allocation and `thread-safepoint` poll for
collections; the driver of a collection waits for all threads that are not native,
scans their published windows and the dirty cards of the static area, and then the
threads go on. Thread primitives meet the collector only where they block. The GUI's
main thread never runs Lisp: it and the worker meet in the event mailbox, which
`EventDispatcher` has in detail and `GuiLoop` as a bounded channel and one queue, and in
the shared cells of the GUI loop.

## 2. Modules and how they correspond to the code

A step of a model is one atomic access or one region under one mutex; what a function
does between two of them is local to the thread and is folded in. The `pc` (or `at`,
`mode`, `call`) of a thread says where it is inside a primitive. "Faulty variant"
operators are not part of any specification: each is a plausible bug of the operator
that follows it, kept to show that the properties notice it (`PROJECT.json`,
"mutants").

| module | models | notes |
|---|---|---|
| `Monitor` | sections and condition variables | `owner`, `count`, `aux` are the fields of the entries; the ids somebody can still look up are `sections`, `condvars`. `held` is a history of what each client has entered. |
| `ReentrantLock` | what sections promise | abstract; `Monitor` implements it (`LockSpec`). |
| `MonitorIdiom` | clients of `Monitor` | the loop around condvar-wait that `threads.rs` documents, against setters that signal inside or after the section. |
| `ThreadControl` | thread life cycle | a thread the registry adopts implicitly is `Main`. `taken`, the threads a join has had the handle of, is a history. |
| `Mailbox` | mailboxes | words are numbered in the order of their sends; `Channel` is the abstract FIFO it implements (`ChannelSpec`). |
| `StaticArea` | `try_alloc_cells` | |
| `StaticCards` | static cells, cards, collections | objects move and die at a collection unless something the collector sees refers to them; the evacuation itself is external and modelled by that effect. `overtaken` is a history: the cells whose last mark came while a driver that had already read them was about to clean their card. |
| `Safepoint` | stop-the-world and blocking calls | newgc's handshake is external: `Collect`, `ResumeWorld` follow how `mutator.rs` uses it. `Uses` gives the blocking calls of each thread's Lisp code; `NativeWaits` are those announced with `enter_blocked`, `ManagedWaits` the others. |
| `EventDispatcher` | GUI event mailbox | an event is its position in the history of accepted events. |
| `NonLocalExit` | exits by pending flags | a frame is an active call of a primitive; what the primitive saved in its locals is in the frame. `HANDLER_DEPTH` is the number of handler and toplevel frames and is not a variable. `unchecked` says that a condition is pending which compiled code has not tested for; `astray` is a history, below. |
| `Unwinding` | what exits promise | abstract, without flags; `NonLocalExit` implements it (`UnwindingSpec`). |
| `HashTable` | hash tables under a moving collector | a hash is known by its remainder; that of a cons is its car's, scattered (`Leaf`, `Scatter`): `bits` is the bucket a key's address hashes to, and `Move`, a collection, may change it for any key that is not `Fixed`. `reply` is what the last operation returned, for the keys the claim is about (`Steady`). |
| `Dictionary` | what a hash table promises | abstract; `HashTable` implements it (`DictionarySpec`), a name being a class of keys that match. |
| `GuiLoop` | main thread, worker, redraw timers | an event is `FrameClose` or any other; each of those makes the worker run its loop once. `shown` says of a window that its image is the latest batch presented to it, `latest` the same of the batch in the main thread's hands, `failed` that no image could be made of it. The IDE starts with its window open and its worker loading. |
| `FloatUnboxing` | the representation pass and its code | `Walk` is the pass, `Eval` the code emitted for a body; both are pure, a state is a body, its code and a call. Every node the pass does not look at stands behind `call`. |
| `MonitorProofs`, `MailboxProofs`, `ThreadControlProofs`, `MemoryProofs` (of `StaticArea` and `Safepoint`), `StaticCardsProofs`, `EventDispatcherProofs`, `GuiLoopProofs`, `LispProofs` (of `HashTable` and `NonLocalExit`) | theorems | section 4. |
| `MCMonitor`, `MCStaticCards`, `MCSafepoint`, `MCEventDispatcher`, `MCHashTable`, `MCNonLocalExit`, `MCFloatUnboxing` | instances for TLC | symmetry sets, the functions and sets that constants stand for, and `FormEnds`, an action constraint (section 3). |

`StaticCards` and `Safepoint` look at the same collection from two sides: `Safepoint`
shows that it runs alone and sees the frames, `StaticCards` takes the world at a
collection as stopped (`AtSafepoint`) and follows what it does to cells and cards. A
program that reads through a stale pointer, or a collector that visits one, has no
defined behaviour: `StaticCards` ends there, and its properties are about the states
before.

**Exits that go astray.** `NonLocalExit` lets compiled code do anything it can do, and
there are four things the flags do not survive. An exit leaves a cleanup, whose end puts
back the flags it found (`Escapes`). A `return` starts inside a cleanup while the one
that is suspended there still has its value in the flag both use (`Overwrites`). A nil
block inside such a cleanup takes an exit that passes through it for the suspended return
(`Mistakes`). A primitive is entered, or another exit started, while a condition that a
conversion has signalled is pending (`flags.abort` in `Enter` and `Asks`).
`astray` records that one of them happened in the form under way. `ExitDropped.cfg`,
`ReturnMistaken.cfg` and `ConditionOvertaken.cfg` show what becomes of such an exit;
`NoStrayFlags` and `UnwindingSpec` say that these are the only ways, that everything is
in order up to that step, and that the next form starts clean.

## 3. What TLC checks

Passing runs, with their distinct states.

| run | instance | shows |
|---|---|---|
| `MCMonitor` (359 thousand, symmetric) | 3 threads, 1 section, 1 condition variable, depth 2 | `MutualExclusion`, `DepthPreserved`, `NoLostRelease`, `NotifyMissesNoWaiter`, and that every step is one of `ReentrantLock` or none |
| `MonitorIdiom` (9 thousand) | 2 waiters, 1 or 2 setters | `EveryClientFinishes`, `FreeSectionIsTaken` |
| `ThreadControl` (193 thousand) | main and 2 children | `ResumeNotLost`, `NoForgottenJoiner`, `JoinableOnce`, `JoinOfFinishedReturns`, `TerminateWorks` |
| `Mailbox` (1.6 million) | 3 threads, capacity 2, 4 sends | `NoSleepingReceiver`, `NoSleepingSender`, `MailIsFetched`, and that the mailbox is a FIFO channel |
| `StaticArea` (202 thousand) | 3 threads, 5 cells, 1 committed, chunks of 2, requests of 1 and 3 | `Disjoint`, `GrantsUsable`, `NothingLeaked`, `EveryCallReturns` |
| `StaticCards` (2.2 million, symmetric) | 2 mutators, 3 cells in 2 cards, one of them rebound, 1 object that moves and dies | `NoStaleCell`, `PointersInDirtyCards` |
| `Safepoint` (93 thousand) | 3 mutators with different blocking calls, each kind of wait among them | `CollectsAlone`, `WindowsCoverFrames`, `CollectionHappens` |
| `EventDispatcher` (331 thousand) | 2 readers, 2 windows, channel of 1, 2 events | `QueuesAreExact`, `NoSleepingReader`, `TimedCallReturns` |
| `NonLocalExit` (1.1 million) | 5 frames, 2 block names, 2 tags, 2 values | `ExitTypeOK`, `NoStrayFlags` and that the flags implement `Unwinding` |
| `HashTable` (104 thousand, symmetric) | 3 keys (a symbol and two equal strings) in 2 buckets, 2 values, 3 entries, each test | `CountExact`, `MaphashComplete`, and that the table is a dictionary |
| `GuiLoop` (382 thousand) | the IDE's window, a child window, 2 redraw timers, a channel of 1, 1 command, 2 script requests | `NoLostRepaint`, `NoForgottenWork`, `RunningTimersAreKnown`, `RequestsServed`, `QuitCompletes` |

The `TypeOK` of a module is a theorem (section 4) and is in no run but that of
`NonLocalExit`. Where two modules share a module of proofs, one of them gives its
initial states, specification and type invariant names of its own (`AreaInit`,
`ExitSpec`, `ExitTypeOK`).

**Why the bounds are enough.** Three threads give an owner, a queued thread and one
that comes or goes meanwhile; the wake-up arguments are about one waiter, one waker
and one competitor. Depth 2 tells "restored" from "reset to one". A mailbox of two
words and four sends has two senders asleep on a full queue and an order to confuse. In
`StaticArea` the frontier meets the end of the reservation inside a chunk, and a
request is larger than a chunk. In `StaticCards` two cells share a card, one
mutator stores and collects while the other cleans cards, and both may clean at once;
the object survives one move, and a collection after that can only keep it, or let it die. Five frames hold a top-level form, an exit point, a
cleanup that suspends an exit to it, and two primitives inside the cleanup; four suffice
for each of the three configurations that must fail. `FormEnds` keeps TLC from exploring what else a
form does once an exit has gone astray in it: its frames are left one by one, and the next
form begins with whatever that leaves (the proofs have no such restriction). In
`HashTable` two strings are equal but distinct, and may move into and out of the bucket
they share with the symbol; three entries allow one string to be entered a second time
after it has moved. In `GuiLoop` a channel of one drops an event as soon as two come
together, the second timer replaces the first, and a second request follows one whose
handler has given up; side windows are opened in the standalone app only (`IdeChildren`
is empty), which runs the same code. Histories
(`held`, `received`, `accepted`, ...) are bounded by the same guards that bound the
inputs: `MaxCount`, `MaxSends`, `MaxEvents`, `MaxMoves`, `MaxDepth`, `MaxFrames`,
`MaxQueue`, `MaxCommands`, `MaxRequests`. The
readers of `EventDispatcher` differ (`Windows`, `Deadlines`, `Sources` in
`MCEventDispatcher` and the cfg) so that every loop of the code runs in one instance
that still finishes.

**Deadlock** is checked except in `MCMonitor`, `MonitorIdiom`, `Mailbox`,
`Safepoint` and `GuiLoop`, where clients may legitimately all wait, or be done, for good:
a GUI that has quit, or that waits for ever because its `FrameClose` was dropped.

**Fairness.** A thread inside a primitive is scheduled (`WF` on its `Step`); calls by
Lisp code are never owed, nor are spurious wakes. Blocked threads are not runnable, so
their steps are disabled. Three further assumptions:
`ThreadControl` has `SF(Poll)` and `Safepoint` has `SF(Park)`, because running Lisp
code polls again and again (every allocation polls, and `threads.rs` asks long loops
to call `thread-safepoint`), but makes other calls in between, so that the poll is
enabled infinitely often rather than continuously; `EventDispatcher` has
`WF(Deadline)`, time passes; `MonitorIdiom` has the clients run their programs.
`FreeSectionIsTaken` needs only the primitives' fairness. In `GuiLoop` the main thread,
the worker and the dispatcher are each scheduled, which says that handlers and evaluated
forms return: a Lisp form that loops stops the GUI by design. Neither input, nor the
passing of the deadline, nor a timer's tick is owed.

**The run that must fail.** It checks one statement of the sources that the code does not
keep; `PROJECT.json` quotes it under "findings".

* `FloatUnboxing` (`PromotionPreservesValue`): the pass takes
  every `+`, `-` or `*` with one float operand for a float, by "contagion: if either
  operand is a float and the result is returned at all, it is a float"
  (`ncl-compiler/src/optimize.rs` 32). The sum of a float and a complex number is complex
  (`rt/complex.rs` 201-217). `(let ((x (+ 1.0 z))) x)` returns it; once the pass has
  promoted `x`, the store goes through `coerce_to_f64`, which signals an error instead.
  The bodies are all let forms of a few shapes over small expressions: one binding, two,
  nested and sibling lets, a declared double-float beside promoted ones; each is called
  with a fixnum, a float and a complex number.

**Further configurations.** They are kept beside the runs of `PROJECT.json` and are run by
hand, with the module named. Two hold. `FloatReals.cfg` (`MCFloatUnboxing`): with real
arguments the pass preserves every result of the same bodies, so slots never alias and
indices never shift. `HashConses.cfg` (`MCHashTable`; 79 thousand states): `DictionarySpec`
with a symbol, a string and two equal conses of that string as keys, and two entries; it swaps
the two buckets for a cons, so that a cons and its car never share one. Nine fail, each for
one statement of the sources that the code does not keep:

* `JoinTooEarly.cfg` (`ThreadControl`, `FailedJoinAsDocumented`): `join_thread` is to fail only for an id
  create-thread did not spawn or a thread that had already been joined
  (`rt/threads.rs` 308-310). It also fails between the spawn and the store of the handle.
  `JoinableOnce` says what holds: the handle is about to be stored, in the table or gone
  to one join.
* `TerminateLost.cfg` (`ThreadControl`, `TerminatedNotParked`): `terminate_thread` clears the suspend
  flag so that the target does not stay "parked forever" (`rt/threads.rs` 376). A
  suspend that arrives between the terminate and the target's poll parks it all the
  same: the loop tests the terminate flag only after a wake-up. `TerminateWorks` states
  what does hold.
* `CardClearRace.cfg` (`MCStaticCards`, `ClearedCardsHoldNoPointer`): `clear_static_cards_unless_intergen`
  looks at the cells of a card and then clears the card, after the other threads have
  been released. A store with its mark in between is erased. `NoStaleCell` and
  `PointersInDirtyCards` except that cell (`overtaken`), and only until a later store to
  it is marked in peace.
* `DynamicBindUnmarked.cfg` (`MCStaticCards`, `EveryStoreMarks`): dynamic binding stores heap
  pointers into value cells and marks no card, against "on every store" of
  `rt/static_area.rs` 18-19. `Rebound` is the set of cells affected; the theorems except
  them, and not the cells that share a card with them.
* `HashMoved.cfg` (`MCHashTable`, `EntriesAreFound`): the comment over `%word-hash` calls hashing the bits
  correct for eq and eql tables "because two values that are EQ have identical Word
  bits" (`rt/abi.rs` 3237-3241); they have, until a collection moves the object. A cons, a
  string, a boxed number or a closure used as an eq or eql key is lost by its table, stays
  in its bucket, is counted, and is met by maphash. In equal tables this concerns
  every key but strings, immediates and symbols, and the conses whose cars lead to one of
  these. `CountExact` and `DictionarySpec` say what survives: the count, and the other
  keys.
* `LoadingBar.cfg` (`GuiLoop`, `IdeTakesOver`): "hide the loading bar; IDE takes over"
  (`ncl-driver/src/main.rs` 249). The main thread tests that the loading is active and
  then presents the bar; in between the worker may end the loading and present the IDE,
  which the bar then replaces until something makes the worker present again.
* `ExitDropped.cfg` (`NonLocalExit`, `ClearedByItsConsumer`): ABORT_PENDING is to be cleared by whichever
  primitive consumes the exit (`rt/abi.rs` 2269-2271). `unwind_protect_shim` restores the
  flags it saved whatever the cleanup did: an exit that a cleanup starts to a point
  outside itself is lost, and an `error` there leaves `CONDITION_PENDING` set with
  `ABORT_PENDING` clear, so that a later handler takes it.
* `ReturnMistaken.cfg` (`NonLocalExit`, `NilBlockTakesReturns`): `unwind_protect_shim` neither saves nor clears
  `LOOP_BREAK_PENDING`: while a `return` is suspended, a `(block nil ...)` inside the
  cleanup (`do`, `dolist`) takes an error that passes through it for that return, where it
  should "leave the flag pending" (`rt/abi.rs` 2491).
* `ConditionOvertaken.cfg` (`NonLocalExit`, `PendingConditionStands`): the condition of a failed conversion is
  to be "taken at the caller's next abort check" (`rt/float.rs` 78-80). There is none after
  the conversion (`ncl-llvm/src/lib.rs` 2519-2534), so another exit may start first, and is
  the one that check sees.
**Divergences seen without a configuration of their own.**

* `join_thread` promises false for an id create-thread did not spawn
  (`rt/threads.rs` 309); a join of the main or an implicit thread waits for a finished
  flag nobody sets.
* `enter-critical-section`, `mailbox-send`, the park of a suspended thread,
  `condvar-wait` with timeout 0 (which does not park but queues for its section again,
  `rt/threads.rs` 1300, 764) and the driver's own wait for the next line of input
  (`ncl-driver/src/main.rs` 1096) block without `enter_blocked`. A thread queued for a
  section whose owner is parked for a collection keeps the driver of that collection
  waiting. `CollectionHappens` states that a collection that never comes is kept waiting
  by a thread that stays in such a wait, and never by one in an announced wait. (newgc's own wait timeout, after
  which it panics, is external and not modelled.)
* `repaint` gives up when no image can be made of a batch (`rt/igui_mac/window.rs` 563),
  after the window's mark has been taken: that batch is never shown. `NoLostRepaint`
  excepts it (`failed`).
* `equal` compares boxed floats by value, `%equal-hash` hashes their address; `equalp`
  compares strings without case, and `equalp` tables hash them with it.
* A `FrameClose` for a full channel is dropped like any event, and
  `join_worker_for_quit` then waits for ever; `QuitCompletes` is about the one the
  channel took.
* "Every close path ... tears the timer down" (`rt/igui_mac/window.rs` 235-237): in the IDE
  the close box of a side window is not swept, and a rate set after the window has closed
  starts a timer nobody stops. `RunningTimersAreKnown` is about one timer per window.
* `run_mac_app` never polls for script requests, so an Apple event blocks a standalone
  app's main thread for the thirty seconds of its timeout. `RequestsServed` and
  `NoForgottenWork` are about the IDE.

**What the modules leave out of what they model.** `eval`, `eval-string` and `load`
inside a form call the compiler's session, which resets or guards the exit flags itself
(`ncl-compiler/src/lib.rs` 1299-1510); `NonLocalExit` has no such nested session. `GuiLoop`
begins with the IDE's window open and the loading under way: a start-up that fails before
that is not modelled; changes of the theme, the focus and the size are `Input`, events
like any other. In `HashTable` no program changes a cons while it is a key.

## 4. What is proved

TLAPS proves these for every value of the constants that satisfies the modules' named
assumptions.

* `MonitorProofs`, for any threads, sections, condition variables and depths:
  `TypeCorrect`, `MutualExclusionHolds`, `DepthPreservedHolds`,
  `NotifyMissesNoWaiterHolds`, `NoLostReleaseHolds`, and `MonitorImplementsLock`, the
  refinement of `ReentrantLock`. Mutual exclusion is not inductive alone. The
  inductive invariant adds: a thread inside a primitive refers to a section or
  condition variable (`ArcsHeld`); a free section has count 0 (`FreeIsZero`); a thread
  away in a wait owns nothing (`AwayGaveUp`); a thread about to park still holds
  `aux_mu` (`ParkHoldsAux`), which is what keeps a notifier out; and `DepthPreserved`.
  Exclusion follows, because two threads inside would both be the owner.
  `NoLostRelease` is inductive relative to these.
* `MemoryProofs` on `StaticArea`, for any threads, sizes and chunk: `AreaTypeCorrect`,
  `DisjointHolds`, `GrantsUsableHolds`, `NothingLeakedHolds`. The invariant adds that
  what a thread has read and established about the frontier stays true as the area
  only grows (`Established`).
* `StaticCardsProofs`, for any mutators, cells, cards and objects: `TypeCorrect`,
  `NoStaleCellHolds` and `PointersInDirtyCardsHolds`. The exceptions are in the statements:
  the rebound cells, and those whose last mark overtook a driver. The invariant
  adds that objects in a thread's hands are alive (`HeldAlive`), that what a driver has read of
  a card it may clean holds no pointer, unless its mark is still to come or has overtaken the
  driver (`ReadCellsImm`), and that no collection comes between a store and its mark
  (`MarkedWordsCurrent`).
* `MemoryProofs` on `Safepoint`, for any threads: `TypeCorrect`, `CollectsAloneHolds`,
  `WindowsCoverFramesHolds`. The invariant adds that one thread at most drives a
  collection (`OneDriver`) and that a thread that is not managed has published its window
  (`WindowsPublished`).
* `ThreadControlProofs`, for any threads: `TypeCorrect`, `ResumeNotLostHolds`,
  `NoForgottenJoinerHolds`, `JoinableOnceHolds`. The invariant adds that a call
  refers to a thread that was born (`Arguments`) and that a thread is spawned, and its
  handle stored, by one call (`SpawnedOnce`).
* `MailboxProofs`, for any finite set of threads, any number of sends and any capacity:
  `TypeCorrect`, `NoSleepingReceiverHolds`, `NoSleepingSenderHolds`, and
  `MailboxIsChannel`, that the mailbox implements `Channel`. The proof counts waiters
  that have been woken but have not run yet against the words, or places, that are there
  for them.
* `EventDispatcherProofs`, for any finite set of readers, any windows and capacity:
  `TypeCorrect`, `NoSleepingReaderHolds` and `QueuesAreExactHolds`. The invariant
  `EventsAwaited` says that a queue whose readers are parked holds no more events than it
  has woken readers, but for the last one, which the dispatcher is about to announce.
  `Bookkeeping` says that the channel holds the events after the one in the dispatcher's
  hand, in order, and that a queue nobody has registered never had one; with it, what came
  out of a queue followed by what is in it lists the events the queue is owed, and a push
  extends that list by the one event that was missing.
* `GuiLoopProofs`, for any windows, timers and channel length: `TypeCorrect`,
  `NoLostRepaintHolds`, `NoForgottenWorkHolds`, `RunningTimersAreKnownHolds`. The
  invariant says what is under way when a window is not up to date (`Repainting`,
  `Outdated`), that work in a queue has its waking event or a worker already awake
  (`RequestsWake`, `AnimationWakes`), and that a timer no window names is told to stop
  (`TimersOff`).
* `LispProofs` on `HashTable`, for any keys, values and number of buckets, and whatever
  the collector moves: `TypeCorrect`, `CountExactHolds`, `MaphashCompleteHolds` and
  `TableIsDictionary`, the refinement of `Dictionary`. Three facts carry the invariant. No
  bucket has two entries whose keys match (`Unique`); two buckets may, when a key has
  moved. An entry whose key is `Steady` is in the bucket where it will be looked for
  (`Homed`), so its class of keys has at most one entry in the whole table, which is the
  value the dictionary has. What a maphash has left of its bucket is a tail of that
  bucket without the current key and without any key it has seen, and every entry it owes a
  call is in that tail or in a later bucket (`WalkInv`): so removing the current entry, or
  writing to it, disturbs nothing that is still to be visited, and an entry it was called
  with cannot come up again. The count is the cardinality of the set
  of places, bucket by bucket, and each operation adds one place, takes one or keeps them.
* `LispProofs` on `NonLocalExit`, for any nest of primitives up to any depth, any names,
  tags and values, and whatever compiled code does: `ExitTypeCorrect`,
  `ExitInductiveInvariant`, `NoStrayFlagsHolds` and `ExitsUnwind`, the refinement
  of `Unwinding`. The last three speak of a form up to the step in which an exit goes
  astray; ExitIInv holds of the forms after it as well, since `EnterToplevel` starts from
  reset flags. The flags live in three places: the current ones, those a primitive has
  saved, and those of an exit a cleanup has suspended. The invariant says for each frame
  which `return` and which condition would show below it (`Chain`: a loop hides the first, a
  handler the second, a cleanup adds the one it has suspended), and that what a frame has
  saved and what is set now show just these (`Fits`, `Now`). `Reaches` says that an exit
  under way, or suspended, has its target in the nest, inside every cleanup it started in
  and with its value in place; that is why a nested exit cannot disturb the value of a
  suspended one, and why none is under way when a cleanup ends. From these a primitive's
  test of the flags is true exactly when the exit is for it (`Recognised`).

No theorem has a hypothesis beyond the modules' named `ASSUME`s: that distinguished values
(`None`, `Nobody`, `Absent`, `NoTarget`) are none of the ordinary ones, that sizes and
bounds are numbers, positive where the code needs room for one, and that the threads of
a mailbox and the readers of the event mailbox are finitely many.

Only model-checked: liveness and anything with `ENABLED`, which are beyond the prover
(the properties of `MonitorIdiom`, `EveryCallReturns`, `CollectionHappens`,
`TimedCallReturns`, `JoinOfFinishedReturns`, `TerminateWorks`, `MailIsFetched`,
`RequestsServed`, `QuitCompletes`); `FloatUnboxing`, whose pass is recursive.

## 5. Plan

Done: the thread primitives first, since every Lisp program with threads rests on
them, then memory (static area, cards, safepoints), events, exits, and the proofs of
their safety; then hash tables, the GUI loop and the representation pass; then the proofs
about them. What is left, in order:

1. A composition of `Safepoint` with `Monitor`, to state the stall of section 3 in
   terms of the sections themselves.
2. `HotReload`: debounce, pending queue, drain, with the promise that a change is
   reported, which the debounce breaks.
3. Pure algorithms as recursive functions against reference definitions: the limb
   arithmetic of `bignum.rs`, the normal form of `ratio.rs`.
4. Interning with allocation failure under the lock; the root stack across unwinding;
   the legacy semispace heap.

## 6. Not modelled

The reader, lowering and macro expansion: their inputs are texts and trees a model would
have to spell out, and they keep no state between two forms that another part could
disturb. Code generation but for the nodes of `FloatUnboxing`: it is checked by what its
code does. Drawing, text layout, audio and files: bindings to the platform. `selkie`
(the larger half of the repository's lines) is a vendored renderer of diagrams.
