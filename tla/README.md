# JavaFX runtime: TLA+ models, model checking and proofs

This directory holds the formal verification development kept beside the JavaFX
sources. It covers the part of JavaFX that is hard to test: what the FX application thread, the
render thread, the pulse timer, the launcher, the application's own background
threads and the threads of a media pipeline do to each other. All paths below are relative to
`modules/graphics/src/main/java/` unless stated otherwise.

    tlc -workers 2 -config Task.cfg Task          # one run
    tlapm TaskProofs.tla                          # one proof module

`PROJECT.json` lists the components, the runs, the mutants that show that each
property can fail, the source lines behind every definition (`map`), the hazards
and the theorems.

## 1. Inventory

JavaFX is about two dozen modules of Java and native code. Most of it (controls, CSS,
layout, FXML, effects, fonts, WebKit, GStreamer, the packager) is sequential code on
one thread or third-party code. The logic that decides whether a program built
on it works is the *runtime core* in Java, and the *media player*, whose own
part is C and C++ (the buffering elements and the playback pipeline around GStreamer):

| Component | State it keeps | Operations | Hard part | Correct when |
|---|---|---|---|---|
| `javafx.concurrent.Task` | the FutureTask, FX properties, one AtomicReference per update channel | run, cancel, update*, setState | completion, cancellation and coalesced updates race with the FX queue | the FX state follows the Worker life cycle and ends as the future did; updates are neither lost nor doubled |
| `Service`, `ScheduledService` | current task, state, stop flag, delay timer, failure count | start, restart, cancel, reset, succeeded, failed | abandoned tasks and queued timer runnables act on a service that moved on | one uncancelled run at a time; the service mirrors its current task; cancel stops it |
| Glass event loops: `EventLoop`, `Application`, `GtkApplication`, `InvokeLaterDispatcher` | loop stack, loop states, deferred queue, two flags | enter, leave, invokeLater, invokeAndWait, dispatcher loop | loops left out of order, dispatcher thread versus event thread | FIFO start order, nobody starves, loops leave when asked |
| `PlatformImpl`, `LauncherImpl` | pending count, idle flags, exit flags, finish listeners, launcher phase | startup, runLater, runAndWait, setImplicitExit, exit, checkIdle | idleness detection and shutdown from several threads | never ended while in use; ended when asked; stop() called before |
| Quantum pulse: `QuantumToolkit`, `PaintCollector`, `ViewScene`, painters, `Scene` | pulse flags, dirty scenes, completion latch, painting flags, render queue | postPulse, pulse, renderAll, repaint, done, snapshot, live repaint | three threads share flags and a latch without one lock | one pulse at a time, no wait for ever, every change painted |
| `QueuedPixelSource` | pixels being uploaded, pixels waiting, weak references to used ones | getUnusedPixels, enqueuePixels, getLatestPixels, doneWithPixels, skipLatestPixels | buffers are recycled between two threads and the garbage collector | no frame is overwritten, cut off or stranded; three sets suffice |
| Media source and buffers: `javasource.c`, `hlsprogressbuffer.c`, `progressbuffer.c`, `ConnectionHolder` | position, pending events, ring of cached segments or cache file, flags, two tasks | loop, chain, sink and source events, seek, flush, shutdown | two streaming threads and a seeking thread, three locks, two conditions | no chunk lost, doubled or out of place; EOS after the last one; seeks return; the end is reached |
| Media playback pipeline: `GstAudioPlaybackPipeline`, `GstAVPlaybackPipeline` | player state, pending state, stall and rate flags, the callback's data | Play, Pause, Stop, Finish, Seek, SetRate, Dispose, BusCallback | messages arrive later than the changes they report; resume against pause | the state shown is the pipeline's; a pause is not undone; a stall ends; the callback's data is freed once |
| Animation master timer, timelines | receivers, lock counters | add, remove, pause, resume, timePulse | receivers change while being iterated | planned |
| Bindings, observable collections (`modules/base`) | listener arrays, change builders | add/removeListener, fireValueChanged | re-entrant changes during notification | planned |
| Prism resource pool, `JFXPanel`, Java side of the media player, Monocle `RunnableProcessor` | pools, event queues | allocate, dispose, post | limits and hand-over between two event threads | planned |
| Controls, CSS, layout, FXML, effects, fonts, web, packager | documents, pixels | parsing, matching, arithmetic | sequential, data heavy | not modelled |

How they interact: everything that wants the FX thread goes through
`Platform.runLater()` (`PlatformImpl` counts it, `Toolkit.defer()` passes it on, Glass's
dispatcher feeds it to the native loop). `Task` and `Service` are clients of that
queue. The pulse is one more runnable in it; it hands jobs to the render thread,
which answers through a latch, through `runLater()` and through
`QueuedPixelSource`. A media pipeline has threads of its own: the source's task pushes into
the buffer, the buffer's task pushes into the demuxer, the thread of the GStreamer bus
turns their messages into player states, and the calls of the application come from a fourth.

The hazards, each at its line, are the list `hazards` of `PROJECT.json`:
interleavings of two threads and steps that are not atomic, runnables and calls
that arrive out of order or late, flags that are stale when used, waits that may
not end, limits and numeric edges, timers and retries, and painters and connections that fail half way.
Those without a property say why. Hazards the models do not reach and the list leaves
out: the numbers of `updateProgress()` (`Task.java:1117`), the pool of `Service` that reads its
size without a lock (`Service.java:162`), the uploading painter that returns without asking for a
repaint (`UploadingPainter.java:88`; `rendering_live` lets it happen, nothing promises a repaint),
and the dispose lock of the playback pipeline (section 5).

## 2. Modules

| Module | Models | Lines of the code |
|---|---|---|
| `WorkerLifecycle` | abstract: the states a client of a one-shot Worker sees | `Worker.State`, `Task` |
| `Task` | a task, its threads, the FX queue, `setState()` one assignment at a time | `javafx/concurrent/Task.java` |
| `TaskProofs` | theorems about `Task` | |
| `Services` | a `Service` or `ScheduledService` with its tasks and timers | `Service.java`, `ScheduledService.java` |
| `ServicesProofs` | theorems about `Services` | |
| `FifoExecutor` | abstract: runnables start in the order they were posted; that of a thread that waits for it may be put before others | what `runLater()` and `invokeAndWait()` promise |
| `EventLoops` | nested loops and the dispatcher thread | `com/sun/glass/ui/EventLoop.java`, `InvokeLaterDispatcher.java`, `gtk/GtkApplication.java` |
| `EventLoopsProofs` | theorems about `EventLoops`, the refinement of `FifoExecutor` among them | |
| `Platform` | admission to the FX thread, idleness, shutdown, launcher | `PlatformImpl.java`, `LauncherImpl.java` |
| `PlatformProofs` | theorems about `Platform` | |
| `Rendering`, `MCRendering` | pulse, paint collector, render thread, painters; the modes the runs check | `com/sun/javafx/tk/quantum/*`, `javafx/scene/Scene.java` |
| `RenderingProofs` | theorems about `Rendering` | |
| `QueuedPixelSource`, `MCQueuedPixelSource` | pixel buffers between the two threads; its model-checking instance | `com/sun/prism/impl/QueuedPixelSource.java`, `SceneState.java`, `PresentableState.java` |
| `QueuedPixelSourceProofs` | theorems about `QueuedPixelSource` | |
| `JavaSource` | the source element, the connection and the pads before the buffer | `modules/media/src/main/native/gstreamer/plugins/javasource/javasource.c`, `ConnectionHolder.java`, `HLSConnectionHolder.java` |
| `MediaBuffer` | what the two buffers share: reader task, cache file, the demuxer as they see it | `.../plugins/progressbuffer/posix/filecache.c` |
| `HLSProgressBuffer` | the ring of cached segments of HTTP live streaming | `.../plugins/progressbuffer/hlsprogressbuffer.c` |
| `ProgressBuffer` | the cache of a progressive download, push mode | `.../plugins/progressbuffer/progressbuffer.c` |
| `MediaStream`, `MCMediaStream` | composition: source, one of the two buffers, the application's thread; its instance | `GstPipelineFactory.cpp` decides which buffer |
| `MediaStreamProofs` | theorems about `MediaStream` with either buffer | |
| `PlaybackPipeline`, `MCPlaybackPipeline` | the state machine of the player, the bus and its thread; its instance | `modules/media/src/main/native/jfxmedia/platform/gstreamer/GstAudioPlaybackPipeline.cpp`, `GstAVPlaybackPipeline.cpp` |
| `PlaybackPipelineProofs` | a theorem about the end of `PlaybackPipeline` | |

**Task.** `future` is FutureTask's own state (external, modelled from its use), and
`hand[t]` the runnable thread `t` has created but not yet passed to `runLater()`: an
update swaps the AtomicReference in one step and posts in the next, as the code does.
`main` is the `setState()` call the running FX runnable is in, and `nest` the
`setState(CANCELLED)` of a `cancel()` called by application code in the middle
of it. With `ReentrantListeners` property listeners call `cancel()` as well as event
handlers. Left out: the `checkThread()` guards and the `started` flag (the calls
they reject), and the numbers of `updateProgress()`, whose delivery is one channel.
Handlers return normally.

**Services.** All service code runs on the FX thread, so one FX call or runnable is one
action, written as operators from record to record that follow the methods
(`Start`, `Reset`, `Restart`, `Succeeded`, `Failed`). `iterated` is a history
field: the step started a run of a stopped service. What interleaves are pool
threads and the timer. `h` names the event whose handler calls `cancel()` during the
step. Left out: the first `start()` off the FX thread, the pool behind `executeTask()` (it
accepts every task), the arithmetic of delay, period and back-off (`wait`, whether
a delay remains, is a free choice).

**EventLoops.** `levels` is the native stack (each level runs at most one handler),
`state` the `EventLoop.State`s, `pc`/`held`/`deque`/`entered`/`leaving` the
dispatcher. A *relay* is the runnable `enter()` posts to go on leaving the loop below.
`nested` is a history variable: a handler of a loop that was already told to quit has entered
another, after which the assertions of `enter()` and the progress properties are no longer claimed (section 5).
`InFlight` is the queue that `FifoExecutor` sees: what is in the native queue, what the dispatcher has
`Taken` and not yet submitted, and what is in its deque, in this order.
It is the GTK port; the ports that do not use the dispatcher are not modelled.

**Platform.** Client threads post in two steps (count, then admit under the lock), the
FX thread executes native events and runnables and suspends them under nested
loops, and `CheckIdle` is `checkIdle()` with its two-pass confirmation. The launcher
registers a finish listener, or does not (`Listens`), and runs constructor,
`start()` and `stop()`, each of which may throw. The end is modelled call by call, because nothing is locked there:
`exit()` sets its flag (`Exit`), `notifyFinishListeners()` tests `listenersRegistered` (`ExitTest`, on the FX thread
`FxTest`) and later tells the listeners (`ExitTell`, `FxTell`) or calls `tkExit()` (`ExitEnd`, `FxTkExit`);
`addListener()` sets the flag (`LaunchRegister`) and then adds the listener (`LaunchAdd`), `removeListener()` is
`LaunchRemove` and `LaunchUnset`. `pc` and `fx` say how far a notification is on a client and on the FX thread. Two
history variables name the windows this leaves: `overtaken` (the registration came between a test that found the flag unset
and the `tkExit()` that follows from it) and `lost` (an `exit()` iterated over the listeners between flag and
listener, and no later one has found it). Left out: preloaders, Java Web Start,
class and argument handling, interrupted waits, conditional features, `exit()` before the toolkit is initialized.

**Rendering.** The contents of a scene are reduced to where its last change is:
in the scene graph (`nodesDirty`), in the render graph (`unpainted`) or painted. The
critical sections of the FX thread under the render lock are single steps, and the
painter's is split because the rest of the system sees it. The timer reads its three
flags and takes `pulseRunning` in separate steps. `dirtyScenes` is a set, ordered
only by the sort of `renderAll()`. A *mode* says which scenes present synchronously, whether painting
is multithreaded, whether animations run, the window system exposes scenes, the application waits for
frames (live repaints, snapshots), painters lose frames or fail, and how often. Left out: the branch without a window manager, embedded
scenes, minimized windows, `toolkitRunning = false`, debug paths.

**QueuedPixelSource.** `Pixels` is a buffer and a shape. The methods are synchronized,
one step each, except that the search of `getUnusedPixels()` takes a step per
reference because the garbage collector clears weak references meanwhile. The
consumer is `SceneState`'s upload runnable; that of `EmbeddedState` is not modelled.

**JavaSource, MediaBuffer, HLSProgressBuffer, ProgressBuffer, MediaStream.** Data is counted in
chunks that carry their place in the medium. `sAt` is where the source's task is in
`java_source_loop()`; a push into the buffer runs the buffer's handler on the same thread, so the
buffer's module carries it out. `bAt` is the reader's place in its loop, with "asleep" and "woken" for the
wait on `add_cond`; the writer's wait on `del_cond` is a value of `sAt`. `app` is the thread of the application
inside `perform_seek()` or the shutdown: it flushes, waits for the two stream locks (a task
holds its pad's lock while it is started and runs), resets and starts the tasks again. A section
under an element's lock is one step; what the code does between two sections, and the
unlocked restart of the reader, are steps of their own (`PBAsk`: a seek decides under the lock that it goes on to the
source, and looks at `instant_seek` again after the unlock). Downstream is external: it
accepts, or, as one of the failures, has had enough. `mishaps` is a history of the races section 5 describes; each property names the
ones it depends on, and no action reads it. Left out: pull mode and queries, live playlists and bit rates,
thresholds of the progress messages.

**PlaybackPipeline.** `gst` is the pipeline inside GStreamer: current, next, pending and target
state, whether its sinks have data and whether they have had EOS, translated from
`gstelement.c`, `gstbin.c` and `gstbasesink.c` as far as the player observes it. `bus` is the message queue, `at`
the place of the bus thread in `BusCallback()` and the methods it calls, `call` the place of the
application's thread. A section under `m_StateLock` is one step. `budget` bounds calls, stalls, arrivals of
data and failures, and `crossing` counts the calls made while something is under way. The history `asked` is what the application
asked for last, or that a call was crossed: it was made while something was under way, or a report came between `Stop()`'s check
and its lock. Left out: failing `set_state` and seek calls, positions, tracks, volume, queue sizes.

## 3. Runs

| Run | Instance | Shows |
|---|---|---|
| `task` | 2 background threads, 2 channels, 1 value | update references are tickets for one delivery (`CoalescedUpdates`), each event fires once, state and future agree at rest, updates are delivered and conclusions observed; `Task` implements `WorkerLifecycle` |
| `services` | all four kinds of service, 3 task identities, handlers of 4 events cancel, 2 failures | one uncancelled run at a time, the service mirrors its current task, `cancel()` stops a service that does not restart on failure, a scheduled run is started or called off |
| `services_failed` (violation) | a ScheduledService with restartOnFailure | `failed()` ignores the stop flag |
| `event_loops` | 2 loops, 2 runnables, 1 invokeAndWait, 2 relays, loops entered while others leave | loop objects agree with the native stack and the assertions of `enter()` hold; the dispatcher implements `FifoExecutor`; everything posted runs and loops asked to leave are left |
| `platform` | launched and embedded, 1 client, 1 window, 1 nested loop, 1 queued runnable | the pending count is exact, idle means idle, `stop()` before the end unless the registration overtook the notification that ends the toolkit |
| `platform_live` | the same, clients only exit, no overtaking registration (`CONSTRAINT NotOvertaken`) | `exit()` ends the runtime and the launcher returns, unless `addListener()` loses it; implicit exit happens |
| `queued_pixel_source` | 4 symmetric buffers, 3 shapes of 2 sizes, 4 frames | buffers stay apart, have room, three references suffice, no frame stranded or overwritten |
| `rendering` | 2 scenes, one presenting and one uploading, animations, live repaints, snapshots | one pulse at a time, the latch reaches zero, changes are synchronized and scheduled |
| `rendering_live` | 1 scene: presenting, multithreaded, exposed; or uploading, single-threaded, with painters that fail or are not ready | every pulse ends; changes reach the screen when no frame is lost |
| `rendering_retry` (violation) | 2 scenes, painters that fail once | a repaint asked for by a failing painter can be lost |
| `media_stream` | 4 media: HLS of 3 files (1 seek, 1 failure) and of 2 files, one with two chunks (2 seeks), downloads of 3 chunks (2 seeks; 1 seek and 1 failure); shutdown at any time; spurious wake-ups; ring of 2 slots | chunks are conserved and in order, slots are valid when written, EOS is the end, seeks return, and playing reaches the end |
| `playback_pipeline` | 5 media: a file (3 calls), HLS (2 calls), HLS with a full buffer (1), calls that cross what is under way (2), errors with `Dispose()` (2); a stall and an arrival of data in each that may stall | the state shown is the pipeline's, a pause is obeyed, a stall ends, the callback's data is freed exactly once |

**Bounds and why they are enough.** Two threads on one reference are what the coalescing
protocol can confuse; further ones repeat the roles (and `TaskProofs` covers any
number). Three task identities allow a current task, an abandoned one and the next; an
identity is reused once nothing refers to it, so runs of a service are unbounded.
Two loops allow every out-of-order exit; a third adds depth only. One client beside the
launcher and the FX thread gives every pair of racing exits; one runnable queued by it is enough for a refusal,
because the launcher and the idle checks post as well. In `platform_live`
clients post nothing (`MaxQueue = 0`), which keeps the liveness graph small, and so does its constraint: `overtaken`
never changes back and is an alternative of `ExitTerminates`, so no behaviour that could violate it is cut off;
for `ImplicitExitHappens` it is a premise. Four buffers are one more than the source
may need, so needing a fourth would show. Two scenes are what a latch that counts
scenes needs, one of each kind for the sort. `MaxPosted` bounds the repaints that
painters have asked for, `MaxNested` and `MaxWindows` those of the FX thread, and
`MaxFrames` the frames painted. The runs of
`Platform` switch the deadlock check off because the program ends.
In `rendering` the windowing system exposes nothing and no painter fails: with either
of them the second part of `OnePulse` or `ChangesScheduled` does not hold, see section 5.
`media_stream` has a ring of `NumCached = 2` where the code has 3 (`NUM_OF_CACHED_SEGMENTS`): three
files already fill it and wrap. Seeks go to every file or chunk and, in HLS, to the end; one failure is
injected, in opening a file, in a read, as a refused seek or as a demuxer that has had enough (a failed read ends
the source's task), and one seek can be cut by the next where there are two. Where a theorem of section 4 covers a
property, these bounds matter for the mutants and the liveness only. In `playback_pipeline` calls are made at rest, except where `crossing`
allows them at any moment; what the pipeline and its elements report in the meantime comes at any moment always. Both media runs switch the deadlock check off: a
stream ends and a player comes to rest.

**Fairness.** Only what the code's threads do by themselves is fair: a thread that has
begun a call goes on, the executors and the FX thread take what is queued, the timer
fires, handlers and `call()` return. Nobody has to call, cancel, exit, start an animation or leave a loop.
FX-thread queues need strong fairness where other native events
can intervene (`StartRunnable`, `Relay`, `RunPulse`, `RunAnyPosted`, `FxLoop`): the native
queue serves them in turn. `LeavingSpec` of `Platform` adds that nested loops are left and
handlers return at the outermost level in the end, without which `exit()` can indeed be held up
(section 5). `EverythingRuns` has the premise that loops are not left over and over.
In `media_stream` the source's task, the reader's task and the application's thread inside a call are
each weakly fair, as threads are that GStreamer's task pool runs; in `playback_pipeline` the bus thread, the
application's thread inside a call, and the pipeline with what it has begun (`Preroll`, `Continue`). Of the
download it is assumed that it ends (`Complete`), except while the ring is full (`RingBlocked`): then the writer waits
for the reader, and only the full ring, not the end of the data, can end a stall. The reports of data on the way need not come,
and nobody has to seek, pause or close.
In `Platform` a thread that is in `exit()` goes on (`Exiting`), and so does the FX thread in a notification (`FxNotify`).

**Mutants.** Each property of each passing run has a mutant of a mapped definition in
`PROJECT.json` (a dropped guard, a missing reset, a swapped order) that violates it.

## 4. Theorems

Proved with TLAPS for all values of the constants.

*TaskProofs.* `TypeCorrect` is inductive by itself. `UpdatesCoalesce` assumes
`NULL \notin Values` (see section 5 for null updates); its invariant is one `Ticket` per
channel plus `ExecutorFree` (outside `FutureTask.run()` the executor has
nothing in hand), without which a delivery could be overwritten in its hand.
`ImplementsLifecycle` shows that every step of `Task`, re-entrant listeners included,
is a step of `WorkerLifecycle` or a stutter. What may be assigned depends on what is
still on its way, so `LifeInv` follows the state runnables from the executor's hand
through the queue to the frame on the FX thread: nothing is out before `run()`
(`LifeStart`), they come once and in order (`LifeOrder`), the frame finds the state
it expects (`LifeFrame`), and between start and conclusion the state is RUNNING or
CANCELLED (`LifeBetween`). `ConclusionsAgree` adds `AgreeInv`: each outcome of the
future leaves a trace (a runnable in a hand, in the queue or in a frame, or the
assigned state), and an uncancelled future leaves no trace of a cancellation.

*QueuedPixelSourceProofs.* `TypeCorrect` and `BuffersStayApart` are inductive; the
search hands out only what is in use nowhere. `AtMostThreeSets` needs `ListInv`: references
do not share buffers (`Distinct`), pixels in use are the referred object and so are
not collected under the list (`OneObject`), and what the search has passed is in
use (`PassedInUse`). At most two buffers are in use, so a search passes at most two
entries before it reuses or drops one. `FramesAreWhole`
(an action property), `NoFrameStranded` and `RoomForEveryFrame` (with `RoomSaved`) follow.
`MaxFrames` is arbitrary, so the bound on frames plays no role in them.

*ServicesProofs.* `RunsExclude`, `ServiceMirrorsTask` and `CancelStopsIteration`: for any number of task identities, any
maximum of failures and any set of cancelling events. The methods are operators on records, so there is one lemma
per method, from the innermost (`SetState`) outwards. The central part of the invariant is `Owns`: a task that may
still come to `call()` is the current one; a service that lets a task go has cancelled it or seen it end (`Ends`).
Inside a method a service can be READY with a task, so `Rests` holds between steps only. `Posted` is about the runnables on
their way: a timer's belongs to a task that was not submitted, and there is one of it, which is why no task is submitted twice.

*EventLoopsProofs.* `LoopsMatchStack`: loops and native levels correspond, for any number of loops. It needs that only
the level on top is ever told to quit (`OnlyTopQuits`) until `nested` holds. `DispatcherIsFifo` is the refinement: every step of
the dispatcher is a step of `FifoExecutor` on `InFlight`. The steps that take a runnable, put it back because a loop is being left
(`addFirst`) or submit it are stutters, which the lemmas about concatenation of the three parts show; only
`invokeAndWait()`, which goes around the deque, inserts (`Bypass`). What is inserted and what starts is all that
`FifoExecutor` lets happen, so nothing is lost, doubled or swapped. `DisjointAssumption` keeps apart the runnables of the two kinds.

*PlatformProofs.* `PendingCount` is inductive with the types: each place a counted runnable can be at (about to be admitted, queued, running, suspended) is a
summand, and every step moves it from one to the next. `IdleNotification` follows from it. `StopPrecedesExit` needs the launcher's history (`Launching`): there is at
most one runnable of the launcher's (`OwnOnce`), the launcher waits for it and the toolkit cannot end meanwhile
(`OwnAwaited`), when the wait is over the call was made (`OwnDone`), nobody but `tkExit()` queues `Toolkit.exit()`
(`ExitItems`), and as long as the finish listener is registered the toolkit stays (`StartAndStop`), because whoever goes on
to `tkExit()` has found no listener and none has come since (`Committed`). Only an overtaking registration breaks `Committed`
(`CommittedStep`); the invariant is therefore `overtaken`, which is stable (`OvertakenStep`), or all of this,
and the theorem says of the code what it can keep: `stop()` precedes the end unless the registration overtook.

*RenderingProofs.* `PulsesExclude`, `LatchCountsJobs`, `ChangesReachRenderGraph` and `ChangesReachPainter`, for any number of scenes
and all modes. `Control` says where the two threads are and who has the lock, `JobsOfPainting` that a
painting flag has its job. `LatchBound` counts the jobs there are and those `renderAll()` has still to submit;
`LatchExact` is the other direction and holds where repaints come from pulses only: while a job is not counted, a dirty scene is one
that was never synchronized, so the pulse that will render it waits first. `SyncPending` and `PaintPending` follow a change
from the node to the painter. `ChangesReachPainter` assumes what `rendering_retry` shows to be necessary, painters that neither fail nor lose frames.

*MediaStreamProofs.* For any set of media, ring, number of seeks and of failures. `WritesHitClaimedSlots`: `chain()` writes through
an index that the handler of a SEGMENT left behind. `SlotHeld` says from when to when that index is good: from the
claim to the end of the file, unless the ring was flushed or the pads refuse; a slot the reader has freed meanwhile was read whole. `SoughtWaits` and
`SendsPending` show that after a flush the source sends a SEGMENT, hence claims anew, before any chunk. `CacheHoldsMedium` (the downloads' half of `Conserved`):
the cache file of a download has no positions of its own; `CacheMeetsConn` says that it ends where the connection goes on, `SegmentAtConn`
that a SEGMENT, which empties it, has the connection's position, `StopIsEnd` that data is not cut off before the end.

`ChunksConserved` (`Conserved`), `DeliveredInOrder` (`InOrder`) and `EndsLast` (`EosIsEnd`) rest on a second invariant, `StreamInv`, that adds
what the demuxer has and is still to get. For a download it is `DeliveryInv`: the SEGMENT that waits in the buffer or is in the
reader's hand is for what will be read next (`SegmentIsNext`); without one, the cache goes on where the demuxer stands
(`CacheIsNext`, `InHandIsNext`, `GivenPlaced`); the SEGMENT of a seek is for its target (`SoughtIsTarget`); the cache grows to the end of
the medium, the segment ends there, and an EOS that waits has nothing left in front of it (`EndInv`). These are conditional on what `mishaps` and
`failures` keep, because each of the races of section 5 breaks one of them. `FlushKnown` and `ReaderRests` say when reader and seek exclude
each other, without which a chunk taken before a flush could be pushed after it. For HLS it is `RingDeliveryInv`, and its centre is `RingGoes`: the ring is a
queue of `n` files that starts at the read slot (`RingHolds`), all but the last complete; the source writes the last of them or has
opened the one after it (`SourceGoesOn`); the demuxer has exactly what comes before the reader's next chunk (`ReaderGoesOn`).
One exception is kept, `Stuck`: a slot claimed while the ring was being flushed leaves the reader at a slot that nobody fills, a mishap after which nothing
is delivered, so nothing wrong is. During a seek `RingFlushed`, `PhasesKnown` and `StopsKnown` take the place of `RingGoes`, and
`SegmentSent` brings it back: the first SEGMENT after the flush finds an empty ring. `Conserved` then asks in which place a chunk is:
before the reader's next chunk it is downstream, otherwise in the reader's hand, in a slot or with the source (`ReadIsPlaced`),
and in no two of them (`PlacedOnce`). The model states the places and the order by sets and quantifiers over positions, and no
step of the proof is by induction over data; the number of slots is arbitrary throughout.

*PlaybackPipelineProofs.* `CallbackDataFreedSafely` (half of `FreedOnce`): `Dispose()` and the destroy notification of the bus
source decide who is last to use the callback's data. The invariant has one part per place `Dispose()` can be at: nothing is handed over before
the source is destroyed (`NotYet`), with the lock held the data is `Dispose()`'s exactly if no callback is under way
(`Handover`), and then one of the two frees it (`LastUser`).

*TaskProofs*, further: `EventsFiredOnce` (`EventsOnce`) assumes `~ReentrantListeners`, see section 5. `EventsInv` follows an event from the
assignment to the handlers: what is about to fire is the current state and was not fired before, only handlers nest a `cancel()`,
and a state whose event was fired is never entered again; the life cycle (`LifeInv`) gives the last.

Assumptions are the named `ASSUME`s of the modules (the executor is one of the
threads, channel names differ from the state runnables, a result differs from null,
areas are naturals, null is not a `Pixels` or a scene, the launcher is no client, task identities are finitely many,
the kinds of runnables are disjoint, a medium has files of at least one chunk, a ring has a slot,
no buffer is not a chunk and no event is not an event), and the hypotheses named above.

Only model-checked:

* All liveness, the liveness part of `FreedOnce` included; it is out of the prover's reach.
* `Settled` and `Obeyed` of `PlaybackPipeline`: which messages may still be on the bus for every state of the pipeline and
  every place of two threads. The invariant is not found yet.

## 5. Where code and comments disagree

Kept as runs:

* `services_failed`: `ScheduledService.cancel()` promises that no additional
  iterations occur; `failed()` tests only the failure count, so a service that
  restarts on failure iterates on after `cancel()`.
* `rendering_retry`: `addDirtyScene` is to make sure that the scene is processed by the
  next `renderAll()`; a failing painter asks for the repaint before its finally block clears the
  painting flag, and `renderAll()` in between drops the scene without a job.

Seen while modelling, by TLC traces of these modules, not kept as runs:

* `cancel()` between the posted SUCCEEDED or FAILED and `FutureTask.set()` turns a
  concluded task CANCELLED (`Worker.java:65-69` speaks of cancelling prior to the
  conclusion). `WorkerLifecycle` allows it for that reason.
* The exception stays set on a task that ends CANCELLED (`Task.java:1443-1450` infers FAILED).
* A property listener that calls `cancel()` inside `setState()`: the outer call then sets
  `running` from its own argument (`Worker.java:74-75`), and fires the event of the
  state that is current by then, so CANCELLED is announced twice. `EventsOnce` is checked
  with `ReentrantListeners = FALSE` therefore.
* `updateValue(null)` is not coalesced (`Task.java:643-644`), null being the empty reference.
* `updateProgress(0, 0)` makes progress NaN, and `totalWork` is set before `workDone`
  (`Worker.java:81-87`); read off the code, the arithmetic is not modelled.
* `restart()` of a ScheduledService during a delay leaves `delayTask` set and fails the
  assertion at `ScheduledService.java:357`; a timer runnable that is queued when
  the service is cancelled and reset clears `freshStart`, so that the next start skips the
  delay; a READY handler that calls `cancel()` from within `succeeded()` makes the
  service step from CANCELLED to SCHEDULED (READY is therefore not among the cancelling events of `services`).
* A handler that leaves its loop and then enters another breaks the assertion at
  `EventLoop.java:108` and keeps the dispatcher asleep as long as the inner loop
  runs (the history variable `nested` excludes what follows); the dispatcher's check-then-submit lets one runnable run in a loop
  that is being left (`InvokeLaterDispatcher.java:34-37`).
* An event handler under a nested loop is taken for idle (`PlatformImpl.java:409-412`):
  pending runnables are counted, events are not, so `IdleIsIdle` speaks of runnables only. A `runAndWait()` queued when the toolkit
  ends waits for ever (`PlatformImpl.java:332-337`). `exit()` waits for a
  runnable suspended under a nested loop nobody leaves (`Platform.java:102-106`).
* `Platform.exit()` "Causes the JavaFX application to terminate" and "may be called from any thread"
  (`Platform.java:103-111`). `notifyFinishListeners()` tests `listenersRegistered` (`PlatformImpl.java:368`) apart from what
  follows from it (lines 370-371, `tkExit()` at 441), and `addListener()` sets the flag (354) before it adds the
  listener (355), with no lock in between. An `exit()` that iterates between 354 and 355 tells nobody and is lost. One that has found the flag
  unset ends the toolkit while the launcher registers: a launcher that waits for its constructor's or `start()`'s runnable
  then waits for ever, or the toolkit ends after `start()` without `stop()`, even if another `exit()` was called after
  `start()`, for which line 104 promises `stop()`. The history variables `lost` and `overtaken` are these two cases, and
  `ExitTerminates` and `StopBeforeExit` say that there is no third; without `lost`, `overtaken` and the constraint of
  `platform_live`, TLC finds them.
* Saved `Pixels` may have different shapes, and there is no `validate()`
  (`QueuedPixelSource.java:41-43`).
* `renderAll()` replaces the latch without waiting when nothing was synchronized, and
  an earlier `done()` counts the new one down (`PaintCollector.java:97-105`); a repaint
  asked for while a painter presents is dropped (`PaintCollector.java:182-184`).

Media stream (paths in `modules/media/src/main/native/gstreamer/plugins/`; each is a value of
`mishaps` or of `conn.lost`, and every trace was found by TLC):

* Lost wake-up: `hlsprogressbuffer.c:513-516` posts FULL without the lock and then waits on `del_cond`
  without looking again whether a flush began; the seek waits for ever for the writer's stream lock.
* Restart in a flush: `hlsprogressbuffer.c:470-476` starts the reader without the lock, after the flush has stopped it.
* Stale claim: a slot is claimed (`hlsprogressbuffer.c:509-526`) after a flush has reset the ring.
* End again: after an end, a seek to the very end (`HLSConnectionHolder.java:838-842`) brings a second EOS, for which
  `hlsprogressbuffer.c:554` does not start the reader. A seek to the end in the middle of a download goes on with the next file.
* Flush overwritten: `progressbuffer.c:909` stores the result of the push over the FLUSHING a seek has stored; the reader runs on.
* Event dropped: EOS clears the pending SEGMENT (`progressbuffer.c:593`); a SEGMENT is refused when EOS came
  between the reset of `eos_status` and the flush (`progressbuffer.c:954`), after which a further seek can append data of
  another position to the cache that was left; a late SEGMENT overtakes a seek (`progressbuffer.c:599-648`), one within the cache or one that
  has unlocked to go on to the source (`progressbuffer.c:743-748`). The last two were found while looking for the invariant of
  `CacheHoldsMedium`, with more chunks and seeks than a run has.
* Refused source seek (`ConnectionHolder.java:283`: "Else fail seek and let progressbuffer to download all data."): the chunk the
  pads refused meanwhile is missing from the cache, and a seek backwards leaves the read position (`progressbuffer.c:754`).
* Cut short: `unexpected` (`progressbuffer.c:917`) is not reset by a seek back.
* A read error pauses the source without EOS or error (`javasource.c:696`).

Playback pipeline (`GstAudioPlaybackPipeline.cpp`):

* `SetRate()` never resumes from a rate of zero: `m_fRate` is assigned at line 768 and compared with zero at line 787
  ("Resume play if resetting from zero rate and flag is set.", line 789). A pause at rate zero of a pipeline that plays does nothing.
* `Pause()` in Ready leaves the pending state Paused, so that the next stall becomes a pause; a stall, a seek and EOS end in Paused.
* Calls that cross: `Pause()` of a stalled player is lost against a resume under way; the bus thread's `Play()` is decided before a
  `Pause()` and carried out after it; `Finish()` during a seek leaves the player Playing over a paused pipeline, and is
  undone by the resume at the EOS of HLS. `Settled` and `Obeyed` are claimed only for calls made at rest.
* A report that crosses `Stop()`: lines 467-470 look at the state and the rate without the lock, line 477 sets the pending state
  under it. A stall handled in between leaves the pending state Stopped behind, which the `Pause()` and `Play()` that follow do not
  clear (lines 524-528), and the player says Stopped while the pipeline plays; in HLS a resume handled there sets the pipeline
  playing over the stop. The run's calls and reports are too few to show it; the traces came up in looking for the
  invariant of `Settled`, which excludes such a report since then. A report anywhere else in a call leaves `Settled` true, as far as TLC sees.
* A call past its check of the state when an error arrives sets the torn-down pipeline playing again (line 453).
* `OnParserSrcPadAdded()` and `no_more_pads()` take the dispose lock on a streaming thread, and the error path calls
  `set_state(NULL)` under it (line 1200), which waits for that thread. Read off the code: the pad callbacks are not modelled.

## 6. Not modelled

`PROJECT.json` gives the reason for each component. The largest part by far of the repository's native code is
vendored: WebKit with sqlite and libxml, glib, GStreamer and its plugins, ICU, libjpeg; it is modelled only
where JavaFX's own code uses it (marked external). So is what Glass and Prism draw with. What JavaFX decides for itself is
in Java and in a few native files of the media module, and the mapped definitions are taken from there.
Data-heavy sequential code (layout, CSS, effects, fonts, controls, FXML, the packager) has no protocol
to check, and its arithmetic is out of a model checker's reach.

## 7. Plan

Modelled first: the FX queue's clients and its implementation, the shutdown, the
paint pipeline and the pixel hand-over, because every application depends on them; then the media stream and
player, where most threads meet. Next, in this order:

1. Proofs: `Settled` and `Obeyed` of `PlaybackPipeline` for calls made at rest.
2. `MasterTimer`: `AbstractMasterTimer` and `Animation` (receivers added and removed
   during a pulse, pause and resume), composed with the animations of `Rendering`.
3. `Service.start()` off the FX thread and the pool of `Service`; preloader and launcher.
4. `RunnableProcessor` (Monocle) as a second refinement of `FifoExecutor`; the start-up
   and shutdown handshake of `QuantumRenderer`.
5. The event queue of `NativeMediaPlayer`, composed with `PlaybackPipeline`; pull mode of `progressbuffer.c`; `JFXPanel`, the Prism resource pool.
6. `ExpressionHelper` and `ListChangeBuilder` of `modules/base`: re-entrant listeners;
   the change reported against a reference difference over short lists.
