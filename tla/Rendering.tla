------------------------------ MODULE Rendering ------------------------------
(***************************************************************************)
(* The pulse and the render pipeline of the Quantum toolkit: the timer     *)
(* posts pulses (QuantumToolkit.postPulse), the JavaFX thread runs them    *)
(* (pulse, Scene.ScenePulseListener.pulse, PaintCollector.renderAll), and  *)
(* the render thread paints one job after the other (RenderJob,            *)
(* PresentingPainter, UploadingPainter, PaintCollector.done).              *)
(*                                                                         *)
(* A scene here is the peer of a Scene in a window, a ViewScene: made when *)
(* the window is shown, disposed of when it is hidden.  Its contents are   *)
(* reduced to what has become of the last change: in the scene graph only  *)
(* (nodesDirty), copied to the render graph (unpainted), or painted.       *)
(* The JavaFX thread's critical sections under the render lock are single  *)
(* steps, so only the painter is ever seen to hold it.                     *)
(***************************************************************************)
EXTENDS Integers, Sequences, FiniteSets

CONSTANTS Scenes, NoScene,
          Modes           \* the configurations that a behaviour may have

(***************************************************************************)
(* What is fixed when the runtime starts, and what the environment may do: *)
(*   synchronous   scenes that present (the others upload their pixels)    *)
(*   multithreaded quantum.multithreaded                                   *)
(*   animates      animations start and stop                               *)
(*   exposes       the windowing system asks for repaints                  *)
(*   waits         live repaints and snapshots happen                      *)
(*   framesLost    the device is not always ready, painters may throw      *)
(*   maxPosted     bound: repaints of a scene the painter has asked for    *)
(***************************************************************************)
ASSUME ModesAssumption ==
    Modes \subseteq [synchronous : SUBSET Scenes, multithreaded : BOOLEAN, animates : BOOLEAN,
                     exposes : BOOLEAN, waits : BOOLEAN, framesLost : BOOLEAN, maxPosted : 0..1]

ASSUME NoSceneAssumption == NoScene \notin Scenes

VARIABLES
    mode,            \* the configuration of this behaviour
    \* the JavaFX thread
    fx,              \* where it is
    op,              \* what it runs: a pulse, a live repaint or a snapshot
    todo,            \* scenes it has still to visit
    cur,             \* the scene it synchronizes
    target,          \* the scene of the live repaint or the snapshot
    pulses,          \* pulse runnables in its queue
    posted,          \* repaint requests of the painters in its queue
    \* the scenes
    status,          \* new, live or disposed
    nodesDirty,      \* its scene graph changed
    unpainted,       \* its render graph changed
    entireSceneDirty,
    freshBackBuffer, \* nothing was painted into the buffer yet
    painting,        \* a paint job of the scene is under way
    \* the pulse
    pulseRunning, nextPulseRequested,
    animation,       \* "set", "ending" (flag still up) or "none"
    timer,           \* the timer saw a reason for a pulse
    \* the paint collector
    dirtyScenes, hasDirty, needsHint,
    latch,           \* count of allWorkCompletedLatch
    \* the render thread
    queue, rt, job,
    full,            \* the painter renders everything
    lock             \* the render lock

fxVars == <<fx, op, todo, cur, target>>
sceneVars == <<status, nodesDirty, unpainted, entireSceneDirty, freshBackBuffer>>
pulseVars == <<pulses, pulseRunning, nextPulseRequested, animation, timer>>
collectorVars == <<dirtyScenes, hasDirty, needsHint, latch>>
renderVars == <<queue, rt, job, full, lock>>

vars == <<fxVars, posted, sceneVars, painting, pulseVars, collectorVars, renderVars>>

NoJob == [scene |-> NoScene, kind |-> "paint"]

Init ==
    /\ mode \in Modes
    /\ fx = "idle" /\ op = "pulse" /\ todo = {}
    /\ cur = NoScene /\ target = NoScene
    /\ pulses = 0
    /\ posted = [s \in Scenes |-> 0]
    /\ status = [s \in Scenes |-> "new"]
    /\ nodesDirty = [s \in Scenes |-> TRUE]
    /\ unpainted = [s \in Scenes |-> FALSE]
    /\ entireSceneDirty = [s \in Scenes |-> TRUE]
    /\ freshBackBuffer = [s \in Scenes |-> TRUE]
    /\ painting = [s \in Scenes |-> FALSE]
    /\ pulseRunning = FALSE /\ nextPulseRequested = FALSE
    /\ animation = "none" /\ timer = FALSE
    /\ dirtyScenes = {} /\ hasDirty = FALSE /\ needsHint = FALSE /\ latch = 0
    /\ queue = <<>> /\ rt = "idle" /\ job = NoJob /\ full = FALSE /\ lock = "free"

Live == {s \in Scenes : status[s] = "live"}

-----------------------------------------------------------------------------
(* The dirty scenes.                                                       *)

AddDirtyScene(s) ==
    /\ dirtyScenes' = dirtyScenes \union {s}
    /\ hasDirty' = (hasDirty \/ s \notin dirtyScenes)

RemoveDirtyScene(s) ==
    /\ dirtyScenes' = dirtyScenes \ {s}
    /\ hasDirty' = (dirtyScenes \ {s} # {})

SceneChangedNever(s) == UNCHANGED <<dirtyScenes, hasDirty>>

\* GlassScene.sceneChanged: only a scene on a stage is repainted.
SceneChanged(s) ==
    IF s \in Live THEN AddDirtyScene(s) ELSE RemoveDirtyScene(s)

-----------------------------------------------------------------------------
(* Events on the JavaFX thread, outside of a pulse.                        *)

\* The window is shown: the scene gets its peer and is marked dirty.
Show(s) ==
    /\ fx = "idle"
    /\ status[s] = "new"
    /\ status' = [status EXCEPT ![s] = "live"]
    /\ AddDirtyScene(s)
    /\ UNCHANGED <<fxVars, posted, nodesDirty, unpainted, entireSceneDirty, freshBackBuffer, painting, pulseVars, needsHint, latch, renderVars>>

\* The window is hidden: the scene leaves the stage, and dispose waits for the
\* render lock.
Dispose(s) ==
    /\ fx = "idle"
    /\ s \in Live
    /\ lock = "free"
    /\ status' = [status EXCEPT ![s] = "disposed"]
    /\ RemoveDirtyScene(s)
    /\ UNCHANGED <<fxVars, posted, nodesDirty, unpainted, entireSceneDirty, freshBackBuffer, painting, pulseVars, needsHint, latch, renderVars>>

RequestNextPulseNever == UNCHANGED nextPulseRequested

RequestNextPulse == nextPulseRequested' = TRUE

\* A node changes, in an event handler or in a listener of a pulse; the first
\* one since the scene was last synchronized asks for a pulse.
ChangeNode(s) ==
    /\ fx \in {"idle", "fire"}
    /\ s \in Live
    /\ ~nodesDirty[s]
    /\ nodesDirty' = [nodesDirty EXCEPT ![s] = TRUE]
    /\ RequestNextPulse
    /\ UNCHANGED <<fxVars, posted, status, unpainted, entireSceneDirty, freshBackBuffer,
                   painting, pulses, pulseRunning, animation, timer, collectorVars, renderVars>>

EntireSceneNeedsRepaint(s) ==
    /\ entireSceneDirty' = [entireSceneDirty EXCEPT ![s] = TRUE]
    /\ SceneChanged(s)

\* The windowing system exposes the window or resizes it.
Expose(s) ==
    /\ mode.exposes
    /\ fx = "idle"
    /\ s \in Live
    /\ EntireSceneNeedsRepaint(s)
    /\ UNCHANGED <<fxVars, posted, status, nodesDirty, unpainted, freshBackBuffer, painting,
                   pulseVars, needsHint, latch, renderVars>>

\* The repaint the painter asked for with runLater.
RunPosted(s) ==
    /\ fx = "idle"
    /\ posted[s] > 0
    /\ posted' = [posted EXCEPT ![s] = @ - 1]
    /\ EntireSceneNeedsRepaint(s)
    /\ UNCHANGED <<fxVars, status, nodesDirty, unpainted, freshBackBuffer, painting, pulseVars,
                   needsHint, latch, renderVars>>

\* setAnimationRunnable, on the JavaFX thread; the animations of a pulse call it too.
SetAnimationRunnable(set) ==
    /\ mode.animates
    /\ fx \in {"idle", "fire"}
    /\ animation' = IF set THEN "set"
                    ELSE IF animation = "none" THEN "none" ELSE "ending"
    /\ UNCHANGED <<fxVars, posted, sceneVars, painting, pulses, pulseRunning, nextPulseRequested,
                   timer, collectorVars, renderVars>>

-----------------------------------------------------------------------------
(* Posting a pulse: the timer thread, and the render thread for a vsync    *)
(* hint.  The flags are read before pulseRunning is tested and set.        *)

ReasonToPulse == animation # "none" \/ nextPulseRequested \/ hasDirty

MayPostPulse == ~pulseRunning

\* Whoever finds pulseRunning set posts nothing.
PostPulse ==
    /\ pulses' = IF MayPostPulse THEN pulses + 1 ELSE pulses
    /\ pulseRunning' = TRUE

TimerReads ==
    /\ ~timer
    /\ timer' = ReasonToPulse
    /\ UNCHANGED <<fxVars, posted, sceneVars, painting, pulses, pulseRunning, nextPulseRequested,
                   animation, collectorVars, renderVars>>

TimerPosts ==
    /\ timer
    /\ timer' = FALSE
    /\ PostPulse
    /\ UNCHANGED <<fxVars, posted, sceneVars, painting, nextPulseRequested, animation,
                   collectorVars, renderVars>>

-----------------------------------------------------------------------------
(* pulse(collect), from the queue or from a live repaint.                  *)

BeginPulse ==
    /\ fx' = "fire"
    /\ todo' = Live
    /\ nextPulseRequested' = FALSE
    /\ animation' = IF animation = "set" THEN "set" ELSE "none"

RunPulseReleases ==
    /\ fx = "idle"
    /\ pulses > 0
    /\ pulses' = pulses - 1
    /\ pulseRunning' = FALSE
    /\ op' = "pulse"
    /\ BeginPulse
    /\ UNCHANGED <<cur, target, posted, sceneVars, painting, timer, collectorVars, renderVars>>

RunPulse ==
    /\ fx = "idle"
    /\ pulses > 0
    /\ pulses' = pulses - 1
    /\ op' = "pulse"
    /\ BeginPulse
    /\ UNCHANGED <<cur, target, posted, sceneVars, painting, pulseRunning, timer, collectorVars,
                   renderVars>>

\* liveRepaintRenderJob: a pulse that renders nothing, then a job of its own.
LiveRepaint(s) ==
    /\ mode.waits
    /\ fx = "idle"
    /\ s \in Live
    /\ op' = "live"
    /\ target' = s
    /\ BeginPulse
    /\ UNCHANGED <<cur, pulses, posted, sceneVars, painting, pulseRunning, timer, collectorVars,
                   renderVars>>

\* ScenePulseListener.pulse finds nothing to synchronize ...
VisitClean(s) ==
    /\ fx = "fire"
    /\ s \in todo
    /\ ~nodesDirty[s]
    /\ todo' = todo \ {s}
    /\ UNCHANGED <<fx, op, cur, target, posted, sceneVars, painting, pulseVars, collectorVars,
                   renderVars>>

\* ... or waits until the last rendering is complete ...
VisitDirty(s) ==
    /\ fx = "fire"
    /\ s \in todo
    /\ nodesDirty[s]
    /\ todo' = todo \ {s}
    /\ cur' = s
    /\ fx' = "await"
    /\ UNCHANGED <<op, target, posted, sceneVars, painting, pulseVars, collectorVars, renderVars>>

\* Snapshots wait in the same way.
Snapshot(s) ==
    /\ mode.waits
    /\ fx = "idle"
    /\ s \in Live
    /\ fx' = "await"
    /\ op' = "snapshot"
    /\ cur' = s
    /\ target' = s
    /\ UNCHANGED <<todo, posted, sceneVars, painting, pulseVars, collectorVars, renderVars>>

Awaited ==
    /\ fx = "await"
    /\ latch = 0
    /\ fx' = "lock"
    /\ UNCHANGED <<op, todo, cur, target, posted, sceneVars, painting, pulseVars, collectorVars,
                   renderVars>>

\* ... and, under the render lock, copies the changes to the render graph and
\* marks the scene dirty; a snapshot copies them only.
Synchronize ==
    /\ fx = "lock"
    /\ lock = "free"
    /\ unpainted' = [unpainted EXCEPT ![cur] = @ \/ nodesDirty[cur]]
    /\ nodesDirty' = [nodesDirty EXCEPT ![cur] = FALSE]
    /\ cur' = NoScene
    /\ IF op = "snapshot"
       THEN fx' = "submit" /\ UNCHANGED <<dirtyScenes, hasDirty>>
       ELSE fx' = "fire" /\ SceneChanged(cur)
    /\ UNCHANGED <<op, todo, target, posted, status, entireSceneDirty, freshBackBuffer,
                   painting, pulseVars, needsHint, latch, renderVars>>

\* The listeners have run.
FireDone ==
    /\ fx = "fire"
    /\ todo = {}
    /\ op = "live"
    /\ fx' = "submit"
    /\ UNCHANGED <<op, todo, cur, target, posted, sceneVars, painting, pulseVars, collectorVars,
                   renderVars>>

-----------------------------------------------------------------------------
(* renderAll, in the pulses from the queue.                                *)

NothingToRender ==
    /\ fx = "fire" /\ todo = {} /\ op = "pulse"
    /\ ~hasDirty
    /\ fx' = "end"
    /\ UNCHANGED <<op, todo, cur, target, posted, sceneVars, painting, pulseVars, collectorVars,
                   renderVars>>

\* A new latch with one count for each dirty scene.
BeginRender ==
    /\ fx = "fire" /\ todo = {} /\ op = "pulse"
    /\ hasDirty
    /\ fx' = "render"
    /\ todo' = dirtyScenes
    /\ hasDirty' = FALSE
    /\ needsHint' = FALSE
    /\ latch' = Cardinality(dirtyScenes)
    /\ UNCHANGED <<op, cur, target, posted, sceneVars, painting, pulseVars, dirtyScenes, renderVars>>

\* Scenes that upload come before those that present.
Sorted(s) == s \in mode.synchronous => todo \subseteq mode.synchronous

\* ViewScene.repaint: no job for a scene that has one under way.
MayRepaint(s) == s \in Live /\ ~painting[s]

Repaint(s) ==
    /\ fx = "render"
    /\ s \in todo
    /\ Sorted(s)
    /\ todo' = todo \ {s}
    /\ needsHint' = (needsHint \/ s \in mode.synchronous)
    /\ painting' = IF s \in Live THEN [painting EXCEPT ![s] = TRUE] ELSE painting
    /\ queue' = IF MayRepaint(s)
                THEN Append(queue, [scene |-> s, kind |-> "paint"])
                ELSE queue
    /\ UNCHANGED <<fx, op, cur, target, posted, sceneVars, pulseVars, dirtyScenes, hasDirty, latch,
                   rt, job, full, lock>>

EndRender ==
    /\ fx = "render"
    /\ todo = {}
    /\ dirtyScenes' = {}
    /\ fx' = IF mode.multithreaded THEN "end" ELSE "settle"
    /\ UNCHANGED <<op, todo, cur, target, posted, sceneVars, painting, pulseVars, hasDirty, needsHint,
                   latch, renderVars>>

\* Without multithreading the pulse waits for its rendering.
Settled ==
    /\ fx = "settle"
    /\ latch = 0
    /\ fx' = "end"
    /\ UNCHANGED <<op, todo, cur, target, posted, sceneVars, painting, pulseVars, collectorVars,
                   renderVars>>

EndPulse ==
    /\ fx = "end"
    /\ fx' = "idle"
    /\ pulseRunning' = FALSE
    /\ UNCHANGED <<op, todo, cur, target, posted, sceneVars, painting, pulses, nextPulseRequested,
                   animation, timer, collectorVars, renderVars>>

-----------------------------------------------------------------------------
(* A job the JavaFX thread waits for: the painter of the scene in a live   *)
(* repaint, an image in a snapshot, which then has the scene repainted.    *)

Submit ==
    /\ fx = "submit"
    /\ queue' = Append(queue, [scene |-> target, kind |-> op])
    /\ fx' = "job"
    /\ UNCHANGED <<op, todo, cur, target, posted, sceneVars, painting, pulseVars, collectorVars, rt,
                   job, full, lock>>

JobDone ==
    /\ fx = "job"
    /\ queue = <<>> /\ rt = "idle"
    /\ fx' = "idle"
    /\ target' = NoScene
    /\ IF op = "snapshot"
       THEN EntireSceneNeedsRepaint(target)
       ELSE UNCHANGED <<entireSceneDirty, dirtyScenes, hasDirty>>
    /\ UNCHANGED <<op, todo, cur, posted, status, nodesDirty, unpainted, freshBackBuffer, painting,
                   pulseVars, needsHint, latch, renderVars>>

-----------------------------------------------------------------------------
(* The render thread.                                                      *)

Paints(j) == j.kind \in {"paint", "live"}

\* A painter takes the lock and decides whether to render everything.
StartPaint ==
    /\ rt = "idle"
    /\ queue # <<>> /\ Paints(Head(queue))
    /\ lock = "free"
    /\ LET s == Head(queue).scene
       IN  /\ full' = (entireSceneDirty[s] \/ freshBackBuffer[s])
           /\ rt' = IF s \in Live THEN "paint" ELSE "finish"
    /\ job' = Head(queue)
    /\ queue' = Tail(queue)
    /\ lock' = "painter"
    /\ UNCHANGED <<fxVars, posted, sceneVars, painting, pulseVars, collectorVars>>

\* The image of a snapshot is drawn without the lock: the JavaFX thread waits for it.
RenderImage ==
    /\ rt = "idle"
    /\ queue # <<>> /\ ~Paints(Head(queue))
    /\ queue' = Tail(queue)
    /\ UNCHANGED <<fxVars, posted, sceneVars, painting, pulseVars, collectorVars, rt, job, full, lock>>

\* The render graph is painted.
Paint ==
    LET s == job.scene
    IN  /\ rt = "paint"
        /\ unpainted' = [unpainted EXCEPT ![s] = FALSE]
        /\ entireSceneDirty' = [entireSceneDirty EXCEPT ![s] = FALSE]
        /\ freshBackBuffer' = [freshBackBuffer EXCEPT ![s] = FALSE]
        /\ rt' = "present"
        /\ UNCHANGED <<fxVars, posted, status, nodesDirty, painting, pulseVars, collectorVars, queue,
                       job, full, lock>>

Present ==
    /\ rt = "present"
    /\ rt' = "finish"
    /\ UNCHANGED <<fxVars, posted, sceneVars, painting, pulseVars, collectorVars, queue, job, full,
                   lock>>

\* The frame is lost and nobody asks for another: the device of an uploading painter
\* is not ready or has no texture, or the painter threw.
Drop ==
    /\ mode.framesLost
    /\ rt = "paint"
    /\ rt' = "finish"
    /\ UNCHANGED <<fxVars, posted, status, nodesDirty, unpainted, entireSceneDirty, freshBackBuffer,
                   painting, pulseVars, collectorVars, queue, job, full, lock>>

\* There is no graphics, or the surface is lost: another repaint is asked for.
Fail ==
    LET s == job.scene
    IN  /\ rt \in {"paint", "present"}
        /\ posted[s] < mode.maxPosted
        /\ posted' = [posted EXCEPT ![s] = @ + 1]
        /\ freshBackBuffer' = [freshBackBuffer EXCEPT ![s] = @ \/ rt = "present"]
        /\ rt' = "finish"
        /\ UNCHANGED <<fxVars, status, nodesDirty, unpainted, entireSceneDirty, painting, pulseVars,
                       collectorVars, queue, job, full, lock>>

\* The texture of an uploading painter was lost: it asks for another repaint, and
\* paints everything into a new texture.
SurfaceLost ==
    LET s == job.scene
    IN  /\ rt = "paint"
        /\ s \notin mode.synchronous
        /\ posted[s] < mode.maxPosted
        /\ posted' = [posted EXCEPT ![s] = @ + 1]
        /\ freshBackBuffer' = [freshBackBuffer EXCEPT ![s] = TRUE]
        /\ full' = TRUE
        /\ UNCHANGED <<fxVars, status, nodesDirty, unpainted, entireSceneDirty, painting,
                       pulseVars, collectorVars, queue, rt, job, lock>>

FinishKeepsFlag ==
    /\ rt = "finish"
    /\ lock' = "free"
    /\ rt' = IF job.kind = "paint" THEN "hint" ELSE "idle"
    /\ job' = IF job.kind = "paint" THEN job ELSE NoJob
    /\ UNCHANGED <<fxVars, posted, sceneVars, painting, pulseVars, collectorVars, queue, full>>

\* The painter's finally block.  A live repaint's own listener lets the JavaFX
\* thread go on.
Finish ==
    /\ rt = "finish"
    /\ painting' = [painting EXCEPT ![job.scene] = FALSE]
    /\ lock' = "free"
    /\ rt' = IF job.kind = "paint" THEN "hint" ELSE "idle"
    /\ job' = IF job.kind = "paint" THEN job ELSE NoJob
    /\ UNCHANGED <<fxVars, posted, sceneVars, pulseVars, collectorVars, queue, full>>

\* PaintCollector.done: the last scene may hint at a pulse ...
Hint ==
    /\ rt = "hint"
    /\ IF latch = 1 /\ needsHint /\ ReasonToPulse
       THEN PostPulse
       ELSE UNCHANGED <<pulses, pulseRunning>>
    /\ rt' = "count"
    /\ UNCHANGED <<fxVars, posted, sceneVars, painting, nextPulseRequested, animation, timer,
                   collectorVars, queue, job, full, lock>>

CountDownLost ==
    /\ rt = "count"
    /\ UNCHANGED latch
    /\ job' = NoJob
    /\ rt' = "idle"
    /\ UNCHANGED <<fxVars, posted, sceneVars, painting, pulseVars, dirtyScenes, hasDirty, needsHint,
                   queue, full, lock>>

\* ... and counts down the latch that is current by now.
CountDown ==
    /\ rt = "count"
    /\ latch' = IF latch > 0 THEN latch - 1 ELSE 0
    /\ job' = NoJob
    /\ rt' = "idle"
    /\ UNCHANGED <<fxVars, posted, sceneVars, painting, pulseVars, dirtyScenes, hasDirty, needsHint,
                   queue, full, lock>>

-----------------------------------------------------------------------------
Events ==
    \/ \E s \in Scenes : Show(s) \/ Dispose(s) \/ ChangeNode(s) \/ Expose(s)
                         \/ LiveRepaint(s) \/ Snapshot(s)
    \/ \E set \in BOOLEAN : SetAnimationRunnable(set)

PulseSteps ==
    \/ \E s \in Scenes : VisitClean(s) \/ VisitDirty(s) \/ Repaint(s)
    \/ Awaited \/ Synchronize \/ FireDone \/ NothingToRender \/ BeginRender
    \/ EndRender \/ Settled \/ EndPulse \/ Submit \/ JobDone

RenderThread ==
    \/ StartPaint \/ RenderImage \/ Paint \/ Present \/ Drop \/ Fail
    \/ SurfaceLost \/ Finish \/ Hint \/ CountDown

Timer == TimerReads \/ TimerPosts

RunAnyPosted == \E s \in Scenes : RunPosted(s)

Next ==
    /\ Events \/ RunAnyPosted \/ RunPulse \/ PulseSteps \/ RenderThread \/ Timer
    /\ UNCHANGED mode

Spec == Init /\ [][Next]_<<vars, mode>>

\* The JavaFX thread and the render thread keep going, the timer keeps firing, and
\* what is in the JavaFX thread's queue gets its turn among other events.
FairSpec ==
    /\ Spec
    /\ WF_vars(PulseSteps)
    /\ WF_vars(RenderThread)
    /\ WF_vars(Timer)
    /\ SF_vars(RunPulse)
    /\ SF_vars(RunAnyPosted)

-----------------------------------------------------------------------------
\* Paint jobs whose completion is still to be counted.
Uncounted ==
    Cardinality({i \in 1..Len(queue) : queue[i].kind = "paint"})
        + (IF job # NoJob /\ job.kind = "paint" THEN 1 ELSE 0)

\* The scenes of the current renderAll that still have to be repainted.
Unsubmitted == IF fx = "render" THEN Cardinality(todo) ELSE 0

\* Whoever waits for the latch is let go: repaint() gives no job to a scene that
\* has one, and yet the latch never counts more scenes than there are
\* completions to come.
LatchReachesZero == latch <= Uncounted + Unsubmitted

\* One pulse at a time, and it waits for all painting.  pulseRunning lets at most one
\* pulse be in the queue or under way, whoever posts it; the latch "keeps track of the
\* number of scenes which still need to be processed", and a pulse that has waited for
\* it finds no paint job left, unless repaints are asked for from outside of the pulses.
OnePulse ==
    /\ pulses + (IF fx # "idle" /\ op = "pulse" THEN 1 ELSE 0) = (IF pulseRunning THEN 1 ELSE 0)
    /\ ~mode.exposes /\ mode.maxPosted = 0 /\ fx = "lock" => Uncounted = 0

\* A change copied to the render graph is painted: the scene is dirty, or has a
\* job whose painter has not yet looked at the graph, or will be repainted at the end
\* of the snapshot that copied the change, or after a failure.
ChangesScheduled ==
    \A s \in Live : unpainted[s] =>
        \/ s \in dirtyScenes /\ (fx = "render" => s \in todo)
        \/ \E i \in 1..Len(queue) : queue[i].scene = s /\ Paints(queue[i])
        \/ job.scene = s /\ rt = "paint"
        \/ target = s
        \/ posted[s] > 0

\* A node that changes has its scene synchronized: a pulse is asked for, or under
\* way and still to visit the scene.
ChangesSynchronized ==
    \A s \in Live : nodesDirty[s] =>
        \/ nextPulseRequested
        \/ hasDirty
        \/ s \in todo \union {cur}

\* Changes reach the screen while the timer fires and both threads run, where the
\* painters neither fail nor drop a frame.
ChangesPainted ==
    mode.framesLost = FALSE /\ mode.maxPosted = 0 =>
    \A s \in Scenes :
        /\ nodesDirty[s] /\ s \in Live ~> ~nodesDirty[s] \/ s \notin Live
        /\ unpainted[s] /\ s \in Live ~> ~unpainted[s] \/ s \notin Live

\* Every pulse ends: no waiting for the latch, the lock or the render thread lasts
\* for ever, whatever the painters do.
PulsesEnd == fx # "idle" ~> fx = "idle"
=============================================================================
