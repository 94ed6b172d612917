-------------------------- MODULE RenderingProofs --------------------------
(***************************************************************************)
(* Theorems about the Rendering module, for any number of scenes and in    *)
(* every configuration.                                                    *)
(*                                                                         *)
(* What the JavaFX thread and the render thread are doing (Control) and    *)
(* which scenes have a paint job (JobsOfPainting) are the base.  On it     *)
(* rest the bounds of the latch: it never counts more than the completions *)
(* to come (LatchBound), and no less where nobody asks for repaints from   *)
(* outside of the pulses (LatchExact), because then a scene that is dirty  *)
(* while another one is painted is one that has yet to be synchronized.    *)
(***************************************************************************)
EXTENDS Rendering, FiniteSetTheorems, SequenceTheorems, TLAPS

Kinds == {"paint", "live", "snapshot"}
Jobs == [scene : Scenes, kind : Kinds]

TypeOK ==
    /\ mode \in Modes
    /\ fx \in {"idle", "fire", "await", "lock", "render", "settle", "end", "submit", "job"}
    /\ op \in {"pulse", "live", "snapshot"}
    /\ pulses \in Nat /\ latch \in Nat
    /\ posted \in [Scenes -> Nat] /\ (mode.maxPosted = 0 => posted = [s \in Scenes |-> 0])
    /\ status \in [Scenes -> {"new", "live", "disposed"}]
    /\ nodesDirty \in [Scenes -> BOOLEAN] /\ unpainted \in [Scenes -> BOOLEAN]
    /\ painting \in [Scenes -> BOOLEAN]
    /\ pulseRunning \in BOOLEAN /\ hasDirty \in BOOLEAN
    /\ queue \in Seq(Jobs)
    /\ rt \in {"idle", "paint", "present", "finish", "hint", "count"}
    /\ job \in Jobs \cup {NoJob}

(* The JavaFX thread: the scenes it works on are live ones. *)
FxControl ==
    /\ todo \subseteq Live /\ cur \in Live \cup {NoScene} /\ target \in Live \cup {NoScene}
    /\ fx \notin {"fire", "await", "lock", "render"} => todo = {}
    /\ cur # NoScene <=> fx \in {"await", "lock"}
    /\ fx \in {"render", "settle", "end"} => op = "pulse"
    /\ fx \in {"submit", "job"} => op # "pulse"
    /\ target # NoScene <=> fx # "idle" /\ op # "pulse"
    /\ fx # "idle" /\ op = "snapshot" =>
          todo = {} /\ fx \in {"await", "lock", "submit", "job"} /\ cur \in {target, NoScene}

(* The render thread holds the lock while it has something to paint. *)
RtControl ==
    /\ rt = "idle" <=> job = NoJob
    /\ rt \in {"hint", "count"} => job.kind = "paint"
    /\ job.kind # "snapshot"
    /\ lock = "free" <=> rt \notin {"paint", "present", "finish"}
    /\ job # NoJob => status[job.scene] # "new"
    /\ \A i \in 1..Len(queue) : status[queue[i].scene] # "new"

(* The dirty scenes, which renderAll() visits and then forgets. *)
DirtyControl ==
    /\ dirtyScenes \subseteq Live /\ IsFiniteSet(dirtyScenes)
    /\ fx = "render" => todo \subseteq dirtyScenes
    /\ hasDirty <=> fx # "render" /\ dirtyScenes # {}
    /\ \A s \in Scenes : status[s] = "new" => nodesDirty[s]

Control == FxControl /\ RtControl /\ DirtyControl

(* A scene with the painting flag has a paint job. *)
PaintJob(s) == [scene |-> s, kind |-> "paint"]
JobsOfPainting ==
    \A s \in Scenes : painting[s] =>
        \/ \E i \in 1..Len(queue) : queue[i] = PaintJob(s)
        \/ job = PaintJob(s) /\ rt \in {"paint", "present", "finish"}

(* The latch counts no more than what will be counted down: the paint jobs *)
(* there are, and those that renderAll() is going to submit.               *)
ToSubmit == IF fx = "render" THEN Cardinality({s \in todo : ~painting[s]}) ELSE 0
LatchBound == latch <= Uncounted + ToSubmit

(* No more than one pulse is under way. *)
PulseCount ==
    pulses + (IF fx # "idle" /\ op = "pulse" THEN 1 ELSE 0) = (IF pulseRunning THEN 1 ELSE 0)

(* Where repaints come from pulses only, the latch counts all paint jobs:  *)
(* while there are any, a dirty scene is one that was never synchronized,  *)
(* and a pulse visits it, and waits, before it renders.                    *)
Quiet == ~mode.exposes /\ mode.maxPosted = 0
Firing == fx \in {"fire", "await", "lock"} /\ op # "snapshot"
LatchExact ==
    Quiet =>
        /\ Uncounted + Unsubmitted <= latch
        /\ fx # "render" /\ Uncounted > 0 =>
              \A s \in dirtyScenes : nodesDirty[s] /\ (Firing => s \in todo \cup {cur})
        /\ fx = "lock" => Uncounted = 0

(* A changed node is waiting for a pulse, or the pulse is on its way to it. *)
Resting == fx = "idle" \/ op = "snapshot"
SyncPending ==
    \A s \in Live : nodesDirty[s] =>
        \/ nextPulseRequested
        \/ Resting /\ s \in dirtyScenes
        \/ Firing /\ s \in todo \cup {cur}

(* Where no frame is lost, what was copied to the render graph has a       *)
(* painter to come, and is painted before that painter lets the lock go.   *)
Reliable == mode.maxPosted = 0 /\ ~mode.framesLost
PaintPending ==
    Reliable =>
        /\ \A s \in Live : unpainted[s] =>
              \/ s \in dirtyScenes /\ (fx = "render" => s \in todo)
              \/ \E i \in 1..Len(queue) : queue[i].scene = s /\ Paints(queue[i])
              \/ job.scene = s /\ rt = "paint"
              \/ op = "snapshot" /\ fx \in {"submit", "job"} /\ target = s
        /\ rt \in {"present", "finish"} /\ job.scene \in Live => ~unpainted[job.scene]

-----------------------------------------------------------------------------
(* The queue of the render thread.                                         *)

(* A job that is submitted comes last. *)
LEMMA AppendFacts ==
    ASSUME NEW S, NEW q \in Seq(S), NEW x \in S
    PROVE  /\ Append(q, x) \in Seq(S)
           /\ Len(q) \in Nat /\ Len(Append(q, x)) = Len(q) + 1
           /\ \A i \in 1..Len(q) : Append(q, x)[i] = q[i]
           /\ Append(q, x)[Len(q) + 1] = x
           /\ \A i \in 1..Len(Append(q, x)) :
                 Append(q, x)[i] = x \/ (i \in 1..Len(q) /\ Append(q, x)[i] = q[i])
OBVIOUS

(* The oldest job is taken first. *)
LEMMA TailFacts ==
    ASSUME NEW S, NEW q \in Seq(S), q # <<>>
    PROVE  /\ Tail(q) \in Seq(S)
           /\ Len(q) \in Nat /\ Len(q) >= 1
           /\ Len(Tail(q)) = Len(q) - 1
           /\ Head(q) = q[1] /\ Head(q) \in S
           /\ \A i \in 1..(Len(q) - 1) : Tail(q)[i] = q[i + 1]
OBVIOUS

(* A job has a scene, no job has none. *)
LEMMA JobFacts ==
    /\ NoJob \notin Jobs /\ NoJob.kind = "paint" /\ NoJob.scene = NoScene
    /\ \A j \in Jobs : j.scene \in Scenes /\ j.kind \in Kinds
    /\ \A s \in Scenes, k \in Kinds :
          [scene |-> s, kind |-> k] \in Jobs
    /\ \A j \in Jobs : j.kind = "paint" <=> j = PaintJob(j.scene)
BY NoSceneAssumption DEF NoJob, Jobs, Kinds, PaintJob

(* A configuration is a record. *)
LEMMA ModeFacts ==
    ASSUME mode \in Modes
    PROVE  mode.maxPosted \in 0..1 /\ mode.synchronous \subseteq Scenes
BY ModesAssumption

(* The types hold initially ... *)
LEMMA TypeInit == Init => TypeOK
<1> SUFFICES ASSUME Init PROVE TypeOK
  OBVIOUS
<1>1. queue \in Seq(Jobs) /\ job \in Jobs \cup {NoJob}
  BY DEF Init
<1>2. mode \in Modes /\ posted = [s \in Scenes |-> 0]
  BY DEF Init
<1>3. /\ fx = "idle" /\ op = "pulse" /\ rt = "idle" /\ pulses = 0 /\ latch = 0
      /\ pulseRunning \in BOOLEAN /\ hasDirty \in BOOLEAN
  BY DEF Init
<1>4. /\ status \in [Scenes -> {"new", "live", "disposed"}]
      /\ nodesDirty \in [Scenes -> BOOLEAN] /\ unpainted \in [Scenes -> BOOLEAN]
      /\ painting \in [Scenes -> BOOLEAN]
  BY DEF Init
<1> QED BY <1>1, <1>2, <1>3, <1>4 DEF TypeOK

(* ... and every step keeps them. *)
LEMMA TypeStep == TypeOK /\ Control /\ [Next]_<<vars, mode>> => TypeOK'
<1> SUFFICES ASSUME TypeOK, Control, [Next]_<<vars, mode>> PROVE TypeOK'
  OBVIOUS
<1>m. mode' = mode
  BY DEF Next
<1> USE <1>m DEF TypeOK
<1>1. ASSUME NEW s \in Scenes, Show(s) PROVE TypeOK'
  BY <1>1 DEF Show, AddDirtyScene, fxVars, sceneVars, pulseVars, collectorVars, renderVars
<1>2. ASSUME NEW s \in Scenes, Dispose(s) PROVE TypeOK'
  BY <1>2 DEF Dispose, RemoveDirtyScene, fxVars, sceneVars, pulseVars, collectorVars, renderVars
<1>3. ASSUME NEW s \in Scenes, ChangeNode(s) PROVE TypeOK'
  BY <1>3 DEF ChangeNode, RequestNextPulse, fxVars, sceneVars, pulseVars, collectorVars, renderVars
<1>4. ASSUME NEW s \in Scenes, Expose(s) PROVE TypeOK'
  BY <1>4 DEF Expose, EntireSceneNeedsRepaint, SceneChanged, AddDirtyScene, RemoveDirtyScene, fxVars, sceneVars, pulseVars, collectorVars, renderVars
<1>5. ASSUME NEW s \in Scenes, LiveRepaint(s) PROVE TypeOK'
  BY <1>5 DEF LiveRepaint, BeginPulse, fxVars, sceneVars, pulseVars, collectorVars, renderVars
<1>6. ASSUME NEW s \in Scenes, Snapshot(s) PROVE TypeOK'
  BY <1>6 DEF Snapshot, fxVars, sceneVars, pulseVars, collectorVars, renderVars
<1>7. ASSUME NEW set \in BOOLEAN, SetAnimationRunnable(set) PROVE TypeOK'
  BY <1>7 DEF SetAnimationRunnable, fxVars, sceneVars, pulseVars, collectorVars, renderVars
<1>8. ASSUME NEW s \in Scenes, RunPosted(s) PROVE TypeOK'
  <2>1. posted' \in [Scenes -> Nat] /\ mode.maxPosted # 0
    BY <1>8 DEF RunPosted
  <2>2. hasDirty' \in BOOLEAN
    BY <1>8 DEF RunPosted, EntireSceneNeedsRepaint, SceneChanged, AddDirtyScene, RemoveDirtyScene
  <2> QED BY <1>8, <2>1, <2>2 DEF RunPosted, fxVars, pulseVars, renderVars
<1>9. CASE RunPulse
  BY <1>9 DEF RunPulse, BeginPulse, fxVars, sceneVars, pulseVars, collectorVars, renderVars
<1>10. ASSUME NEW s \in Scenes, VisitClean(s) PROVE TypeOK'
  BY <1>10 DEF VisitClean, fxVars, sceneVars, pulseVars, collectorVars, renderVars
<1>11. ASSUME NEW s \in Scenes, VisitDirty(s) PROVE TypeOK'
  BY <1>11 DEF VisitDirty, fxVars, sceneVars, pulseVars, collectorVars, renderVars
<1>12. ASSUME NEW s \in Scenes, Repaint(s) PROVE TypeOK'
  <2>1. PaintJob(s) \in Jobs
    BY JobFacts DEF PaintJob, Kinds
  <2>2. Append(queue, PaintJob(s)) \in Seq(Jobs)
    BY <2>1, AppendFacts
  <2>3. queue' \in Seq(Jobs)
    BY <1>12, <2>2 DEF Repaint, PaintJob
  <2> QED BY <1>12, <2>3 DEF Repaint, sceneVars, pulseVars
<1>13. CASE Awaited
  BY <1>13 DEF Awaited, fxVars, sceneVars, pulseVars, collectorVars, renderVars
<1>14. CASE Synchronize
  BY <1>14 DEF Synchronize, SceneChanged, AddDirtyScene, RemoveDirtyScene, fxVars, sceneVars, pulseVars, collectorVars, renderVars
<1>15. CASE FireDone
  BY <1>15 DEF FireDone, fxVars, sceneVars, pulseVars, collectorVars, renderVars
<1>16. CASE NothingToRender
  BY <1>16 DEF NothingToRender, fxVars, sceneVars, pulseVars, collectorVars, renderVars
<1>17. CASE BeginRender
  <2>1. latch' \in Nat
    BY <1>17, FS_CardinalityType DEF BeginRender, Control, DirtyControl
  <2> QED BY <1>17, <2>1 DEF BeginRender, sceneVars, pulseVars, renderVars
<1>18. CASE EndRender
  BY <1>18 DEF EndRender, fxVars, sceneVars, pulseVars, collectorVars, renderVars
<1>19. CASE Settled
  BY <1>19 DEF Settled, fxVars, sceneVars, pulseVars, collectorVars, renderVars
<1>20. CASE EndPulse
  BY <1>20 DEF EndPulse, fxVars, sceneVars, pulseVars, collectorVars, renderVars
<1>21. CASE Submit
  <2>1. target \in Scenes /\ op \in Kinds
    BY <1>21 DEF Submit, Control, FxControl, Live, Kinds
  <2>2. [scene |-> target, kind |-> op] \in Jobs
    BY <2>1, JobFacts
  <2>3. queue' \in Seq(Jobs)
    BY <1>21, <2>2, AppendFacts DEF Submit
  <2> QED BY <1>21, <2>3 DEF Submit, sceneVars, pulseVars, collectorVars
<1>22. CASE JobDone
  BY <1>22 DEF JobDone, EntireSceneNeedsRepaint, SceneChanged, AddDirtyScene, RemoveDirtyScene, fxVars, sceneVars, pulseVars, collectorVars, renderVars
<1>23. CASE StartPaint
  BY <1>23 DEF StartPaint, fxVars, sceneVars, pulseVars, collectorVars, renderVars
<1>24. CASE RenderImage
  BY <1>24 DEF RenderImage, fxVars, sceneVars, pulseVars, collectorVars, renderVars
<1>25. CASE Paint
  BY <1>25 DEF Paint, fxVars, sceneVars, pulseVars, collectorVars, renderVars
<1>26. CASE Present
  BY <1>26 DEF Present, fxVars, sceneVars, pulseVars, collectorVars, renderVars
<1>27. CASE Drop
  BY <1>27 DEF Drop, fxVars, sceneVars, pulseVars, collectorVars, renderVars
<1>28. CASE Fail
  <2>1. job.scene \in Scenes
    BY <1>28, JobFacts DEF Fail, Control, RtControl
  <2>2. posted' \in [Scenes -> Nat] /\ mode.maxPosted # 0
    BY <1>28, <2>1 DEF Fail
  <2> QED BY <1>28, <2>2 DEF Fail, fxVars, pulseVars, collectorVars
<1>29. CASE SurfaceLost
  <2>1. job.scene \in Scenes
    BY <1>29, JobFacts DEF SurfaceLost, Control, RtControl
  <2>2. posted' \in [Scenes -> Nat] /\ mode.maxPosted # 0
    BY <1>29, <2>1 DEF SurfaceLost
  <2> QED BY <1>29, <2>2 DEF SurfaceLost, fxVars, pulseVars, collectorVars
<1>30. CASE Finish
  BY <1>30 DEF Finish, fxVars, sceneVars, pulseVars, collectorVars, renderVars
<1>31. CASE Hint
  <2>1. PostPulse \/ UNCHANGED <<pulses, pulseRunning>>
    BY <1>31 DEF Hint
  <2>2. CASE PostPulse
    BY <1>31, <2>2 DEF Hint, PostPulse, MayPostPulse, fxVars, sceneVars, collectorVars
  <2>3. CASE UNCHANGED <<pulses, pulseRunning>>
    BY <1>31, <2>3 DEF Hint, fxVars, sceneVars, collectorVars
  <2> QED BY <2>1, <2>2, <2>3
<1>32. CASE CountDown
  BY <1>32 DEF CountDown, fxVars, sceneVars, pulseVars, collectorVars, renderVars
<1>33. CASE TimerReads
  BY <1>33 DEF TimerReads, fxVars, sceneVars, pulseVars, collectorVars, renderVars
<1>34. CASE TimerPosts
  BY <1>34 DEF TimerPosts, PostPulse, MayPostPulse, fxVars, sceneVars, pulseVars, collectorVars, renderVars
<1>35. CASE UNCHANGED <<vars, mode>>
  BY <1>35 DEF vars, fxVars, sceneVars, pulseVars, collectorVars, renderVars
<1> QED
  BY <1>1, <1>2, <1>3, <1>4, <1>5, <1>6, <1>7, <1>8, <1>9, <1>10, <1>11, <1>12, <1>13, <1>14, <1>15, <1>16,
     <1>17, <1>18, <1>19, <1>20, <1>21, <1>22, <1>23, <1>24, <1>25, <1>26, <1>27, <1>28, <1>29, <1>30, <1>31, <1>32, <1>33, <1>34, <1>35
     DEF Next, Events, RunAnyPosted, PulseSteps, RenderThread, Timer

-----------------------------------------------------------------------------
(* Who changes what.                                                       *)

(* The render thread and the timer change nothing of what the JavaFX       *)
(* thread does and decides.                                                *)
LEMMA RenderThreadKeeps ==
    RenderThread \/ Timer =>
        UNCHANGED <<fx, op, todo, cur, target, status, nodesDirty, nextPulseRequested,
                    dirtyScenes, hasDirty>>
<1>1. CASE StartPaint \/ RenderImage \/ Present
  BY <1>1 DEF StartPaint, RenderImage, Present, fxVars, sceneVars, pulseVars, collectorVars
<1>2. CASE Paint \/ Drop \/ Fail \/ SurfaceLost
  BY <1>2 DEF Paint, Drop, Fail, SurfaceLost, fxVars, pulseVars, collectorVars
<1>3. CASE Finish \/ Hint \/ CountDown
  BY <1>3 DEF Finish, Hint, CountDown, fxVars, sceneVars, pulseVars, collectorVars
<1>4. CASE Timer
  BY <1>4 DEF Timer, TimerReads, TimerPosts, fxVars, sceneVars, collectorVars
<1> QED BY <1>1, <1>2, <1>3, <1>4 DEF RenderThread

(* Only renderAll() and the jobs that are waited for add to the render     *)
(* thread's queue; all else there is the render thread's.                  *)
LEMMA QueueKeeps ==
    [Next]_<<vars, mode>> =>
        \/ UNCHANGED <<queue, rt, job, lock, painting>>
        \/ RenderThread
        \/ \E s \in Scenes : Repaint(s)
        \/ Submit
<1> SUFFICES ASSUME [Next]_<<vars, mode>>, ~RenderThread, ~Submit, ~(\E s \in Scenes : Repaint(s))
             PROVE  UNCHANGED <<queue, rt, job, lock, painting>>
  OBVIOUS
<1>1. CASE Events
  BY <1>1 DEF Events, Show, Dispose, ChangeNode, Expose, LiveRepaint, Snapshot,
              SetAnimationRunnable, renderVars
<1>2. CASE RunAnyPosted \/ RunPulse \/ Timer
  BY <1>2 DEF RunAnyPosted, RunPosted, RunPulse, Timer, TimerReads, TimerPosts, renderVars
<1>3. CASE PulseSteps
  BY <1>3 DEF PulseSteps, VisitClean, VisitDirty, Awaited, Synchronize, FireDone,
              NothingToRender, BeginRender, EndRender, Settled, EndPulse, JobDone, renderVars
<1>4. CASE UNCHANGED <<vars, mode>>
  BY <1>4 DEF vars, renderVars
<1> QED BY <1>1, <1>2, <1>3, <1>4 DEF Next

(* A scene is shown once and hidden once. *)
LEMMA StatusKeeps ==
    ASSUME TypeOK, [Next]_<<vars, mode>>
    PROVE  /\ UNCHANGED status \/ \E s \in Scenes : Show(s) \/ Dispose(s)
           /\ \A s \in Scenes : status'[s] = "new" => status[s] = "new"
<1>1. UNCHANGED status \/ \E s \in Scenes : Show(s) \/ Dispose(s)
  <2>1. CASE Events
    BY <2>1 DEF Events, ChangeNode, Expose, LiveRepaint, Snapshot, SetAnimationRunnable, sceneVars
  <2>2. CASE RunAnyPosted \/ RunPulse
    BY <2>2 DEF RunAnyPosted, RunPosted, RunPulse, sceneVars
  <2>3. CASE PulseSteps
    BY <2>3 DEF PulseSteps, VisitClean, VisitDirty, Repaint, Awaited, Synchronize, FireDone,
                NothingToRender, BeginRender, EndRender, Settled, EndPulse, Submit, JobDone,
                sceneVars
  <2>4. CASE RenderThread \/ Timer
    BY <2>4, RenderThreadKeeps
  <2>5. CASE UNCHANGED <<vars, mode>>
    BY <2>5 DEF vars, sceneVars
  <2> QED BY <2>1, <2>2, <2>3, <2>4, <2>5 DEF Next
<1>2. \A s \in Scenes : status'[s] = "new" => status[s] = "new"
  BY <1>1 DEF TypeOK, Show, Dispose
<1> QED BY <1>1, <1>2

-----------------------------------------------------------------------------
(* Control.                                                                *)

(* The control invariants hold initially. *)
LEMMA ControlInit == Init => Control
BY FS_EmptySet, JobFacts DEF Init, Control, FxControl, RtControl, DirtyControl, Live

(* No step takes the JavaFX thread to a scene that is not live. *)
LEMMA FxControlStep ==
    TypeOK /\ Control /\ [Next]_<<vars, mode>> => FxControl'
<1> SUFFICES ASSUME TypeOK, Control, [Next]_<<vars, mode>> PROVE FxControl'
  OBVIOUS
<1>a. status \in [Scenes -> {"new", "live", "disposed"}] /\ NoScene \notin Scenes
  BY NoSceneAssumption DEF TypeOK
<1>b. fx \in {"idle", "fire", "await", "lock", "render", "settle", "end", "submit", "job"}
  BY DEF TypeOK
<1>c. dirtyScenes \subseteq Live
  BY DEF Control, DirtyControl
<1> USE <1>a DEF Control, FxControl, Live
<1>1. ASSUME NEW s \in Scenes, Show(s) PROVE FxControl'
  BY <1>1 DEF Show, AddDirtyScene, fxVars, sceneVars
<1>2. ASSUME NEW s \in Scenes, Dispose(s) PROVE FxControl'
  <2>1. fx = "idle" /\ UNCHANGED fxVars
    BY <1>2 DEF Dispose
  <2>2. todo = {} /\ cur = NoScene /\ target = NoScene
    BY <2>1
  <2> QED BY <2>1, <2>2 DEF fxVars
<1>3. ASSUME NEW s \in Scenes, ChangeNode(s) PROVE FxControl'
  BY <1>3 DEF ChangeNode, RequestNextPulse, fxVars, sceneVars
<1>4. ASSUME NEW s \in Scenes, Expose(s) PROVE FxControl'
  BY <1>4 DEF Expose, EntireSceneNeedsRepaint, SceneChanged, AddDirtyScene, RemoveDirtyScene, fxVars, sceneVars
<1>5. ASSUME NEW s \in Scenes, LiveRepaint(s) PROVE FxControl'
  BY <1>5 DEF LiveRepaint, BeginPulse, fxVars, sceneVars
<1>6. ASSUME NEW s \in Scenes, Snapshot(s) PROVE FxControl'
  BY <1>6 DEF Snapshot, fxVars, sceneVars
<1>7. ASSUME NEW set \in BOOLEAN, SetAnimationRunnable(set) PROVE FxControl'
  BY <1>7 DEF SetAnimationRunnable, fxVars, sceneVars
<1>8. ASSUME NEW s \in Scenes, RunPosted(s) PROVE FxControl'
  BY <1>8 DEF RunPosted, EntireSceneNeedsRepaint, SceneChanged, AddDirtyScene, RemoveDirtyScene, fxVars, sceneVars
<1>9. CASE RunPulse
  BY <1>9 DEF RunPulse, BeginPulse, fxVars, sceneVars
<1>10. ASSUME NEW s \in Scenes, VisitClean(s) PROVE FxControl'
  BY <1>10 DEF VisitClean, fxVars, sceneVars
<1>11. ASSUME NEW s \in Scenes, VisitDirty(s) PROVE FxControl'
  BY <1>11 DEF VisitDirty, fxVars, sceneVars
<1>12. ASSUME NEW s \in Scenes, Repaint(s) PROVE FxControl'
  BY <1>12 DEF Repaint, MayRepaint, fxVars, sceneVars
<1>13. CASE Awaited
  BY <1>13 DEF Awaited, fxVars, sceneVars
<1>14. CASE Synchronize
  BY <1>14 DEF Synchronize, SceneChanged, AddDirtyScene, RemoveDirtyScene, fxVars, sceneVars
<1>15. CASE FireDone
  BY <1>15 DEF FireDone, fxVars, sceneVars
<1>16. CASE NothingToRender
  BY <1>16 DEF NothingToRender, fxVars, sceneVars
<1>17. CASE BeginRender
  BY <1>17, <1>b, <1>c DEF BeginRender, fxVars, sceneVars
<1>18. CASE EndRender
  BY <1>18, <1>b, <1>c DEF EndRender, fxVars, sceneVars
<1>19. CASE Settled
  BY <1>19 DEF Settled, fxVars, sceneVars
<1>20. CASE EndPulse
  BY <1>20 DEF EndPulse, fxVars, sceneVars
<1>21. CASE Submit
  BY <1>21 DEF Submit, fxVars, sceneVars
<1>22. CASE JobDone
  BY <1>22 DEF JobDone, EntireSceneNeedsRepaint, SceneChanged, AddDirtyScene, RemoveDirtyScene, fxVars, sceneVars
<1>23. CASE RenderThread \/ Timer
  BY <1>23, RenderThreadKeeps
<1>24. CASE UNCHANGED <<vars, mode>>
  BY <1>24 DEF vars, fxVars, sceneVars, collectorVars
<1> QED
  BY <1>1, <1>2, <1>3, <1>4, <1>5, <1>6, <1>7, <1>8, <1>9, <1>10, <1>11, <1>12, <1>13, <1>14, <1>15, <1>16,
     <1>17, <1>18, <1>19, <1>20, <1>21, <1>22, <1>23, <1>24
     DEF Next, Events, RunAnyPosted, PulseSteps

(* The render thread holds the lock exactly while it paints. *)
LEMMA RtControlStep ==
    TypeOK /\ Control /\ [Next]_<<vars, mode>> => RtControl'
<1> SUFFICES ASSUME TypeOK, Control, [Next]_<<vars, mode>> PROVE RtControl'
  OBVIOUS
<1>a. /\ status \in [Scenes -> {"new", "live", "disposed"}]
      /\ queue \in Seq(Jobs) /\ job \in Jobs \cup {NoJob}
  BY DEF TypeOK
<1>b. \A s \in Scenes : status'[s] = "new" => status[s] = "new"
  BY StatusKeeps
<1>c. \A i \in 1..Len(queue) : queue[i] \in Jobs /\ queue[i].scene \in Scenes
  BY <1>a, JobFacts
<1>d. \A x \in Jobs : \A i \in 1..Len(Append(queue, x)) :
          Append(queue, x)[i] = x \/ (i \in 1..Len(queue) /\ Append(queue, x)[i] = queue[i])
  BY <1>a, AppendFacts
<1> USE DEF Control, RtControl
<1>1. ASSUME NEW s \in Scenes, Repaint(s) PROVE RtControl'
  <2>1. UNCHANGED <<rt, job, lock, status>>
    BY <1>1 DEF Repaint, sceneVars
  <2>2. PaintJob(s) \in Jobs /\ PaintJob(s).scene = s
    BY JobFacts DEF PaintJob, Kinds
  <2>3. CASE queue' = queue
    BY <2>1, <2>3
  <2>4. CASE s \in Live /\ queue' = Append(queue, PaintJob(s))
    <3>1. \A i \in 1..Len(queue') : queue'[i] = PaintJob(s)
                                   \/ (i \in 1..Len(queue) /\ queue'[i] = queue[i])
      BY <1>d, <2>2, <2>4
    <3> QED BY <2>1, <2>2, <2>4, <3>1 DEF Live
  <2> QED BY <1>1, <2>3, <2>4 DEF Repaint, MayRepaint, PaintJob
<1>2. CASE Submit
  <2> DEFINE j == [scene |-> target, kind |-> op]
  <2>1. UNCHANGED <<rt, job, lock, status>> /\ queue' = Append(queue, j)
    BY <1>2 DEF Submit, sceneVars
  <2>2. j \in Jobs /\ j.scene = target /\ target \in Live
    <3>1. target \in Live /\ op \in Kinds
      BY <1>2 DEF Submit, FxControl, TypeOK, Kinds
    <3> QED BY <3>1, JobFacts DEF Live
  <2> HIDE DEF j
  <2>3. \A i \in 1..Len(queue') : queue'[i] = j \/ (i \in 1..Len(queue) /\ queue'[i] = queue[i])
    BY <1>d, <2>1, <2>2
  <2> QED BY <2>1, <2>2, <2>3 DEF Live
<1>3. CASE StartPaint
  <2>1. /\ job' = Head(queue) /\ queue' = Tail(queue) /\ lock' = "painter"
        /\ rt' \in {"paint", "finish"} /\ status' = status
        /\ queue # <<>> /\ Paints(Head(queue))
    BY <1>3 DEF StartPaint, sceneVars
  <2>2. /\ Head(queue) = queue[1] /\ Head(queue) \in Jobs /\ 1 \in 1..Len(queue)
        /\ \A i \in 1..Len(queue') : queue'[i] = queue[i + 1] /\ i + 1 \in 1..Len(queue)
    BY <1>a, <2>1, TailFacts
  <2> QED BY <2>1, <2>2, JobFacts DEF Paints
<1>4. CASE RenderImage
  <2>1. queue' = Tail(queue) /\ queue # <<>> /\ UNCHANGED <<rt, job, lock, status>>
    BY <1>4 DEF RenderImage, sceneVars
  <2>2. \A i \in 1..Len(queue') : queue'[i] = queue[i + 1] /\ i + 1 \in 1..Len(queue)
    BY <1>a, <2>1, TailFacts
  <2> QED BY <2>1, <2>2
<1>5. CASE Paint
  BY <1>5, <1>a, <1>b, JobFacts DEF Paint, sceneVars
<1>6. CASE Present
  BY <1>6, <1>a, <1>b, JobFacts DEF Present, sceneVars
<1>7. CASE Drop
  BY <1>7, <1>a, <1>b, JobFacts DEF Drop, sceneVars
<1>8. CASE Fail
  BY <1>8, <1>a, <1>b, JobFacts DEF Fail, sceneVars
<1>9. CASE SurfaceLost
  BY <1>9, <1>a, <1>b, JobFacts DEF SurfaceLost, sceneVars
<1>10. CASE Finish
  BY <1>10, <1>a, <1>b, JobFacts DEF Finish, sceneVars
<1>11. CASE Hint
  BY <1>11, <1>a, <1>b, JobFacts DEF Hint, PostPulse, MayPostPulse, sceneVars
<1>12. CASE CountDown
  BY <1>12, <1>a, <1>b, JobFacts DEF CountDown, sceneVars
<1>13. CASE UNCHANGED <<queue, rt, job, lock, painting>>
  BY <1>13, <1>a, <1>b, <1>c, JobFacts
<1> QED
  BY <1>1, <1>2, <1>3, <1>4, <1>5, <1>6, <1>7, <1>8, <1>9, <1>10, <1>11, <1>12, <1>13, QueueKeeps
     DEF RenderThread

(* The dirty scenes are live ones, and hasDirty says whether there are any. *)
LEMMA DirtyControlStep ==
    TypeOK /\ Control /\ [Next]_<<vars, mode>> => DirtyControl'
<1> SUFFICES ASSUME TypeOK, Control, [Next]_<<vars, mode>> PROVE DirtyControl'
  OBVIOUS
<1>a. /\ status \in [Scenes -> {"new", "live", "disposed"}]
      /\ nodesDirty \in [Scenes -> BOOLEAN]
      /\ fx \in {"idle", "fire", "await", "lock", "render", "settle", "end", "submit", "job"}
      /\ hasDirty \in BOOLEAN
  BY DEF TypeOK
<1>b. \A s : IsFiniteSet(dirtyScenes \cup {s}) /\ IsFiniteSet(dirtyScenes \ {s})
  BY FS_AddElement, FS_RemoveElement DEF Control, DirtyControl
<1> USE <1>a, <1>b DEF Control, DirtyControl, Live
<1>1. ASSUME NEW s \in Scenes, Show(s) PROVE DirtyControl'
  BY <1>1 DEF Show, AddDirtyScene, fxVars, sceneVars, collectorVars
<1>2. ASSUME NEW s \in Scenes, Dispose(s) PROVE DirtyControl'
  BY <1>2 DEF Dispose, RemoveDirtyScene, fxVars, sceneVars, collectorVars
<1>3. ASSUME NEW s \in Scenes, ChangeNode(s) PROVE DirtyControl'
  BY <1>3 DEF ChangeNode, RequestNextPulse, fxVars, sceneVars, collectorVars
<1>4. ASSUME NEW s \in Scenes, Expose(s) PROVE DirtyControl'
  BY <1>4 DEF Expose, EntireSceneNeedsRepaint, SceneChanged, AddDirtyScene, RemoveDirtyScene, fxVars, sceneVars, collectorVars
<1>5. ASSUME NEW s \in Scenes, LiveRepaint(s) PROVE DirtyControl'
  BY <1>5 DEF LiveRepaint, BeginPulse, fxVars, sceneVars, collectorVars
<1>6. ASSUME NEW s \in Scenes, Snapshot(s) PROVE DirtyControl'
  BY <1>6 DEF Snapshot, fxVars, sceneVars, collectorVars
<1>7. ASSUME NEW set \in BOOLEAN, SetAnimationRunnable(set) PROVE DirtyControl'
  BY <1>7 DEF SetAnimationRunnable, fxVars, sceneVars, collectorVars
<1>8. ASSUME NEW s \in Scenes, RunPosted(s) PROVE DirtyControl'
  BY <1>8 DEF RunPosted, EntireSceneNeedsRepaint, SceneChanged, AddDirtyScene, RemoveDirtyScene, fxVars, sceneVars, collectorVars
<1>9. CASE RunPulse
  BY <1>9 DEF RunPulse, BeginPulse, fxVars, sceneVars, collectorVars
<1>10. ASSUME NEW s \in Scenes, VisitClean(s) PROVE DirtyControl'
  BY <1>10 DEF VisitClean, fxVars, sceneVars, collectorVars
<1>11. ASSUME NEW s \in Scenes, VisitDirty(s) PROVE DirtyControl'
  BY <1>11 DEF VisitDirty, fxVars, sceneVars, collectorVars
<1>12. ASSUME NEW s \in Scenes, Repaint(s) PROVE DirtyControl'
  BY <1>12 DEF Repaint, MayRepaint, fxVars, sceneVars, collectorVars
<1>13. CASE Awaited
  BY <1>13 DEF Awaited, fxVars, sceneVars, collectorVars
<1>14. CASE Synchronize
  <2>1. cur \in Live
    BY <1>14 DEF Synchronize, FxControl
  <2> QED BY <1>14, <2>1 DEF Synchronize, SceneChanged, AddDirtyScene
<1>15. CASE FireDone
  BY <1>15 DEF FireDone, fxVars, sceneVars, collectorVars
<1>16. CASE NothingToRender
  BY <1>16 DEF NothingToRender, fxVars, sceneVars, collectorVars
<1>17. CASE BeginRender
  BY <1>17 DEF BeginRender, fxVars, sceneVars, collectorVars
<1>18. CASE EndRender
  BY <1>18, FS_EmptySet DEF EndRender, sceneVars
<1>19. CASE Settled
  BY <1>19 DEF Settled, fxVars, sceneVars, collectorVars
<1>20. CASE EndPulse
  BY <1>20 DEF EndPulse, fxVars, sceneVars, collectorVars
<1>21. CASE Submit
  BY <1>21 DEF Submit, fxVars, sceneVars, collectorVars
<1>22. CASE JobDone
  BY <1>22 DEF JobDone, EntireSceneNeedsRepaint, SceneChanged, AddDirtyScene, RemoveDirtyScene, fxVars, sceneVars, collectorVars
<1>23. CASE RenderThread \/ Timer
  BY <1>23, RenderThreadKeeps
<1>24. CASE UNCHANGED <<vars, mode>>
  BY <1>24 DEF vars, fxVars, sceneVars, collectorVars
<1> QED
  BY <1>1, <1>2, <1>3, <1>4, <1>5, <1>6, <1>7, <1>8, <1>9, <1>10, <1>11, <1>12, <1>13, <1>14, <1>15, <1>16,
     <1>17, <1>18, <1>19, <1>20, <1>21, <1>22, <1>23, <1>24
     DEF Next, Events, RunAnyPosted, PulseSteps

(* The control invariants are inductive. *)
LEMMA ControlStep ==
    TypeOK /\ Control /\ [Next]_<<vars, mode>> => Control'
BY FxControlStep, RtControlStep, DirtyControlStep DEF Control

(* repaint() sets the flag of a scene with its job, and the painter clears *)
(* it before it is done with the job.                                      *)
LEMMA JobsOfPaintingStep ==
    TypeOK /\ Control /\ JobsOfPainting /\ [Next]_<<vars, mode>> => JobsOfPainting'
<1> SUFFICES ASSUME TypeOK, Control, JobsOfPainting, [Next]_<<vars, mode>>,
                    NEW t \in Scenes, painting'[t]
             PROVE  \/ \E i \in 1..Len(queue') : queue'[i] = PaintJob(t)
                    \/ job' = PaintJob(t) /\ rt' \in {"paint", "present", "finish"}
  BY DEF JobsOfPainting
<1> DEFINE Queued(q) == \E i \in 1..Len(q) : q[i] = PaintJob(t)
           Running(j, r) == j = PaintJob(t) /\ r \in {"paint", "present", "finish"}
           Goal == Queued(queue') \/ Running(job', rt')
<1>a. queue \in Seq(Jobs) /\ painting \in [Scenes -> BOOLEAN] /\ job \in Jobs \cup {NoJob}
  BY DEF TypeOK
<1>b. painting[t] => Queued(queue) \/ Running(job, rt)
  BY DEF JobsOfPainting
<1>c. \A x \in Jobs : Queued(queue) => Queued(Append(queue, x))
  BY <1>a, AppendFacts
<1>d. PaintJob(t) \in Jobs /\ PaintJob(t).scene = t /\ PaintJob(t).kind = "paint"
  BY JobFacts DEF PaintJob, Kinds
<1>e. ASSUME queue # <<>>, Queued(queue)
      PROVE  Head(queue) = PaintJob(t) \/ Queued(Tail(queue))
  <2>1. PICK i \in 1..Len(queue) : queue[i] = PaintJob(t)
    BY <1>e
  <2>2. CASE i = 1
    BY <1>a, <1>e, <2>1, <2>2, TailFacts
  <2>3. CASE i # 1
    <3>1. i - 1 \in 1..(Len(queue) - 1) /\ (i - 1) + 1 = i
      BY <1>a, <2>3, TailFacts
    <3>2. Tail(queue)[i - 1] = PaintJob(t) /\ i - 1 \in 1..Len(Tail(queue))
      BY <1>a, <1>e, <2>1, <3>1, TailFacts
    <3> QED BY <3>2
  <2> QED BY <2>2, <2>3
<1> SUFFICES Goal
  OBVIOUS
<1>1. CASE UNCHANGED <<queue, rt, job, lock, painting>>
  BY <1>1, <1>b
<1>2. ASSUME NEW s \in Scenes, Repaint(s) PROVE Goal
  <2>1. /\ UNCHANGED <<rt, job>>
        /\ painting' = painting \/ painting' = [painting EXCEPT ![s] = TRUE]
        /\ queue' = queue \/ queue' = Append(queue, PaintJob(s))
    BY <1>2 DEF Repaint, PaintJob
  <2>2. PaintJob(s) \in Jobs
    BY JobFacts DEF PaintJob, Kinds
  <2>3. CASE painting[t]
    BY <1>b, <1>c, <2>1, <2>2, <2>3
  <2>4. CASE ~painting[t]
    <3>1. t = s /\ queue' = Append(queue, PaintJob(t))
      BY <1>2, <1>a, <2>4 DEF Repaint, MayRepaint, PaintJob
    <3> QED BY <1>a, <1>d, <3>1, AppendFacts
  <2> QED BY <2>3, <2>4
<1>3. CASE Submit
  <2> DEFINE j == [scene |-> target, kind |-> op]
  <2>1. UNCHANGED <<rt, job, painting>> /\ queue' = Append(queue, j)
    BY <1>3 DEF Submit
  <2>2. j \in Jobs
    BY <1>3, JobFacts DEF Submit, Control, FxControl, Live, TypeOK, Kinds
  <2> QED BY <1>b, <1>c, <2>1, <2>2
<1>4. CASE StartPaint
  <2>1. /\ queue # <<>> /\ queue' = Tail(queue) /\ job' = Head(queue)
        /\ rt = "idle" /\ rt' \in {"paint", "finish"} /\ painting' = painting
    BY <1>4 DEF StartPaint
  <2> QED BY <1>b, <1>e, <2>1
<1>5. CASE RenderImage
  <2>1. /\ queue # <<>> /\ queue' = Tail(queue) /\ Head(queue) # PaintJob(t)
        /\ UNCHANGED <<job, rt, painting>>
    BY <1>5, <1>d DEF RenderImage, Paints
  <2> QED BY <1>b, <1>e, <2>1
<1>6. CASE Paint \/ Present \/ Drop \/ Fail \/ SurfaceLost
  <2>1. UNCHANGED <<queue, job, painting>> /\ rt' \in {"paint", "present", "finish"}
    BY <1>6 DEF Paint, Present, Drop, Fail, SurfaceLost
  <2> QED BY <1>b, <2>1
<1>7. CASE Finish
  <2>1. painting' = [painting EXCEPT ![job.scene] = FALSE] /\ queue' = queue
    BY <1>7 DEF Finish
  <2>2. painting[t] /\ job.scene # t
    BY <1>a, <2>1
  <2> QED BY <1>b, <1>d, <2>1, <2>2
<1>8. CASE Hint \/ CountDown
  <2>1. UNCHANGED <<queue, painting>> /\ rt \in {"hint", "count"}
    BY <1>8 DEF Hint, CountDown
  <2> QED BY <1>b, <2>1
<1> QED BY <1>1, <1>2, <1>3, <1>4, <1>5, <1>6, <1>7, <1>8, QueueKeeps DEF RenderThread

-----------------------------------------------------------------------------
(* Counting the paint jobs.                                                *)

PaintsIn(q) == {i \in 1..Len(q) : q[i].kind = "paint"}
Busy(j) == IF j # NoJob /\ j.kind = "paint" THEN 1 ELSE 0

(* The paint jobs in the queue can be counted. *)
LEMMA PaintsFinite ==
    ASSUME NEW q \in Seq(Jobs)
    PROVE  IsFiniteSet(PaintsIn(q)) /\ Cardinality(PaintsIn(q)) \in Nat
<1>1. Len(q) \in Nat
  OBVIOUS
<1>2. IsFiniteSet(1..Len(q))
  BY <1>1, FS_Interval
<1>3. PaintsIn(q) \in SUBSET (1..Len(q))
  BY DEF PaintsIn
<1> QED BY <1>2, <1>3, FS_Subset, FS_CardinalityType

(* What is to be counted is the painter's job and those in the queue. *)
LEMMA UncountedSum ==
    ASSUME TypeOK
    PROVE  /\ IsFiniteSet(PaintsIn(queue)) /\ Cardinality(PaintsIn(queue)) \in Nat
           /\ Uncounted = Cardinality(PaintsIn(queue)) + Busy(job)
           /\ Uncounted \in Nat
<1>3. IsFiniteSet(PaintsIn(queue)) /\ Cardinality(PaintsIn(queue)) \in Nat
  BY PaintsFinite DEF TypeOK
<1>4. Uncounted = Cardinality(PaintsIn(queue)) + Busy(job)
  BY DEF Uncounted, PaintsIn, Busy
<1> QED BY <1>3, <1>4 DEF Busy

(* Submitting a paint job adds one. *)
LEMMA CountAppend ==
    ASSUME NEW q \in Seq(Jobs), NEW j \in Jobs
    PROVE  Cardinality(PaintsIn(Append(q, j))) = Cardinality(PaintsIn(q)) + Busy(j)
<1>1. Len(q) \in Nat /\ Len(q) + 1 \notin 1..Len(q)
  OBVIOUS
<1>2. IsFiniteSet(PaintsIn(q)) /\ Len(q) + 1 \notin PaintsIn(q)
  <2>1. IsFiniteSet(1..Len(q))
    BY <1>1, FS_Interval
  <2>2. PaintsIn(q) \in SUBSET (1..Len(q))
    BY DEF PaintsIn
  <2> QED BY <1>1, <2>1, <2>2, FS_Subset
<1>3. PaintsIn(Append(q, j)) = PaintsIn(q) \cup (IF j.kind = "paint" THEN {Len(q) + 1} ELSE {})
  BY <1>1, AppendFacts DEF PaintsIn
<1>4. j # NoJob
  BY JobFacts
<1>5. CASE j.kind = "paint"
  BY <1>2, <1>3, <1>4, <1>5, FS_AddElement DEF Busy
<1>6. CASE j.kind # "paint"
  <2>1. PaintsIn(Append(q, j)) = PaintsIn(q) /\ Busy(j) = 0
    BY <1>3, <1>6 DEF Busy
  <2>2. Cardinality(PaintsIn(q)) \in Nat
    BY <1>2, FS_CardinalityType
  <2> QED BY <2>1, <2>2
<1> QED BY <1>5, <1>6

(* Taking a paint job from the queue leaves one less in it. *)
LEMMA CountTail ==
    ASSUME NEW q \in Seq(Jobs), q # <<>>
    PROVE  Cardinality(PaintsIn(q)) = Cardinality(PaintsIn(Tail(q))) + Busy(Head(q))
<1> DEFINE T == PaintsIn(Tail(q))
           D == PaintsIn(q) \ {1}
           f == [i \in T |-> i + 1]
<1>1. /\ Len(q) \in Nat /\ Len(q) >= 1 /\ Tail(q) \in Seq(Jobs) /\ Head(q) = q[1] /\ Head(q) \in Jobs
      /\ Len(Tail(q)) = Len(q) - 1
      /\ \A i \in 1..(Len(q) - 1) : Tail(q)[i] = q[i + 1]
  BY TailFacts
<1>2. IsFiniteSet(T) /\ IsFiniteSet(PaintsIn(q))
  <2>1. IsFiniteSet(1..Len(q)) /\ PaintsIn(q) \in SUBSET (1..Len(q)) /\ T \in SUBSET (1..Len(q))
    BY <1>1, FS_Interval DEF PaintsIn
  <2> QED BY <2>1, FS_Subset
<1>3. \A i \in T : i + 1 \in D /\ i \in Nat
  BY <1>1 DEF PaintsIn
<1>4. \A k \in D : k - 1 \in T /\ (k - 1) + 1 = k
  BY <1>1 DEF PaintsIn
<1>5. f \in Bijection(T, D)
  <2>1. f \in Injection(T, D)
    BY <1>3 DEF Injection, IsInjective
  <2>2. f \in Surjection(T, D)
    BY <1>3, <1>4 DEF Surjection
  <2> QED BY <2>1, <2>2 DEF Bijection
<1>6. Cardinality(D) = Cardinality(T) /\ Cardinality(T) \in Nat
  BY <1>2, <1>5, FS_Bijection, FS_CardinalityType DEF ExistsBijection
<1>7. 1 \in PaintsIn(q) <=> Busy(Head(q)) = 1
  BY <1>1, JobFacts DEF PaintsIn, Busy
<1>8. Cardinality(D) = IF 1 \in PaintsIn(q) THEN Cardinality(PaintsIn(q)) - 1 ELSE Cardinality(PaintsIn(q))
  BY <1>2, FS_RemoveElement
<1>9. Cardinality(PaintsIn(q)) \in Nat /\ Busy(Head(q)) \in {0, 1}
  BY <1>2, FS_CardinalityType DEF Busy
<1> QED BY <1>6, <1>7, <1>8, <1>9

(* Only repaint() adds to what will be counted down, and only done() takes *)
(* from it: starting and ending a job, or a job that is not a paint job,   *)
(* changes nothing.                                                        *)
LEMMA UncountedStep ==
    ASSUME TypeOK, Control, [Next]_<<vars, mode>>
    PROVE  /\ Uncounted \in Nat /\ Uncounted' \in Nat
           /\ \A s \in Scenes : Repaint(s) =>
                 Uncounted' = Uncounted + (IF MayRepaint(s) THEN 1 ELSE 0)
           /\ CountDown => Uncounted' = Uncounted - 1
           /\ ~CountDown /\ ~(\E s \in Scenes : Repaint(s)) => Uncounted' = Uncounted
<1> DEFINE n == Cardinality(PaintsIn(queue))
           b == Busy(job)
<1>a. n \in Nat /\ b \in {0, 1} /\ Uncounted = n + b
  BY UncountedSum DEF Busy
<1>b. Uncounted' \in Nat /\ Uncounted' = n' + b' /\ n' \in Nat /\ b' \in {0, 1}
  <2>1. queue' \in Seq(Jobs)
    BY TypeStep DEF TypeOK
  <2>2. n' \in Nat
    BY <2>1, PaintsFinite
  <2>3. Uncounted' = n' + b'
    BY DEF Uncounted, PaintsIn, Busy
  <2> QED BY <2>2, <2>3 DEF Busy
<1>c. queue \in Seq(Jobs) /\ job \in Jobs \cup {NoJob}
  BY DEF TypeOK
<1>d. queue' = queue => n' = n
  OBVIOUS
<1>e. job' = job => b' = b
  OBVIOUS
<1>f. Busy(NoJob) = 0
  BY DEF Busy
<1> HIDE DEF n, b
<1>1. ASSUME NEW s \in Scenes, Repaint(s)
      PROVE  Uncounted' = Uncounted + (IF MayRepaint(s) THEN 1 ELSE 0)
  <2>1. b' = b
    BY <1>1, <1>e DEF Repaint
  <2>2. CASE MayRepaint(s)
    <3>1. queue' = Append(queue, PaintJob(s))
      BY <1>1, <2>2 DEF Repaint, PaintJob
    <3>2. PaintJob(s) \in Jobs /\ Busy(PaintJob(s)) = 1
      BY JobFacts DEF PaintJob, Kinds, Busy
    <3>3. n' = n + 1
      BY <1>c, <3>1, <3>2, CountAppend DEF n
    <3> QED BY <1>a, <1>b, <2>1, <2>2, <3>3
  <2>3. CASE ~MayRepaint(s)
    <3>1. n' = n
      BY <1>1, <1>d, <2>3 DEF Repaint
    <3> QED BY <1>a, <1>b, <2>1, <2>3, <3>1
  <2> QED BY <2>2, <2>3
<1>2. ASSUME CountDown PROVE Uncounted' = Uncounted - 1
  <2>1. queue' = queue /\ job' = NoJob /\ rt = "count"
    BY <1>2 DEF CountDown
  <2>2. job # NoJob /\ job.kind = "paint"
    BY <2>1 DEF Control, RtControl
  <2>3. n' = n /\ b = 1 /\ b' = 0
    BY <1>d, <1>f, <2>1, <2>2 DEF b, Busy
  <2> QED BY <1>a, <1>b, <2>3
<1>3. ASSUME ~CountDown, ~(\E s \in Scenes : Repaint(s))
      PROVE  n' + b' = n + b
  <2>1. CASE UNCHANGED <<queue, rt, job, lock, painting>>
    BY <2>1, <1>d, <1>e
  <2>2. CASE Submit
    <3> DEFINE j == [scene |-> target, kind |-> op]
    <3>1. queue' = Append(queue, j) /\ job' = job
      BY <2>2 DEF Submit
    <3>2. j \in Jobs /\ Busy(j) = 0
      BY <2>2, JobFacts DEF Submit, Control, FxControl, Live, TypeOK, Kinds, Busy
    <3> HIDE DEF j
    <3>3. n' = n + 0
      BY <1>c, <3>1, <3>2, CountAppend DEF n
    <3> QED BY <1>a, <1>e, <3>1, <3>3
  <2>3. CASE StartPaint
    <3>1. /\ queue # <<>> /\ queue' = Tail(queue) /\ job' = Head(queue) /\ job = NoJob
      BY <2>3 DEF StartPaint, Control, RtControl
    <3>2. n = n' + Busy(Head(queue))
      BY <1>c, <3>1, CountTail DEF n
    <3>3. b = 0 /\ b' = Busy(Head(queue))
      BY <1>f, <3>1 DEF b
    <3> QED BY <1>a, <1>b, <3>2, <3>3
  <2>4. CASE RenderImage
    <3>1. /\ queue # <<>> /\ queue' = Tail(queue) /\ job' = job /\ Head(queue).kind # "paint"
      BY <2>4 DEF RenderImage, Paints
    <3>2. n = n' + Busy(Head(queue)) /\ Busy(Head(queue)) = 0
      BY <1>c, <3>1, CountTail DEF n, Busy
    <3> QED BY <1>a, <1>b, <1>e, <3>1, <3>2
  <2>5. CASE Paint \/ Present \/ Drop \/ Fail \/ SurfaceLost \/ Hint
    <3>1. queue' = queue /\ job' = job
      BY <2>5 DEF Paint, Present, Drop, Fail, SurfaceLost, Hint
    <3> QED BY <3>1, <1>d, <1>e
  <2>6. CASE Finish
    <3>1. queue' = queue /\ job' = IF job.kind = "paint" THEN job ELSE NoJob
      BY <2>6 DEF Finish
    <3>2. b' = b
      BY <3>1 DEF b, Busy
    <3> QED BY <1>d, <3>1, <3>2
  <2> QED
    BY <1>3, <2>1, <2>2, <2>3, <2>4, <2>5, <2>6, QueueKeeps DEF RenderThread
<1>4. Uncounted \in Nat /\ Uncounted' \in Nat
  BY <1>b, UncountedSum
<1>5. ASSUME ~CountDown, ~(\E s \in Scenes : Repaint(s)) PROVE Uncounted' = Uncounted
  BY <1>a, <1>b, <1>3, <1>5
<1> QED BY <1>1, <1>2, <1>4, <1>5

(* There are at least as many paint jobs to count as scenes being painted: *)
(* each of them has one of its own.                                        *)
LEMMA PaintingBound ==
    ASSUME TypeOK, Control, JobsOfPainting
    PROVE  LET P == {s \in Scenes : painting[s]}
           IN  IsFiniteSet(P) /\ Cardinality(P) <= Uncounted
<1> DEFINE P == {s \in Scenes : painting[s]}
           Q == PaintsIn(queue)
           T == IF Busy(job) = 1 THEN Q \cup {0} ELSE Q
           f == [s \in P |-> IF job = PaintJob(s) THEN 0
                             ELSE CHOOSE i \in 1..Len(queue) : queue[i] = PaintJob(s)]
<1>1. IsFiniteSet(Q) /\ Cardinality(Q) \in Nat /\ Uncounted = Cardinality(Q) + Busy(job)
  BY UncountedSum
<1>2. 0 \notin Q
  BY DEF PaintsIn, TypeOK
<1>3. IsFiniteSet(T) /\ Cardinality(T) = Uncounted
  <2>1. CASE Busy(job) = 1
    BY <1>1, <1>2, <2>1, FS_AddElement
  <2>2. CASE Busy(job) = 0
    BY <1>1, <2>2
  <2> QED BY <2>1, <2>2 DEF Busy
<1>4. \A s \in P : PaintJob(s).kind = "paint" /\ PaintJob(s).scene = s /\ PaintJob(s) # NoJob
  BY NoSceneAssumption DEF PaintJob, NoJob
<1>5. ASSUME NEW s \in P
      PROVE  \/ job = PaintJob(s) /\ f[s] = 0 /\ 0 \in T
             \/ f[s] \in Q /\ queue[f[s]] = PaintJob(s)
  <2>1. CASE job = PaintJob(s)
    BY <1>4, <2>1 DEF Busy
  <2>2. CASE job # PaintJob(s)
    <3>1. \E i \in 1..Len(queue) : queue[i] = PaintJob(s)
      BY <2>2 DEF JobsOfPainting
    <3>2. f[s] \in 1..Len(queue) /\ queue[f[s]] = PaintJob(s)
      BY <2>2, <3>1
    <3> QED BY <1>4, <3>2 DEF PaintsIn
  <2> QED BY <2>1, <2>2
<1>6. f \in [P -> T]
  <2>1. ASSUME NEW s \in P PROVE f[s] \in T
    <3> HIDE DEF f
    <3> QED BY <1>5
  <2> QED BY <2>1
<1>7. ASSUME NEW a \in P, NEW c \in P, f[a] = f[c] PROVE a = c
  <2>1. PaintJob(a) = PaintJob(c)
    BY <1>2, <1>5, <1>7
  <2> QED BY <1>4, <2>1
<1>8. f \in Injection(P, T)
  <2> HIDE DEF f
  <2> QED BY <1>6, <1>7 DEF Injection, IsInjective
<1> QED BY <1>3, <1>8, FS_Injection

-----------------------------------------------------------------------------
(* The latch.                                                              *)

(* The latch and the scenes of a renderAll() change in a few steps only. *)
LEMMA RenderAllSteps ==
    ASSUME TypeOK, Control, [Next]_<<vars, mode>>
    PROVE  \/ \E s \in Scenes : Repaint(s)
           \/ BeginRender \/ EndRender \/ CountDown
           \/ /\ latch' = latch
              /\ fx' = "render" <=> fx = "render"
              /\ fx = "render" => todo' = todo
              /\ painting' = painting \/ Finish
<1> DEFINE Keeps == /\ latch' = latch
                    /\ fx' = "render" <=> fx = "render"
                    /\ fx = "render" => todo' = todo
                    /\ painting' = painting \/ Finish
<1> SUFFICES ASSUME ~(\E s \in Scenes : Repaint(s)), ~BeginRender, ~EndRender, ~CountDown
             PROVE  Keeps
  OBVIOUS
<1>1. CASE Events
  BY <1>1 DEF Events, Show, Dispose, ChangeNode, Expose, LiveRepaint, Snapshot, BeginPulse,
              SetAnimationRunnable, fxVars, collectorVars
<1>2. CASE RunAnyPosted \/ RunPulse \/ Timer
  BY <1>2 DEF RunAnyPosted, RunPosted, RunPulse, BeginPulse, Timer, TimerReads, TimerPosts,
              fxVars, collectorVars
<1>3. CASE PulseSteps
  BY <1>3 DEF PulseSteps, VisitClean, VisitDirty, Awaited, Synchronize, FireDone,
              NothingToRender, Settled, EndPulse, Submit, JobDone, collectorVars
<1>4. CASE RenderThread
  BY <1>4, RenderThreadKeeps
  DEF RenderThread, StartPaint, RenderImage, Paint, Present, Drop, Fail, SurfaceLost, Finish, Hint,
      collectorVars
<1>5. CASE UNCHANGED <<vars, mode>>
  BY <1>5 DEF vars, fxVars, collectorVars
<1> QED BY <1>1, <1>2, <1>3, <1>4, <1>5 DEF Next

(* renderAll() sets the latch to as many scenes as are painted or will be, *)
(* so every one that repaint() passes over is counted by the job it has.   *)
LEMMA LatchBoundStep ==
    /\ TypeOK /\ Control /\ JobsOfPainting /\ LatchBound
    /\ [Next]_<<vars, mode>>
    => LatchBound'
<1> SUFFICES ASSUME TypeOK, Control, JobsOfPainting, LatchBound, [Next]_<<vars, mode>>
             PROVE  LatchBound'
  OBVIOUS
<1> DEFINE U == {s \in todo : ~painting[s]}
           u == Cardinality(U)
<1>a. /\ Uncounted \in Nat /\ Uncounted' \in Nat
      /\ latch \in Nat /\ latch <= Uncounted + ToSubmit
  BY UncountedStep DEF LatchBound, TypeOK
<1>b. Control' /\ TypeOK'
  BY ControlStep, TypeStep
<1>c. fx = "render" => IsFiniteSet(U) /\ u \in Nat
  <2>1. fx = "render" => IsFiniteSet(dirtyScenes) /\ U \in SUBSET dirtyScenes
    BY DEF Control, DirtyControl
  <2> QED BY <2>1, FS_Subset, FS_CardinalityType
<1>d. fx' = "render" => IsFiniteSet(U') /\ u' \in Nat
  <2>1. fx' = "render" => IsFiniteSet(dirtyScenes') /\ U' \in SUBSET dirtyScenes'
    BY <1>b DEF Control, DirtyControl
  <2> QED BY <2>1, FS_Subset, FS_CardinalityType
<1>e. /\ ToSubmit = IF fx = "render" THEN u ELSE 0
      /\ ToSubmit' = IF fx' = "render" THEN u' ELSE 0
  BY DEF ToSubmit
<1>f. painting \in [Scenes -> BOOLEAN] /\ todo \subseteq Live /\ Live \subseteq Scenes
  BY DEF TypeOK, Control, FxControl, Live
<1> SUFFICES latch' <= Uncounted' + ToSubmit'
  BY DEF LatchBound
<1> HIDE DEF u
<1>1. ASSUME NEW s \in Scenes, Repaint(s) PROVE latch' <= Uncounted' + ToSubmit'
  <2>1. /\ fx = "render" /\ fx' = fx /\ latch' = latch /\ s \in todo /\ s \in Live
        /\ todo' = todo \ {s} /\ painting' = [painting EXCEPT ![s] = TRUE]
    BY <1>1, <1>f DEF Repaint
  <2>2. Uncounted' = Uncounted + (IF MayRepaint(s) THEN 1 ELSE 0)
    BY <1>1, UncountedStep
  <2>3. U' = U \ {s}
    BY <1>f, <2>1
  <2>4. CASE painting[s]
    <3>1. U' = U /\ ~MayRepaint(s)
      BY <2>3, <2>4 DEF MayRepaint
    <3>2. u' = u
      BY <3>1 DEF u
    <3> QED BY <1>a, <1>c, <1>e, <2>1, <2>2, <3>1, <3>2
  <2>5. CASE ~painting[s]
    <3>1. s \in U /\ MayRepaint(s)
      BY <2>1, <2>5 DEF MayRepaint
    <3>2. u' = u - 1
      BY <1>c, <2>1, <2>3, <3>1, FS_RemoveElement DEF u
    <3> QED BY <1>a, <1>c, <1>e, <2>1, <2>2, <3>1, <3>2
  <2> QED BY <2>4, <2>5
<1>2. CASE BeginRender
  <2> DEFINE P == {s \in Scenes : painting[s]}
             D == dirtyScenes \cap P
  <2>1. /\ fx' = "render" /\ todo' = dirtyScenes /\ latch' = Cardinality(dirtyScenes)
        /\ painting' = painting /\ IsFiniteSet(dirtyScenes) /\ dirtyScenes \subseteq Scenes
    BY <1>2 DEF BeginRender, Control, DirtyControl, Live
  <2>2. Uncounted' = Uncounted
    <3>1. ~CountDown /\ ~(\E s \in Scenes : Repaint(s))
      BY <2>1, <1>2 DEF CountDown, Repaint, BeginRender, fxVars
    <3> QED BY <3>1, UncountedStep
  <2>3. IsFiniteSet(D) /\ Cardinality(D) \in Nat /\ Cardinality(D) <= Uncounted
    <3>1. IsFiniteSet(P) /\ Cardinality(P) <= Uncounted
      BY PaintingBound
    <3>2. D \in SUBSET P
      OBVIOUS
    <3>3. IsFiniteSet(D) /\ Cardinality(D) <= Cardinality(P)
      BY <3>1, <3>2, FS_Subset
    <3> QED BY <1>a, <3>1, <3>3, FS_CardinalityType
  <2>4. dirtyScenes = D \cup U' /\ D \cap U' = {}
    BY <1>f, <2>1
  <2>5. Cardinality(dirtyScenes) = Cardinality(D) + u'
    <3>1. IsFiniteSet(U') /\ u' = Cardinality(U') /\ u' \in Nat
      BY <1>d, <2>1 DEF u
    <3> HIDE DEF D, U
    <3>2. Cardinality(D \cup U') = Cardinality(D) + Cardinality(U') - Cardinality(D \cap U')
      BY <2>3, <3>1, FS_Union
    <3>3. Cardinality(D \cap U') = 0
      BY <2>4, FS_EmptySet
    <3> QED BY <2>3, <2>4, <3>1, <3>2, <3>3
  <2> QED BY <1>a, <1>d, <1>e, <2>1, <2>2, <2>3, <2>5
<1>3. CASE EndRender
  <2>1. fx = "render" /\ fx' # "render" /\ latch' = latch /\ todo = {}
    BY <1>3 DEF EndRender, collectorVars
  <2>2. u = 0
    <3>1. U = {}
      BY <2>1
    <3> QED BY <3>1, FS_EmptySet DEF u
  <2>3. Uncounted' = Uncounted
    <3>1. ~CountDown /\ ~(\E s \in Scenes : Repaint(s))
      BY <2>1 DEF CountDown, Repaint, fxVars
    <3> QED BY <3>1, UncountedStep
  <2> QED BY <1>a, <1>e, <2>1, <2>2, <2>3
<1>4. CASE CountDown
  <2>1. /\ latch' = IF latch > 0 THEN latch - 1 ELSE 0
        /\ fx' = fx /\ todo' = todo /\ painting' = painting
    BY <1>4 DEF CountDown, fxVars
  <2>2. Uncounted' = Uncounted - 1
    BY <1>4, UncountedStep
  <2>3. u' = u
    BY <2>1 DEF u
  <2> QED BY <1>a, <1>c, <1>d, <1>e, <2>1, <2>2, <2>3
<1>5. ASSUME /\ latch' = latch
             /\ fx' = "render" <=> fx = "render"
             /\ fx = "render" => todo' = todo
             /\ painting' = painting \/ Finish,
             ~CountDown, ~(\E s \in Scenes : Repaint(s))
      PROVE  latch' <= Uncounted' + ToSubmit'
  <2>1. Uncounted' = Uncounted
    BY <1>5, UncountedStep
  <2>2. fx = "render" => U \subseteq U'
    BY <1>5, <1>f DEF Finish
  <2>3. fx = "render" => u <= u'
    BY <1>5, <1>d, <2>2, FS_Subset DEF u
  <2> QED BY <1>a, <1>c, <1>d, <1>e, <1>5, <2>1, <2>3
<1> QED BY <1>1, <1>2, <1>3, <1>4, <1>5, RenderAllSteps

(* What LatchBound counts is no more than what LatchReachesZero does. *)
LEMMA LatchBoundImplies ==
    TypeOK /\ Control /\ LatchBound => LatchReachesZero
<1> SUFFICES ASSUME TypeOK, Control, LatchBound, fx = "render" PROVE LatchReachesZero
  BY DEF LatchReachesZero, LatchBound, ToSubmit, Unsubmitted
<1> DEFINE U == {s \in todo : ~painting[s]}
<1>1. IsFiniteSet(dirtyScenes) /\ todo \in SUBSET dirtyScenes /\ U \in SUBSET todo
  BY DEF Control, DirtyControl
<1>2. IsFiniteSet(todo) /\ IsFiniteSet(U) /\ Cardinality(U) <= Cardinality(todo)
  BY <1>1, FS_Subset
<1>3. Cardinality(U) \in Nat /\ Cardinality(todo) \in Nat /\ Uncounted \in Nat
  BY <1>2, FS_CardinalityType, UncountedSum
<1>4. latch \in Nat /\ latch <= Uncounted + Cardinality(U)
  BY DEF LatchBound, ToSubmit, TypeOK
<1>5. latch <= Uncounted + Cardinality(todo)
  BY <1>2, <1>3, <1>4
<1> QED BY <1>5 DEF LatchReachesZero, Unsubmitted

-----------------------------------------------------------------------------
(* One pulse at a time.                                                    *)

(* The JavaFX thread runs a pulse from its queue. *)
InPulse == IF fx # "idle" /\ op = "pulse" THEN 1 ELSE 0

(* postPulse() and the end of a pulse keep pulseRunning in step with the   *)
(* pulses in the queue and under way.                                      *)
LEMMA PulseCountStep ==
    TypeOK /\ Control /\ PulseCount /\ [Next]_<<vars, mode>> => PulseCount'
<1> SUFFICES ASSUME TypeOK, Control, PulseCount, [Next]_<<vars, mode>> PROVE PulseCount'
  OBVIOUS
<1>a. /\ pulses \in Nat /\ pulseRunning \in BOOLEAN
      /\ pulses + InPulse = IF pulseRunning THEN 1 ELSE 0
  BY DEF TypeOK, PulseCount, InPulse
<1>b. /\ fx \in {"render", "settle", "end"} => op = "pulse"
      /\ fx \in {"submit", "job"} => op # "pulse"
  BY DEF Control, FxControl
<1> SUFFICES pulses' + InPulse' = IF pulseRunning' THEN 1 ELSE 0
  BY DEF PulseCount, InPulse
<1>1. CASE RunPulse
  <2>1. pulses' = pulses - 1 /\ pulseRunning' = pulseRunning
    BY <1>1 DEF RunPulse
  <2>2. InPulse = 0 /\ InPulse' = 1
    BY <1>1 DEF RunPulse, BeginPulse, InPulse
  <2> QED BY <1>a, <2>1, <2>2
<1>2. CASE EndPulse
  <2>1. pulses' = pulses /\ pulseRunning' = FALSE
    BY <1>2 DEF EndPulse
  <2>2. InPulse = 1 /\ InPulse' = 0
    BY <1>2, <1>b DEF EndPulse, InPulse
  <2> QED BY <1>a, <2>1, <2>2
<1>3. CASE PostPulse /\ UNCHANGED fxVars
  <2>1. InPulse' = InPulse /\ InPulse \in {0, 1}
    BY <1>3 DEF fxVars, InPulse
  <2>2. pulseRunning' = TRUE /\ pulses' = IF ~pulseRunning THEN pulses + 1 ELSE pulses
    BY <1>3 DEF PostPulse, MayPostPulse
  <2> QED BY <1>a, <2>1, <2>2
<1>4. CASE UNCHANGED <<pulses, pulseRunning>> /\ InPulse' = InPulse
  BY <1>a, <1>4
<1>5. \/ RunPulse \/ EndPulse
      \/ PostPulse /\ UNCHANGED fxVars
      \/ UNCHANGED <<pulses, pulseRunning>> /\ InPulse' = InPulse
  <2>1. CASE Events
    BY <2>1 DEF Events, Show, Dispose, ChangeNode, Expose, LiveRepaint, Snapshot, BeginPulse,
                SetAnimationRunnable, fxVars, pulseVars, InPulse
  <2>2. CASE RunAnyPosted \/ RunPulse
    BY <2>2 DEF RunAnyPosted, RunPosted, fxVars, pulseVars, InPulse
  <2>3. CASE PulseSteps
    BY <2>3, <1>b DEF PulseSteps, VisitClean, VisitDirty, Repaint, Awaited, Synchronize, FireDone,
                      NothingToRender, BeginRender, EndRender, Settled, Submit, JobDone,
                      pulseVars, InPulse
  <2>4. CASE RenderThread \/ Timer
    <3>1. \/ UNCHANGED <<pulses, pulseRunning>>
          \/ PostPulse /\ UNCHANGED fxVars
      BY <2>4
      DEF RenderThread, StartPaint, RenderImage, Paint, Present, Drop, Fail, SurfaceLost, Finish,
          Hint, CountDown, Timer, TimerReads, TimerPosts, pulseVars
    <3>2. InPulse' = InPulse
      BY <2>4, RenderThreadKeeps DEF InPulse
    <3> QED BY <3>1, <3>2
  <2>5. CASE UNCHANGED <<vars, mode>>
    BY <2>5 DEF vars, fxVars, pulseVars, InPulse
  <2> QED BY <2>1, <2>2, <2>3, <2>4, <2>5 DEF Next
<1> QED BY <1>1, <1>2, <1>3, <1>4, <1>5

-----------------------------------------------------------------------------
(* A pulse that has waited for the latch finds no paint job.               *)

(* While there are paint jobs, the scenes that are dirty are those that    *)
(* a pulse has yet to visit.                                               *)
DirtyIsNew ==
    \A s \in dirtyScenes : nodesDirty[s] /\ (Firing => s \in todo \cup {cur})

(* No step but renderAll() makes a scene dirty without a pulse to visit it. *)
LEMMA DirtyIsNewStep ==
    ASSUME TypeOK, Control, [Next]_<<vars, mode>>, Quiet, DirtyIsNew,
           fx # "render", fx # "lock", Uncounted > 0, ~BeginRender
    PROVE  DirtyIsNew'
<1>a. /\ status \in [Scenes -> {"new", "live", "disposed"}]
      /\ nodesDirty \in [Scenes -> BOOLEAN]
      /\ NoScene \notin Scenes
  BY NoSceneAssumption DEF TypeOK
<1>b. /\ cur # NoScene <=> fx \in {"await", "lock"}
      /\ dirtyScenes \subseteq Live
      /\ \A s \in Scenes : status[s] = "new" => nodesDirty[s]
  BY DEF Control, FxControl, DirtyControl
<1> USE <1>a, <1>b DEF DirtyIsNew, Firing, Live
<1>1. ASSUME NEW s \in Scenes, Show(s) PROVE DirtyIsNew'
  BY <1>1 DEF Show, AddDirtyScene, fxVars, sceneVars, collectorVars
<1>2. ASSUME NEW s \in Scenes, Dispose(s) PROVE DirtyIsNew'
  BY <1>2 DEF Dispose, RemoveDirtyScene, fxVars, sceneVars, collectorVars
<1>3. ASSUME NEW s \in Scenes, ChangeNode(s) PROVE DirtyIsNew'
  BY <1>3 DEF ChangeNode, RequestNextPulse, fxVars, sceneVars, collectorVars
<1>4. ASSUME NEW s \in Scenes, Expose(s) PROVE DirtyIsNew'
  BY <1>4 DEF Expose, Quiet
<1>5. ASSUME NEW s \in Scenes, LiveRepaint(s) PROVE DirtyIsNew'
  BY <1>5 DEF LiveRepaint, BeginPulse, fxVars, sceneVars, collectorVars
<1>6. ASSUME NEW s \in Scenes, Snapshot(s) PROVE DirtyIsNew'
  BY <1>6 DEF Snapshot, fxVars, sceneVars, collectorVars
<1>7. ASSUME NEW set \in BOOLEAN, SetAnimationRunnable(set) PROVE DirtyIsNew'
  BY <1>7 DEF SetAnimationRunnable, fxVars, sceneVars, collectorVars
<1>8. ASSUME NEW s \in Scenes, RunPosted(s) PROVE DirtyIsNew'
  BY <1>8 DEF RunPosted, Quiet, TypeOK
<1>9. CASE RunPulse
  BY <1>9 DEF RunPulse, BeginPulse, fxVars, sceneVars, collectorVars
<1>10. ASSUME NEW s \in Scenes, VisitClean(s) PROVE DirtyIsNew'
  BY <1>10 DEF VisitClean, fxVars, sceneVars, collectorVars
<1>11. ASSUME NEW s \in Scenes, VisitDirty(s) PROVE DirtyIsNew'
  BY <1>11 DEF VisitDirty, fxVars, sceneVars, collectorVars
<1>12. ASSUME NEW s \in Scenes, Repaint(s) PROVE DirtyIsNew'
  BY <1>12 DEF Repaint
<1>13. CASE Awaited
  BY <1>13 DEF Awaited, fxVars, sceneVars, collectorVars
<1>14. CASE Synchronize
  BY <1>14 DEF Synchronize
<1>15. CASE FireDone
  BY <1>15 DEF FireDone, fxVars, sceneVars, collectorVars
<1>16. CASE NothingToRender
  BY <1>16 DEF NothingToRender, fxVars, sceneVars, collectorVars
<1>17. CASE BeginRender
  BY <1>17
<1>18. CASE EndRender
  BY <1>18 DEF EndRender
<1>19. CASE Settled
  BY <1>19 DEF Settled, fxVars, sceneVars, collectorVars
<1>20. CASE EndPulse
  BY <1>20 DEF EndPulse, fxVars, sceneVars, collectorVars
<1>21. CASE Submit
  BY <1>21 DEF Submit, fxVars, sceneVars, collectorVars
<1>22. CASE JobDone
  <2>1. queue = <<>> /\ job = NoJob
    BY <1>22 DEF JobDone, Control, RtControl
  <2>2. PaintsIn(queue) = {} /\ Busy(job) = 0
    BY <2>1 DEF PaintsIn, Busy
  <2>3. Uncounted = 0
    BY <2>2, UncountedSum, FS_EmptySet
  <2> QED BY <2>3
<1>23. CASE RenderThread \/ Timer
  BY <1>23, RenderThreadKeeps
<1>24. CASE UNCHANGED <<vars, mode>>
  BY <1>24 DEF vars, fxVars, sceneVars, collectorVars
<1> QED
  BY <1>1, <1>2, <1>3, <1>4, <1>5, <1>6, <1>7, <1>8, <1>9, <1>10, <1>11, <1>12, <1>13, <1>14, <1>15, <1>16,
     <1>17, <1>18, <1>19, <1>20, <1>21, <1>22, <1>23, <1>24
     DEF Next, Events, RunAnyPosted, PulseSteps

(* Where repaints come from pulses only, renderAll() begins when all paint *)
(* jobs are counted: the dirty scenes were visited, and the pulse waited.  *)
LEMMA LatchExactStep ==
    TypeOK /\ Control /\ LatchExact /\ [Next]_<<vars, mode>> => LatchExact'
<1> SUFFICES ASSUME TypeOK, Control, LatchExact, [Next]_<<vars, mode>> PROVE LatchExact'
  OBVIOUS
<1>m. mode' = mode
  BY DEF Next
<1> SUFFICES ASSUME Quiet
             PROVE  /\ (Uncounted + Unsubmitted <= latch)'
                    /\ (fx # "render" /\ Uncounted > 0 => DirtyIsNew)'
                    /\ (fx = "lock" => Uncounted = 0)'
  BY <1>m DEF LatchExact, DirtyIsNew, Quiet
<1> DEFINE w == Cardinality(todo)
<1>a. /\ Uncounted \in Nat /\ Uncounted' \in Nat /\ latch \in Nat
      /\ Uncounted + Unsubmitted <= latch
      /\ fx # "render" /\ Uncounted > 0 => DirtyIsNew
      /\ fx = "lock" => Uncounted = 0
  BY UncountedStep DEF LatchExact, DirtyIsNew, TypeOK
<1>b. /\ Unsubmitted = IF fx = "render" THEN w ELSE 0
      /\ Unsubmitted' = IF fx' = "render" THEN w' ELSE 0
  BY DEF Unsubmitted
<1>c. fx = "render" => IsFiniteSet(todo) /\ w \in Nat
  <2>1. fx = "render" => IsFiniteSet(dirtyScenes) /\ todo \in SUBSET dirtyScenes
    BY DEF Control, DirtyControl
  <2> QED BY <2>1, FS_Subset, FS_CardinalityType
<1> HIDE DEF w
<1>1. ASSUME NEW s \in Scenes, Repaint(s)
      PROVE  Uncounted' + Unsubmitted' <= latch' /\ fx' = "render"
  <2>1. fx = "render" /\ fx' = fx /\ latch' = latch /\ s \in todo /\ todo' = todo \ {s}
    BY <1>1 DEF Repaint
  <2>2. Uncounted' = Uncounted + (IF MayRepaint(s) THEN 1 ELSE 0)
    BY <1>1, UncountedStep
  <2>3. w' = w - 1
    BY <1>c, <2>1, FS_RemoveElement DEF w
  <2> QED BY <1>a, <1>b, <1>c, <2>1, <2>2, <2>3
<1>2. ASSUME BeginRender
      PROVE  Uncounted' + Unsubmitted' <= latch' /\ fx' = "render"
  <2>1. /\ fx = "fire" /\ op = "pulse" /\ todo = {} /\ hasDirty
        /\ fx' = "render" /\ todo' = dirtyScenes /\ latch' = Cardinality(dirtyScenes)
    BY <1>2 DEF BeginRender
  <2>2. Uncounted = 0
    <3>1. PICK s \in dirtyScenes : TRUE
      BY <2>1 DEF Control, DirtyControl
    <3>2. s \in Scenes /\ cur = NoScene
      BY <2>1 DEF Control, FxControl, DirtyControl, Live
    <3>3. ~DirtyIsNew
      BY <2>1, <3>2, NoSceneAssumption DEF DirtyIsNew, Firing
    <3> QED BY <1>a, <2>1, <3>3
  <2>3. Uncounted' = Uncounted
    <3>1. ~CountDown /\ ~(\E s \in Scenes : Repaint(s))
      BY <2>1 DEF CountDown, Repaint, fxVars
    <3> QED BY <3>1, UncountedStep
  <2>4. w' = latch' /\ latch' \in Nat
    BY <2>1, FS_CardinalityType DEF w, Control, DirtyControl
  <2> QED BY <1>b, <2>1, <2>2, <2>3, <2>4
<1>3. ASSUME EndRender
      PROVE  Uncounted' = Uncounted /\ Unsubmitted' = 0 /\ Unsubmitted = 0 /\ latch' = latch
             /\ DirtyIsNew' /\ fx' # "lock"
  <2>1. /\ fx = "render" /\ fx' \in {"end", "settle"} /\ latch' = latch /\ todo = {}
        /\ dirtyScenes' = {}
    BY <1>3 DEF EndRender
  <2>2. w = 0
    BY <2>1, FS_EmptySet DEF w
  <2>3. Uncounted' = Uncounted
    <3>1. ~CountDown /\ ~(\E s \in Scenes : Repaint(s))
      BY <2>1 DEF CountDown, Repaint, fxVars
    <3> QED BY <3>1, UncountedStep
  <2> QED BY <1>b, <2>1, <2>2, <2>3 DEF DirtyIsNew
<1>4. ASSUME CountDown
      PROVE  /\ Uncounted' + Unsubmitted' <= latch'
             /\ fx' = fx /\ fx # "lock" /\ Uncounted > 0
  <2>1. /\ latch' = (IF latch > 0 THEN latch - 1 ELSE 0)
        /\ fx' = fx /\ todo' = todo
    BY <1>4 DEF CountDown, fxVars
  <2>2. Uncounted' = Uncounted - 1
    BY <1>4, UncountedStep
  <2>3. w' = w
    BY <2>1 DEF w
  <2> QED BY <1>a, <1>b, <1>c, <2>1, <2>2, <2>3
<1>5. ASSUME /\ latch' = latch
             /\ fx' = "render" <=> fx = "render"
             /\ fx = "render" => todo' = todo
             /\ painting' = painting \/ Finish,
             ~CountDown, ~(\E s \in Scenes : Repaint(s))
      PROVE  Uncounted' = Uncounted /\ Unsubmitted' = Unsubmitted
  <2>1. Uncounted' = Uncounted
    BY <1>5, UncountedStep
  <2>2. fx = "render" => w' = w
    BY <1>5 DEF w
  <2> QED BY <1>5, <1>b, <2>1, <2>2
<1>6. (Uncounted + Unsubmitted <= latch)'
  BY <1>a, <1>1, <1>2, <1>3, <1>4, <1>5, RenderAllSteps
<1>7. (fx # "render" /\ Uncounted > 0 => DirtyIsNew)'
  <2> SUFFICES ASSUME fx' # "render", Uncounted' > 0 PROVE DirtyIsNew'
    OBVIOUS
  <2>1. CASE EndRender
    BY <1>3, <2>1
  <2>2. CASE ~EndRender
    <3>1. fx # "render" /\ ~BeginRender /\ Uncounted > 0
      BY <1>1, <1>2, <1>4, <1>5, <2>2, RenderAllSteps
    <3>2. fx # "lock"
      BY <1>a, <3>1
    <3> QED BY <1>a, <3>1, <3>2, DirtyIsNewStep
  <2> QED BY <2>1, <2>2
<1>8. (fx = "lock" => Uncounted = 0)'
  <2> SUFFICES ASSUME fx' = "lock" PROVE Uncounted' = 0
    OBVIOUS
  <2>1. fx = "lock" \/ (fx # "render" /\ latch = 0)
    <3>1. CASE fx' = fx
      BY <3>1
    <3>2. CASE fx' # fx
      BY <3>2, RenderThreadKeeps
      DEF Next, Events, Show, Dispose, ChangeNode, Expose, LiveRepaint, Snapshot, BeginPulse,
          SetAnimationRunnable, RunAnyPosted, RunPosted, RunPulse,
          PulseSteps, VisitClean, VisitDirty, Repaint, Awaited, Synchronize, FireDone,
          NothingToRender, BeginRender, EndRender, Settled, EndPulse, Submit, JobDone, fxVars, vars
    <3> QED BY <3>1, <3>2
  <2>2. Uncounted = 0
    BY <1>a, <1>b, <2>1
  <2>3. Uncounted' = Uncounted
    BY <1>1, <1>2, <1>3, <1>4, <1>5, <2>2, RenderAllSteps
  <2> QED BY <2>2, <2>3
<1> QED BY <1>6, <1>7, <1>8

-----------------------------------------------------------------------------
(* Changes are synchronized.                                               *)

(* No step forgets a changed node: a pulse that takes back the request     *)
(* for the next one has all live scenes to visit.                          *)
LEMMA SyncPendingStep ==
    TypeOK /\ Control /\ SyncPending /\ [Next]_<<vars, mode>> => SyncPending'
<1> SUFFICES ASSUME TypeOK, Control, SyncPending, [Next]_<<vars, mode>> PROVE SyncPending'
  OBVIOUS
<1>a. /\ status \in [Scenes -> {"new", "live", "disposed"}]
      /\ nodesDirty \in [Scenes -> BOOLEAN]
  BY DEF TypeOK
<1>b. /\ cur # NoScene <=> fx \in {"await", "lock"}
      /\ fx \notin {"fire", "await", "lock", "render"} => todo = {}
      /\ fx # "idle" /\ op = "snapshot" => todo = {} /\ fx \in {"await", "lock", "submit", "job"}
      /\ dirtyScenes \subseteq Live /\ cur \in Live \cup {NoScene}
      /\ fx \in {"render", "settle", "end"} => op = "pulse"
      /\ NoScene \notin Scenes
  BY NoSceneAssumption DEF Control, FxControl, DirtyControl
<1> USE <1>a, <1>b DEF SyncPending, Resting, Firing, Live
<1>1. ASSUME NEW s \in Scenes, Show(s) PROVE SyncPending'
  BY <1>1 DEF Show, AddDirtyScene, fxVars, sceneVars, pulseVars, collectorVars
<1>2. ASSUME NEW s \in Scenes, Dispose(s) PROVE SyncPending'
  BY <1>2 DEF Dispose, RemoveDirtyScene, fxVars, sceneVars, pulseVars, collectorVars
<1>3. ASSUME NEW s \in Scenes, ChangeNode(s) PROVE SyncPending'
  BY <1>3 DEF ChangeNode, RequestNextPulse, fxVars, sceneVars, pulseVars, collectorVars
<1>4. ASSUME NEW s \in Scenes, Expose(s) PROVE SyncPending'
  BY <1>4 DEF Expose, EntireSceneNeedsRepaint, SceneChanged, AddDirtyScene, RemoveDirtyScene, fxVars, sceneVars, pulseVars, collectorVars
<1>5. ASSUME NEW s \in Scenes, LiveRepaint(s) PROVE SyncPending'
  BY <1>5 DEF LiveRepaint, BeginPulse, fxVars, sceneVars, pulseVars, collectorVars
<1>6. ASSUME NEW s \in Scenes, Snapshot(s) PROVE SyncPending'
  BY <1>6 DEF Snapshot, fxVars, sceneVars, pulseVars, collectorVars
<1>7. ASSUME NEW set \in BOOLEAN, SetAnimationRunnable(set) PROVE SyncPending'
  BY <1>7 DEF SetAnimationRunnable, fxVars, sceneVars, pulseVars, collectorVars
<1>8. ASSUME NEW s \in Scenes, RunPosted(s) PROVE SyncPending'
  BY <1>8 DEF RunPosted, EntireSceneNeedsRepaint, SceneChanged, AddDirtyScene, RemoveDirtyScene, fxVars, sceneVars, pulseVars, collectorVars
<1>9. CASE RunPulse
  BY <1>9 DEF RunPulse, BeginPulse, fxVars, sceneVars, pulseVars, collectorVars
<1>10. ASSUME NEW s \in Scenes, VisitClean(s) PROVE SyncPending'
  BY <1>10 DEF VisitClean, fxVars, sceneVars, pulseVars, collectorVars
<1>11. ASSUME NEW s \in Scenes, VisitDirty(s) PROVE SyncPending'
  BY <1>11 DEF VisitDirty, fxVars, sceneVars, pulseVars, collectorVars
<1>12. ASSUME NEW s \in Scenes, Repaint(s) PROVE SyncPending'
  BY <1>12 DEF Repaint, MayRepaint, fxVars, sceneVars, pulseVars, collectorVars
<1>13. CASE Awaited
  BY <1>13 DEF Awaited, fxVars, sceneVars, pulseVars, collectorVars
<1>14. CASE Synchronize
  BY <1>14 DEF Synchronize, SceneChanged, AddDirtyScene, RemoveDirtyScene, fxVars, sceneVars, pulseVars, collectorVars
<1>15. CASE FireDone
  BY <1>15 DEF FireDone, fxVars, sceneVars, pulseVars, collectorVars
<1>16. CASE NothingToRender
  BY <1>16 DEF NothingToRender, fxVars, sceneVars, pulseVars, collectorVars
<1>17. CASE BeginRender
  BY <1>17 DEF BeginRender, fxVars, sceneVars, pulseVars, collectorVars
<1>18. CASE EndRender
  BY <1>18 DEF EndRender, fxVars, sceneVars, pulseVars, collectorVars
<1>19. CASE Settled
  BY <1>19 DEF Settled, fxVars, sceneVars, pulseVars, collectorVars
<1>20. CASE EndPulse
  BY <1>20 DEF EndPulse, fxVars, sceneVars, pulseVars, collectorVars
<1>21. CASE Submit
  BY <1>21 DEF Submit, fxVars, sceneVars, pulseVars, collectorVars
<1>22. CASE JobDone
  BY <1>22 DEF JobDone, EntireSceneNeedsRepaint, SceneChanged, AddDirtyScene, RemoveDirtyScene, fxVars, sceneVars, pulseVars, collectorVars
<1>23. CASE RenderThread \/ Timer
  BY <1>23, RenderThreadKeeps
<1>24. CASE UNCHANGED <<vars, mode>>
  BY <1>24 DEF vars, fxVars, sceneVars, pulseVars, collectorVars
<1> QED
  BY <1>1, <1>2, <1>3, <1>4, <1>5, <1>6, <1>7, <1>8, <1>9, <1>10, <1>11, <1>12, <1>13, <1>14, <1>15, <1>16,
     <1>17, <1>18, <1>19, <1>20, <1>21, <1>22, <1>23, <1>24
     DEF Next, Events, RunAnyPosted, PulseSteps

(* A scene that is dirty between pulses has hasDirty say so. *)
LEMMA SyncPendingImplies ==
    Control /\ SyncPending => ChangesSynchronized
BY DEF Control, FxControl, DirtyControl, SyncPending, ChangesSynchronized, Resting, Firing

-----------------------------------------------------------------------------
(* Changes are painted.                                                    *)

(* What the next paint of scene s will show is dirty or has a painter. *)
QueuedFor(s, q) == \E i \in 1..Len(q) : q[i].scene = s /\ Paints(q[i])
Scheduled(s) ==
    \/ s \in dirtyScenes /\ (fx = "render" => s \in todo)
    \/ QueuedFor(s, queue)
    \/ job.scene = s /\ rt = "paint"
    \/ op = "snapshot" /\ fx \in {"submit", "job"} /\ target = s
SchedulesUnpainted == \A s \in Live : unpainted[s] => Scheduled(s)
PaintedIsPainted == rt \in {"present", "finish"} /\ job.scene \in Live => ~unpainted[job.scene]

(* A job in the queue is not lost to another one that is submitted, and    *)
(* the one that is taken goes to the painter.                              *)
LEMMA QueuedForFacts ==
    ASSUME NEW q \in Seq(Jobs), NEW s
    PROVE  /\ \A j \in Jobs : QueuedFor(s, q) => QueuedFor(s, Append(q, j))
           /\ \A j \in Jobs : j.scene = s /\ Paints(j) => QueuedFor(s, Append(q, j))
           /\ q # <<>> /\ QueuedFor(s, q) =>
                 (Head(q).scene = s /\ Paints(Head(q))) \/ QueuedFor(s, Tail(q))
<1>1. ASSUME NEW j \in Jobs, QueuedFor(s, q) PROVE QueuedFor(s, Append(q, j))
  BY <1>1, AppendFacts DEF QueuedFor
<1>2. ASSUME NEW j \in Jobs, j.scene = s, Paints(j) PROVE QueuedFor(s, Append(q, j))
  BY <1>2, AppendFacts DEF QueuedFor
<1>3. ASSUME q # <<>>, QueuedFor(s, q)
      PROVE  (Head(q).scene = s /\ Paints(Head(q))) \/ QueuedFor(s, Tail(q))
  <2>1. PICK i \in 1..Len(q) : q[i].scene = s /\ Paints(q[i])
    BY <1>3 DEF QueuedFor
  <2>2. CASE i = 1
    BY <1>3, <2>1, <2>2, TailFacts
  <2>3. CASE i # 1
    <3>1. i - 1 \in 1..(Len(q) - 1) /\ (i - 1) + 1 = i
      BY <2>3
    <3>2. Tail(q)[i - 1] = q[i] /\ i - 1 \in 1..Len(Tail(q))
      BY <1>3, <3>1, TailFacts
    <3> QED BY <2>1, <3>2 DEF QueuedFor
  <2> QED BY <2>2, <2>3
<1> QED BY <1>1, <1>2, <1>3

(* Where no frame is lost, no step of the JavaFX thread leaves an unpainted *)
(* change without a painter.                                               *)
LEMMA SchedulesFxStep ==
    ASSUME TypeOK, Control, JobsOfPainting, SchedulesUnpainted, PaintedIsPainted, Reliable,
           [Next]_<<vars, mode>>, ~RenderThread, ~Timer
    PROVE  SchedulesUnpainted' /\ PaintedIsPainted'
<1>a. /\ status \in [Scenes -> {"new", "live", "disposed"}]
      /\ unpainted \in [Scenes -> BOOLEAN]
      /\ fx \in {"idle", "fire", "await", "lock", "render", "settle", "end", "submit", "job"}
  BY DEF TypeOK
<1>b. /\ cur \in Live \cup {NoScene} /\ target \in Live \cup {NoScene} /\ todo \subseteq Live
      /\ cur # NoScene <=> fx \in {"await", "lock"}
      /\ target # NoScene <=> fx # "idle" /\ op # "pulse"
      /\ fx # "idle" /\ op = "snapshot" => cur \in {target, NoScene}
      /\ NoScene \notin Scenes
  BY NoSceneAssumption DEF Control, FxControl
<1>c. /\ rt = "idle" => job = NoJob
      /\ job # NoJob => status[job.scene] # "new"
      /\ lock = "free" => rt \notin {"paint", "present", "finish"}
  BY DEF Control, RtControl
<1>d. queue \in Seq(Jobs)
  BY DEF TypeOK
<1> USE DEF SchedulesUnpainted, PaintedIsPainted, Scheduled, Live
<1>1. ASSUME NEW s \in Scenes, Show(s) PROVE SchedulesUnpainted' /\ PaintedIsPainted'
  <2>1. UNCHANGED <<fx, op, todo, target, queue, rt, job, unpainted>> /\ fx = "idle"
    BY <1>1 DEF Show, fxVars, renderVars
  <2>2. /\ status[s] = "new" /\ status' = [status EXCEPT ![s] = "live"]
        /\ dirtyScenes' = dirtyScenes \union {s}
    BY <1>1 DEF Show, AddDirtyScene
  <2>3. job # NoJob => job.scene # s
    BY <1>c, <2>2
  <2>4. rt \in {"present", "finish"} => job # NoJob
    BY DEF Control, RtControl
  <2> QED BY <1>a, <2>1, <2>2, <2>3, <2>4
<1>2. ASSUME NEW s \in Scenes, Dispose(s) PROVE SchedulesUnpainted' /\ PaintedIsPainted'
  BY <1>2, <1>a, <1>b, <1>c DEF Dispose, RemoveDirtyScene, fxVars, sceneVars, collectorVars, renderVars
<1>3. ASSUME NEW s \in Scenes, ChangeNode(s) PROVE SchedulesUnpainted' /\ PaintedIsPainted'
  BY <1>3, <1>a, <1>b, <1>c DEF ChangeNode, RequestNextPulse, fxVars, sceneVars, collectorVars, renderVars
<1>4. ASSUME NEW s \in Scenes, Expose(s) PROVE SchedulesUnpainted' /\ PaintedIsPainted'
  BY <1>4, <1>a, <1>b, <1>c DEF Expose, EntireSceneNeedsRepaint, SceneChanged, AddDirtyScene, RemoveDirtyScene, fxVars, sceneVars, collectorVars, renderVars
<1>5. ASSUME NEW s \in Scenes, LiveRepaint(s) PROVE SchedulesUnpainted' /\ PaintedIsPainted'
  BY <1>5, <1>a, <1>b, <1>c DEF LiveRepaint, BeginPulse, fxVars, sceneVars, collectorVars, renderVars
<1>6. ASSUME NEW s \in Scenes, Snapshot(s) PROVE SchedulesUnpainted' /\ PaintedIsPainted'
  BY <1>6, <1>a, <1>b, <1>c DEF Snapshot, fxVars, sceneVars, collectorVars, renderVars
<1>7. ASSUME NEW set \in BOOLEAN, SetAnimationRunnable(set) PROVE SchedulesUnpainted' /\ PaintedIsPainted'
  BY <1>7, <1>a, <1>b, <1>c DEF SetAnimationRunnable, fxVars, sceneVars, collectorVars, renderVars
<1>8. ASSUME NEW s \in Scenes, RunPosted(s) PROVE SchedulesUnpainted' /\ PaintedIsPainted'
  BY <1>8 DEF RunPosted, Reliable, TypeOK
<1>9. CASE RunPulse
  BY <1>9, <1>a, <1>b, <1>c DEF RunPulse, BeginPulse, fxVars, sceneVars, collectorVars, renderVars
<1>10. ASSUME NEW s \in Scenes, VisitClean(s) PROVE SchedulesUnpainted' /\ PaintedIsPainted'
  BY <1>10, <1>a, <1>b, <1>c DEF VisitClean, fxVars, sceneVars, collectorVars, renderVars
<1>11. ASSUME NEW s \in Scenes, VisitDirty(s) PROVE SchedulesUnpainted' /\ PaintedIsPainted'
  BY <1>11, <1>a, <1>b, <1>c DEF VisitDirty, fxVars, sceneVars, collectorVars, renderVars
<1>12. ASSUME NEW s \in Scenes, Repaint(s) PROVE SchedulesUnpainted' /\ PaintedIsPainted'
  <2>1. /\ fx = "render" /\ s \in todo /\ s \in Live /\ todo' = todo \ {s}
        /\ UNCHANGED <<fx, op, target, dirtyScenes, status, unpainted, rt, job>>
        /\ queue' = IF MayRepaint(s) THEN Append(queue, PaintJob(s)) ELSE queue
    BY <1>12, <1>b DEF Repaint, sceneVars, PaintJob
  <2>2. PaintJob(s) \in Jobs /\ PaintJob(s).scene = s /\ Paints(PaintJob(s))
    BY JobFacts DEF PaintJob, Kinds, Paints
  <2>3. \A t : QueuedFor(t, queue) => QueuedFor(t, queue')
    BY <1>d, <2>1, <2>2, QueuedForFacts
  <2>4. unpainted[s] => QueuedFor(s, queue') \/ (job.scene = s /\ rt = "paint")
    <3>1. CASE MayRepaint(s)
      BY <1>d, <2>1, <2>2, <3>1, QueuedForFacts
    <3>2. CASE painting[s]
      <4>1. CASE \E i \in 1..Len(queue) : queue[i] = PaintJob(s)
        BY <2>2, <2>3, <4>1 DEF QueuedFor
      <4>2. CASE job = PaintJob(s) /\ rt \in {"paint", "present", "finish"}
        BY <2>1, <2>2, <4>2
      <4> QED BY <3>2, <4>1, <4>2 DEF JobsOfPainting
    <3> QED BY <2>1, <3>1, <3>2 DEF MayRepaint
  <2> QED BY <1>a, <2>1, <2>3, <2>4
<1>13. CASE Awaited
  BY <1>13, <1>a, <1>b, <1>c DEF Awaited, fxVars, sceneVars, collectorVars, renderVars
<1>14. CASE Synchronize
  BY <1>14, <1>a, <1>b, <1>c DEF Synchronize, SceneChanged, AddDirtyScene, RemoveDirtyScene, fxVars, sceneVars, collectorVars, renderVars
<1>15. CASE FireDone
  BY <1>15, <1>a, <1>b, <1>c DEF FireDone, fxVars, sceneVars, collectorVars, renderVars
<1>16. CASE NothingToRender
  BY <1>16, <1>a, <1>b, <1>c DEF NothingToRender, fxVars, sceneVars, collectorVars, renderVars
<1>17. CASE BeginRender
  BY <1>17, <1>a, <1>b, <1>c DEF BeginRender, fxVars, sceneVars, collectorVars, renderVars
<1>18. CASE EndRender
  BY <1>18, <1>a, <1>b, <1>c DEF EndRender, fxVars, sceneVars, collectorVars, renderVars
<1>19. CASE Settled
  BY <1>19, <1>a, <1>b, <1>c DEF Settled, fxVars, sceneVars, collectorVars, renderVars
<1>20. CASE EndPulse
  BY <1>20, <1>a, <1>b, <1>c DEF EndPulse, fxVars, sceneVars, collectorVars, renderVars
<1>21. CASE Submit
  <2> DEFINE j == [scene |-> target, kind |-> op]
  <2>1. /\ UNCHANGED <<op, target, dirtyScenes, status, unpainted, rt, job>>
        /\ fx = "submit" /\ fx' = "job" /\ queue' = Append(queue, j)
    BY <1>21 DEF Submit, sceneVars, collectorVars
  <2>2. j \in Jobs
    BY <1>21, JobFacts DEF Submit, Control, FxControl, TypeOK, Kinds
  <2>3. \A t : QueuedFor(t, queue) => QueuedFor(t, queue')
    BY <1>d, <2>1, <2>2, QueuedForFacts
  <2> QED BY <2>1, <2>3
<1>22. CASE JobDone
  BY <1>22, <1>a, <1>b, <1>c DEF JobDone, EntireSceneNeedsRepaint, SceneChanged, AddDirtyScene, RemoveDirtyScene, fxVars, sceneVars, collectorVars, renderVars
<1>23. CASE UNCHANGED <<vars, mode>>
  BY <1>23 DEF vars, fxVars, sceneVars, collectorVars, renderVars
<1> QED
  BY <1>1, <1>2, <1>3, <1>4, <1>5, <1>6, <1>7, <1>8, <1>9, <1>10, <1>11, <1>12, <1>13, <1>14, <1>15, <1>16,
     <1>17, <1>18, <1>19, <1>20, <1>21, <1>22, <1>23
     DEF Next, Events, RunAnyPosted, PulseSteps

(* The render thread paints what it takes from the queue. *)
LEMMA SchedulesRtStep ==
    ASSUME TypeOK, Control, SchedulesUnpainted, PaintedIsPainted, Reliable,
           RenderThread \/ Timer
    PROVE  SchedulesUnpainted' /\ PaintedIsPainted'
<1>a. UNCHANGED <<fx, op, todo, target, status, dirtyScenes>>
  BY RenderThreadKeeps
<1>b. unpainted \in [Scenes -> BOOLEAN] /\ queue \in Seq(Jobs)
  BY DEF TypeOK
<1> USE DEF SchedulesUnpainted, PaintedIsPainted, Scheduled, Live
<1>1. CASE StartPaint
  <2>1. /\ queue # <<>> /\ queue' = Tail(queue) /\ job' = Head(queue) /\ unpainted' = unpainted
        /\ rt = "idle" /\ rt' = IF Head(queue).scene \in Live THEN "paint" ELSE "finish"
    BY <1>1 DEF StartPaint, sceneVars
  <2> QED BY <1>a, <1>b, <2>1, QueuedForFacts
<1>2. CASE RenderImage
  <2>1. /\ queue # <<>> /\ queue' = Tail(queue) /\ ~Paints(Head(queue))
        /\ UNCHANGED <<rt, job, unpainted>>
    BY <1>2 DEF RenderImage, sceneVars
  <2> QED BY <1>a, <1>b, <2>1, QueuedForFacts
<1>3. CASE Paint
  <2>1. /\ unpainted' = [unpainted EXCEPT ![job.scene] = FALSE]
        /\ rt' = "present" /\ UNCHANGED <<queue, job>>
    BY <1>3 DEF Paint
  <2> QED BY <1>a, <1>b, <2>1
<1>4. CASE Present \/ Finish \/ Hint \/ CountDown
  <2>1. /\ UNCHANGED <<queue, unpainted>>
        /\ rt # "paint" /\ rt' # "paint"
        /\ rt' \in {"present", "finish"} => rt \in {"present", "finish"} /\ job' = job
    BY <1>4 DEF Present, Finish, Hint, CountDown, sceneVars
  <2> QED BY <1>a, <2>1
<1>5. CASE Drop \/ Fail \/ SurfaceLost
  <2>1. job.scene \in Scenes /\ posted[job.scene] = 0
    BY <1>5, JobFacts DEF Drop, Fail, SurfaceLost, Control, RtControl, TypeOK, Reliable
  <2> QED BY <1>5, <2>1 DEF Drop, Fail, SurfaceLost, Reliable
<1>6. CASE Timer
  BY <1>a, <1>6 DEF Timer, TimerReads, TimerPosts, sceneVars, renderVars
<1> QED BY <1>1, <1>2, <1>3, <1>4, <1>5, <1>6 DEF RenderThread

(* So every unpainted change keeps its painter to come. *)
LEMMA PaintPendingStep ==
    TypeOK /\ Control /\ JobsOfPainting /\ PaintPending /\ [Next]_<<vars, mode>> => PaintPending'
<1> SUFFICES ASSUME TypeOK, Control, JobsOfPainting, PaintPending, [Next]_<<vars, mode>>
             PROVE  PaintPending'
  OBVIOUS
<1>1. mode' = mode
  BY DEF Next
<1>2. Reliable' => Reliable
  BY <1>1 DEF Reliable
<1>3. Reliable => SchedulesUnpainted /\ PaintedIsPainted
  BY DEF PaintPending, SchedulesUnpainted, PaintedIsPainted, Scheduled, QueuedFor
<1>4. Reliable => SchedulesUnpainted' /\ PaintedIsPainted'
  BY <1>3, SchedulesFxStep, SchedulesRtStep
<1> QED BY <1>2, <1>4 DEF PaintPending, SchedulesUnpainted, PaintedIsPainted, Scheduled, QueuedFor

-----------------------------------------------------------------------------
(* The invariant and the theorems.                                         *)

Inv == /\ TypeOK /\ Control /\ JobsOfPainting
       /\ LatchBound /\ PulseCount /\ LatchExact /\ SyncPending /\ PaintPending

(* The invariant holds initially: nothing is shown, dirty or painted. *)
LEMMA InvInit == Init => Inv
<1> SUFFICES ASSUME Init PROVE Inv
  OBVIOUS
<1>1. TypeOK /\ Control
  BY TypeInit, ControlInit
<1>2. Uncounted = 0 /\ Unsubmitted = 0 /\ ToSubmit = 0
  <2>1. PaintsIn(queue) = {} /\ Busy(job) = 0
    BY DEF Init, PaintsIn, Busy
  <2> QED BY <1>1, <2>1, UncountedSum, FS_EmptySet DEF Init, Unsubmitted, ToSubmit
<1>3. JobsOfPainting /\ PulseCount /\ SyncPending
  BY DEF Init, JobsOfPainting, PulseCount, SyncPending, Live
<1>4. LatchBound /\ LatchExact
  BY <1>2 DEF Init, LatchBound, LatchExact
<1>5. PaintPending
  BY DEF Init, PaintPending, Live
<1> QED BY <1>1, <1>3, <1>4, <1>5 DEF Inv

(* The invariant is inductive. *)
LEMMA InvStep == Inv /\ [Next]_<<vars, mode>> => Inv'
BY TypeStep, ControlStep, JobsOfPaintingStep, LatchBoundStep, PulseCountStep, LatchExactStep,
   SyncPendingStep, PaintPendingStep
DEF Inv

(* So it holds always. *)
LEMMA Invariance == Spec => []Inv
BY InvInit, InvStep, PTL DEF Spec

(* pulseRunning lets one pulse be posted or under way at a time, and where *)
(* repaints come from pulses only, a pulse that has waited for             *)
(* allWorkCompletedLatch finds no paint job left.                          *)
THEOREM PulsesExclude == Spec => []OnePulse
<1>1. Inv => OnePulse
  BY DEF Inv, PulseCount, LatchExact, Quiet, OnePulse
<1> QED BY <1>1, Invariance, PTL

(* allWorkCompletedLatch never counts more scenes than there are           *)
(* completions to come, so that waiting for it ends.                       *)
THEOREM LatchCountsJobs == Spec => []LatchReachesZero
<1>1. Inv => LatchReachesZero
  BY LatchBoundImplies DEF Inv
<1> QED BY <1>1, Invariance, PTL

(* A node that changed has a pulse asked for, or under way and still to    *)
(* visit its scene.                                                        *)
THEOREM ChangesReachRenderGraph == Spec => []ChangesSynchronized
<1>1. Inv => ChangesSynchronized
  BY SyncPendingImplies DEF Inv
<1> QED BY <1>1, Invariance, PTL

(* Where the painters neither fail nor lose a frame, a change copied to    *)
(* the render graph has a painter to come.                                 *)
THEOREM ChangesReachPainter ==
    Spec => [](mode.maxPosted = 0 /\ ~mode.framesLost => ChangesScheduled)
<1>1. Inv => (mode.maxPosted = 0 /\ ~mode.framesLost => ChangesScheduled)
  BY DEF Inv, PaintPending, Reliable, ChangesScheduled
<1> QED BY <1>1, Invariance, PTL
=============================================================================
