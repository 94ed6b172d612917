------------------------------ MODULE Platform ------------------------------
(***************************************************************************)
(* com.sun.javafx.application.PlatformImpl and the launcher: how runnables *)
(* are admitted to the FX thread, how the runtime finds out that it is     *)
(* idle, and how it shuts down, by itself or on request, from any thread.  *)
(*                                                                         *)
(* The FX thread runs handlers (native events) and runnables; a handler    *)
(* may open a nested event loop, under which it is suspended.  Client      *)
(* threads call runLater(), runAndWait(), setImplicitExit() and exit().    *)
(* The launcher is one more thread: it starts the toolkit, registers a     *)
(* FinishListener and takes the application from start() to stop().        *)
(***************************************************************************)
EXTENDS Integers, Sequences, FiniteSets

CONSTANTS
    Clients,        \* application threads
    LAUNCHER,       \* the launcher thread
    Listens,        \* may it register a FinishListener (Application.launch()), or not?
    MaxWindows,     \* bound: windows shown at a time
    MaxNested,      \* bound: nested event loops
    MaxQueue        \* bound: runnables clients have posted

ASSUME ThreadsAssumption == LAUNCHER \notin Clients /\ IsFiniteSet(Clients)
ASSUME BoundsAssumption == /\ Listens \subseteq BOOLEAN /\ MaxWindows \in Nat
                           /\ MaxNested \in Nat /\ MaxQueue \in Nat

Threads == Clients \cup {LAUNCHER}

(* What runs on the FX thread: a native event, a runLater() or runAndWait() *)
(* runnable, the dummy of an idle check, Toolkit.exit().                    *)
Item(k, t) == [kind |-> k, by |-> t]
Items == [kind : {"none", "event", "later", "wait", "dummy", "exit"}, by : Threads]
Nothing == Item("none", LAUNCHER)
Native == Item("event", LAUNCHER)

VARIABLES
    initialized, started,       \* startup() was called; its latch is open
    queue,                      \* runnables deferred to the toolkit
    pending,                    \* pendingRunnables
    cur, nested,                \* what the FX thread executes, and below nested loops
    windows, implicitExit,      \* numWindows, implicitExit
    firstShown, lastClosed, reallyIdle, \* the idle detection's flags
    notify,                     \* doNotify: checkIdle() is about to notify
    fx,                         \* how far notifyFinishListeners() is on the FX thread
    listener, registered,       \* listenersRegistered; is the listener in finishListeners?
    platformExit, toolkitExit,  \* exit() was called; tkExit() was called
    terminated,                 \* Toolkit.exit() was executed
    pc, op, done,               \* per thread: progress of a call, what it posts, its latch
    overtaken, lost,            \* history: the registration overtook a notification
                                \* that ends the toolkit; an exit() found no listener
    phase,                      \* the launcher's progress
    startCalled, stopCalled, shutdown, exitCalled, error     \* of the launcher

fxVars == <<cur, nested, windows, notify, fx, terminated>>
idleVars == <<firstShown, lastClosed, reallyIdle, notify>>
launchVars == <<initialized, listener, registered, phase, startCalled, stopCalled, shutdown,
                exitCalled, error>>
exitVars == <<platformExit, toolkitExit, overtaken, lost>>
callVars == <<pc, op, done>>
vars == <<started, queue, pending, fxVars, implicitExit, firstShown, lastClosed,
          reallyIdle, exitVars, callVars, launchVars>>

Init ==
    /\ initialized = FALSE /\ started = FALSE
    /\ queue = <<>> /\ pending = 0
    /\ cur = Nothing /\ nested = <<>>
    /\ windows = 0 /\ implicitExit = TRUE
    /\ firstShown = FALSE /\ lastClosed = FALSE /\ reallyIdle = FALSE /\ notify = FALSE
    /\ fx = "none" /\ listener = FALSE /\ registered = FALSE
    /\ overtaken = FALSE /\ lost = FALSE
    /\ platformExit = FALSE /\ toolkitExit = FALSE /\ terminated = FALSE
    /\ pc = [t \in Threads |-> "idle"]
    /\ op = [t \in Threads |-> "later"]
    /\ done = [t \in Threads |-> FALSE]
    /\ phase = "startup"
    /\ startCalled = FALSE /\ stopCalled = FALSE /\ shutdown = FALSE
    /\ exitCalled = FALSE /\ error = FALSE

-----------------------------------------------------------------------------
(* runLater() and runAndWait() of thread t, off the FX thread. *)

(* The runnable is counted as pending before it is admitted. *)
Counted == pending + 1

Begin(t, k) ==
    /\ pending' = Counted
    /\ pc' = [pc EXCEPT ![t] = "posting"]
    /\ op' = [op EXCEPT ![t] = k]
    /\ done' = [done EXCEPT ![t] = FALSE]

Call(t, k) == pc[t] = "idle" /\ initialized /\ Begin(t, k)

Then(k) == CASE k = "wait" -> "check" [] k = "exit" -> "await" [] OTHER -> "idle"

(* Under runLaterLock: after tkExit() only Toolkit.exit() itself is still  *)
(* admitted.  What is refused is no longer pending.                        *)
Refuses(t) == toolkitExit /\ op[t] # "exit"
RefusedKept == pending
Refused == pending - 1

Post(t) ==
    /\ pc[t] = "posting" /\ started
    /\ IF Refuses(t)
       THEN pending' = Refused /\ UNCHANGED queue
       ELSE /\ queue' = IF terminated THEN queue ELSE Append(queue, Item(op[t], t))
            /\ UNCHANGED pending
    /\ pc' = [pc EXCEPT ![t] = Then(op[t])]
    /\ op' = [op EXCEPT ![t] = "later"]
    /\ UNCHANGED <<started, fxVars, implicitExit, firstShown, lastClosed, reallyIdle,
                   exitVars, done, launchVars>>

(* runAndWait() throws when the toolkit has exited by now, else it awaits. *)
Returned(t) == IF t = LAUNCHER THEN phase' = "remove" ELSE UNCHANGED phase
CheckExited(t) ==
    /\ pc[t] = "check"
    /\ IF toolkitExit
       THEN pc' = [pc EXCEPT ![t] = "idle"] /\ Returned(t)
       ELSE pc' = [pc EXCEPT ![t] = "await"] /\ UNCHANGED phase
    /\ UNCHANGED <<started, queue, pending, fxVars, implicitExit, firstShown, lastClosed,
                   reallyIdle, exitVars, op, done, initialized, listener, registered,
                   startCalled, stopCalled, shutdown, exitCalled, error>>

(* The latch of a client's runAndWait() or tkExit() was counted down. *)
Awaited(t) ==
    /\ t # LAUNCHER
    /\ pc[t] = "await" /\ done[t]
    /\ pc' = [pc EXCEPT ![t] = "idle"]
    /\ done' = [done EXCEPT ![t] = FALSE]
    /\ UNCHANGED <<started, queue, pending, fxVars, implicitExit, firstShown, lastClosed,
                   reallyIdle, exitVars, op, launchVars>>

(***************************************************************************)
(* exit() sets platformExit and calls notifyFinishListeners(): it tests    *)
(* listenersRegistered and then either iterates over finishListeners or    *)
(* calls tkExit().  Off the FX thread the launcher may come in between,    *)
(* and between its own two steps of addListener() and removeListener().    *)
(***************************************************************************)
Exit(t) ==
    /\ pc[t] = "idle" /\ initialized
    /\ platformExit' = TRUE
    /\ pc' = [pc EXCEPT ![t] = "testing"]
    /\ UNCHANGED <<started, queue, pending, fxVars, implicitExit, firstShown, lastClosed,
                   reallyIdle, toolkitExit, overtaken, lost, op, done, launchVars>>

ExitTest(t) ==
    /\ pc[t] = "testing"
    /\ pc' = [pc EXCEPT ![t] = IF listener THEN "telling" ELSE "ending"]
    /\ UNCHANGED <<started, queue, pending, fxVars, implicitExit, firstShown, lastClosed,
                   reallyIdle, exitVars, op, done, launchVars>>

(* FinishListener.exitCalled() of the launcher *)
ToldTooLittle == exitCalled' = TRUE /\ UNCHANGED shutdown
Told == exitCalled' = TRUE /\ shutdown' = TRUE

(* The flag is set before the listener is added: an exit() that iterates   *)
(* in between is lost, until another one tells the listener.               *)
TellExit ==
    /\ IF registered THEN Told ELSE UNCHANGED <<exitCalled, shutdown>>
    /\ lost' = (~registered /\ (lost \/ phase = "add"))

ExitTell(t) ==
    /\ pc[t] = "telling"
    /\ TellExit
    /\ pc' = [pc EXCEPT ![t] = "idle"]
    /\ UNCHANGED <<started, queue, pending, fxVars, implicitExit, firstShown, lastClosed,
                   reallyIdle, platformExit, toolkitExit, overtaken, op, done, initialized,
                   listener, registered, phase, startCalled, stopCalled, error>>

(* tkExit(): the first caller has Toolkit.exit() run. *)
ExitEnd(t) ==
    /\ pc[t] = "ending"
    /\ toolkitExit' = TRUE
    /\ IF toolkitExit
       THEN pc' = [pc EXCEPT ![t] = "idle"] /\ UNCHANGED <<pending, op, done>>
       ELSE Begin(t, "exit")
    /\ UNCHANGED <<started, queue, fxVars, implicitExit, firstShown, lastClosed, reallyIdle,
                   platformExit, overtaken, lost, launchVars>>

Exiting(t) == ExitTest(t) \/ ExitTell(t) \/ ExitEnd(t)

ClientCall(t) ==
    /\ Len(queue) < MaxQueue
    /\ \/ Call(t, "later") /\ UNCHANGED implicitExit
       \/ Call(t, "wait") /\ UNCHANGED implicitExit
       \/ \E b \in BOOLEAN : Call(t, "dummy") /\ implicitExit' = b   \* setImplicitExit()
    /\ UNCHANGED <<started, queue, fxVars, firstShown, lastClosed, reallyIdle, exitVars,
                   launchVars>>

-----------------------------------------------------------------------------
(* The FX thread. *)

FxRuns == started /\ ~terminated /\ ~notify /\ fx = "none"
InApp == FxRuns /\ cur # Nothing

(***************************************************************************)
(* checkIdle() on the FX thread, when w windows are shown, p runnables     *)
(* are pending, q is queued and loops are nested n deep.  The first time   *)
(* it finds nothing to do it only queues a dummy runnable, so that an      *)
(* event in process can still show a window.                               *)
(***************************************************************************)
NestedIgnored(n) == TRUE
NestedAllows(n) == toolkitExit \/ n = <<>>

CheckIdle(w, p, q, n) ==
    LET closed == w = 0 /\ (firstShown \/ lastClosed)
        idle == w = 0 /\ reallyIdle
        quiet == closed /\ p = 0 /\ NestedAllows(n)
    IN  /\ firstShown' = (firstShown \/ w > 0)
        /\ lastClosed' = (closed /\ ~(quiet /\ idle))
        /\ reallyIdle' = (idle \/ quiet)
        /\ notify' = (quiet /\ idle)
        /\ IF quiet /\ ~idle /\ ~toolkitExit
           THEN pending' = p + 1 /\ queue' = Append(q, Item("dummy", LAUNCHER))
           ELSE pending' = p /\ queue' = q

(* Toolkit.startup() calls back on the new FX thread. *)
FxStarted ==
    /\ initialized /\ ~started
    /\ started' = TRUE
    /\ UNCHANGED <<queue, pending, fxVars, implicitExit, firstShown, lastClosed, reallyIdle,
                   exitVars, callVars, launchVars>>

FxEvent ==
    /\ FxRuns /\ cur = Nothing
    /\ cur' = Native
    /\ UNCHANGED <<started, queue, pending, nested, windows, notify, fx, terminated, implicitExit,
                   firstShown, lastClosed, reallyIdle, exitVars, callVars, launchVars>>

(* A runnable starts.  The launcher's own runnables are the application's  *)
(* constructor, start() and stop().                                        *)
FxTake ==
    /\ FxRuns /\ cur = Nothing
    /\ queue # <<>> /\ Head(queue).kind # "exit"
    /\ queue' = Tail(queue)
    /\ cur' = Head(queue)
    /\ LET own == Head(queue) = Item("wait", LAUNCHER)
       IN  /\ startCalled' = (startCalled \/ (own /\ phase = "start"))
           /\ stopCalled' = (stopCalled \/ (own /\ phase = "stop"))
    /\ UNCHANGED <<started, pending, nested, windows, notify, fx, terminated, implicitExit,
                   firstShown, lastClosed, reallyIdle, exitVars, callVars, initialized,
                   listener, registered, phase, shutdown, exitCalled, error>>

(* It ends: its latch opens, it is no longer pending, and idleness is      *)
(* checked.                                                                *)
FxFinish ==
    /\ InApp
    /\ cur' = Nothing
    /\ IF cur = Native
       THEN UNCHANGED <<pending, queue, done, idleVars>>
       ELSE /\ done' = IF cur.kind = "wait" THEN [done EXCEPT ![cur.by] = TRUE] ELSE done
            /\ CheckIdle(windows, pending - 1, queue, nested)
    /\ UNCHANGED <<started, nested, windows, fx, terminated, implicitExit, exitVars, pc, op,
                   launchVars>>

(* The constructor, start() or stop() threw.                               *)
FxThrows ==
    /\ InApp /\ cur = Item("wait", LAUNCHER) /\ ~error
    /\ error' = TRUE
    /\ UNCHANGED <<started, queue, pending, fxVars, implicitExit, firstShown, lastClosed,
                   reallyIdle, exitVars, callVars, initialized, listener, registered, phase,
                   startCalled, stopCalled, shutdown, exitCalled>>

(* A window is shown or closed: changedTopLevelWindows(). *)
FxWindows(w) ==
    /\ InApp /\ (w = windows + 1 \/ w = windows - 1)
    /\ windows' = w
    /\ CheckIdle(w, pending, queue, nested)
    /\ UNCHANGED <<started, cur, nested, fx, terminated, implicitExit, exitVars, callVars,
                   launchVars>>

FxSetImplicitExit(b) ==
    /\ InApp
    /\ implicitExit' = b
    /\ CheckIdle(windows, pending, queue, nested)
    /\ UNCHANGED <<started, cur, nested, windows, fx, terminated, exitVars, callVars, launchVars>>

FxEnterNested ==
    /\ InApp /\ Len(nested) < MaxNested
    /\ nested' = Append(nested, cur)
    /\ cur' = Nothing
    /\ UNCHANGED <<started, queue, pending, windows, notify, fx, terminated, implicitExit,
                   firstShown, lastClosed, reallyIdle, exitVars, callVars, launchVars>>

(* The innermost loop is left; after the last one idleness is checked.     *)
ExitChecksNothing(n) == UNCHANGED <<pending, queue, idleVars>>
ExitChecks(n) == IF n = <<>> THEN CheckIdle(windows, pending, queue, n)
                 ELSE UNCHANGED <<pending, queue, idleVars>>
FxLeaveNested ==
    /\ FxRuns /\ cur = Nothing /\ nested # <<>>
    /\ cur' = nested[Len(nested)]
    /\ nested' = SubSeq(nested, 1, Len(nested) - 1)
    /\ ExitChecks(nested')
    /\ UNCHANGED <<started, windows, fx, terminated, implicitExit, exitVars, callVars, launchVars>>

(* exit() by application code on the FX thread.  Nobody else reads         *)
(* platformExit, so the test of listenersRegistered belongs to this step.  *)
FxExit ==
    /\ InApp
    /\ platformExit' = TRUE
    /\ fx' = IF listener THEN "tell" ELSE "end"
    /\ UNCHANGED <<started, queue, pending, cur, nested, windows, notify, terminated,
                   implicitExit, firstShown, lastClosed, reallyIdle, toolkitExit, overtaken,
                   lost, callVars, launchVars>>

(* The same for idleness; without a listener implicitExit and platformExit *)
(* are tested.                                                             *)
FxTest ==
    /\ notify /\ fx = "none"
    /\ fx' = IF listener THEN "tell" ELSE "ask"
    /\ UNCHANGED <<started, queue, pending, cur, nested, windows, notify, terminated,
                   implicitExit, firstShown, lastClosed, reallyIdle, exitVars, callVars,
                   launchVars>>

FxAsk ==
    /\ fx = "ask"
    /\ IF implicitExit \/ platformExit
       THEN fx' = "end" /\ UNCHANGED notify
       ELSE fx' = "none" /\ notify' = FALSE
    /\ UNCHANGED <<started, queue, pending, cur, nested, windows, terminated, implicitExit,
                   firstShown, lastClosed, reallyIdle, exitVars, callVars, launchVars>>

(* idle() of the launcher's listener reacts only once start() was called.  *)
FxTell ==
    /\ fx = "tell"
    /\ fx' = "none" /\ notify' = FALSE
    /\ IF notify
       THEN /\ shutdown' = (shutdown \/ (registered /\ implicitExit /\ startCalled))
            /\ UNCHANGED <<exitCalled, lost>>
       ELSE TellExit
    /\ UNCHANGED <<started, queue, pending, cur, nested, windows, terminated, implicitExit,
                   firstShown, lastClosed, reallyIdle, platformExit, toolkitExit, overtaken,
                   callVars, initialized, listener, registered, phase, startCalled,
                   stopCalled, error>>

(* tkExit() on the FX thread: Toolkit.exit() is called directly. *)
FxTkExit ==
    /\ fx = "end"
    /\ fx' = "none" /\ notify' = FALSE
    /\ toolkitExit' = TRUE
    /\ terminated' = (terminated \/ ~toolkitExit)
    /\ UNCHANGED <<started, queue, pending, cur, nested, windows, implicitExit, firstShown,
                   lastClosed, reallyIdle, platformExit, overtaken, lost, callVars, launchVars>>

(* Toolkit.exit() from the queue; the FX thread ends with it. *)
FxTakeExit ==
    /\ FxRuns /\ cur = Nothing
    /\ queue # <<>> /\ Head(queue).kind = "exit"
    /\ queue' = Tail(queue)
    /\ terminated' = TRUE
    /\ done' = [done EXCEPT ![Head(queue).by] = TRUE]
    /\ UNCHANGED <<started, pending, cur, nested, windows, notify, fx, implicitExit, firstShown,
                   lastClosed, reallyIdle, exitVars, pc, op, launchVars>>

FxNotify == FxTest \/ FxAsk \/ FxTell \/ FxTkExit
FxLoop == FxStarted \/ FxTake \/ FxTakeExit
FxApp ==
    \/ FxEvent \/ FxEnterNested \/ FxExit \/ FxThrows
    \/ \E w \in 0..MaxWindows : FxWindows(w)
    \/ \E b \in BOOLEAN : FxSetImplicitExit(b)

-----------------------------------------------------------------------------
(* The launcher: LauncherImpl.launchApplication1(), without a preloader. *)

LaunchStartup ==
    /\ phase = "startup"
    /\ initialized' = TRUE
    /\ phase' = "register"
    /\ UNCHANGED <<started, queue, pending, fxVars, implicitExit, firstShown, lastClosed,
                   reallyIdle, exitVars, callVars, listener, registered, startCalled, stopCalled,
                   shutdown, exitCalled, error>>

(* addListener() sets the flag first.  It may overtake a notification that *)
(* has found the flag unset and goes on to tkExit().                       *)
Ending == fx \in {"ask", "end"} \/ \E t \in Clients : pc[t] = "ending"
LaunchRegister ==
    /\ phase = "register" /\ started
    /\ listener' \in Listens
    /\ phase' = IF listener' THEN "add" ELSE "done"
    /\ overtaken' = (overtaken \/ (listener' /\ Ending))
    /\ UNCHANGED <<started, queue, pending, fxVars, implicitExit, firstShown, lastClosed,
                   reallyIdle, platformExit, toolkitExit, lost, callVars, initialized,
                   registered, startCalled, stopCalled, shutdown, exitCalled, error>>

LaunchAdd ==
    /\ phase = "add"
    /\ registered' = TRUE
    /\ phase' = "construct"
    /\ UNCHANGED <<started, queue, pending, fxVars, implicitExit, firstShown, lastClosed,
                   reallyIdle, exitVars, callVars, initialized, listener, startCalled,
                   stopCalled, shutdown, exitCalled, error>>

(* After Platform.exit() or an error the remaining methods are skipped.    *)
Skips == error \/ exitCalled

(* The application's constructor and start() are run and waited for.       *)
LaunchRun ==
    /\ phase \in {"construct", "start", "stop"} /\ pc[LAUNCHER] = "idle"
    /\ IF phase # "stop" /\ Skips
       THEN /\ phase' = IF phase = "construct" THEN "start" ELSE "wait"
            /\ UNCHANGED <<pending, callVars>>
       ELSE Call(LAUNCHER, "wait") /\ UNCHANGED phase
    /\ UNCHANGED <<started, queue, fxVars, implicitExit, firstShown, lastClosed, reallyIdle,
                   exitVars, initialized, listener, registered, startCalled, stopCalled,
                   shutdown, exitCalled, error>>

LaunchAwaited ==
    /\ pc[LAUNCHER] = "await" /\ done[LAUNCHER]
    /\ pc' = [pc EXCEPT ![LAUNCHER] = "idle"]
    /\ done' = [done EXCEPT ![LAUNCHER] = FALSE]
    /\ phase' = CASE phase = "construct" -> "start" [] phase = "start" -> "wait"
                  [] phase = "stop" -> "remove" [] OTHER -> "done"
    /\ UNCHANGED <<started, queue, pending, fxVars, implicitExit, firstShown, lastClosed,
                   reallyIdle, exitVars, op, initialized, listener, registered, startCalled,
                   stopCalled, shutdown, exitCalled, error>>

(* shutdownLatch.await(), unless there was an error; stop() is called only *)
(* if start() was.                                                         *)
StopsNever == FALSE
Stops == startCalled
LaunchShutdown ==
    /\ phase = "wait" /\ (error \/ shutdown)
    /\ phase' = IF Stops THEN "stop" ELSE "remove"
    /\ UNCHANGED <<started, queue, pending, fxVars, implicitExit, firstShown, lastClosed,
                   reallyIdle, exitVars, callVars, initialized, listener, registered,
                   startCalled, stopCalled, shutdown, exitCalled, error>>

(* removeListener(): the flag follows, and idleness is checked, which      *)
(* posts a dummy runnable.                                                 *)
LaunchRemove ==
    /\ phase = "remove"
    /\ registered' = FALSE
    /\ phase' = "unset"
    /\ UNCHANGED <<started, queue, pending, fxVars, implicitExit, firstShown, lastClosed,
                   reallyIdle, exitVars, callVars, initialized, listener, startCalled,
                   stopCalled, shutdown, exitCalled, error>>

LaunchUnset ==
    /\ phase = "unset"
    /\ listener' = FALSE
    /\ Call(LAUNCHER, "dummy")
    /\ phase' = "exit"
    /\ UNCHANGED <<started, queue, fxVars, implicitExit, firstShown, lastClosed, reallyIdle,
                   exitVars, initialized, registered, startCalled, stopCalled, shutdown,
                   exitCalled, error>>

LaunchExit ==
    /\ phase = "exit" /\ pc[LAUNCHER] = "idle"
    /\ phase' = IF toolkitExit THEN "done" ELSE "exiting"
    /\ toolkitExit' = TRUE
    /\ IF toolkitExit THEN UNCHANGED <<pending, callVars>> ELSE Begin(LAUNCHER, "exit")
    /\ UNCHANGED <<started, queue, fxVars, implicitExit, firstShown, lastClosed, reallyIdle,
                   platformExit, overtaken, lost, initialized, listener, registered,
                   startCalled, stopCalled, shutdown, exitCalled, error>>

Launch ==
    \/ LaunchStartup \/ LaunchRegister \/ LaunchAdd \/ LaunchRun \/ LaunchAwaited
    \/ LaunchShutdown \/ LaunchRemove \/ LaunchUnset \/ LaunchExit

Next ==
    \/ \E t \in Threads : Post(t) \/ CheckExited(t) \/ Awaited(t)
    \/ \E t \in Clients : ClientCall(t) \/ Exit(t) \/ Exiting(t)
    \/ FxLoop \/ FxNotify \/ FxFinish \/ FxApp \/ FxLeaveNested
    \/ Launch

Spec == Init /\ [][Next]_vars

(***************************************************************************)
(* Threads finish the calls they have started, the launcher goes on, the   *)
(* FX thread runs what is queued and handlers return.  Nobody has to call  *)
(* anything or to leave a nested loop.                                     *)
(***************************************************************************)
Fairness ==
    /\ \A t \in Threads : WF_vars(Post(t)) /\ WF_vars(CheckExited(t)) /\ WF_vars(Awaited(t))
    /\ \A t \in Clients : WF_vars(Exiting(t))
    /\ WF_vars(Launch)
    /\ WF_vars(FxNotify) /\ SF_vars(FxLoop) /\ SF_vars(FxFinish)

FairSpec == Spec /\ Fairness

(* Applications that leave every nested loop in the end, and whose         *)
(* handlers do not open nested loops for ever.                             *)
LeavingSpec ==
    FairSpec /\ SF_vars(FxLeaveNested) /\ SF_vars(FxFinish /\ nested = <<>>)

-----------------------------------------------------------------------------
(* Properties. *)

IsRunnable(i) == i \notin {Nothing, Native}

(* The calls of p that are being admitted, the places of n's runnables. *)
Posting(p) == {t \in Threads : p[t] = "posting"}
Suspended(n) == {i \in 1..Len(n) : IsRunnable(n[i])}

(***************************************************************************)
(* pendingRunnables counts exactly the runnables that are being admitted,  *)
(* queued, running or suspended under a nested loop, however the refusals  *)
(* of a shutdown interleave.  A leak would keep the runtime from ever      *)
(* being idle, a lost count would end it under a runnable's feet.          *)
(***************************************************************************)
PendingAgrees ==
    ~terminated =>
        pending = Cardinality(Posting(pc)) + Len(queue) + Cardinality(Suspended(nested))
                  + (IF IsRunnable(cur) THEN 1 ELSE 0)

(* The application is not ended while it uses the runtime: the idle        *)
(* notification finds no window, no nested loop, and no runnable executing.*)
IdleIsIdle ==
    notify => windows = 0 /\ (toolkitExit \/ nested = <<>>) /\ ~IsRunnable(cur)

(***************************************************************************)
(* Platform.exit(): "If this method is called after the Application start  *)
(* method is called, then the JavaFX launcher will call the Application    *)
(* stop method", whoever ends the toolkit in the end: a call of exit()     *)
(* that has found a listener, or none yet or none any more, idleness, or   *)
(* the launcher after an error.  Only a notification that was overtaken by *)
(* the registration ends the toolkit without stop().                       *)
(***************************************************************************)
StopBeforeExit == terminated /\ startCalled /\ ~overtaken => stopCalled

(* Platform.exit() "Causes the JavaFX application to terminate": so it     *)
(* does, from any thread, and the launcher returns, unless addListener()   *)
(* is under way: the registration overtakes the notification, or the exit  *)
(* is lost between the flag and the list.                                  *)
ExitTerminates == platformExit ~> (terminated /\ phase = "done") \/ overtaken \/ lost

(* The premise of the run that checks it and ImplicitExitHappens, as a     *)
(* state constraint: overtaken never changes back.                         *)
NotOvertaken == ~overtaken

(* setImplicitExit(): "If this attribute is true, the JavaFX runtime will  *)
(* implicitly shutdown when the last window is closed".                    *)
Abandoned ==
    /\ firstShown /\ windows = 0 /\ implicitExit /\ nested = <<>>
    /\ \A t \in Clients : pc[t] # "posting"
ImplicitExitHappens == <>[]Abandoned => <>terminated
=============================================================================
