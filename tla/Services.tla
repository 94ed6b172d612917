------------------------------ MODULE Services ------------------------------
(***************************************************************************)
(* javafx.concurrent.Service and ScheduledService: a reusable worker that  *)
(* creates a Task per run, mirrors its state, and, when scheduled, starts  *)
(* the next run by itself.                                                 *)
(*                                                                         *)
(* Everything a service does happens on the FX thread, in one runnable or  *)
(* one application call at a time; what interleaves with it are the        *)
(* executor threads that run the tasks and the timer thread that ends a    *)
(* delay.  An FX step is therefore one action, written as operators that   *)
(* follow the method calls from record to record.  `h' is the event type   *)
(* whose handler calls cancel() during the step ("none": no handler does), *)
(* `wait' is whether a delay or period remains, and `t' is the task that   *)
(* createTask() would return.                                              *)
(***************************************************************************)
EXTENDS Integers, Sequences, FiniteSets

CONSTANTS
    Tasks,              \* identities of tasks; one is reused when nothing refers to it
    Scheduled,          \* the kinds of service: is it a ScheduledService?
    CancellingEvents,   \* the events whose handlers may call cancel()
    RestartOnFailure,   \* the values its restartOnFailure property may have
    MaximumFailureCount

ASSUME TasksAssumption == Tasks \subseteq Nat /\ IsFiniteSet(Tasks) /\ 0 \notin Tasks
ASSUME ScheduledAssumption == Scheduled \subseteq BOOLEAN /\ RestartOnFailure \subseteq BOOLEAN
ASSUME HandlersAssumption ==
    CancellingEvents \subseteq {"READY", "SCHEDULED", "RUNNING", "SUCCEEDED", "FAILED"}
ASSUME FailureAssumption == MaximumFailureCount \in Nat \ {0}

NoTask == 0
States == {"READY", "SCHEDULED", "RUNNING", "SUCCEEDED", "FAILED", "CANCELLED"}

(* Which handler calls cancel(). *)
Handlers == {"none"} \cup CancellingEvents

VARIABLES
    s,      \* the fields of the service and of its tasks, below
    fxq     \* runnables posted to the FX thread, oldest first

vars == <<s, fxq>>

(***************************************************************************)
(* task         the current task, bound to the service's properties        *)
(* state        the service's state property                               *)
(* stop, freshStart, delayTask, failures: fields of ScheduledService       *)
(* taskState    the state property of each task                            *)
(* future       the FutureTask of each task                                *)
(* pc           how far the executor is with each task                     *)
(* timers       the tasks for which a timer is running                     *)
(* iterated     history: the last step started a run of a stopped service  *)
(***************************************************************************)
Fields == [scheduled : BOOLEAN, restartOnFailure : BOOLEAN,
           task : Tasks \cup {NoTask}, state : States,
           stop : BOOLEAN, freshStart : BOOLEAN, delayTask : Tasks \cup {NoTask},
           failures : 0..MaximumFailureCount,
           taskState : [Tasks -> States],
           future : [Tasks -> {"NEW", "NORMAL", "EXCEPTIONAL", "CANCELLED"}],
           pc : [Tasks -> {"returned", "created", "submitted", "calling", "succeeding", "failing"}],
           timers : SUBSET Tasks,
           iterated : BOOLEAN]

Runnables == [kind : {"begin", "succeed", "fail", "timer"}, t : Tasks]

Init ==
    /\ \E k \in Scheduled, r \in RestartOnFailure :
          s = [scheduled |-> k, restartOnFailure |-> r,
               task |-> NoTask, state |-> "READY",
               stop |-> FALSE, freshStart |-> TRUE, delayTask |-> NoTask, failures |-> 0,
               taskState |-> [t \in Tasks |-> "READY"],
               future |-> [t \in Tasks |-> "CANCELLED"],
               pc |-> [t \in Tasks |-> "returned"],
               timers |-> {}, iterated |-> FALSE]
    /\ fxq = <<>>

-----------------------------------------------------------------------------
(* Methods, from record to record. *)

(* The state property changes to x; its listener fires the event. *)
Assign(f, x) == [f EXCEPT !.state = x]

(* Task.cancel() on the FX thread; a bound service follows. *)
CancelTask(f, t) ==
    IF f.future[t] # "NEW" THEN f
    ELSE LET g == [f EXCEPT !.future[t] = "CANCELLED", !.taskState[t] = "CANCELLED"]
         IN  IF f.task = t THEN Assign(g, "CANCELLED") ELSE g

(* Service.cancel() *)
ServiceCancel(f) ==
    IF f.task # NoTask THEN CancelTask(f, f.task)
    ELSE IF f.state \in {"CANCELLED", "SUCCEEDED"} THEN f
    ELSE Assign(f, "CANCELLED")

(* ScheduledService.cancel() also stops the iteration and a running delay. *)
Cancel(f) ==
    LET g == ServiceCancel(f)
    IN  IF ~f.scheduled THEN g
        ELSE [g EXCEPT !.stop = TRUE, !.timers = @ \ {g.delayTask}, !.delayTask = NoTask]

(* A state change together with what its event handler does. *)
Announce(f, x, h) ==
    IF f.state = x THEN f
    ELSE IF h = x THEN Cancel(Assign(f, x)) ELSE Assign(f, x)

(* Task.setState(x) of task t, for the states no service method reacts to. *)
TaskStateOfAnyTask(f, t, x, h) ==
    IF f.taskState[t] = "CANCELLED" THEN f
    ELSE Announce([f EXCEPT !.taskState[t] = x], x, h)
TaskState(f, t, x, h) ==
    IF f.taskState[t] = "CANCELLED" THEN f
    ELSE LET g == [f EXCEPT !.taskState[t] = x]
         IN  IF f.task = t THEN Announce(g, x, h) ELSE g

(* Service.executeTask(), and with the bookkeeping of ScheduledService. *)
Submit(f, t) == [f EXCEPT !.pc[t] = "submitted"]
ExecuteTaskNow(f, t) == [Submit(f, t) EXCEPT !.freshStart = FALSE]

(* ScheduledService.executeTask(): a fresh start waits for `delay', an     *)
(* iteration for what is left of the cumulative period.                    *)
ExecuteTask(f, t, wait) ==
    IF ~f.scheduled THEN Submit(f, t)
    ELSE IF wait THEN [f EXCEPT !.delayTask = t, !.timers = @ \cup {t}]
    ELSE ExecuteTaskNow(f, t)

(* Service.start(): outside READY it throws.                               *)
MayStart(f) == f.state = "READY"
Start(f, t, h, wait) ==
    IF ~MayStart(f) THEN f
    ELSE LET g == [f EXCEPT !.task = t, !.taskState[t] = "READY", !.future[t] = "NEW",
                            !.pc[t] = "created", !.iterated = @ \/ f.stop]
         IN  ExecuteTask(TaskState(g, t, "SCHEDULED", h), t, wait)

(* Service.reset(): while SCHEDULED or RUNNING it throws.                  *)
MayReset(f) == f.state \notin {"SCHEDULED", "RUNNING"}
ServiceReset(f, h) ==
    IF MayReset(f) THEN Announce([f EXCEPT !.task = NoTask], "READY", h) ELSE f

(* ScheduledService.reset(); nothing of it runs when the super call threw. *)
Reset(f, h) ==
    IF ~MayReset(f) \/ ~f.scheduled THEN ServiceReset(f, h)
    ELSE [ServiceReset(f, h) EXCEPT !.stop = FALSE, !.failures = 0, !.freshStart = TRUE]

(* Service.restart() lets go of the running task, whatever its state.      *)
LetGoUncancelled(f) == Assign([f EXCEPT !.task = NoTask], "CANCELLED")
LetGo(f) == Assign([CancelTask(f, f.task) EXCEPT !.task = NoTask], "CANCELLED")
Restart(f, t, h, wait) ==
    LET g == IF f.task = NoTask THEN f ELSE LetGo(f)
    IN  IF MayReset(g) THEN Start(Reset(g, h), t, h, wait) ELSE g

(* Service.cancelFromReadyState() *)
CancelFromReadyState(f, h) == Assign(Announce(f, "SCHEDULED", h), "CANCELLED")

(* ScheduledService.succeeded(): start over, unless cancel() was called.   *)
SucceededIgnoresStop(f, t, h, wait) == Start(ServiceReset(f, h), t, h, wait)
Succeeded(f, t, h, wait) ==
    LET g == ServiceReset(f, h)
    IN  IF f.stop THEN CancelFromReadyState(g, h) ELSE Start(g, t, h, wait)

(* ScheduledService.failed(): start over while failures are tolerated.     *)
Retries(f) == f.restartOnFailure /\ MaximumFailureCount > f.failures + 1
CountFailure(f) == [f EXCEPT !.failures = @ + 1]
Failed(f, t, h, wait) ==
    IF ~Retries(f) THEN CountFailure(f)
    ELSE Start(ServiceReset(CountFailure(f), h), t, h, wait)

(* Task.setState(SUCCEEDED or FAILED) of u, and the service's reaction.    *)
Conclude(f, u, x, t, h, wait) ==
    LET g == TaskState(f, u, x, h)
    IN  IF f.task # u \/ f.taskState[u] = "CANCELLED" \/ ~f.scheduled THEN g
        ELSE IF x = "SUCCEEDED" THEN Succeeded(g, t, h, wait) ELSE Failed(g, t, h, wait)

-----------------------------------------------------------------------------
(* Background threads. *)

Post(k, t) == fxq' = Append(fxq, [kind |-> k, t |-> t])

(* A pool thread enters FutureTask.run(); a cancelled task returns at once. *)
Run(t) ==
    /\ s.pc[t] = "submitted"
    /\ IF s.future[t] = "NEW"
       THEN s' = [s EXCEPT !.pc[t] = "calling", !.iterated = FALSE] /\ Post("begin", t)
       ELSE s' = [s EXCEPT !.pc[t] = "returned", !.iterated = FALSE] /\ UNCHANGED fxq

(* call() returns, or throws; a cancelled task's result is dropped. *)
CallReturns(t) ==
    /\ s.pc[t] = "calling"
    /\ s' = [s EXCEPT !.pc[t] = "succeeding", !.iterated = FALSE]
    /\ IF s.future[t] = "CANCELLED" THEN UNCHANGED fxq ELSE Post("succeed", t)

CallThrows(t) ==
    /\ s.pc[t] = "calling"
    /\ s' = [s EXCEPT !.pc[t] = "failing", !.iterated = FALSE]
    /\ Post("fail", t)

(* FutureTask.set() or setException() *)
CompleteFuture(t) ==
    /\ s.pc[t] \in {"succeeding", "failing"}
    /\ s' = [s EXCEPT !.pc[t] = "returned", !.iterated = FALSE,
                      !.future[t] = IF @ # "NEW" THEN @
                                    ELSE IF s.pc[t] = "failing" THEN "EXCEPTIONAL" ELSE "NORMAL"]
    /\ UNCHANGED fxq

(* The delay is over: the timer thread posts the continuation. *)
TimerFires(t) ==
    /\ t \in s.timers
    /\ s' = [s EXCEPT !.timers = @ \ {t}, !.iterated = FALSE]
    /\ Post("timer", t)

-----------------------------------------------------------------------------
(* The FX thread. *)

(* A task nobody refers to any more; its identity serves for the next one. *)
Free == {t \in Tasks :
            /\ t \notin {s.task, s.delayTask} \cup s.timers
            /\ s.pc[t] \in {"returned", "created"}
            /\ \A i \in 1..Len(fxq) : fxq[i].t # t}

(* createTask().  Tasks bounds how many identities are in use at a time:   *)
(* the application waits until a spare one is left for an iteration.       *)
NewTask(t) == t \in Free /\ \A u \in Free : t <= u
SpareTask == Cardinality(Free) >= 2

(* The record an FX step starts from. *)
Now == [s EXCEPT !.iterated = FALSE]

(* The TimerTask's runnable: whatever delayTask is by now is forgotten. *)
DelayOverForgets(f, t) == [f EXCEPT !.delayTask = NoTask]
DelayOver(f, t) == [ExecuteTaskNow(f, t) EXCEPT !.delayTask = NoTask]

FxTake(k) == fxq # <<>> /\ Head(fxq).kind = k /\ fxq' = Tail(fxq)
HeadTask == Head(fxq).t

FxBegin(h) ==
    /\ FxTake("begin")
    /\ s' = TaskState(TaskState(Now, HeadTask, "SCHEDULED", h), HeadTask, "RUNNING", h)
FxConclude(t, h, wait) ==
    \/ FxTake("succeed") /\ s' = Conclude(Now, HeadTask, "SUCCEEDED", t, h, wait)
    \/ FxTake("fail") /\ s' = Conclude(Now, HeadTask, "FAILED", t, h, wait)
FxTimer ==
    /\ FxTake("timer")
    /\ s' = DelayOver(Now, HeadTask)

AppStart(t, h, wait) == s' = Start(Now, t, h, wait) /\ UNCHANGED fxq
AppRestart(t, h, wait) == s' = Restart(Now, t, h, wait) /\ UNCHANGED fxq
AppCancel == s' = Cancel(Now) /\ UNCHANGED fxq
AppReset(h) == s' = Reset(Now, h) /\ UNCHANGED fxq

FxStep ==
    \/ \E h \in Handlers : FxBegin(h)
    \/ \E t \in Tasks, h \in Handlers, wait \in BOOLEAN : NewTask(t) /\ FxConclude(t, h, wait)
    \/ FxTimer

Next ==
    \/ \E t \in Tasks : \/ Run(t) \/ CallReturns(t) \/ CallThrows(t)
                        \/ CompleteFuture(t) \/ TimerFires(t)
    \/ FxStep
    \/ \E t \in Tasks, h \in Handlers, wait \in BOOLEAN :
          NewTask(t) /\ SpareTask /\ (AppStart(t, h, wait) \/ AppRestart(t, h, wait))
    \/ AppCancel
    \/ \E h \in Handlers : AppReset(h)

Spec == Init /\ [][Next]_vars

(***************************************************************************)
(* Pool threads run what is submitted, the timer fires, call() ends and    *)
(* the FX thread drains its queue.  Nobody has to call the service.  The   *)
(* last conjunct is WF_vars(FxStep) spelled out, cheaper to evaluate:      *)
(* FxDue is when FxStep is enabled, and only FxStep shortens the queue.    *)
(***************************************************************************)
FxDue == fxq # <<>> /\ (Head(fxq).kind \in {"succeed", "fail"} => Free # {})

Fairness ==
    /\ \A t \in Tasks : /\ WF_vars(Run(t)) /\ WF_vars(CompleteFuture(t))
                        /\ WF_vars(TimerFires(t))
                        /\ WF_vars(CallReturns(t) \/ CallThrows(t))
    /\ []<>~FxDue \/ []<><<FxDue /\ fxq' = Tail(fxq)>>_vars

FairSpec == Spec /\ Fairness

-----------------------------------------------------------------------------
(* Properties. *)

(* The types of the fields and of the queue.                               *)
TypeOK == s \in Fields /\ fxq \in Seq(Runnables)

(* However restarts, delays and late runnables interleave, no two tasks of *)
(* a service execute call() without one of them having been cancelled.     *)
OneRunAtATime ==
    \A t, u \in Tasks :
        /\ s.pc[t] = "calling" /\ s.future[t] = "NEW"
        /\ s.pc[u] = "calling" /\ s.future[u] = "NEW"
        => t = u

(* "the Service will be none the wiser" (Service.restart()): what a task   *)
(* that was let go still posts never shows in the service, which always    *)
(* has the state of its current task.                                      *)
MirrorsCurrentTask == s.task # NoTask => s.state = s.taskState[s.task]

(* ScheduledService.cancel(): "no additional iterations will occur", until *)
(* the next reset() or restart().                                          *)
NoIterationAfterCancel == ~s.iterated

(* So it is for a service that does not restart on failure, whenever and   *)
(* from whatever handler cancel() is called.                               *)
StopsWhenCancelled == ~s.restartOnFailure => NoIterationAfterCancel

(* A run that was scheduled is eventually started or called off, whatever  *)
(* becomes of its timer.                                                   *)
ScheduledRunHappens ==
    \A t \in Tasks :
        s.task = t /\ s.state = "SCHEDULED" ~> s.task # t \/ s.state # "SCHEDULED"
=============================================================================
