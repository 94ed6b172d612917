-------------------------------- MODULE Task --------------------------------
(***************************************************************************)
(* javafx.concurrent.Task: a FutureTask whose outcome, progress, message,  *)
(* title and value are published on the FX application thread.             *)
(*                                                                         *)
(* Three kinds of actors interleave.  Background threads (one of them, the *)
(* Executor, runs the wrapped callable) update a channel or cancel the     *)
(* task; each such call changes an atomic reference or the future first    *)
(* and posts a runnable afterwards, and the two are separate steps.  The   *)
(* FX thread takes runnables from its queue in order and executes          *)
(* setState() one assignment at a time, because listeners and handlers run *)
(* in between.  Application code on the FX thread is those listeners,      *)
(* handlers and unrelated events; it calls cancel() and update*() too.     *)
(***************************************************************************)
EXTENDS Integers, Sequences, FiniteSets

CONSTANTS
    Threads,            \* background threads that hold a reference to the task
    Executor,           \* the one of them that calls FutureTask.run()
    Channels,           \* the coalescing AtomicReferences: progress, message, ...
    Values,             \* the values passed to update*()
    NULL,               \* the empty reference
    RESULT,             \* what call() returns
    ReentrantListeners  \* do listeners of state/running/value/exception call cancel()?

StateRunnables == {"begin", "succeed", "fail", "cancelled"}

ASSUME ExecutorAssumption == Executor \in Threads
ASSUME ChannelsAssumption == "value" \in Channels /\ Channels \cap StateRunnables = {}
                             /\ "none" \notin Channels
ASSUME ResultAssumption == RESULT # NULL /\ RESULT \notin Values
ASSUME ListenersAssumption == ReentrantListeners \in BOOLEAN

VARIABLES
    future,     \* FutureTask's state: NEW, NORMAL, EXCEPTIONAL or CANCELLED
    runPc,      \* how far the Executor is in FutureTask.run()
    outcome,    \* how call() ended: "none", "result", "exception" or "dropped"
    hand,       \* hand[t]: the runnable thread t is about to pass to runLater()
    fxq,        \* runnables posted to the FX thread, oldest first
    main,       \* the setState() the running runnable executes
    nest,       \* the setState(CANCELLED) of a cancel() called on the FX thread
    state, running, exception,      \* FX properties of the worker
    prop,       \* prop[c]: the FX property that channel c feeds
    pending,    \* pending[c]: the AtomicReference of channel c
    events      \* events[s]: how many events of type s were fired

vars == <<future, runPc, outcome, hand, fxq, main, nest, state, running,
          exception, prop, pending, events>>

fxVars == <<main, nest, state, running, exception, prop, events>>

States == {"READY", "SCHEDULED", "RUNNING", "SUCCEEDED", "FAILED", "CANCELLED"}

(* A channel stands for the runnable that delivers it. *)
Runnables == StateRunnables \cup Channels

(***************************************************************************)
(* setState(target) in progress.  `phase' is what happens next: "before"   *)
(* is the assignment a concluding runnable makes ahead of setState,        *)
(* "set" the state assignment, "running" the running flag, "fire" the      *)
(* event, and in "handlers" the event handlers execute.                    *)
(***************************************************************************)
Phases == {"idle", "before", "set", "running", "fire", "handlers"}
Frame(s, p) == [target |-> s, phase |-> p]
Idle == Frame("READY", "idle")
Frames == [target : States, phase : Phases]

Init ==
    /\ future = "NEW"
    /\ runPc = "idle"
    /\ outcome = "none"
    /\ hand = [t \in Threads |-> "none"]
    /\ fxq = <<>>
    /\ main = Idle
    /\ nest = Idle
    /\ state = "READY"
    /\ running = FALSE
    /\ exception = FALSE
    /\ prop = [c \in Channels |-> NULL]
    /\ pending = [c \in Channels |-> NULL]
    /\ events = [s \in States |-> 0]

-----------------------------------------------------------------------------
(* The Executor: FutureTask.run() and TaskCallable.call().                 *)

(* Only a NEW future is run; the first thing call() does is to announce    *)
(* SCHEDULED and RUNNING.                                                  *)
Run ==
    /\ runPc = "idle"
    /\ IF future = "NEW"
       THEN /\ runPc' = "calling"
            /\ hand' = [hand EXCEPT ![Executor] = "begin"]
       ELSE /\ runPc' = "returned"
            /\ UNCHANGED hand
    /\ UNCHANGED <<future, outcome, fxq, fxVars, pending>>

(* The client's call() returned; a cancelled task drops the result.        *)
CallReturns ==
    /\ runPc = "calling"
    /\ hand[Executor] = "none"
    /\ runPc' = "completing"
    /\ IF future # "CANCELLED"
       THEN /\ hand' = [hand EXCEPT ![Executor] = "succeed"]
            /\ outcome' = "result"
       ELSE /\ outcome' = "dropped"
            /\ UNCHANGED hand
    /\ UNCHANGED <<future, fxq, fxVars, pending>>

(* call() threw: the failure is announced whether or not it was cancelled. *)
CallThrows ==
    /\ runPc = "calling"
    /\ hand[Executor] = "none"
    /\ runPc' = "completing"
    /\ hand' = [hand EXCEPT ![Executor] = "fail"]
    /\ outcome' = "exception"
    /\ UNCHANGED <<future, fxq, fxVars, pending>>

(* FutureTask.set()/setException(): only a NEW future takes the outcome.   *)
FutureOutcome == IF outcome = "exception" THEN "EXCEPTIONAL" ELSE "NORMAL"

CompleteFuture ==
    /\ runPc = "completing"
    /\ hand[Executor] = "none"
    /\ runPc' = "returned"
    /\ future' = IF future = "NEW" THEN FutureOutcome ELSE future
    /\ UNCHANGED <<outcome, hand, fxq, fxVars, pending>>

-----------------------------------------------------------------------------
(* Calls from background threads.                                          *)

(* The executor thread runs client code only inside call(). *)
InClientCode(t) ==
    /\ hand[t] = "none"
    /\ t = Executor => runPc = "calling"

(* update*() off the FX thread: exchange the reference; whoever found it   *)
(* empty posts the delivery.                                               *)
NeedsDeliveryAlways(c) == TRUE
NeedsDeliveryInverted(c) == pending[c] # NULL
NeedsDelivery(c) == pending[c] = NULL

Update(t, c, v) ==
    /\ InClientCode(t)
    /\ pending' = [pending EXCEPT ![c] = v]
    /\ hand' = IF NeedsDelivery(c) THEN [hand EXCEPT ![t] = c] ELSE hand
    /\ UNCHANGED <<future, runPc, outcome, fxq, fxVars>>

(* FutureTask.cancel() succeeds on a NEW future only. *)
CancelAccepted == future = "NEW"

(* cancel() off the FX thread: when the future accepted it, the state      *)
(* follows through the queue.                                              *)
Cancel(t) ==
    /\ InClientCode(t)
    /\ CancelAccepted
    /\ future' = "CANCELLED"
    /\ hand' = [hand EXCEPT ![t] = "cancelled"]
    /\ UNCHANGED <<runPc, outcome, fxq, fxVars, pending>>

HasRunnable(t) == hand[t] # "none"

(* Platform.runLater(): the runnable in hand joins the FX queue.           *)
RunLater(t) ==
    /\ HasRunnable(t)
    /\ fxq' = Append(fxq, hand[t])
    /\ hand' = [hand EXCEPT ![t] = "none"]
    /\ UNCHANGED <<future, runPc, outcome, fxVars, pending>>

-----------------------------------------------------------------------------
(* The FX application thread.                                              *)

FxIdle == main = Idle /\ nest = Idle

(* The innermost setState() on the FX thread's stack. *)
Top == IF nest # Idle THEN nest ELSE main
ReplaceTop(f) == IF nest # Idle THEN nest' = f /\ main' = main
                                ELSE main' = f /\ nest' = nest

(* What follows a finished setState(s): the runnable that announces the    *)
(* start goes on from SCHEDULED to RUNNING.                                *)
AfterScheduledNothing(s) == Idle
After(s) == IF s = "SCHEDULED" THEN Frame("RUNNING", "set") ELSE Idle

(* The frame a posted state runnable starts with. *)
Entry(r) == CASE r = "begin"   -> Frame("SCHEDULED", "set")
              [] r = "succeed" -> Frame("SUCCEEDED", "before")
              [] r = "fail"    -> Frame("FAILED", "before")
              [] r = "cancelled" -> Frame("CANCELLED", "set")

FxTakeState ==
    /\ FxIdle
    /\ fxq # <<>>
    /\ Head(fxq) \in StateRunnables
    /\ main' = Entry(Head(fxq))
    /\ fxq' = Tail(fxq)
    /\ UNCHANGED <<future, runPc, outcome, hand, nest, state, running,
                   exception, prop, pending, events>>

(* The delivery of an update takes whatever is in the reference by now and *)
(* empties it.                                                             *)
FxDeliver(c) ==
    /\ FxIdle
    /\ fxq # <<>>
    /\ Head(fxq) = c
    /\ prop' = [prop EXCEPT ![c] = pending[c]]
    /\ pending' = [pending EXCEPT ![c] = NULL]
    /\ fxq' = Tail(fxq)
    /\ UNCHANGED <<future, runPc, outcome, hand, main, nest, state, running,
                   exception, events>>

(* updateValue(result) or _setException(th), ahead of setState().          *)
FxBefore ==
    /\ Top.phase = "before"
    /\ IF Top.target = "SUCCEEDED"
       THEN prop' = [prop EXCEPT !["value"] = RESULT] /\ UNCHANGED exception
       ELSE exception' = TRUE /\ UNCHANGED prop
    /\ ReplaceTop(Frame(Top.target, "set"))
    /\ UNCHANGED <<future, runPc, outcome, hand, fxq, state, running, pending, events>>

(* setState(): a CANCELLED task ignores it altogether.                     *)
IgnoresSetStateNever == FALSE
IgnoresSetStateOnceEnded == state \in {"CANCELLED", "SUCCEEDED", "FAILED"}
IgnoresSetState == state = "CANCELLED"

SetStateFiresAnyway(s) == Frame(s, IF IgnoresSetState THEN "fire" ELSE "running")
AfterAssignment(s) == IF IgnoresSetState THEN After(s) ELSE Frame(s, "running")

FxSetState ==
    /\ Top.phase = "set"
    /\ state' = IF IgnoresSetState THEN state ELSE Top.target
    /\ ReplaceTop(AfterAssignment(Top.target))
    /\ UNCHANGED <<future, runPc, outcome, hand, fxq, running, exception, prop,
                   pending, events>>

Runs(s) == s \in {"SCHEDULED", "RUNNING"}

FxSetRunning ==
    /\ Top.phase = "running"
    /\ running' = Runs(Top.target)
    /\ ReplaceTop(Frame(Top.target, "fire"))
    /\ UNCHANGED <<future, runPc, outcome, hand, fxq, state, exception, prop,
                   pending, events>>

(* The event fired is that of the state read back, not of the argument.    *)
FxFireEvent ==
    /\ Top.phase = "fire"
    /\ events' = [events EXCEPT ![state] = @ + 1]
    /\ ReplaceTop(Frame(Top.target, "handlers"))
    /\ UNCHANGED <<future, runPc, outcome, hand, fxq, state, running, exception,
                   prop, pending>>

FxHandlersReturn ==
    /\ Top.phase = "handlers"
    /\ ReplaceTop(After(Top.target))
    /\ UNCHANGED <<future, runPc, outcome, hand, fxq, state, running, exception,
                   prop, pending, events>>

(* Application code runs on the FX thread between runnables, in event      *)
(* handlers, and in the property listeners that an assignment notifies.    *)
InListener ==
    \/ Top.phase \in {"running", "fire"}
    \/ Top.phase = "set" /\ Top.target \in {"SUCCEEDED", "FAILED"}

AppOnFx ==
    \/ Top.phase \in {"idle", "handlers"}
    \/ ReentrantListeners /\ InListener

(* cancel() on the FX thread sets the state before it returns.             *)
FxCancel ==
    /\ AppOnFx
    /\ CancelAccepted
    /\ future' = "CANCELLED"
    /\ nest' = Frame("CANCELLED", "set")
    /\ UNCHANGED <<runPc, outcome, hand, fxq, main, state, running, exception,
                   prop, pending, events>>

(* update*() on the FX thread assigns the property at once.                *)
FxUpdate(c, v) ==
    /\ AppOnFx
    /\ prop' = [prop EXCEPT ![c] = v]
    /\ UNCHANGED <<future, runPc, outcome, hand, fxq, main, nest, state, running,
                   exception, pending, events>>

FxStep == \/ FxTakeState \/ FxBefore \/ FxSetState \/ FxSetRunning
          \/ FxFireEvent \/ FxHandlersReturn
          \/ \E c \in Channels : FxDeliver(c)

Next ==
    \/ Run \/ CallReturns \/ CallThrows \/ CompleteFuture
    \/ \E t \in Threads : Cancel(t) \/ RunLater(t)
    \/ \E t \in Threads, c \in Channels, v \in Values : Update(t, c, v)
    \/ FxStep
    \/ FxCancel
    \/ \E c \in Channels, v \in Values : FxUpdate(c, v)

Spec == Init /\ [][Next]_vars

(***************************************************************************)
(* A thread that has started runLater() or FutureTask.set() finishes it,   *)
(* and the FX thread keeps draining its queue.  call() itself may never    *)
(* return, and nothing obliges anybody to run, update or cancel the task.  *)
(***************************************************************************)
Fairness ==
    /\ \A t \in Threads : WF_vars(RunLater(t))
    /\ WF_vars(CompleteFuture)
    /\ WF_vars(FxStep)

FairSpec == Spec /\ Fairness

-----------------------------------------------------------------------------
(* Properties. *)

(* Every variable has its type.                                            *)
TypeOK ==
    /\ future \in {"NEW", "NORMAL", "EXCEPTIONAL", "CANCELLED"}
    /\ runPc \in {"idle", "calling", "completing", "returned"}
    /\ outcome \in {"none", "result", "exception", "dropped"}
    /\ hand \in [Threads -> Runnables \cup {"none"}]
    /\ fxq \in Seq(Runnables)
    /\ main \in Frames
    /\ nest \in Frames
    /\ state \in States
    /\ running \in BOOLEAN
    /\ exception \in BOOLEAN
    /\ prop \in [Channels -> Values \cup {NULL, RESULT}]
    /\ pending \in [Channels -> Values \cup {NULL}]
    /\ events \in [States -> Nat]

Holders(r) == {t \in Threads : hand[t] = r}
Posted(r) == {i \in 1..Len(fxq) : fxq[i] = r}

(***************************************************************************)
(* The AtomicReference of a channel is a ticket: it is non-empty exactly   *)
(* while one delivery of the channel is outstanding, in the hands of one   *)
(* thread or in the FX queue.  So a delivery never finds an empty          *)
(* reference (the progress delivery would dereference null), and however   *)
(* fast the background threads update, the queue holds one runnable per    *)
(* channel.  Needs updates to be non-null.                                 *)
(***************************************************************************)
CoalescedUpdates ==
    \A c \in Channels :
        /\ pending[c] # NULL <=> Holders(c) # {} \/ Posted(c) # {}
        /\ Holders(c) = {} \/ Posted(c) = {}
        /\ \A t, u \in Holders(c) : t = u
        /\ \A i, j \in Posted(c) : i = j

(* No state is announced twice, whatever cancel() races with: each event   *)
(* type of setState() is fired at most once in the life of a task.         *)
EventsOnce == \A s \in States : events[s] <= 1

(* The state a concluded future must end up with on the FX thread. *)
Mirror(f) == CASE f = "NORMAL" -> "SUCCEEDED"
               [] f = "EXCEPTIONAL" -> "FAILED"
               [] f = "CANCELLED" -> "CANCELLED"

Quiescent == /\ FxIdle /\ fxq = <<>>
             /\ \A t \in Threads : hand[t] = "none"

(* Once nothing is in flight, the FX state and the concluded future tell   *)
(* the same story, however completion and cancellation raced.              *)
ConclusionAgrees ==
    Quiescent /\ future # "NEW" => state = Mirror(future)

Lifecycle == INSTANCE WorkerLifecycle

(* The states a client sees follow the Worker life cycle.                  *)
FollowsLifecycle == Lifecycle!Spec

(* Every update of a channel is eventually shown or superseded.            *)
UpdatesDelivered ==
    \A c \in Channels : pending[c] # NULL ~> pending[c] = NULL

(* A concluded future is eventually reflected in the FX state.             *)
ConclusionObserved ==
    \A f \in {"NORMAL", "EXCEPTIONAL", "CANCELLED"} :
        future = f ~> state = Mirror(f)
=============================================================================
