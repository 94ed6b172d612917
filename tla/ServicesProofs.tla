--------------------------- MODULE ServicesProofs ---------------------------
(***************************************************************************)
(* Theorems about the Services module, for any set of task identities, any *)
(* maximum of failures and whatever handlers cancel().                     *)
(*                                                                         *)
(* The methods are operators from record to record, so the invariant is    *)
(* one of records (Base), and there is a lemma for each method that says   *)
(* what it makes of a record that has it.  Within a method the service is  *)
(* at times in a state that no other step sees: it has a new task and is   *)
(* still READY.  Rests says that it is not so between two steps.           *)
(***************************************************************************)
EXTENDS Services, TLAPS

Over == {"succeeding", "failing", "returned"}
Active == {"created", "submitted", "calling"}

(* The fields, with any number of failures. *)
Typed == [scheduled : BOOLEAN, restartOnFailure : BOOLEAN,
          task : Tasks \cup {NoTask}, state : States,
          stop : BOOLEAN, freshStart : BOOLEAN, delayTask : Tasks \cup {NoTask},
          failures : Nat,
          taskState : [Tasks -> States],
          future : [Tasks -> {"NEW", "NORMAL", "EXCEPTIONAL", "CANCELLED"}],
          pc : [Tasks -> Over \cup Active],
          timers : SUBSET Tasks,
          iterated : BOOLEAN]

(* The service has the state of its task. *)
Mirrors(f) == f.task # NoTask => f.state = f.taskState[f.task]

(* A task that may still come to call() is the current one. *)
Owns(f) == \A t \in Tasks : f.future[t] = "NEW" /\ f.pc[t] \in Active => t = f.task

(* A task is announced as over when it is. *)
Ends(f) == \A t \in Tasks : /\ f.taskState[t] = "CANCELLED" => f.future[t] = "CANCELLED"
                            /\ f.taskState[t] \in {"SUCCEEDED", "FAILED"} => f.pc[t] \in Over

(* Only a ScheduledService stops, and only one that restarts after failures *)
(* starts a run when it is stopped.                                         *)
Stops(f) == /\ f.stop => f.scheduled
            /\ f.iterated => f.restartOnFailure

Base(f) == f \in Typed /\ Mirrors(f) /\ Owns(f) /\ Ends(f) /\ Stops(f)

(* Between two steps, a service that is READY has no task and is not stopped. *)
Rests(f) == f.task # NoTask \/ f.stop => f.state # "READY"

(* A conclusion is posted when call() is over, a timer runs or has run for *)
(* a task that was not submitted, and but once.                            *)
Posted(f, q) ==
    /\ q \in Seq(Runnables)
    /\ \A i \in 1..Len(q) : /\ q[i].kind \in {"succeed", "fail"} => f.pc[q[i].t] \in Over
                            /\ q[i].kind = "timer" => f.pc[q[i].t] = "created" /\ q[i].t \notin f.timers
    /\ \A t \in f.timers : f.pc[t] = "created"
    /\ \A i, j \in 1..Len(q) : q[i].kind = "timer" /\ q[j] = q[i] => i = j

Inv == Base(s) /\ Rests(s) /\ Posted(s, fxq)

(* What the methods that start no task leave alone. *)
Frame(f, g) ==
    /\ g.scheduled = f.scheduled /\ g.restartOnFailure = f.restartOnFailure
    /\ g.iterated = f.iterated
    /\ g.pc = f.pc /\ g.timers \subseteq f.timers
    /\ f.stop => g.stop

-----------------------------------------------------------------------------
(* The methods that start no task.                                         *)

(* There is no task that is no task. *)
LEMMA NoTaskIsNone == NoTask \notin Tasks
BY TasksAssumption DEF NoTask

(* Changing the state property changes nothing else. *)
LEMMA AssignFacts ==
    ASSUME NEW f \in Typed, NEW x \in States
    PROVE  LET g == Assign(f, x)
           IN  /\ g \in Typed /\ g.state = x /\ Frame(f, g)
               /\ g.task = f.task /\ g.stop = f.stop
               /\ g.taskState = f.taskState /\ g.future = f.future
               /\ f.state = x => g = f
BY DEF Typed, Assign, Frame

(* Task.cancel() takes the service with it. *)
LEMMA CancelTaskFacts ==
    ASSUME NEW f, Base(f), f.task # NoTask
    PROVE  LET g == CancelTask(f, f.task)
           IN  /\ Base(g) /\ Frame(f, g)
               /\ g.task = f.task /\ g.stop = f.stop
               /\ g.state \in {f.state, "CANCELLED"}
               /\ g.future[f.task] # "NEW"
<1> DEFINE t == f.task
           e == [f EXCEPT !.future[t] = "CANCELLED", !.taskState[t] = "CANCELLED"]
           g == CancelTask(f, t)
<1>1. f \in Typed /\ t \in Tasks
  BY DEF Base, Typed
<1>2. CASE f.future[t] # "NEW"
  BY <1>2 DEF CancelTask, Frame
<1>3. CASE f.future[t] = "NEW"
  <2>1. /\ e \in Typed /\ Frame(f, e) /\ e.task = t /\ e.stop = f.stop
        /\ e.future = [f.future EXCEPT ![t] = "CANCELLED"]
        /\ e.taskState = [f.taskState EXCEPT ![t] = "CANCELLED"]
    BY <1>1 DEF Typed, Frame, States
  <2>2. g = Assign(e, "CANCELLED")
    BY <1>3 DEF CancelTask
  <2> HIDE DEF e, g
  <2>3. /\ g \in Typed /\ g.state = "CANCELLED" /\ Frame(f, g)
        /\ g.task = t /\ g.stop = f.stop
        /\ g.taskState = [f.taskState EXCEPT ![t] = "CANCELLED"]
        /\ g.future = [f.future EXCEPT ![t] = "CANCELLED"]
    BY <2>1, <2>2, AssignFacts DEF Frame, States
  <2>4. f.taskState \in [Tasks -> States] /\ DOMAIN f.future = Tasks
    BY <1>1 DEF Typed
  <2>5. Mirrors(g)
    BY <1>1, <2>3, <2>4 DEF Mirrors
  <2>6. Owns(g)
    BY <1>1, <2>3, <2>4 DEF Owns, Base, Frame
  <2>7. Ends(g)
    BY <1>1, <2>3, <2>4 DEF Ends, Base, Frame
  <2>8. Stops(g)
    BY <2>3 DEF Stops, Base, Frame
  <2>9. g.future[t] # "NEW"
    BY <1>1, <2>3, <2>4
  <2> QED BY <2>3, <2>5, <2>6, <2>7, <2>8, <2>9 DEF Base, g
<1> QED BY <1>2, <1>3

(* cancel() leaves a service that is not READY, whatever it had to cancel. *)
LEMMA CancelFacts ==
    ASSUME NEW f, Base(f), f.task # NoTask => f.state # "READY"
    PROVE  LET g == Cancel(f)
           IN  /\ Base(g) /\ Frame(f, g) /\ g.task = f.task
               /\ g.state # "READY" /\ g.state \in {f.state, "CANCELLED"}
<1> DEFINE e == ServiceCancel(f)
           g == Cancel(f)
<1>1. f \in Typed
  BY DEF Base
<1>2. /\ Base(e) /\ Frame(f, e) /\ e.task = f.task /\ e.stop = f.stop
      /\ e.state # "READY" /\ e.state \in {f.state, "CANCELLED"}
  <2>1. CASE f.task # NoTask
    BY <2>1, CancelTaskFacts DEF ServiceCancel
  <2>2. CASE f.task = NoTask /\ f.state \in {"CANCELLED", "SUCCEEDED"}
    BY <2>2 DEF ServiceCancel, Frame
  <2>3. CASE f.task = NoTask /\ f.state \notin {"CANCELLED", "SUCCEEDED"}
    <3>1. e = Assign(f, "CANCELLED")
      BY <2>3 DEF ServiceCancel
    <3> HIDE DEF e
    <3>2. /\ e \in Typed /\ e.state = "CANCELLED" /\ Frame(f, e) /\ e.task = f.task
          /\ e.stop = f.stop /\ e.taskState = f.taskState /\ e.future = f.future
      BY <1>1, <3>1, AssignFacts DEF States
    <3>3. Base(e)
      BY <2>3, <3>2 DEF Base, Mirrors, Owns, Ends, Stops, Frame
    <3> QED BY <3>2, <3>3
  <2> QED BY <2>1, <2>2, <2>3
<1>3. CASE ~f.scheduled
  BY <1>2, <1>3 DEF Cancel
<1>4. CASE f.scheduled
  <2>1. g = [e EXCEPT !.stop = TRUE, !.timers = @ \ {e.delayTask}, !.delayTask = NoTask]
    BY <1>4 DEF Cancel
  <2>2. e \in Typed /\ e.scheduled = TRUE
    BY <1>1, <1>2, <1>4 DEF Base, Frame, Typed
  <2> HIDE DEF e, g
  <2>3. /\ g \in Typed /\ g.task = e.task /\ g.state = e.state /\ g.stop = TRUE
        /\ g.taskState = e.taskState /\ g.future = e.future
        /\ Frame(e, g)
    BY <2>1, <2>2 DEF Typed, Frame
  <2>4. Base(g)
    BY <1>2, <2>2, <2>3 DEF Base, Mirrors, Owns, Ends, Stops, Frame
  <2> QED BY <1>2, <2>3, <2>4 DEF Frame, g
<1> QED BY <1>3, <1>4, <1>1 DEF Typed

(* The state property changes to x, and the handler of the event may       *)
(* cancel().                                                               *)
LEMMA AnnounceFacts ==
    ASSUME NEW f \in Typed, NEW x \in States, NEW h,
           Base(Assign(f, x)), f.task # NoTask => x # "READY"
    PROVE  LET g == Announce(f, x, h)
           IN  /\ Base(g) /\ Frame(f, g) /\ g.task = f.task
               /\ g.state \in {x, "CANCELLED"}
               /\ g.state = "READY" => g.stop = f.stop
<1> DEFINE e == Assign(f, x)
           g == Announce(f, x, h)
<1>1. /\ e \in Typed /\ e.state = x /\ Frame(f, e) /\ e.task = f.task /\ e.stop = f.stop
      /\ f.state = x => e = f
  BY AssignFacts
<1>2. CASE f.state = x \/ h # x
  <2>1. g = e
    BY <1>1, <1>2 DEF Announce
  <2> QED BY <1>1, <2>1
<1>3. CASE f.state # x /\ h = x
  <2>1. g = Cancel(e)
    BY <1>3 DEF Announce
  <2> HIDE DEF e, g
  <2>2. Base(e)
    BY DEF e
  <2>3. /\ Base(g) /\ Frame(e, g) /\ g.task = e.task
        /\ g.state # "READY" /\ g.state \in {x, "CANCELLED"}
    BY <1>1, <2>1, <2>2, CancelFacts
  <2>4. Frame(f, g)
    BY <1>1, <2>3 DEF Frame
  <2> QED BY <1>1, <2>3, <2>4 DEF g
<1> QED BY <1>2, <1>3

(* Task.setState(x) of any task: the service follows its own task, and     *)
(* what becomes of another one does not show.                              *)
LEMMA TaskStateFacts ==
    ASSUME NEW f, Base(f), NEW t \in Tasks, NEW h,
           NEW x \in {"SCHEDULED", "RUNNING", "SUCCEEDED", "FAILED"},
           x \in {"SUCCEEDED", "FAILED"} => f.pc[t] \in Over
    PROVE  LET g == TaskState(f, t, x, h)
           IN  /\ Base(g) /\ Frame(f, g) /\ g.task = f.task
               /\ f.task = t /\ f.taskState[t] # "CANCELLED" => g.state \in {x, "CANCELLED"}
               /\ f.task # t \/ f.taskState[t] = "CANCELLED" =>
                     g.state = f.state /\ g.stop = f.stop
<1> DEFINE e == [f EXCEPT !.taskState[t] = x]
           g == TaskState(f, t, x, h)
<1>1. f \in Typed /\ x \in States
  BY DEF Base, States
<1>2. CASE f.taskState[t] = "CANCELLED"
  BY <1>2 DEF TaskState, Frame
<1>3. CASE f.taskState[t] # "CANCELLED"
  <2>1. /\ e \in Typed /\ Frame(f, e) /\ e.task = f.task /\ e.stop = f.stop
        /\ e.state = f.state /\ e.future = f.future
        /\ e.taskState = [f.taskState EXCEPT ![t] = x]
    BY <1>1 DEF Typed, Frame
  <2>2. f.taskState \in [Tasks -> States]
    BY <1>1 DEF Typed
  <2>3. CASE f.task # t
    <3>1. g = e
      BY <1>3, <2>3 DEF TaskState
    <3> HIDE DEF e
    <3>2. Base(e)
      <4>1. Mirrors(e)
        BY <2>1, <2>2, <2>3, NoTaskIsNone DEF Mirrors, Base
      <4>2. Owns(e) /\ Stops(e)
        BY <2>1 DEF Owns, Stops, Base, Frame
      <4>3. Ends(e)
        BY <2>1, <2>2 DEF Ends, Base, Frame
      <4> QED BY <2>1, <4>1, <4>2, <4>3 DEF Base
    <3> QED BY <2>1, <2>3, <3>1, <3>2
  <2>4. CASE f.task = t
    <3>1. g = Announce(e, x, h)
      BY <1>3, <2>4 DEF TaskState
    <3> DEFINE a == Assign(e, x)
    <3> HIDE DEF e, g, a
    <3>2. /\ a \in Typed /\ a.state = x /\ Frame(e, a) /\ a.task = e.task
          /\ a.taskState = e.taskState /\ a.future = e.future /\ a.stop = e.stop
      BY <1>1, <2>1, AssignFacts DEF a
    <3>3. Base(a)
      <4>1. Mirrors(a)
        BY <2>1, <2>2, <2>4, <3>2 DEF Mirrors
      <4>2. Owns(a) /\ Stops(a)
        BY <2>1, <3>2 DEF Owns, Stops, Base, Frame
      <4>3. Ends(a)
        BY <2>1, <2>2, <3>2 DEF Ends, Base, Frame
      <4> QED BY <3>2, <4>1, <4>2, <4>3 DEF Base
    <3>4. /\ Base(g) /\ Frame(e, g) /\ g.task = e.task /\ g.state \in {x, "CANCELLED"}
      BY <1>1, <2>1, <3>1, <3>3, AnnounceFacts DEF a
    <3>5. Frame(f, g)
      BY <2>1, <3>4 DEF Frame
    <3> QED BY <1>3, <2>1, <2>4, <3>4, <3>5 DEF g
  <2> QED BY <2>3, <2>4
<1> QED BY <1>2, <1>3

(* reset() lets go of a task that is over, so that the service owns none   *)
(* that may still be called.                                               *)
LEMMA ServiceResetFacts ==
    ASSUME NEW f, Base(f), NEW h, f.task # NoTask => f.state # "READY"
    PROVE  LET g == ServiceReset(f, h)
           IN  /\ Base(g) /\ Frame(f, g)
               /\ ~MayReset(f) => g = f
               /\ MayReset(f) => /\ g.task = NoTask /\ g.state \in {"READY", "CANCELLED"}
                                 /\ g.state = "READY" => g.stop = f.stop
<1> DEFINE e == [f EXCEPT !.task = NoTask]
           g == ServiceReset(f, h)
           a == Assign(e, "READY")
<1>1. f \in Typed
  BY DEF Base
<1>2. CASE ~MayReset(f)
  BY <1>2 DEF ServiceReset, Frame
<1>3. CASE MayReset(f)
  <2>1. g = Announce(e, "READY", h)
    BY <1>3 DEF ServiceReset
  <2>2. /\ e \in Typed /\ Frame(f, e) /\ e.task = NoTask /\ e.stop = f.stop
        /\ e.future = f.future /\ e.taskState = f.taskState
    BY <1>1 DEF Typed, Frame
  <2> HIDE DEF e, g, a
  <2>3. /\ a \in Typed /\ a.state = "READY" /\ Frame(e, a) /\ a.task = NoTask
        /\ a.taskState = f.taskState /\ a.future = f.future /\ a.stop = e.stop
    BY <2>2, AssignFacts DEF a, States
  <2>4. \A t \in Tasks : ~(f.future[t] = "NEW" /\ f.pc[t] \in Active)
    <3> SUFFICES ASSUME NEW t \in Tasks, f.future[t] = "NEW", f.pc[t] \in Active PROVE FALSE
      OBVIOUS
    <3>1. t = f.task /\ f.task # NoTask
      BY NoTaskIsNone DEF Base, Owns
    <3>2. f.state = f.taskState[t] /\ f.state \in States
      BY <1>1, <3>1 DEF Base, Mirrors, Typed
    <3>3. f.state \in {"SUCCEEDED", "FAILED", "CANCELLED"}
      BY <1>3, <3>1, <3>2 DEF MayReset, States
    <3> QED BY <3>2, <3>3 DEF Base, Ends, Active, Over
  <2>5. Base(a)
    BY <2>2, <2>3, <2>4 DEF Base, Mirrors, Owns, Ends, Stops, Frame
  <2>6. /\ Base(g) /\ Frame(e, g) /\ g.task = NoTask /\ g.state \in {"READY", "CANCELLED"}
        /\ g.state = "READY" => g.stop = e.stop
    BY <2>1, <2>2, <2>5, AnnounceFacts DEF a, States
  <2>7. Frame(f, g)
    BY <2>2, <2>6 DEF Frame
  <2> QED BY <1>3, <2>2, <2>6, <2>7 DEF g
<1> QED BY <1>2, <1>3

(* What is the same for a service whose iteration is not stopped any more. *)
Leaves(f, g) ==
    /\ g.scheduled = f.scheduled /\ g.restartOnFailure = f.restartOnFailure
    /\ g.iterated = f.iterated
    /\ g.pc = f.pc /\ g.timers \subseteq f.timers

(* A service that is READY after reset() is not stopped. *)
LEMMA ResetFacts ==
    ASSUME NEW f, Base(f), NEW h, Rests(f)
    PROVE  LET g == Reset(f, h)
           IN  Base(g) /\ Rests(g) /\ Leaves(f, g)
<1> DEFINE e == ServiceReset(f, h)
           g == Reset(f, h)
<1>1. f \in Typed
  BY DEF Base
<1>2. /\ Base(e) /\ Frame(f, e)
      /\ ~MayReset(f) => e = f
      /\ MayReset(f) => /\ e.task = NoTask /\ e.state \in {"READY", "CANCELLED"}
                        /\ e.state = "READY" => e.stop = f.stop
  BY ServiceResetFacts DEF Rests
<1>3. CASE ~MayReset(f)
  BY <1>2, <1>3 DEF Reset, Leaves
<1>4. CASE MayReset(f) /\ ~f.scheduled
  <2>1. g = e
    BY <1>4 DEF Reset
  <2>2. ~e.stop
    BY <1>2, <1>4 DEF Base, Stops, Frame
  <2> QED BY <1>2, <1>4, <2>1, <2>2 DEF Leaves, Frame, Rests
<1>5. CASE MayReset(f) /\ f.scheduled
  <2>1. g = [e EXCEPT !.stop = FALSE, !.failures = 0, !.freshStart = TRUE]
    BY <1>5 DEF Reset
  <2>2. e \in Typed
    BY <1>2 DEF Base
  <2> HIDE DEF e, g
  <2>3. /\ g \in Typed /\ g.task = e.task /\ g.state = e.state /\ g.stop = FALSE
        /\ g.taskState = e.taskState /\ g.future = e.future
        /\ Leaves(e, g)
    BY <2>1, <2>2 DEF Typed, Leaves
  <2>4. Base(g)
    BY <1>2, <2>3 DEF Base, Mirrors, Owns, Ends, Stops, Leaves
  <2>5. Leaves(f, g) /\ Rests(g)
    BY <1>2, <1>5, <2>3 DEF Leaves, Frame, Rests
  <2> QED BY <2>4, <2>5 DEF g
<1> QED BY <1>3, <1>4, <1>5

-----------------------------------------------------------------------------
(* The methods that start a task.                                          *)

(* At most the new task t gets another place with the executor or a timer, *)
(* which it has only until it is submitted.                                *)
Starts(f, g, t) ==
    /\ \A u \in Tasks \ {t} : g.pc[u] = f.pc[u]
    /\ g.timers \subseteq f.timers \cup {t}
    /\ t \in g.timers => g.pc[t] = "created"

(* start() gives a service that owns no task a new one. *)
LEMMA StartFacts ==
    ASSUME NEW f, Base(f), NEW t \in Tasks, NEW h, NEW wait \in BOOLEAN,
           t \notin f.timers,
           f.state = "READY" => f.task = NoTask /\ (f.stop => f.restartOnFailure)
    PROVE  LET g == Start(f, t, h, wait)
           IN  Base(g) /\ Rests(g) /\ Starts(f, g, t)
<1> DEFINE c == [f EXCEPT !.task = t, !.taskState[t] = "READY", !.future[t] = "NEW",
                          !.pc[t] = "created", !.iterated = @ \/ f.stop]
           e == TaskState(c, t, "SCHEDULED", h)
           g == Start(f, t, h, wait)
<1>1. f \in Typed
  BY DEF Base
<1>2. CASE ~MayStart(f)
  BY <1>2 DEF Start, MayStart, Starts, Rests
<1>3. CASE MayStart(f)
  <2>1. g = ExecuteTask(e, t, wait)
    BY <1>3 DEF Start
  <2>2. /\ c \in Typed /\ c.task = t /\ c.state = f.state /\ c.stop = f.stop
        /\ c.scheduled = f.scheduled /\ c.restartOnFailure = f.restartOnFailure
        /\ c.timers = f.timers
        /\ c.taskState = [f.taskState EXCEPT ![t] = "READY"]
        /\ c.future = [f.future EXCEPT ![t] = "NEW"]
        /\ c.pc = [f.pc EXCEPT ![t] = "created"]
        /\ c.iterated = (f.iterated \/ f.stop)
    BY <1>1 DEF Typed, States, Active
  <2>3. /\ f.taskState \in [Tasks -> States] /\ DOMAIN f.future = Tasks
        /\ f.pc \in [Tasks -> Over \cup Active]
    BY <1>1 DEF Typed
  <2>4. f.state = "READY" /\ f.task = NoTask /\ (f.stop => f.restartOnFailure)
    BY <1>3 DEF MayStart
  <2> HIDE DEF c, e, g
  <2>5. Base(c)
    <3>1. Mirrors(c)
      BY <2>2, <2>3, <2>4 DEF Mirrors
    <3>2. Owns(c)
      BY <2>2, <2>3, <2>4, NoTaskIsNone DEF Owns, Base
    <3>3. Ends(c)
      BY <2>2, <2>3 DEF Ends, Base
    <3>4. Stops(c)
      BY <2>2, <2>4 DEF Stops, Base
    <3> QED BY <2>2, <3>1, <3>2, <3>3, <3>4 DEF Base
  <2>6. c.taskState[t] # "CANCELLED"
    BY <2>2, <2>3
  <2>7. Base(e) /\ Frame(c, e) /\ e.task = t /\ e.state \in {"SCHEDULED", "CANCELLED"}
    <3> DEFINE x == "SCHEDULED"
    <3>1. x \in {"SCHEDULED", "RUNNING", "SUCCEEDED", "FAILED"} /\ x \notin {"SUCCEEDED", "FAILED"}
      OBVIOUS
    <3>2. e = TaskState(c, t, x, h)
      BY DEF e
    <3> HIDE DEF x
    <3>3. /\ Base(e) /\ Frame(c, e) /\ e.task = c.task
          /\ c.task = t /\ c.taskState[t] # "CANCELLED" => e.state \in {x, "CANCELLED"}
      BY <2>5, <3>1, <3>2, TaskStateFacts
    <3> QED BY <2>2, <2>6, <3>3 DEF x
  <2>8. /\ e \in Typed /\ e.pc = [f.pc EXCEPT ![t] = "created"] /\ e.pc[t] = "created"
        /\ e.timers \subseteq f.timers
    BY <2>2, <2>3, <2>7 DEF Frame, Base
  <2>9. CASE g = [e EXCEPT !.delayTask = t, !.timers = @ \cup {t}]
    <3>1. /\ g \in Typed /\ g.task = e.task /\ g.state = e.state /\ g.stop = e.stop
          /\ g.scheduled = e.scheduled /\ g.restartOnFailure = e.restartOnFailure
          /\ g.iterated = e.iterated /\ g.timers = e.timers \cup {t}
          /\ g.taskState = e.taskState /\ g.future = e.future /\ g.pc = e.pc
      BY <2>8, <2>9 DEF Typed
    <3>2. Base(g)
      BY <2>7, <3>1 DEF Base, Mirrors, Owns, Ends, Stops
    <3>3. Rests(g) /\ Starts(f, g, t)
      BY <2>3, <2>7, <2>8, <3>1 DEF Rests, Starts
    <3> QED BY <3>2, <3>3 DEF g
  <2>10. CASE g = Submit(e, t) \/ g = ExecuteTaskNow(e, t)
    <3>1. /\ g \in Typed /\ g.task = e.task /\ g.state = e.state /\ g.stop = e.stop
          /\ g.scheduled = e.scheduled /\ g.restartOnFailure = e.restartOnFailure
          /\ g.iterated = e.iterated /\ g.timers = e.timers
          /\ g.taskState = e.taskState /\ g.future = e.future
          /\ g.pc = [e.pc EXCEPT ![t] = "submitted"]
      BY <2>8, <2>10 DEF Typed, Submit, ExecuteTaskNow, Active
    <3>2. e.pc \in [Tasks -> Over \cup Active]
      BY <2>8 DEF Typed
    <3>3. Owns(g) /\ Ends(g)
      BY <2>7, <2>8, <3>1, <3>2 DEF Base, Owns, Ends, Active, Over
    <3>4. Base(g)
      BY <2>7, <3>1, <3>3 DEF Base, Mirrors, Stops
    <3>5. Rests(g) /\ Starts(f, g, t)
      BY <2>3, <2>7, <2>8, <3>1 DEF Rests, Starts
    <3> QED BY <3>4, <3>5 DEF g
  <2> QED BY <2>1, <2>9, <2>10 DEF ExecuteTask
<1> QED BY <1>2, <1>3

(* One method after the other. *)
LEMMA StartsAfter ==
    ASSUME NEW f, NEW e, NEW g, NEW t
    PROVE  /\ Frame(f, e) => Leaves(f, e)
           /\ Leaves(f, e) /\ t \notin f.timers => t \notin e.timers /\ Starts(f, e, t)
           /\ Leaves(f, e) /\ Starts(e, g, t) => Starts(f, g, t)
           /\ Leaves(f, e) /\ Leaves(e, g) => Leaves(f, g)
BY DEF Frame, Leaves, Starts

(* The task that restart() lets go of will not be called, or was before. *)
LEMMA LetGoFacts ==
    ASSUME NEW f, Base(f), f.task # NoTask
    PROVE  LET g == LetGo(f)
           IN  Base(g) /\ Rests(g) /\ Leaves(f, g)
<1> DEFINE c == CancelTask(f, f.task)
           e == [c EXCEPT !.task = NoTask]
           g == LetGo(f)
<1>1. f \in Typed /\ f.task \in Tasks
  BY DEF Base, Typed
<1>2. Base(c) /\ Frame(f, c) /\ c.task = f.task /\ c.future[f.task] # "NEW"
  BY CancelTaskFacts
<1>3. g = Assign(e, "CANCELLED")
  BY DEF LetGo
<1> HIDE DEF c, e, g
<1>4. c \in Typed
  BY <1>2 DEF Base
<1>5. /\ e \in Typed /\ Frame(c, e) /\ e.task = NoTask /\ e.stop = c.stop
      /\ e.future = c.future /\ e.taskState = c.taskState
  BY <1>4 DEF e, Typed, Frame
<1>6. /\ g \in Typed /\ g.state = "CANCELLED" /\ Frame(e, g) /\ g.task = NoTask
      /\ g.stop = c.stop /\ g.taskState = c.taskState /\ g.future = c.future
  BY <1>3, <1>5, AssignFacts DEF States
<1>7. Base(g)
  <2>1. Owns(g)
    BY <1>2, <1>5, <1>6 DEF Base, Owns, Frame
  <2> QED BY <1>2, <1>5, <1>6, <2>1 DEF Base, Mirrors, Ends, Stops, Frame
<1>8. Rests(g) /\ Leaves(f, g)
  BY <1>2, <1>5, <1>6 DEF Rests, Leaves, Frame
<1> QED BY <1>7, <1>8 DEF g

(* restart() from any state. *)
LEMMA RestartFacts ==
    ASSUME NEW f, Base(f), Rests(f), NEW t \in Tasks, NEW h, NEW wait \in BOOLEAN,
           t \notin f.timers
    PROVE  LET g == Restart(f, t, h, wait)
           IN  Base(g) /\ Rests(g) /\ Starts(f, g, t)
<1> DEFINE e == IF f.task = NoTask THEN f ELSE LetGo(f)
           r == Reset(e, h)
           g == Restart(f, t, h, wait)
<1>1. g = IF MayReset(e) THEN Start(r, t, h, wait) ELSE e
  BY DEF Restart
<1>2. Base(e) /\ Rests(e) /\ Leaves(f, e)
  <2>1. Leaves(f, f)
    BY DEF Leaves
  <2> QED BY <2>1, LetGoFacts
<1> HIDE DEF e, g, r
<1>3. CASE ~MayReset(e)
  BY <1>1, <1>2, <1>3, StartsAfter DEF g
<1>4. CASE MayReset(e)
  <2>1. Base(r) /\ Rests(r) /\ Leaves(e, r)
    BY <1>2, ResetFacts DEF r
  <2>2. Leaves(f, r) /\ t \notin r.timers
    BY <1>2, <2>1, StartsAfter
  <2>3. r.state = "READY" => r.task = NoTask /\ ~r.stop
    BY <2>1 DEF Rests
  <2>4. g = Start(r, t, h, wait)
    BY <1>1, <1>4
  <2>5. Base(g) /\ Rests(g) /\ Starts(r, g, t)
    BY <2>1, <2>2, <2>3, <2>4, StartFacts
  <2> QED BY <2>2, <2>5, StartsAfter DEF g
<1> QED BY <1>3, <1>4

(* succeeded() starts over, unless the service was stopped. *)
LEMMA SucceededFacts ==
    ASSUME NEW f, Base(f), Rests(f), MayReset(f), NEW t \in Tasks, NEW h, NEW wait \in BOOLEAN,
           t \notin f.timers
    PROVE  LET g == Succeeded(f, t, h, wait)
           IN  Base(g) /\ Rests(g) /\ Starts(f, g, t)
<1> DEFINE e == ServiceReset(f, h)
           g == Succeeded(f, t, h, wait)
<1>1. g = IF f.stop THEN CancelFromReadyState(e, h) ELSE Start(e, t, h, wait)
  BY DEF Succeeded
<1>2. /\ Base(e) /\ Frame(f, e) /\ e.task = NoTask /\ e.state \in {"READY", "CANCELLED"}
      /\ e.state = "READY" => e.stop = f.stop
  BY ServiceResetFacts DEF Rests
<1>3. Leaves(f, e) /\ t \notin e.timers
  BY <1>2, StartsAfter
<1> HIDE DEF e, g
<1>4. CASE ~f.stop
  <2>1. g = Start(e, t, h, wait) /\ (e.state = "READY" => e.task = NoTask /\ ~e.stop)
    BY <1>1, <1>2, <1>4
  <2>2. Base(g) /\ Rests(g) /\ Starts(e, g, t)
    BY <1>2, <1>3, <2>1, StartFacts
  <2> QED BY <1>3, <2>2, StartsAfter DEF g
<1>5. CASE f.stop
  <2> DEFINE a == Announce(e, "SCHEDULED", h)
             b == Assign(e, "SCHEDULED")
  <2>1. g = Assign(a, "CANCELLED")
    BY <1>1, <1>5 DEF CancelFromReadyState
  <2> HIDE DEF a, b
  <2>2. e \in Typed /\ "SCHEDULED" \in States /\ "CANCELLED" \in States
    BY <1>2 DEF Base, States
  <2>3. /\ b \in Typed /\ Frame(e, b) /\ b.task = NoTask
        /\ b.taskState = e.taskState /\ b.future = e.future /\ b.stop = e.stop
    BY <1>2, <2>2, AssignFacts DEF b
  <2>4. Base(b)
    BY <1>2, <2>3 DEF Base, Mirrors, Owns, Ends, Stops, Frame
  <2>5. Base(a) /\ Frame(e, a) /\ a.task = NoTask
    BY <1>2, <2>2, <2>4, AnnounceFacts DEF a, b
  <2>6. a \in Typed
    BY <2>5 DEF Base
  <2>7. /\ g \in Typed /\ g.state = "CANCELLED" /\ Frame(a, g) /\ g.task = NoTask
        /\ g.taskState = a.taskState /\ g.future = a.future /\ g.stop = a.stop
    BY <2>1, <2>2, <2>5, <2>6, AssignFacts
  <2>8. Base(g)
    BY <2>5, <2>7 DEF Base, Mirrors, Owns, Ends, Stops, Frame
  <2>9. Rests(g) /\ Leaves(f, g)
    BY <1>3, <2>5, <2>7 DEF Rests, Leaves, Frame
  <2> QED BY <2>8, <2>9, StartsAfter DEF g
<1> QED BY <1>4, <1>5

(* failed() starts over for a service that restarts on failure. *)
LEMMA FailedFacts ==
    ASSUME NEW f, Base(f), Rests(f), MayReset(f), NEW t \in Tasks, NEW h, NEW wait \in BOOLEAN,
           t \notin f.timers
    PROVE  LET g == Failed(f, t, h, wait)
           IN  Base(g) /\ Rests(g) /\ Starts(f, g, t)
<1> DEFINE c == CountFailure(f)
           e == ServiceReset(c, h)
           g == Failed(f, t, h, wait)
<1>1. g = IF ~Retries(f) THEN c ELSE Start(e, t, h, wait)
  BY DEF Failed
<1>2. /\ c \in Typed /\ Leaves(f, c) /\ c.task = f.task /\ c.state = f.state /\ c.stop = f.stop
      /\ c.taskState = f.taskState /\ c.future = f.future
  BY DEF Base, Typed, CountFailure, Leaves
<1>3. Base(c) /\ Rests(c) /\ MayReset(c)
  BY <1>2 DEF Base, Mirrors, Owns, Ends, Stops, Leaves, Rests, MayReset
<1> HIDE DEF c, e, g
<1>4. CASE ~Retries(f)
  BY <1>1, <1>2, <1>3, <1>4, StartsAfter DEF g
<1>5. CASE Retries(f)
  <2>1. Base(e) /\ Frame(c, e) /\ e.task = NoTask
    BY <1>3, ServiceResetFacts DEF Rests, e
  <2>2. Leaves(f, e) /\ t \notin e.timers /\ e.restartOnFailure
    <3>1. Leaves(f, e)
      BY <1>2, <2>1, StartsAfter
    <3> QED BY <1>5, <3>1 DEF Leaves, Retries
  <2>3. g = Start(e, t, h, wait)
    BY <1>1, <1>5
  <2>4. Base(g) /\ Rests(g) /\ Starts(e, g, t)
    BY <2>1, <2>2, <2>3, StartFacts
  <2> QED BY <2>2, <2>4, StartsAfter DEF g
<1> QED BY <1>4, <1>5

(* The end of a task: the service reacts to that of its own only. *)
LEMMA ConcludeFacts ==
    ASSUME NEW f, Base(f), Rests(f), NEW u \in Tasks, f.pc[u] \in Over,
           NEW x \in {"SUCCEEDED", "FAILED"},
           NEW t \in Tasks, NEW h, NEW wait \in BOOLEAN, t \notin f.timers
    PROVE  LET g == Conclude(f, u, x, t, h, wait)
           IN  Base(g) /\ Rests(g) /\ Starts(f, g, t)
<1> DEFINE e == TaskState(f, u, x, h)
           g == Conclude(f, u, x, t, h, wait)
<1>1. g = IF f.task # u \/ f.taskState[u] = "CANCELLED" \/ ~f.scheduled THEN e
          ELSE IF x = "SUCCEEDED" THEN Succeeded(e, t, h, wait) ELSE Failed(e, t, h, wait)
  BY DEF Conclude
<1>2. /\ Base(e) /\ Frame(f, e) /\ e.task = f.task
      /\ f.task = u /\ f.taskState[u] # "CANCELLED" => e.state \in {x, "CANCELLED"}
      /\ f.task # u \/ f.taskState[u] = "CANCELLED" => e.state = f.state /\ e.stop = f.stop
  BY TaskStateFacts
<1>3. Rests(e)
  BY <1>2 DEF Rests
<1>4. Leaves(f, e) /\ t \notin e.timers /\ Starts(f, e, t)
  BY <1>2, StartsAfter
<1> HIDE DEF e, g
<1>5. CASE g = e
  BY <1>2, <1>3, <1>4, <1>5 DEF g
<1>6. CASE e.state \in {x, "CANCELLED"} /\ (g = Succeeded(e, t, h, wait) \/ g = Failed(e, t, h, wait))
  <2>1. MayReset(e)
    BY <1>6 DEF MayReset
  <2>2. Base(g) /\ Rests(g) /\ Starts(e, g, t)
    BY <1>2, <1>3, <1>4, <1>6, <2>1, SucceededFacts, FailedFacts
  <2> QED BY <1>4, <2>2, StartsAfter DEF g
<1> QED BY <1>1, <1>2, <1>5, <1>6

-----------------------------------------------------------------------------
(* The queue of the FX thread.                                             *)

(* Taking the oldest runnable keeps what is true of the others. *)
LEMMA PostedTail ==
    ASSUME NEW f, NEW q, Posted(f, q), q # <<>>
    PROVE  /\ Posted(f, Tail(q)) /\ Head(q) = q[1] /\ 1 \in 1..Len(q) /\ Head(q) \in Runnables
           /\ \A i \in 1..Len(Tail(q)) :
                 Tail(q)[i] = q[i + 1] /\ i + 1 \in 1..Len(q) /\ i + 1 # 1
<1>1. /\ q \in Seq(Runnables) /\ Tail(q) \in Seq(Runnables) /\ Len(q) \in Nat /\ Len(q) >= 1
      /\ Len(Tail(q)) = Len(q) - 1 /\ Head(q) = q[1] /\ Head(q) \in Runnables
  BY DEF Posted
<1>2. \A i \in 1..Len(Tail(q)) : Tail(q)[i] = q[i + 1] /\ i + 1 \in 1..Len(q) /\ i + 1 # 1
  BY <1>1
<1>3. Posted(f, Tail(q))
  <2>1. \A i, j \in 1..Len(Tail(q)) :
           Tail(q)[i].kind = "timer" /\ Tail(q)[j] = Tail(q)[i] => i = j
    <3> SUFFICES ASSUME NEW i \in 1..Len(Tail(q)), NEW j \in 1..Len(Tail(q)),
                        Tail(q)[i].kind = "timer", Tail(q)[j] = Tail(q)[i]
                 PROVE  i = j
      OBVIOUS
    <3>1. i + 1 = j + 1
      BY <1>2 DEF Posted
    <3> QED BY <1>1, <3>1
  <2> QED BY <1>1, <1>2, <2>1 DEF Posted
<1> QED BY <1>1, <1>2, <1>3

(* A new runnable comes last; one of a timer has to be the only one. *)
LEMMA PostedAppend ==
    ASSUME NEW f, NEW q, Posted(f, q), NEW r \in Runnables,
           r.kind \in {"succeed", "fail"} => f.pc[r.t] \in Over,
           r.kind = "timer" => /\ f.pc[r.t] = "created" /\ r.t \notin f.timers
                               /\ \A i \in 1..Len(q) : q[i] # r
    PROVE  Posted(f, Append(q, r))
<1> DEFINE p == Append(q, r)
<1>1. /\ q \in Seq(Runnables) /\ p \in Seq(Runnables) /\ Len(q) \in Nat /\ Len(p) = Len(q) + 1
      /\ \A i \in 1..Len(q) : p[i] = q[i]
      /\ p[Len(q) + 1] = r
  BY DEF Posted
<1>2. \A i \in 1..Len(p) : (i \in 1..Len(q) /\ p[i] = q[i]) \/ (i = Len(q) + 1 /\ p[i] = r)
  BY <1>1
<1> HIDE DEF p
<1>3. \A i, j \in 1..Len(p) : p[i].kind = "timer" /\ p[j] = p[i] => i = j
  BY <1>2 DEF Posted
<1>4. Posted(f, p)
  BY <1>1, <1>2, <1>3 DEF Posted
<1> QED BY <1>4 DEF p

(* Starting a task that is not in the queue leaves the queue right. *)
LEMMA PostedStarts ==
    ASSUME NEW f, NEW g, NEW q, Posted(f, q), Base(f), Base(g), NEW t \in Tasks, Starts(f, g, t),
           \A i \in 1..Len(q) : q[i].t # t
    PROVE  Posted(g, q)
<1>1. \A i \in 1..Len(q) : q[i] \in Runnables /\ q[i].t \in Tasks \ {t}
  <2>1. \A i \in 1..Len(q) : q[i] \in Runnables
    BY DEF Posted
  <2>2. \A r \in Runnables : r.t \in Tasks
    BY DEF Runnables
  <2> QED BY <2>1, <2>2
<1>2. g.timers \subseteq Tasks
  BY DEF Base, Typed
<1>3. \A i \in 1..Len(q) : q[i].t \in g.timers => q[i].t \in f.timers
  BY <1>1 DEF Starts
<1>4. \A u \in g.timers : g.pc[u] = "created"
  BY <1>2 DEF Starts, Posted
<1> QED BY <1>1, <1>3, <1>4 DEF Posted, Starts

(* A step of the FX thread begins with a record like the last one. *)
LEMMA NowFacts ==
    ASSUME Inv
    PROVE  /\ Base(Now) /\ Rests(Now) /\ Posted(Now, fxq)
           /\ Now.pc = s.pc /\ Now.timers = s.timers
<1>1. s \in Typed
  BY DEF Inv, Base
<1>2. /\ Now \in Typed /\ Now.task = s.task /\ Now.state = s.state /\ Now.stop = s.stop
      /\ Now.scheduled = s.scheduled /\ Now.restartOnFailure = s.restartOnFailure
      /\ Now.taskState = s.taskState /\ Now.future = s.future /\ Now.pc = s.pc
      /\ Now.timers = s.timers /\ Now.iterated = FALSE
  BY <1>1 DEF Now, Typed
<1>3. Base(Now)
  BY <1>2 DEF Inv, Base, Mirrors, Owns, Ends, Stops
<1>4. Rests(Now) /\ Posted(Now, fxq)
  BY <1>2 DEF Inv, Rests, Posted
<1> QED BY <1>2, <1>3, <1>4

(* What a step of an executor or timer thread does to a record. *)
Advances(f, g, t) ==
    /\ g \in Typed /\ g.task = f.task /\ g.state = f.state /\ g.stop = f.stop
    /\ g.scheduled = f.scheduled /\ g.restartOnFailure = f.restartOnFailure
    /\ g.taskState = f.taskState /\ g.iterated = FALSE

(* The invariant of a record holds after a step of a background thread. *)
LEMMA BackgroundStep ==
    ASSUME Inv, NEW t \in Tasks,
           Run(t) \/ CallReturns(t) \/ CallThrows(t) \/ CompleteFuture(t) \/ TimerFires(t)
    PROVE  Inv'
<1>a. s \in Typed /\ s.pc \in [Tasks -> Over \cup Active] /\ DOMAIN s.future = Tasks
  BY DEF Inv, Base, Typed
<1>b. Base(s) /\ Rests(s) /\ Posted(s, fxq)
  BY DEF Inv
<1>c. \A k \in {"begin", "succeed", "fail", "timer"} :
        LET r == [kind |-> k, t |-> t] IN r \in Runnables /\ r.kind = k /\ r.t = t
  BY DEF Runnables
<1>d. \A i \in 1..Len(fxq) : fxq[i] \in Runnables
  BY <1>b DEF Posted
<1>1. ASSUME NEW p \in Over \cup Active,
             NEW c \in [Tasks -> {"NEW", "NORMAL", "EXCEPTIONAL", "CANCELLED"}],
             s'.pc = [s.pc EXCEPT ![t] = p], s'.future = c, s'.timers = s.timers,
             Advances(s, s', t),
             \A u \in Tasks : s.future[u] # "NEW" => c[u] = s.future[u],
             \A u \in Tasks : u # t => c[u] = s.future[u],
             s.pc[t] \in Active \ {"created"} \/ (s.pc[t] \in Over /\ p \in Over),
             p \in Over \cup {"calling"},
             p = "calling" => s.pc[t] \in Active
      PROVE  Base(s') /\ Rests(s') /\ Posted(s', fxq)
  <2>1. Owns(s')
    BY <1>1, <1>a, <1>b DEF Base, Owns, Advances, Active, Over
  <2>2. Ends(s')
    BY <1>1, <1>a, <1>b DEF Base, Ends, Advances, Active, Over
  <2>3. Base(s') /\ Rests(s')
    BY <1>1, <1>b, <2>1, <2>2 DEF Base, Mirrors, Stops, Advances, Rests
  <2>4. Posted(s', fxq)
    <3>1. s.pc[t] # "created"
      BY <1>1 DEF Over
    <3>2. \A i \in 1..Len(fxq) : fxq[i].t \in Tasks
      BY <1>d DEF Runnables
    <3>3. s.timers \subseteq Tasks
      BY <1>a DEF Typed
    <3>4. \A u \in Tasks : s.pc[u] = "created" => s'.pc[u] = "created"
      BY <1>1, <1>a, <3>1
    <3>5. \A u \in Tasks : s.pc[u] \in Over => s'.pc[u] \in Over
      BY <1>1, <1>a DEF Over, Active
    <3> QED BY <1>1, <1>b, <3>2, <3>3, <3>4, <3>5 DEF Posted
  <2> QED BY <2>3, <2>4
<1>2. CASE Run(t)
  <2>1. s.pc[t] = "submitted"
    BY <1>2 DEF Run
  <2>2. CASE s.future[t] = "NEW"
    <3>1. s' = [s EXCEPT !.pc[t] = "calling", !.iterated = FALSE]
          /\ fxq' = Append(fxq, [kind |-> "begin", t |-> t])
      BY <1>2, <2>2 DEF Run, Post
    <3>2. /\ s'.pc = [s.pc EXCEPT ![t] = "calling"] /\ s'.future = s.future
          /\ s'.timers = s.timers /\ Advances(s, s', t)
      BY <1>a, <3>1 DEF Typed, Advances, Active
    <3>3. Base(s') /\ Rests(s') /\ Posted(s', fxq)
      BY <1>1, <1>a, <2>1, <3>2 DEF Active, Over, Typed
    <3>4. Posted(s', fxq')
      BY <1>c, <3>1, <3>3, PostedAppend
    <3> QED BY <3>3, <3>4 DEF Inv
  <2>3. CASE s.future[t] # "NEW"
    <3>1. s' = [s EXCEPT !.pc[t] = "returned", !.iterated = FALSE] /\ fxq' = fxq
      BY <1>2, <2>3 DEF Run
    <3>2. /\ s'.pc = [s.pc EXCEPT ![t] = "returned"] /\ s'.future = s.future
          /\ s'.timers = s.timers /\ Advances(s, s', t)
      BY <1>a, <3>1 DEF Typed, Advances, Over
    <3>3. Base(s') /\ Rests(s') /\ Posted(s', fxq)
      BY <1>1, <1>a, <2>1, <3>2 DEF Active, Over, Typed
    <3> QED BY <3>1, <3>3 DEF Inv
  <2> QED BY <2>2, <2>3
<1>3. CASE CallReturns(t)
  <2>1. /\ s.pc[t] = "calling" /\ s' = [s EXCEPT !.pc[t] = "succeeding", !.iterated = FALSE]
        /\ fxq' = fxq \/ fxq' = Append(fxq, [kind |-> "succeed", t |-> t])
    BY <1>3 DEF CallReturns, Post
  <2>2. /\ s'.pc = [s.pc EXCEPT ![t] = "succeeding"] /\ s'.future = s.future
        /\ s'.timers = s.timers /\ Advances(s, s', t)
    BY <1>a, <2>1 DEF Typed, Advances, Over
  <2>3. Base(s') /\ Rests(s') /\ Posted(s', fxq)
    BY <1>1, <1>a, <2>1, <2>2 DEF Active, Over, Typed
  <2>4. s'.pc[t] \in Over
    BY <1>a, <2>2 DEF Over
  <2>5. Posted(s', fxq')
    BY <1>c, <2>1, <2>3, <2>4, PostedAppend
  <2> QED BY <2>3, <2>5 DEF Inv
<1>4. CASE CallThrows(t)
  <2>1. /\ s.pc[t] = "calling" /\ s' = [s EXCEPT !.pc[t] = "failing", !.iterated = FALSE]
        /\ fxq' = Append(fxq, [kind |-> "fail", t |-> t])
    BY <1>4 DEF CallThrows, Post
  <2>2. /\ s'.pc = [s.pc EXCEPT ![t] = "failing"] /\ s'.future = s.future
        /\ s'.timers = s.timers /\ Advances(s, s', t)
    BY <1>a, <2>1 DEF Typed, Advances, Over
  <2>3. Base(s') /\ Rests(s') /\ Posted(s', fxq)
    BY <1>1, <1>a, <2>1, <2>2 DEF Active, Over, Typed
  <2>4. s'.pc[t] \in Over
    BY <1>a, <2>2 DEF Over
  <2>5. Posted(s', fxq')
    BY <1>c, <2>1, <2>3, <2>4, PostedAppend
  <2> QED BY <2>3, <2>5 DEF Inv
<1>5. CASE CompleteFuture(t)
  <2> DEFINE v == IF s.future[t] # "NEW" THEN s.future[t]
                  ELSE IF s.pc[t] = "failing" THEN "EXCEPTIONAL" ELSE "NORMAL"
             c == [s.future EXCEPT ![t] = v]
  <2>1. /\ s.pc[t] \in {"succeeding", "failing"} /\ fxq' = fxq
        /\ s' = [s EXCEPT !.pc[t] = "returned", !.iterated = FALSE, !.future[t] = v]
    BY <1>5 DEF CompleteFuture
  <2>2. s.future \in [Tasks -> {"NEW", "NORMAL", "EXCEPTIONAL", "CANCELLED"}]
    BY <1>a DEF Typed
  <2>3. /\ v \in {"NEW", "NORMAL", "EXCEPTIONAL", "CANCELLED"}
        /\ s.future[t] # "NEW" => v = s.future[t]
    BY <2>2
  <2> HIDE DEF v
  <2>4. /\ s'.pc = [s.pc EXCEPT ![t] = "returned"] /\ s'.future = c
        /\ s'.timers = s.timers /\ Advances(s, s', t)
    BY <1>a, <2>1, <2>3 DEF Typed, Advances, Over
  <2>5. /\ c \in [Tasks -> {"NEW", "NORMAL", "EXCEPTIONAL", "CANCELLED"}]
        /\ \A u \in Tasks : s.future[u] # "NEW" => c[u] = s.future[u]
        /\ \A u \in Tasks : u # t => c[u] = s.future[u]
    BY <2>2, <2>3
  <2> HIDE DEF c
  <2>6. Base(s') /\ Rests(s') /\ Posted(s', fxq)
    BY <1>1, <2>1, <2>4, <2>5 DEF Active, Over
  <2> QED BY <2>1, <2>6 DEF Inv
<1>6. CASE TimerFires(t)
  <2> DEFINE r == [kind |-> "timer", t |-> t]
  <2>1. /\ t \in s.timers /\ s' = [s EXCEPT !.timers = @ \ {t}, !.iterated = FALSE]
        /\ fxq' = Append(fxq, r)
    BY <1>6 DEF TimerFires, Post
  <2>2. /\ s'.pc = s.pc /\ s'.future = s.future
        /\ s'.timers = s.timers \ {t} /\ Advances(s, s', t)
    BY <1>a, <2>1 DEF Typed, Advances
  <2>3. Base(s') /\ Rests(s') /\ Posted(s', fxq)
    BY <1>b, <2>2 DEF Base, Mirrors, Owns, Ends, Stops, Advances, Rests, Posted
  <2>4. r \in Runnables /\ r.kind = "timer" /\ r.t = t
    BY <1>c
  <2>5. s'.pc[t] = "created" /\ t \notin s'.timers /\ \A i \in 1..Len(fxq) : fxq[i] # r
    BY <1>b, <2>1, <2>2, <2>4 DEF Posted
  <2> HIDE DEF r
  <2>6. Posted(s', fxq')
    BY <2>1, <2>3, <2>4, <2>5, PostedAppend
  <2> QED BY <2>3, <2>6 DEF Inv
<1> QED BY <1>2, <1>3, <1>4, <1>5, <1>6

(* The invariant holds after a step of the FX thread: an application call, *)
(* or the oldest runnable.                                                 *)
LEMMA FxThreadStep ==
    ASSUME Inv,
           \/ FxStep \/ AppCancel
           \/ \E h \in Handlers : AppReset(h)
           \/ \E t \in Tasks, h \in Handlers, wait \in BOOLEAN :
                 NewTask(t) /\ SpareTask /\ (AppStart(t, h, wait) \/ AppRestart(t, h, wait))
    PROVE  Inv'
<1>a. /\ Base(Now) /\ Rests(Now) /\ Posted(Now, fxq) /\ Posted(s, fxq)
      /\ Now.pc = s.pc /\ Now.timers = s.timers
  BY NowFacts DEF Inv
<1>b. ASSUME NEW t \in Tasks, NewTask(t)
      PROVE  t \notin Now.timers /\ \A i \in 1..Len(fxq) : fxq[i].t # t
  BY <1>a, <1>b DEF NewTask, Free
<1>c. ASSUME NEW k, FxTake(k)
      PROVE  /\ fxq # <<>> /\ fxq' = Tail(fxq) /\ Posted(Now, fxq')
             /\ HeadTask \in Tasks /\ Head(fxq).kind = k
             /\ Head(fxq) = fxq[1] /\ 1 \in 1..Len(fxq)
             /\ \A i \in 1..Len(fxq') : fxq'[i] = fxq[i + 1] /\ i + 1 \in 1..Len(fxq) /\ i + 1 # 1
  <2>1. fxq # <<>> /\ fxq' = Tail(fxq) /\ Head(fxq).kind = k
    BY <1>c DEF FxTake
  <2>2. \A r \in Runnables : r.t \in Tasks
    BY DEF Runnables
  <2> QED BY <1>a, <2>1, <2>2, PostedTail DEF HeadTask
<1>d. ASSUME Base(s'), Leaves(Now, s'), NEW q, Posted(Now, q)
      PROVE  Posted(s', q)
  <2>1. s'.timers \subseteq Now.timers /\ s'.pc = Now.pc
    BY <1>d DEF Leaves
  <2> QED BY <1>d, <2>1 DEF Posted
<1>1. ASSUME NEW h \in Handlers, FxBegin(h) PROVE Inv'
  <2> DEFINE u == HeadTask
             e == TaskState(Now, u, "SCHEDULED", h)
             g == TaskState(e, u, "RUNNING", h)
  <2>1. fxq' = Tail(fxq) /\ Posted(Now, fxq') /\ u \in Tasks /\ s' = g
    BY <1>1, <1>c DEF FxBegin
  <2>2. \A x \in {"SCHEDULED", "RUNNING"} :
           x \in {"SCHEDULED", "RUNNING", "SUCCEEDED", "FAILED"} /\ x \notin {"SUCCEEDED", "FAILED"}
    OBVIOUS
  <2> HIDE DEF u
  <2>3. ASSUME NEW f, Base(f), Rests(f), NEW x \in {"SCHEDULED", "RUNNING"}
        PROVE  /\ Base(TaskState(f, u, x, h)) /\ Rests(TaskState(f, u, x, h))
               /\ Leaves(f, TaskState(f, u, x, h))
    <3> DEFINE j == TaskState(f, u, x, h)
    <3>1. /\ Base(j) /\ Frame(f, j) /\ j.task = f.task
          /\ f.task = u /\ f.taskState[u] # "CANCELLED" => j.state \in {x, "CANCELLED"}
          /\ f.task # u \/ f.taskState[u] = "CANCELLED" =>
                j.state = f.state /\ j.stop = f.stop
      BY <2>1, <2>2, <2>3, TaskStateFacts
    <3> HIDE DEF j
    <3>2. Rests(j) /\ Leaves(f, j)
      BY <2>3, <3>1, StartsAfter DEF Rests
    <3> QED BY <3>1, <3>2 DEF j
  <2>4. Base(e) /\ Rests(e) /\ Leaves(Now, e)
    BY <1>a, <2>3
  <2> HIDE DEF e
  <2>5. Base(g) /\ Rests(g) /\ Leaves(e, g)
    BY <2>3, <2>4
  <2> HIDE DEF g
  <2>6. Leaves(Now, g)
    BY <2>4, <2>5, StartsAfter
  <2> QED BY <1>d, <2>1, <2>5, <2>6 DEF Inv
<1>2. ASSUME NEW t \in Tasks, NEW h \in Handlers, NEW wait \in BOOLEAN,
             NewTask(t), FxConclude(t, h, wait)
      PROVE  Inv'
  <2>1. \E x \in {"SUCCEEDED", "FAILED"} : s' = Conclude(Now, HeadTask, x, t, h, wait)
    BY <1>2 DEF FxConclude
  <2>2. /\ fxq' = Tail(fxq) /\ Posted(Now, fxq') /\ HeadTask \in Tasks
        /\ Now.pc[HeadTask] \in Over
        /\ \A i \in 1..Len(fxq') : fxq'[i].t # t
    <3>1. FxTake("succeed") \/ FxTake("fail")
      BY <1>2 DEF FxConclude
    <3>2. /\ fxq' = Tail(fxq) /\ Posted(Now, fxq') /\ HeadTask \in Tasks
          /\ Head(fxq).kind \in {"succeed", "fail"} /\ Head(fxq) = fxq[1] /\ 1 \in 1..Len(fxq)
          /\ \A i \in 1..Len(fxq') : fxq'[i] = fxq[i + 1] /\ i + 1 \in 1..Len(fxq)
      BY <1>c, <3>1
    <3>3. Now.pc[HeadTask] \in Over
      BY <1>a, <3>2 DEF Posted, HeadTask
    <3> QED BY <1>b, <1>2, <3>2, <3>3
  <2>3. Base(s') /\ Rests(s') /\ Starts(Now, s', t)
    BY <1>a, <1>b, <1>2, <2>1, <2>2, ConcludeFacts
  <2>4. Posted(s', fxq')
    BY <1>a, <2>2, <2>3, PostedStarts
  <2> QED BY <2>3, <2>4 DEF Inv
<1>3. CASE FxTimer
  <2> DEFINE u == HeadTask
             g == DelayOver(Now, u)
  <2>1. /\ fxq' = Tail(fxq) /\ Posted(Now, fxq') /\ u \in Tasks /\ s' = g
        /\ Head(fxq).kind = "timer" /\ Head(fxq) = fxq[1] /\ 1 \in 1..Len(fxq)
        /\ \A i \in 1..Len(fxq') : fxq'[i] = fxq[i + 1] /\ i + 1 \in 1..Len(fxq) /\ i + 1 # 1
    BY <1>3, <1>c DEF FxTimer
  <2>2. Now.pc[u] = "created" /\ u \notin Now.timers
    BY <1>a, <2>1 DEF Posted, HeadTask
  <2>3. \A i \in 1..Len(fxq') : fxq'[i].t = u => fxq'[i].kind = "begin"
    <3> SUFFICES ASSUME NEW i \in 1..Len(fxq'), fxq'[i].t = u PROVE fxq'[i].kind = "begin"
      OBVIOUS
    <3>1. \A k \in 1..Len(fxq) : fxq[k] \in Runnables
      BY <1>a DEF Posted
    <3>2. fxq'[i] = fxq[i + 1] /\ i + 1 \in 1..Len(fxq) /\ i + 1 # 1
      BY <2>1
    <3>3. fxq'[i].kind \notin {"succeed", "fail"}
      BY <1>a, <2>2, <3>2 DEF Posted, Over
    <3>4. fxq'[i].kind # "timer"
      <4>1. fxq'[i].kind = "timer" => fxq'[i] = fxq[1]
        BY <2>1, <3>1, <3>2 DEF Runnables, HeadTask
      <4> QED BY <1>a, <2>1, <3>2, <4>1 DEF Posted
    <3> QED BY <3>1, <3>2, <3>3, <3>4 DEF Runnables
  <2> HIDE DEF u
  <2>4. Now \in Typed /\ Now.pc \in [Tasks -> Over \cup Active]
    BY <1>a DEF Base, Typed
  <2>5. /\ g \in Typed /\ g.task = Now.task /\ g.state = Now.state /\ g.stop = Now.stop
        /\ g.scheduled = Now.scheduled /\ g.restartOnFailure = Now.restartOnFailure
        /\ g.iterated = Now.iterated /\ g.timers = Now.timers
        /\ g.taskState = Now.taskState /\ g.future = Now.future
        /\ g.pc = [Now.pc EXCEPT ![u] = "submitted"]
    BY <2>1, <2>4 DEF Typed, DelayOver, ExecuteTaskNow, Submit, Active
  <2> HIDE DEF g
  <2>6. Owns(g) /\ Ends(g)
    BY <1>a, <2>1, <2>2, <2>4, <2>5 DEF Base, Owns, Ends, Active, Over
  <2>7. Base(g) /\ Rests(g)
    BY <1>a, <2>5, <2>6 DEF Base, Mirrors, Stops, Rests
  <2>8. Posted(g, fxq')
    <3>1. \A t \in Tasks : t # u => g.pc[t] = Now.pc[t]
      BY <2>4, <2>5
    <3>2. \A i \in 1..Len(fxq') : fxq'[i].t \in Tasks
      <4>1. \A i \in 1..Len(fxq') : fxq'[i] \in Runnables
        BY <2>1 DEF Posted
      <4> QED BY <4>1 DEF Runnables
    <3>3. Now.timers \subseteq Tasks
      BY <2>4 DEF Typed
    <3> QED BY <2>1, <2>2, <2>3, <2>5, <3>1, <3>2, <3>3 DEF Posted
  <2> QED BY <2>1, <2>7, <2>8 DEF Inv
<1>4. ASSUME NEW t \in Tasks, NEW h \in Handlers, NEW wait \in BOOLEAN, NewTask(t),
             AppStart(t, h, wait) \/ AppRestart(t, h, wait)
      PROVE  Inv'
  <2>1. fxq' = fxq /\ (s' = Start(Now, t, h, wait) \/ s' = Restart(Now, t, h, wait))
    BY <1>4 DEF AppStart, AppRestart
  <2>2. Now.state = "READY" => Now.task = NoTask /\ (Now.stop => Now.restartOnFailure)
    BY <1>a DEF Rests
  <2>3. Base(s') /\ Rests(s') /\ Starts(Now, s', t)
    BY <1>a, <1>b, <1>4, <2>1, <2>2, StartFacts, RestartFacts
  <2>4. Posted(s', fxq')
    BY <1>a, <1>b, <1>4, <2>1, <2>3, PostedStarts
  <2> QED BY <2>3, <2>4 DEF Inv
<1>5. CASE AppCancel
  <2>1. s' = Cancel(Now) /\ fxq' = fxq
    BY <1>5 DEF AppCancel
  <2>2. /\ Base(s') /\ Frame(Now, s') /\ s'.state # "READY"
    BY <1>a, <2>1, CancelFacts DEF Rests
  <2>3. Rests(s') /\ Leaves(Now, s')
    BY <2>2, StartsAfter DEF Rests
  <2> QED BY <1>a, <1>d, <2>1, <2>2, <2>3 DEF Inv
<1>6. ASSUME NEW h \in Handlers, AppReset(h) PROVE Inv'
  <2>1. s' = Reset(Now, h) /\ fxq' = fxq
    BY <1>6 DEF AppReset
  <2>2. Base(s') /\ Rests(s') /\ Leaves(Now, s')
    BY <1>a, <2>1, ResetFacts
  <2> QED BY <1>a, <1>d, <2>1, <2>2 DEF Inv
<1> QED BY <1>1, <1>2, <1>3, <1>4, <1>5, <1>6 DEF FxStep

-----------------------------------------------------------------------------
(* The theorems.                                                           *)

(* A new service is READY, has no task and is not stopped. *)
LEMMA InvInit == Init => Inv
<1> SUFFICES ASSUME Init PROVE Inv
  OBVIOUS
<1>1. PICK k \in Scheduled, r \in RestartOnFailure :
        s = [scheduled |-> k, restartOnFailure |-> r,
             task |-> NoTask, state |-> "READY",
             stop |-> FALSE, freshStart |-> TRUE, delayTask |-> NoTask, failures |-> 0,
             taskState |-> [t \in Tasks |-> "READY"],
             future |-> [t \in Tasks |-> "CANCELLED"],
             pc |-> [t \in Tasks |-> "returned"],
             timers |-> {}, iterated |-> FALSE]
  BY DEF Init
<1>2. k \in BOOLEAN /\ r \in BOOLEAN
  BY ScheduledAssumption
<1>3. s \in Typed
  BY <1>1, <1>2 DEF Typed, States, Over
<1>4. Base(s) /\ Rests(s)
  BY <1>1, <1>3 DEF Base, Mirrors, Owns, Ends, Stops, Rests
<1>5. Posted(s, fxq)
  BY <1>1 DEF Init, Posted
<1> QED BY <1>4, <1>5 DEF Inv

(* The invariant is inductive. *)
LEMMA InvStep == Inv /\ [Next]_vars => Inv'
<1> SUFFICES ASSUME Inv, [Next]_vars PROVE Inv'
  OBVIOUS
<1>1. CASE UNCHANGED vars
  BY <1>1 DEF vars, Inv
<1>2. CASE Next
  BY <1>2, BackgroundStep, FxThreadStep DEF Next
<1> QED BY <1>1, <1>2

(* So it holds always. *)
LEMMA Invariance == Spec => []Inv
BY InvInit, InvStep, PTL DEF Spec

(* However restarts, delays and late runnables interleave, no two tasks of *)
(* a service execute call() without one of them having been cancelled.     *)
THEOREM RunsExclude == Spec => []OneRunAtATime
<1>1. Inv => OneRunAtATime
  BY DEF Inv, Base, Owns, Active, OneRunAtATime
<1> QED BY <1>1, Invariance, PTL

(* What a task that was let go still posts never shows in the service,     *)
(* which always has the state of its current task.                         *)
THEOREM ServiceMirrorsTask == Spec => []MirrorsCurrentTask
<1>1. Inv => MirrorsCurrentTask
  BY DEF Inv, Base, Mirrors, MirrorsCurrentTask
<1> QED BY <1>1, Invariance, PTL

(* A ScheduledService that does not restart on failure starts no run after *)
(* cancel(), from whatever handler it is called, until reset or restart.   *)
THEOREM CancelStopsIteration == Spec => []StopsWhenCancelled
<1>1. Inv => StopsWhenCancelled
  BY DEF Inv, Base, Stops, StopsWhenCancelled, NoIterationAfterCancel
<1> QED BY <1>1, Invariance, PTL
=============================================================================
