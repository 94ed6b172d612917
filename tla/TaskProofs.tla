----------------------------- MODULE TaskProofs -----------------------------
(***************************************************************************)
(* Theorems about the Task module, for any number of threads, channels and *)
(* values.                                                                 *)
(***************************************************************************)
EXTENDS Task, TLAPS

(* The frames of setState() are well formed, and their fields read back. *)
LEMMA FrameTypes ==
    /\ Idle \in Frames
    /\ \A s \in States, p \in Phases :
          Frame(s, p) \in Frames /\ Frame(s, p).target = s /\ Frame(s, p).phase = p
    /\ \A s \in States : After(s) \in Frames
    /\ \A r \in StateRunnables : Entry(r) \in Frames
    /\ \A f \in Frames : f.target \in States /\ f.phase \in Phases
BY DEF Idle, Frame, Frames, After, Entry, States, Phases, StateRunnables

(* What runLater() does to the FX queue. *)
LEMMA AppendFacts ==
    ASSUME NEW S, NEW q \in Seq(S), NEW x \in S
    PROVE  /\ Append(q, x) \in Seq(S)
           /\ Len(Append(q, x)) = Len(q) + 1
           /\ \A i \in 1..Len(q) : Append(q, x)[i] = q[i]
           /\ Append(q, x)[Len(q) + 1] = x
OBVIOUS

(* What taking the oldest runnable does to the FX queue. *)
LEMMA TailFacts ==
    ASSUME NEW S, NEW q \in Seq(S), q # <<>>
    PROVE  /\ Tail(q) \in Seq(S)
           /\ Len(q) \in Nat /\ Len(q) >= 1
           /\ Len(Tail(q)) = Len(q) - 1
           /\ Head(q) = q[1]
           /\ \A i \in 1..(Len(q) - 1) : Tail(q)[i] = q[i + 1]
OBVIOUS

(* TypeOK is inductive by itself. *)
LEMMA TypeInductive ==
    /\ Init => TypeOK
    /\ TypeOK /\ [Next]_vars => TypeOK'
<1>1. Init => TypeOK
  <2> SUFFICES ASSUME Init PROVE TypeOK
    OBVIOUS
  <2>1. hand \in [Threads -> Runnables \cup {"none"}] /\ fxq \in Seq(Runnables)
    BY DEF Init
  <2>2. running \in BOOLEAN /\ exception \in BOOLEAN
    BY DEF Init
  <2>3. main \in Frames /\ nest \in Frames
    BY FrameTypes DEF Init
  <2>4. /\ prop \in [Channels -> Values \cup {NULL, RESULT}]
        /\ pending \in [Channels -> Values \cup {NULL}]
        /\ events \in [States -> Nat]
    BY DEF Init
  <2> QED BY <2>1, <2>2, <2>3, <2>4 DEF Init, TypeOK, States
<1>2. TypeOK /\ [Next]_vars => TypeOK'
  <2> SUFFICES ASSUME TypeOK, [Next]_vars PROVE TypeOK'
    OBVIOUS
  <2> USE DEF TypeOK
  <2>1. CASE Run
    BY <2>1, ExecutorAssumption DEF Run, fxVars, Runnables, StateRunnables
  <2>2. CASE CallReturns
    BY <2>2, ExecutorAssumption DEF CallReturns, fxVars, Runnables, StateRunnables
  <2>3. CASE CallThrows
    BY <2>3, ExecutorAssumption DEF CallThrows, fxVars, Runnables, StateRunnables
  <2>4. CASE CompleteFuture
    BY <2>4 DEF CompleteFuture, FutureOutcome, fxVars
  <2>5. ASSUME NEW t \in Threads, Cancel(t) PROVE TypeOK'
    BY <2>5 DEF Cancel, fxVars, Runnables, StateRunnables
  <2>6. ASSUME NEW t \in Threads, RunLater(t) PROVE TypeOK'
    <3>1. hand[t] \in Runnables
      BY <2>6 DEF RunLater, HasRunnable
    <3> QED BY <2>6, <3>1 DEF RunLater, fxVars
  <2>7. ASSUME NEW t \in Threads, NEW c \in Channels, NEW v \in Values,
               Update(t, c, v)
        PROVE  TypeOK'
    BY <2>7 DEF Update, fxVars, Runnables
  <2>8. CASE FxTakeState
    BY <2>8, FrameTypes DEF FxTakeState
  <2>9. ASSUME NEW c \in Channels, FxDeliver(c) PROVE TypeOK'
    BY <2>9 DEF FxDeliver
  <2>10. Top \in Frames
    BY DEF Top
  <2>11. ASSUME NEW f \in Frames, ReplaceTop(f) PROVE main' \in Frames /\ nest' \in Frames
    BY <2>11 DEF ReplaceTop
  <2>12. CASE FxBefore
    <3>1. main' \in Frames /\ nest' \in Frames
      BY <2>12, <2>10, <2>11, FrameTypes DEF FxBefore, Phases
    <3> QED BY <2>12, <3>1, ChannelsAssumption DEF FxBefore
  <2>13. CASE FxSetState
    <3>1. main' \in Frames /\ nest' \in Frames
      BY <2>13, <2>10, <2>11, FrameTypes DEF FxSetState, AfterAssignment, Phases
    <3> QED BY <2>13, <2>10, <3>1, FrameTypes DEF FxSetState
  <2>14. CASE FxSetRunning
    <3>1. main' \in Frames /\ nest' \in Frames
      BY <2>14, <2>10, <2>11, FrameTypes DEF FxSetRunning, Phases
    <3> QED BY <2>14, <3>1 DEF FxSetRunning, Runs
  <2>15. CASE FxFireEvent
    <3>1. main' \in Frames /\ nest' \in Frames
      BY <2>15, <2>10, <2>11, FrameTypes DEF FxFireEvent, Phases
    <3> QED BY <2>15, <3>1 DEF FxFireEvent
  <2>16. CASE FxHandlersReturn
    <3>1. main' \in Frames /\ nest' \in Frames
      BY <2>16, <2>10, <2>11, FrameTypes DEF FxHandlersReturn
    <3> QED BY <2>16, <3>1 DEF FxHandlersReturn
  <2>17. CASE FxCancel
    BY <2>17, FrameTypes DEF FxCancel, States, Phases
  <2>18. ASSUME NEW c \in Channels, NEW v \in Values, FxUpdate(c, v) PROVE TypeOK'
    BY <2>18 DEF FxUpdate
  <2>19. CASE UNCHANGED vars
    BY <2>19 DEF vars
  <2> QED
    BY <2>1, <2>2, <2>3, <2>4, <2>5, <2>6, <2>7, <2>8, <2>9, <2>12, <2>13, <2>14,
       <2>15, <2>16, <2>17, <2>18, <2>19 DEF Next, FxStep
<1> QED BY <1>1, <1>2

(* Every variable of a task keeps its type.                                *)
THEOREM TypeCorrect == Spec => []TypeOK
BY TypeInductive, PTL DEF Spec

(* Outside FutureTask.run() the executor thread has nothing to post. *)
ExecutorFree == runPc \in {"idle", "returned"} => hand[Executor] = "none"

(* The executor posts only from within FutureTask.run(). *)
LEMMA ExecutorIsFree == Spec => []ExecutorFree
<1>1. Init => ExecutorFree
  BY ExecutorAssumption DEF Init, ExecutorFree
<1>2. TypeOK /\ ExecutorFree /\ [Next]_vars => ExecutorFree'
  BY ExecutorAssumption
  DEF TypeOK, ExecutorFree, Next, FxStep, Run, CallReturns, CallThrows, CompleteFuture,
      Cancel, RunLater, Update, InClientCode, FxTakeState, FxDeliver, FxBefore,
      FxSetState, FxSetRunning, FxFireEvent, FxHandlersReturn, FxCancel, FxUpdate, vars
<1> QED BY <1>1, <1>2, TypeCorrect, PTL DEF Spec

-----------------------------------------------------------------------------
(***************************************************************************)
(* The ticket of a channel.  CoalescedUpdates is inductive by itself once  *)
(* the types are known: a thread only takes the ticket when it finds the   *)
(* reference empty, RunLater moves it from a hand to the queue, and only   *)
(* the delivery gives it back.                                             *)
(***************************************************************************)
Ticket(c) ==
    /\ pending[c] # NULL <=> Holders(c) # {} \/ Posted(c) # {}
    /\ Holders(c) = {} \/ Posted(c) = {}
    /\ \A t, u \in Holders(c) : t = u
    /\ \A i, j \in Posted(c) : i = j

(* CoalescedUpdates, one channel at a time. *)
LEMMA CoalescedTickets == CoalescedUpdates <=> \A c \in Channels : Ticket(c)
BY DEF CoalescedUpdates, Ticket

(* A step that leaves the queue, the hands on c and the reference alone. *)
LEMMA TicketKept ==
    ASSUME NEW c \in Channels, Ticket(c), UNCHANGED fxq, pending'[c] = pending[c],
           \A t \in Threads : hand'[t] = c <=> hand[t] = c
    PROVE  Ticket(c)'
<1>1. Holders(c)' = Holders(c) /\ Posted(c)' = Posted(c)
  BY DEF Holders, Posted
<1> QED BY <1>1 DEF Ticket

(* Posting a delivery moves the ticket from a hand to the queue. *)
LEMMA TicketRunLater ==
    ASSUME TypeOK, NEW t \in Threads, RunLater(t), NEW c \in Channels, Ticket(c)
    PROVE  Ticket(c)'
<1>1. /\ hand[t] \in Runnables
      /\ fxq' = Append(fxq, hand[t])
      /\ hand' = [hand EXCEPT ![t] = "none"]
      /\ pending' = pending
      /\ hand[t] # "none"
  BY DEF RunLater, HasRunnable, TypeOK
<1>2. /\ Len(fxq) \in Nat
      /\ Len(fxq') = Len(fxq) + 1
      /\ \A i \in 1..Len(fxq) : fxq'[i] = fxq[i]
      /\ fxq'[Len(fxq) + 1] = hand[t]
  BY <1>1, AppendFacts DEF TypeOK
<1>3. Holders(c)' = Holders(c) \ {t}
  BY <1>1, ChannelsAssumption DEF Holders, TypeOK
<1>4. Posted(c)' = IF hand[t] = c THEN Posted(c) \cup {Len(fxq) + 1} ELSE Posted(c)
  BY <1>2 DEF Posted
<1>5. CASE hand[t] = c
  <2>1. t \in Holders(c)
    BY <1>5 DEF Holders
  <2>2. Posted(c) = {} /\ Holders(c) = {t} /\ pending[c] # NULL
    BY <2>1 DEF Ticket
  <2> QED BY <1>1, <1>3, <1>4, <1>5, <2>2 DEF Ticket
<1>6. CASE hand[t] # c
  <2>1. t \notin Holders(c)
    BY <1>6 DEF Holders
  <2> QED BY <1>1, <1>3, <1>4, <1>6, <2>1 DEF Ticket
<1> QED BY <1>5, <1>6

(* Taking a runnable r off the queue shifts the other positions by one. *)
LEMMA TicketTake ==
    ASSUME TypeOK, fxq # <<>>, fxq' = Tail(fxq), hand' = hand,
           NEW c \in Channels, Ticket(c),
           pending'[c] = IF Head(fxq) = c THEN NULL ELSE pending[c]
    PROVE  Ticket(c)'
<1>1. /\ Len(fxq) \in Nat /\ Len(fxq) >= 1
      /\ Len(fxq') = Len(fxq) - 1
      /\ Head(fxq) = fxq[1]
      /\ \A i \in 1..(Len(fxq) - 1) : fxq'[i] = fxq[i + 1]
  BY TailFacts DEF TypeOK
<1>2. Holders(c)' = Holders(c)
  BY DEF Holders
<1>3. \A i : i \in Posted(c)' <=> i \in 1..(Len(fxq) - 1) /\ i + 1 \in Posted(c)
  BY <1>1 DEF Posted
<1>4. CASE Head(fxq) = c
  <2>1. 1 \in Posted(c)
    BY <1>1, <1>4 DEF Posted
  <2>2. Posted(c) = {1} /\ Holders(c) = {}
    BY <2>1 DEF Ticket
  <2>3. Posted(c)' = {}
    BY <1>3, <2>2
  <2> QED BY <1>2, <1>4, <2>2, <2>3 DEF Ticket
<1>5. CASE Head(fxq) # c
  <2>1. \A i \in Posted(c) : i # 1 /\ i \in 1..Len(fxq)
    BY <1>1, <1>5 DEF Posted
  <2>2. Posted(c)' = {} <=> Posted(c) = {}
    <3>1. ASSUME NEW i \in Posted(c) PROVE i - 1 \in Posted(c)'
      BY <1>1, <1>3, <2>1, <3>1
    <3> QED BY <1>3, <3>1
  <2>3. \A i, j \in Posted(c)' : i = j
    BY <1>1, <1>3 DEF Ticket
  <2> QED BY <1>2, <1>5, <2>2, <2>3 DEF Ticket
<1> QED BY <1>4, <1>5

(* CoalescedUpdates, for any number of threads, channels and non-null      *)
(* values: however updates, deliveries and cancellations interleave, a     *)
(* delivery never finds an empty reference and is never queued twice.      *)
THEOREM UpdatesCoalesce ==
    ASSUME NULL \notin Values
    PROVE  Spec => []CoalescedUpdates
<1>1. Init => CoalescedUpdates
  BY ChannelsAssumption DEF Init, CoalescedUpdates, Holders, Posted
<1>2. TypeOK /\ ExecutorFree /\ CoalescedUpdates /\ [Next]_vars => CoalescedUpdates'
  <2> SUFFICES ASSUME TypeOK, ExecutorFree, CoalescedUpdates, [Next]_vars, NEW c \in Channels
               PROVE  Ticket(c)'
    BY DEF CoalescedUpdates, Ticket
  <2> Ticket(c)
    BY CoalescedTickets
  <2> c \notin StateRunnables /\ c # "none"
    BY ChannelsAssumption
  <2>1. CASE Run
    BY <2>1, TicketKept DEF Run, ExecutorFree, fxVars, StateRunnables, TypeOK
  <2>2. CASE CallReturns
    BY <2>2, TicketKept DEF CallReturns, fxVars, StateRunnables, TypeOK
  <2>3. CASE CallThrows
    BY <2>3, TicketKept DEF CallThrows, fxVars, StateRunnables, TypeOK
  <2>4. ASSUME NEW t \in Threads, Cancel(t) PROVE Ticket(c)'
    BY <2>4, TicketKept DEF Cancel, InClientCode, fxVars, StateRunnables, TypeOK
  <2>5. ASSUME NEW t \in Threads, RunLater(t) PROVE Ticket(c)'
    BY <2>5, TicketRunLater
  <2>6. ASSUME NEW t \in Threads, NEW d \in Channels, NEW v \in Values,
               Update(t, d, v)
        PROVE  Ticket(c)'
    <3>1. CASE c = d /\ pending[c] = NULL
      <4>1. Holders(c) = {} /\ Posted(c) = {}
        BY <3>1 DEF Ticket
      <4>2. Holders(c)' = {t}
        BY <2>6, <3>1, <4>1 DEF Update, NeedsDelivery, Holders, TypeOK
      <4>3. Posted(c)' = {} /\ pending'[c] # NULL
        BY <2>6, <3>1, <4>1 DEF Update, Posted, TypeOK
      <4> QED BY <4>2, <4>3 DEF Ticket
    <3>2. CASE c = d /\ pending[c] # NULL
      <4>1. hand' = hand /\ fxq' = fxq /\ pending'[c] # NULL
        BY <2>6, <3>2 DEF Update, NeedsDelivery, TypeOK
      <4>2. Holders(c)' = Holders(c) /\ Posted(c)' = Posted(c)
        BY <4>1 DEF Holders, Posted
      <4> QED BY <3>2, <4>1, <4>2 DEF Ticket
    <3>3. CASE c # d
      BY <2>6, <3>3, TicketKept DEF Update, InClientCode, TypeOK
    <3> QED BY <3>1, <3>2, <3>3
  <2>7. CASE FxTakeState
    <3>1. Head(fxq) # c
      BY <2>7 DEF FxTakeState
    <3> QED BY <2>7, <3>1, TicketTake DEF FxTakeState
  <2>8. ASSUME NEW d \in Channels, FxDeliver(d) PROVE Ticket(c)'
    BY <2>8, TicketTake DEF FxDeliver, TypeOK
  <2>9. CASE UNCHANGED <<hand, fxq, pending>>
    BY <2>9, TicketKept
  <2> QED
    BY <2>1, <2>2, <2>3, <2>4, <2>5, <2>6, <2>7, <2>8, <2>9
    DEF Next, FxStep, CompleteFuture, FxBefore, FxSetState, FxSetRunning,
        FxFireEvent, FxHandlersReturn, FxCancel, FxUpdate, vars
<1> QED BY <1>1, <1>2, TypeCorrect, ExecutorIsFree, PTL DEF Spec

-----------------------------------------------------------------------------
(***************************************************************************)
(* The life cycle.  What a client sees is decided by the order of the      *)
(* state runnables, so the inductive invariant follows each of them from   *)
(* the executor's hand through the queue to the frame on the FX thread.    *)
(***************************************************************************)
Out(r) == Holders(r) # {} \/ Posted(r) # {}
Concluding == Posted("succeed") \cup Posted("fail")

(* Before run() nothing is announced; before call() ends, no conclusion.   *)
LifeStart ==
    /\ runPc = "idle" => /\ ~Out("begin")
                         /\ main.target \notin {"SCHEDULED", "RUNNING"}
                         /\ state \in {"READY", "CANCELLED"}
    /\ runPc \in {"idle", "calling"} => /\ ~Out("succeed") /\ ~Out("fail")
                                        /\ main.target \notin {"SUCCEEDED", "FAILED"}

(* State runnables come from the executor, one at a time and in order. *)
LifeOrder ==
    /\ \A t \in Threads : hand[t] \in {"begin", "succeed", "fail"} => t = Executor
    /\ hand[Executor] = "begin" => runPc = "calling" /\ Posted("begin") = {}
    /\ hand[Executor] \in {"succeed", "fail"} => runPc = "completing" /\ Concluding = {}
    /\ \A i, j \in Posted("begin") : i = j
    /\ \A i, j \in Concluding : i = j
    /\ \A i \in Posted("begin"), j \in Concluding : i < j

(* Which state the frame on the FX thread finds. *)
LifeFrame ==
    /\ Out("begin") => /\ state \in {"READY", "CANCELLED"}
                       /\ main.target \in {"READY", "CANCELLED"}
    /\ main.target \in {"SUCCEEDED", "FAILED"} =>
          ~Out("begin") /\ ~Out("succeed") /\ ~Out("fail")
    /\ main.phase \in {"before", "set"} =>
          /\ main.target # "READY"
          /\ main.target = "SCHEDULED" => state \in {"READY", "CANCELLED"}
          /\ main.target = "RUNNING" => state \in {"SCHEDULED", "CANCELLED"}
          /\ main.target \in {"SUCCEEDED", "FAILED"} => state \in {"RUNNING", "CANCELLED"}
    /\ main.phase \in {"running", "fire", "handlers"} => state \in {main.target, "CANCELLED"}
    /\ main.phase = "idle" => main = Idle
    /\ nest = Idle \/ (nest.target = "CANCELLED" /\ nest.phase # "idle")

(* Between the announcement of the start and that of the conclusion. *)
LifeBetween ==
    /\ main.target \notin {"SCHEDULED", "RUNNING"}
    /\ ~Out("begin")
    /\ runPc = "calling" \/ Out("succeed") \/ Out("fail")
    => state \in {"RUNNING", "CANCELLED"}

LifeInv == TypeOK /\ LifeStart /\ LifeOrder /\ LifeFrame /\ LifeBetween

(* A step that leaves hands and queue alone keeps what is outstanding. *)
LEMMA QueueKept ==
    ASSUME UNCHANGED <<hand, fxq>>
    PROVE  /\ \A r : Out(r)' <=> Out(r)
           /\ \A r : Posted(r)' = Posted(r)
           /\ Concluding' = Concluding
BY DEF Out, Holders, Posted, Concluding

(* Posting a state runnable keeps it outstanding. *)
LEMMA OutRunLater ==
    ASSUME TypeOK, NEW t \in Threads, RunLater(t)
    PROVE  \A r \in StateRunnables : Out(r)' <=> Out(r)
<1>1. /\ hand' = [hand EXCEPT ![t] = "none"] /\ fxq' = Append(fxq, hand[t])
      /\ hand[t] \in Runnables /\ hand \in [Threads -> Runnables \cup {"none"}]
  BY DEF RunLater, HasRunnable, TypeOK
<1>2. /\ Len(fxq) \in Nat
      /\ Len(fxq') = Len(fxq) + 1
      /\ \A i \in 1..Len(fxq) : fxq'[i] = fxq[i]
      /\ fxq'[Len(fxq) + 1] = hand[t]
  BY <1>1, AppendFacts DEF TypeOK
<1>3. \A r : Posted(r)' = IF hand[t] = r THEN Posted(r) \cup {Len(fxq) + 1} ELSE Posted(r)
  BY <1>2 DEF Posted
<1>4. \A r \in StateRunnables : Holders(r)' = Holders(r) \ {t}
  BY <1>1 DEF Holders, StateRunnables
<1> TAKE r \in StateRunnables
<1>5. CASE hand[t] = r
  BY <1>3, <1>5 DEF Out, Holders
<1>6. CASE hand[t] # r
  BY <1>3, <1>4, <1>6 DEF Out, Holders
<1> QED BY <1>5, <1>6

(* Taking the oldest runnable leaves the others outstanding. *)
LEMMA OutTake ==
    ASSUME TypeOK, fxq # <<>>, fxq' = Tail(fxq), hand' = hand
    PROVE  \A r : Head(fxq) # r => (Out(r)' <=> Out(r))
<1> SUFFICES ASSUME NEW r, Head(fxq) # r PROVE Out(r)' <=> Out(r)
  OBVIOUS
<1>1. /\ Len(fxq) \in Nat /\ Len(fxq) >= 1
      /\ Len(fxq') = Len(fxq) - 1
      /\ Head(fxq) = fxq[1]
      /\ \A i \in 1..(Len(fxq) - 1) : fxq'[i] = fxq[i + 1]
  BY TailFacts DEF TypeOK
<1>2. \A i : i \in Posted(r)' <=> i \in 1..(Len(fxq) - 1) /\ i + 1 \in Posted(r)
  BY <1>1 DEF Posted
<1>3. ASSUME NEW i \in Posted(r) PROVE i - 1 \in Posted(r)'
  BY <1>1, <1>2, <1>3 DEF Posted
<1>4. Posted(r)' # {} <=> Posted(r) # {}
  BY <1>2, <1>3
<1> QED BY <1>4 DEF Out, Holders

(* A new task satisfies the life cycle invariant. *)
LEMMA LifeInit == Init => LifeInv
<1> SUFFICES ASSUME Init PROVE LifeInv
  OBVIOUS
<1>1. TypeOK
  BY TypeInductive
<1>2. \A r \in StateRunnables : Holders(r) = {} /\ Posted(r) = {}
  BY DEF Init, Holders, Posted, StateRunnables
<1>3. Concluding = {} /\ ~Out("begin") /\ ~Out("succeed") /\ ~Out("fail") /\ Posted("begin") = {}
  BY <1>2 DEF Out, Concluding, StateRunnables
<1>4. main.target = "READY" /\ main.phase = "idle"
  BY DEF Init, Idle, Frame
<1> QED
  BY <1>1, <1>3, <1>4, ExecutorAssumption
  DEF LifeInv, LifeStart, LifeOrder, LifeFrame, LifeBetween, Init

(* The executor takes a new state runnable into its hand. *)
LEMMA LifeExecutor ==
    ASSUME LifeInv, ExecutorFree, Run \/ CallReturns \/ CallThrows
    PROVE  LifeInv'
<1>1. TypeOK'
  BY TypeInductive DEF Next, LifeInv
<1>2. fxq' = fxq /\ main' = main /\ nest' = nest /\ state' = state
  BY DEF Run, CallReturns, CallThrows, fxVars
<1>3. (\A r : Posted(r)' = Posted(r)) /\ Concluding' = Concluding
  BY <1>2 DEF Posted, Concluding
<1>4. hand[Executor] = "none" /\ Executor \in Threads /\ hand \in [Threads -> Runnables \cup {"none"}]
  BY ExecutorAssumption DEF Run, CallReturns, CallThrows, ExecutorFree, LifeInv, TypeOK
<1>5. CASE Run /\ future = "NEW"
  <2>1. hand' = [hand EXCEPT ![Executor] = "begin"] /\ runPc = "idle" /\ runPc' = "calling"
    BY <1>5 DEF Run
  <2>2. Out("begin")' /\ (Out("succeed")' <=> Out("succeed")) /\ (Out("fail")' <=> Out("fail"))
    BY <2>1, <1>3, <1>4 DEF Out, Holders
  <2>3. LifeStart'
    BY <2>1, <2>2, <1>2 DEF LifeInv, LifeStart
  <2>4. LifeOrder'
    BY <2>1, <1>2, <1>3, <1>4 DEF LifeInv, LifeStart, LifeOrder, Out
  <2>5. LifeFrame'
    BY <2>1, <2>2, <1>2 DEF LifeInv, LifeStart, LifeFrame, TypeOK, Frames, States
  <2> QED BY <1>1, <2>2, <2>3, <2>4, <2>5 DEF LifeInv, LifeBetween
<1>6. CASE Run /\ future # "NEW"
  <2>1. hand' = hand /\ runPc = "idle" /\ runPc' = "returned"
    BY <1>6 DEF Run
  <2>2. \A r : Out(r)' <=> Out(r)
    BY <2>1, <1>2, QueueKept
  <2> QED
    BY <1>1, <1>2, <1>3, <1>4, <2>1, <2>2
    DEF LifeInv, LifeStart, LifeOrder, LifeFrame, LifeBetween
<1>7. CASE CallReturns \/ CallThrows
  <2>1. /\ runPc = "calling" /\ runPc' = "completing"
        /\ \/ hand' = hand
           \/ hand' = [hand EXCEPT ![Executor] = "succeed"]
           \/ hand' = [hand EXCEPT ![Executor] = "fail"]
    BY <1>7 DEF CallReturns, CallThrows
  <2>2. /\ Out("begin")' <=> Out("begin")
        /\ Concluding = {}
    BY <2>1, <1>3, <1>4 DEF Out, Holders, Concluding, LifeInv, LifeStart
  <2>3. LifeOrder'
    BY <2>1, <2>2, <1>3, <1>4 DEF LifeInv, LifeOrder
  <2>4. LifeFrame' /\ LifeStart' /\ LifeBetween'
    BY <2>1, <2>2, <1>2 DEF LifeInv, LifeStart, LifeFrame, LifeBetween
  <2> QED BY <1>1, <2>3, <2>4 DEF LifeInv
<1> QED BY <1>5, <1>6, <1>7

(* A thread takes a delivery or a cancellation into its hand. *)
LEMMA LifeOthers ==
    ASSUME LifeInv, NEW t \in Threads,
           Cancel(t) \/ \E c \in Channels, v \in Values : Update(t, c, v)
    PROVE  LifeInv'
<1>1. TypeOK'
  BY TypeInductive DEF Next, LifeInv
<1>2. fxq' = fxq /\ main' = main /\ nest' = nest /\ state' = state /\ runPc' = runPc
  BY DEF Cancel, Update, fxVars
<1>3. (\A r : Posted(r)' = Posted(r)) /\ Concluding' = Concluding
  BY <1>2 DEF Posted, Concluding
<1>4. \A u \in Threads, r \in {"begin", "succeed", "fail"} : hand'[u] = r <=> hand[u] = r
  BY ChannelsAssumption DEF Cancel, Update, InClientCode, LifeInv, TypeOK, StateRunnables
<1>5. \A r \in {"begin", "succeed", "fail"} : Out(r)' <=> Out(r)
  BY <1>3, <1>4 DEF Out, Holders
<1>6. LifeOrder'
  BY <1>2, <1>3, <1>4, ExecutorAssumption DEF LifeInv, LifeOrder
<1> QED
  BY <1>1, <1>2, <1>5, <1>6
  DEF LifeInv, LifeStart, LifeFrame, LifeBetween

(* A thread posts what it holds: the order of the runnables is kept. *)
LEMMA LifeRunLater ==
    ASSUME LifeInv, NEW t \in Threads, RunLater(t)
    PROVE  LifeInv'
<1>1. TypeOK'
  BY TypeInductive DEF Next, LifeInv
<1>2. /\ main' = main /\ nest' = nest /\ state' = state /\ runPc' = runPc
      /\ hand' = [hand EXCEPT ![t] = "none"] /\ fxq' = Append(fxq, hand[t])
      /\ hand[t] \in Runnables /\ hand \in [Threads -> Runnables \cup {"none"}]
  BY DEF RunLater, HasRunnable, fxVars, LifeInv, TypeOK
<1>3. /\ Len(fxq) \in Nat
      /\ Len(fxq') = Len(fxq) + 1
      /\ \A i \in 1..Len(fxq) : fxq'[i] = fxq[i]
      /\ fxq'[Len(fxq) + 1] = hand[t]
  BY <1>2, AppendFacts DEF LifeInv, TypeOK
<1>4. \A r : Posted(r)' = IF hand[t] = r THEN Posted(r) \cup {Len(fxq) + 1} ELSE Posted(r)
  BY <1>3 DEF Posted
<1>6. \A r \in StateRunnables : Out(r)' <=> Out(r)
  BY OutRunLater DEF LifeInv
<1>7. \A r : \A i \in Posted(r) : i \in 1..Len(fxq)
  BY DEF Posted
<1>8. Concluding' = IF hand[t] \in {"succeed", "fail"} THEN Concluding \cup {Len(fxq) + 1}
                                                      ELSE Concluding
  BY <1>4 DEF Concluding
<1>9. hand[t] \in {"succeed", "fail"} => Concluding = {} /\ t = Executor
  BY DEF LifeInv, LifeOrder
<1>10. hand[t] = "begin" => Posted("begin") = {} /\ t = Executor /\ Concluding = {}
  BY DEF LifeInv, LifeOrder, LifeStart, Concluding, Out
<1>11. LifeOrder'
  <2>1. \A u \in Threads : hand'[u] \in {"begin", "succeed", "fail"} => u = Executor /\ u # t
    BY <1>2 DEF LifeInv, LifeOrder
  <2>2. hand'[Executor] = "begin" => runPc' = "calling" /\ Posted("begin")' = {}
    BY <1>2, <1>4, <2>1, ExecutorAssumption DEF LifeInv, LifeOrder
  <2>3. hand'[Executor] \in {"succeed", "fail"} => runPc' = "completing" /\ Concluding' = {}
    BY <1>2, <1>8, <1>9, <2>1, ExecutorAssumption DEF LifeInv, LifeOrder
  <2>4. \A i, j \in Posted("begin")' : i = j
    BY <1>4, <1>10 DEF LifeInv, LifeOrder
  <2>5. \A i, j \in Concluding' : i = j
    BY <1>8, <1>9 DEF LifeInv, LifeOrder
  <2>6. \A i \in Posted("begin")', j \in Concluding' : i < j
    BY <1>3, <1>4, <1>7, <1>8, <1>10 DEF LifeInv, LifeOrder
  <2> QED BY <2>1, <2>2, <2>3, <2>4, <2>5, <2>6 DEF LifeOrder
<1> QED
  BY <1>1, <1>2, <1>6, <1>11
  DEF LifeInv, LifeStart, LifeFrame, LifeBetween, StateRunnables

(* The FX thread takes the oldest runnable. *)
LEMMA LifeTake ==
    ASSUME LifeInv, FxTakeState \/ \E c \in Channels : FxDeliver(c)
    PROVE  LifeInv'
<1>1. TypeOK'
  BY TypeInductive DEF Next, FxStep, LifeInv
<1>2. /\ nest' = nest /\ state' = state /\ runPc' = runPc /\ hand' = hand
      /\ fxq # <<>> /\ fxq' = Tail(fxq) /\ main = Idle
  BY DEF FxTakeState, FxDeliver, FxIdle
<1>3. /\ Len(fxq) \in Nat /\ Len(fxq) >= 1
      /\ Len(fxq') = Len(fxq) - 1
      /\ Head(fxq) = fxq[1]
      /\ \A i \in 1..(Len(fxq) - 1) : fxq'[i] = fxq[i + 1]
  BY <1>2, TailFacts DEF LifeInv, TypeOK
<1>4. \A r, i : i \in Posted(r)' <=> i \in 1..(Len(fxq) - 1) /\ i + 1 \in Posted(r)
  BY <1>3 DEF Posted
<1>5. \A r : \A i \in Posted(r) : i \in 1..Len(fxq) /\ (i = 1 => Head(fxq) = r)
  BY <1>3 DEF Posted
<1>6. \A r : Head(fxq) # r => (Out(r)' <=> Out(r))
  BY <1>2, OutTake DEF LifeInv
<1>7. \A i : i \in Concluding' <=> i \in 1..(Len(fxq) - 1) /\ i + 1 \in Concluding
  BY <1>4 DEF Concluding
<1>8. LifeOrder'
  <2>1. Posted("begin") = {} => Posted("begin")' = {}
    BY <1>4
  <2>2. Concluding = {} => Concluding' = {}
    BY <1>7
  <2>3. \A i, j \in Posted("begin")' : i = j
    BY <1>3, <1>4 DEF LifeInv, LifeOrder
  <2>4. \A i, j \in Concluding' : i = j
    BY <1>3, <1>7 DEF LifeInv, LifeOrder
  <2>5. \A i \in Posted("begin")', j \in Concluding' : i < j
    BY <1>3, <1>4, <1>7 DEF LifeInv, LifeOrder
  <2> QED BY <1>2, <2>1, <2>2, <2>3, <2>4, <2>5 DEF LifeInv, LifeOrder
<1>9. main.target = "READY" /\ main.phase = "idle"
  BY <1>2 DEF Idle, Frame
<1>10. CASE FxTakeState /\ Head(fxq) = "begin"
  <2>1. 1 \in Posted("begin")
    BY <1>3, <1>10 DEF Posted
  <2>2. Posted("begin") = {1} /\ hand[Executor] # "begin"
    BY <2>1 DEF LifeInv, LifeOrder
  <2>3. ~Out("begin")'
    BY <1>2, <1>4, <2>2 DEF Out, Holders, LifeInv, LifeOrder
  <2>4. main'.target = "SCHEDULED" /\ main'.phase = "set"
    BY <1>10 DEF FxTakeState, Entry, Frame
  <2>5. /\ state \in {"READY", "CANCELLED"} /\ runPc # "idle"
    BY <2>1 DEF LifeInv, LifeFrame, LifeStart, Out
  <2>6. (Out("succeed")' <=> Out("succeed")) /\ (Out("fail")' <=> Out("fail"))
    BY <1>6, <1>10
  <2> QED
    BY <1>1, <1>2, <1>8, <2>3, <2>4, <2>5, <2>6
    DEF LifeInv, LifeStart, LifeFrame, LifeBetween
<1>11. CASE FxTakeState /\ Head(fxq) \in {"succeed", "fail"}
  <2>1. 1 \in Concluding
    BY <1>3, <1>11 DEF Posted, Concluding
  <2>2. Concluding = {1} /\ hand[Executor] \notin {"succeed", "fail"}
    BY <2>1 DEF LifeInv, LifeOrder
  <2>3. ~Out("succeed")' /\ ~Out("fail")'
    <3>1. Concluding' = {}
      BY <1>7, <2>2
    <3> QED BY <1>2, <2>2, <3>1 DEF Out, Holders, Concluding, LifeInv, LifeOrder
  <2>4. /\ main'.target = (IF Head(fxq) = "succeed" THEN "SUCCEEDED" ELSE "FAILED")
        /\ main'.phase = "before"
    BY <1>11 DEF FxTakeState, Entry, Frame
  <2>5. Out("succeed") \/ Out("fail")
    BY <2>1 DEF Out, Concluding
  <2>6. ~Out("begin")
    <3>1. Posted("begin") = {}
      BY <1>5, <1>11, <2>1 DEF LifeInv, LifeOrder
    <3>2. runPc \notin {"idle", "calling"}
      BY <2>5 DEF LifeInv, LifeStart
    <3> QED BY <3>1, <3>2 DEF Out, Holders, LifeInv, LifeOrder
  <2>7. ~Out("begin")'
    BY <1>6, <1>11, <2>6
  <2>8. state \in {"RUNNING", "CANCELLED"}
    BY <1>9, <2>5, <2>6 DEF LifeInv, LifeBetween
  <2>9. runPc \notin {"idle", "calling"}
    BY <2>5 DEF LifeInv, LifeStart
  <2> QED
    BY <1>1, <1>2, <1>8, <2>3, <2>4, <2>7, <2>8, <2>9
    DEF LifeInv, LifeStart, LifeFrame, LifeBetween
<1>12. CASE Head(fxq) \notin {"begin", "succeed", "fail"}
  <2>1. main' = main \/ (main'.target = "CANCELLED" /\ main'.phase = "set")
    BY <1>2, <1>12 DEF FxTakeState, FxDeliver, Entry, Frame, StateRunnables
  <2>2. \A r \in {"begin", "succeed", "fail"} : Out(r)' <=> Out(r)
    BY <1>6, <1>12
  <2> QED
    BY <1>1, <1>2, <1>8, <1>9, <2>1, <2>2
    DEF LifeInv, LifeStart, LifeFrame, LifeBetween
<1>13. (\E c \in Channels : FxDeliver(c)) => Head(fxq) \notin {"begin", "succeed", "fail"}
  BY ChannelsAssumption DEF FxDeliver, StateRunnables
<1> QED BY <1>10, <1>11, <1>12, <1>13

(* The steps of setState(): the frame on top advances, and only the        *)
(* assignment changes the state.                                           *)
FrameStep == FxBefore \/ FxSetState \/ FxSetRunning \/ FxFireEvent \/ FxHandlersReturn

(* A step of setState() keeps the invariant and is a step of the life cycle. *)
LEMMA LifeFrameStep ==
    ASSUME LifeInv, FrameStep
    PROVE  LifeInv' /\ [Lifecycle!Next]_state
<1>1. TypeOK'
  BY TypeInductive DEF Next, FxStep, LifeInv, FrameStep
<1>2. UNCHANGED <<hand, fxq, runPc>>
  BY DEF FrameStep, FxBefore, FxSetState, FxSetRunning, FxFireEvent, FxHandlersReturn
<1>3. /\ \A r : Out(r)' <=> Out(r)
      /\ \A r : Posted(r)' = Posted(r)
      /\ Concluding' = Concluding
  BY <1>2, QueueKept
<1>4. LifeOrder'
  BY <1>2, <1>3 DEF LifeInv, LifeOrder
<1>5. CASE nest # Idle
  <2>1. nest.target = "CANCELLED" /\ Top = nest
    BY <1>5 DEF LifeInv, LifeFrame, Top
  <2>2. main' = main
    BY <1>5 DEF FrameStep, FxBefore, FxSetState, FxSetRunning, FxFireEvent,
                FxHandlersReturn, ReplaceTop
  <2>3. nest' = Idle \/ (nest'.target = "CANCELLED" /\ nest'.phase # "idle")
    BY <1>5, <2>1 DEF FrameStep, FxBefore, FxSetState, FxSetRunning, FxFireEvent,
                      FxHandlersReturn, ReplaceTop, AfterAssignment, After, Frame
  <2>4. state' \in {state, "CANCELLED"}
    BY <1>5, <2>1 DEF FrameStep, FxBefore, FxSetState, FxSetRunning, FxFireEvent,
                      FxHandlersReturn
  <2>5. LifeInv'
    BY <1>1, <1>2, <1>3, <1>4, <2>2, <2>3, <2>4
    DEF LifeInv, LifeStart, LifeFrame, LifeBetween, TypeOK, States
  <2> QED BY <2>4, <2>5 DEF Lifecycle!Next, Lifecycle!Cancel
<1>6. CASE nest = Idle
  <2>1. Top = main /\ nest' = nest
    BY <1>6 DEF Top, FrameStep, FxBefore, FxSetState, FxSetRunning, FxFireEvent,
                FxHandlersReturn, ReplaceTop
  <2>2. main \in Frames /\ main.target \in States /\ main.phase \in Phases
    BY FrameTypes DEF LifeInv, TypeOK
  <2>3. CASE FxBefore
    <3>1. main'.target = main.target /\ main'.phase = "set" /\ main.phase = "before" /\ state' = state
      BY <1>6, <2>1, <2>3 DEF FxBefore, ReplaceTop, Frame
    <3> QED
      BY <1>1, <1>2, <1>3, <1>4, <2>1, <3>1
      DEF LifeInv, LifeStart, LifeFrame, LifeBetween
  <2>4. CASE FxSetState /\ ~IgnoresSetState
    <3>1. /\ main'.target = main.target /\ main'.phase = "running" /\ main.phase = "set"
          /\ state' = main.target /\ state # "CANCELLED"
      BY <1>6, <2>1, <2>4 DEF FxSetState, IgnoresSetState, AfterAssignment, ReplaceTop, Frame
    <3>2. main.target # "READY"
      BY <3>1 DEF LifeInv, LifeFrame
    <3>3. LifeInv'
      BY <1>1, <1>2, <1>3, <1>4, <2>1, <2>2, <3>1, <3>2
      DEF LifeInv, LifeStart, LifeFrame, LifeBetween, States
    <3>4. Lifecycle!Next
      BY <2>2, <3>1, <3>2
      DEF LifeInv, LifeFrame, States, Lifecycle!Next, Lifecycle!Schedule, Lifecycle!Run,
          Lifecycle!Conclude, Lifecycle!Cancel
    <3> QED BY <3>3, <3>4
  <2>5. CASE FxSetState /\ IgnoresSetState
    <3>1. main' = After(main.target) /\ main.phase = "set" /\ state' = state /\ state = "CANCELLED"
      BY <1>6, <2>1, <2>5 DEF FxSetState, IgnoresSetState, AfterAssignment, ReplaceTop
    <3>2. CASE main.target = "SCHEDULED"
      <4>1. main'.target = "RUNNING" /\ main'.phase = "set"
        BY <3>1, <3>2 DEF After, Frame
      <4> QED
        BY <1>1, <1>2, <1>3, <1>4, <2>1, <3>1, <3>2, <4>1
        DEF LifeInv, LifeStart, LifeFrame, LifeBetween
    <3>3. CASE main.target # "SCHEDULED"
      <4>1. main' = Idle /\ main'.target = "READY" /\ main'.phase = "idle"
        BY <3>1, <3>3 DEF After, Frame, Idle
      <4> QED
        BY <1>1, <1>2, <1>3, <1>4, <2>1, <3>1, <4>1
        DEF LifeInv, LifeStart, LifeFrame, LifeBetween
    <3> QED BY <3>2, <3>3
  <2>6. CASE FxSetRunning \/ FxFireEvent
    <3>1. /\ main'.target = main.target /\ main'.phase \in {"fire", "handlers"}
          /\ main.phase \in {"running", "fire"} /\ state' = state
      BY <1>6, <2>1, <2>6 DEF FxSetRunning, FxFireEvent, ReplaceTop, Frame
    <3> QED
      BY <1>1, <1>2, <1>3, <1>4, <2>1, <3>1
      DEF LifeInv, LifeStart, LifeFrame, LifeBetween
  <2>7. CASE FxHandlersReturn
    <3>1. main' = After(main.target) /\ main.phase = "handlers" /\ state' = state
          /\ state \in {main.target, "CANCELLED"}
      BY <1>6, <2>1, <2>7 DEF FxHandlersReturn, ReplaceTop, LifeInv, LifeFrame
    <3>2. CASE main.target = "SCHEDULED"
      <4>1. main'.target = "RUNNING" /\ main'.phase = "set"
        BY <3>1, <3>2 DEF After, Frame
      <4> QED
        BY <1>1, <1>2, <1>3, <1>4, <2>1, <3>1, <3>2, <4>1
        DEF LifeInv, LifeStart, LifeFrame, LifeBetween
    <3>3. CASE main.target # "SCHEDULED"
      <4>1. main' = Idle /\ main'.target = "READY" /\ main'.phase = "idle"
        BY <3>1, <3>3 DEF After, Frame, Idle
      <4> QED
        BY <1>1, <1>2, <1>3, <1>4, <2>1, <3>1, <3>3, <4>1
        DEF LifeInv, LifeStart, LifeFrame, LifeBetween
    <3> QED BY <3>2, <3>3
  <2> QED BY <2>3, <2>4, <2>5, <2>6, <2>7 DEF FrameStep
<1> QED BY <1>5, <1>6

(* Steps that touch neither the queue nor the frame that runs. *)
LEMMA LifeRest ==
    ASSUME LifeInv, ExecutorFree,
           \/ CompleteFuture \/ FxCancel \/ UNCHANGED vars
           \/ \E c \in Channels, v \in Values : FxUpdate(c, v)
    PROVE  LifeInv'
<1>1. TypeOK'
  BY TypeInductive DEF Next, LifeInv
<1>2. UNCHANGED <<fxq, main, state, hand>>
  BY DEF CompleteFuture, FxCancel, FxUpdate, vars, fxVars
<1>3. /\ \A r : Out(r)' <=> Out(r)
      /\ \A r : Posted(r)' = Posted(r)
      /\ Concluding' = Concluding
  BY <1>2, QueueKept
<1>4. runPc' = runPc \/ (runPc = "completing" /\ runPc' = "returned" /\ hand[Executor] = "none")
  BY DEF CompleteFuture, FxCancel, FxUpdate, vars
<1>5. nest' = nest \/ (nest'.target = "CANCELLED" /\ nest'.phase = "set")
  BY DEF CompleteFuture, FxCancel, FxUpdate, vars, fxVars, Frame
<1> QED
  BY <1>1, <1>2, <1>3, <1>4, <1>5
  DEF LifeInv, LifeStart, LifeOrder, LifeFrame, LifeBetween

(* The life cycle invariant is inductive, and every step is a life cycle step. *)
LEMMA LifeInductive ==
    ASSUME LifeInv, ExecutorFree, [Next]_vars
    PROVE  LifeInv' /\ [Lifecycle!Next]_state
<1>1. FrameStep \/ UNCHANGED state
  BY DEF Next, FxStep, FrameStep, Run, CallReturns, CallThrows, CompleteFuture, Cancel,
         RunLater, Update, FxTakeState, FxDeliver, FxCancel, FxUpdate, vars, fxVars
<1>2. LifeInv'
  BY LifeExecutor, LifeOthers, LifeRunLater, LifeTake, LifeFrameStep, LifeRest
  DEF Next, FxStep, FrameStep
<1> QED BY <1>1, <1>2, LifeFrameStep

(* The life cycle invariant holds in every behaviour. *)
LEMMA LifeInvariant == Spec => []LifeInv
BY LifeInit, LifeInductive, ExecutorIsFree, PTL DEF Spec

(* However completion, failure and cancellation race, and whether or not   *)
(* listeners re-enter cancel(), the states a client sees are those of the  *)
(* Worker life cycle, in its order: Task implements WorkerLifecycle.       *)
THEOREM ImplementsLifecycle == Spec => FollowsLifecycle
<1>1. Init => Lifecycle!Init
  BY DEF Init, Lifecycle!Init
<1>2. LifeInv /\ ExecutorFree /\ [Next]_vars => [Lifecycle!Next]_state
  BY LifeInductive
<1> QED BY <1>1, <1>2, LifeInvariant, ExecutorIsFree, PTL
        DEF Spec, FollowsLifecycle, Lifecycle!Spec

-----------------------------------------------------------------------------
(***************************************************************************)
(* Agreement.  A future that was not cancelled leaves no trace of a        *)
(* cancellation on the FX side, a cancelled one leaves the assignment of   *)
(* CANCELLED outstanding until it is made, and the same holds of the two   *)
(* other conclusions.                                                      *)
(***************************************************************************)
NoTraceOfCancel ==
    future # "CANCELLED" => /\ state # "CANCELLED" /\ ~Out("cancelled")
                            /\ main.target # "CANCELLED" /\ nest = Idle

(* The assignment of s, announced by runnable r, is made or outstanding. *)
Announced(r, s) ==
    \/ Out(r)
    \/ main \in {Frame(s, "before"), Frame(s, "set")}
    \/ nest = Frame(s, "set")
    \/ state \in {s, "CANCELLED"}

AgreeInv ==
    /\ NoTraceOfCancel
    /\ future = "CANCELLED" => Announced("cancelled", "CANCELLED")
    /\ outcome = "result" => Announced("succeed", "SUCCEEDED")
    /\ outcome = "exception" => Announced("fail", "FAILED")
    /\ outcome = "dropped" => future = "CANCELLED"
    /\ runPc = "completing" => outcome # "none"
    /\ runPc \in {"idle", "calling"} => outcome = "none" /\ future \in {"NEW", "CANCELLED"}
    /\ future = "NORMAL" => outcome = "result"
    /\ future = "EXCEPTIONAL" => outcome = "exception"

(* A new task satisfies the agreement invariant. *)
LEMMA AgreeInit == Init => AgreeInv
<1> SUFFICES ASSUME Init PROVE AgreeInv
  OBVIOUS
<1>1. ~Out("cancelled")
  BY DEF Init, Out, Holders, Posted
<1>2. main.target = "READY"
  BY DEF Init, Idle, Frame
<1> QED BY <1>1, <1>2 DEF Init, AgreeInv, NoTraceOfCancel

(* Steps of background threads: the FX side does not move. *)
LEMMA AgreeBackground ==
    ASSUME LifeInv, ExecutorFree, AgreeInv,
           \/ Run \/ CallReturns \/ CallThrows \/ CompleteFuture
           \/ \E t \in Threads : Cancel(t) \/ RunLater(t)
           \/ \E t \in Threads, c \in Channels, v \in Values : Update(t, c, v)
    PROVE  AgreeInv'
<1>1. main' = main /\ nest' = nest /\ state' = state
  BY DEF Run, CallReturns, CallThrows, CompleteFuture, Cancel, RunLater, Update, fxVars
<1>2. hand \in [Threads -> Runnables \cup {"none"}] /\ Executor \in Threads
  BY ExecutorAssumption DEF LifeInv, TypeOK
<1>3. CASE Run \/ CallReturns \/ CallThrows
  <2>1. hand[Executor] = "none" /\ fxq' = fxq
    BY <1>3 DEF Run, CallReturns, CallThrows, ExecutorFree
  <2>2. \A r \in StateRunnables : Out(r) => Out(r)'
    BY <1>2, <1>3, <2>1 DEF Run, CallReturns, CallThrows, Out, Holders, Posted, StateRunnables
  <2>3. Out("cancelled")' => Out("cancelled")
    BY <1>2, <1>3, <2>1 DEF Run, CallReturns, CallThrows, Out, Holders, Posted
  <2>4. \A r, s : r \in StateRunnables /\ Announced(r, s) => Announced(r, s)'
    BY <1>1, <2>2 DEF Announced
  <2>5. /\ outcome' = "result" => Out("succeed")'
        /\ outcome' = "exception" => Out("fail")'
        /\ CallReturns \/ CallThrows \/ outcome' = outcome
        /\ CallReturns \/ CallThrows => outcome' # "none"
    BY <1>2, <1>3, <2>1, <2>2
    DEF Run, CallReturns, CallThrows, Out, Holders, AgreeInv
  <2> QED
    BY <1>1, <1>3, <2>3, <2>4, <2>5
    DEF AgreeInv, NoTraceOfCancel, Announced, Run, CallReturns, CallThrows, StateRunnables
<1>4. CASE CompleteFuture
  <2>1. UNCHANGED <<hand, fxq, outcome>> /\ runPc = "completing" /\ runPc' = "returned"
    BY <1>4 DEF CompleteFuture
  <2>2. \A r : Out(r)' <=> Out(r)
    BY <2>1, QueueKept
  <2>3. future' = future \/ (future = "NEW" /\ future' = FutureOutcome)
    BY <1>4 DEF CompleteFuture
  <2>4. outcome \in {"none", "result", "exception", "dropped"}
    BY DEF LifeInv, TypeOK
  <2> QED
    BY <1>1, <2>1, <2>2, <2>3, <2>4 DEF AgreeInv, NoTraceOfCancel, Announced, FutureOutcome
<1>5. ASSUME NEW t \in Threads, Cancel(t) PROVE AgreeInv'
  <2>1. Out("cancelled")'
    BY <1>2, <1>5 DEF Cancel, Out, Holders
  <2>2. \A r \in StateRunnables : Out(r) => Out(r)'
    BY <1>2, <1>5 DEF Cancel, InClientCode, Out, Holders, Posted, StateRunnables
  <2> QED
    BY <1>1, <1>5, <2>1, <2>2
    DEF AgreeInv, NoTraceOfCancel, Announced, Cancel, CancelAccepted, StateRunnables
<1>6. ASSUME NEW t \in Threads, RunLater(t) PROVE AgreeInv'
  <2>1. \A r \in StateRunnables : Out(r)' <=> Out(r)
    BY <1>6, OutRunLater DEF LifeInv
  <2> QED
    BY <1>1, <1>6, <2>1
    DEF AgreeInv, NoTraceOfCancel, Announced, RunLater, StateRunnables
<1>7. ASSUME NEW t \in Threads, NEW c \in Channels, NEW v \in Values, Update(t, c, v)
      PROVE AgreeInv'
  <2>1. \A r \in StateRunnables : Out(r)' <=> Out(r)
    BY <1>2, <1>7, ChannelsAssumption
    DEF Update, InClientCode, Out, Holders, Posted, StateRunnables
  <2> QED
    BY <1>1, <1>7, <2>1
    DEF AgreeInv, NoTraceOfCancel, Announced, Update, StateRunnables
<1> QED BY <1>3, <1>4, <1>5, <1>6, <1>7

(* The FX thread takes the oldest runnable. *)
LEMMA AgreeTake ==
    ASSUME LifeInv, AgreeInv, FxTakeState \/ \E c \in Channels : FxDeliver(c)
    PROVE  AgreeInv'
<1>1. /\ nest' = nest /\ state' = state /\ runPc' = runPc /\ hand' = hand
      /\ fxq # <<>> /\ fxq' = Tail(fxq) /\ main = Idle /\ nest = Idle
      /\ future' = future /\ outcome' = outcome
  BY DEF FxTakeState, FxDeliver, FxIdle
<1>2. \A r : Head(fxq) # r => (Out(r)' <=> Out(r))
  BY <1>1, OutTake DEF LifeInv
<1>3. Out(Head(fxq))
  <2>1. 1 \in Posted(Head(fxq))
    BY <1>1, TailFacts DEF LifeInv, TypeOK, Posted
  <2> QED BY <2>1 DEF Out
<1>4. ~Out("cancelled") => ~Out("cancelled")'
  BY <1>2, <1>3
<1>5. Head(fxq) \in StateRunnables => main' = Entry(Head(fxq))
  BY ChannelsAssumption DEF FxTakeState, FxDeliver
<1>6. Head(fxq) \notin StateRunnables => main' = main
  BY DEF FxTakeState, FxDeliver
<1>7. main'.target = "CANCELLED" => Out("cancelled")
  BY <1>1, <1>3, <1>5, <1>6 DEF Entry, Frame, Idle, StateRunnables
<1>8. \A s \in States, p \in Phases : p # "idle" => Frame(s, p) # Idle
  BY DEF Frame, Idle
<1>9. /\ Announced("cancelled", "CANCELLED") => Announced("cancelled", "CANCELLED")'
      /\ Announced("succeed", "SUCCEEDED") => Announced("succeed", "SUCCEEDED")'
      /\ Announced("fail", "FAILED") => Announced("fail", "FAILED")'
  BY <1>1, <1>2, <1>5, <1>8 DEF Announced, Entry, StateRunnables, States, Phases
<1> QED BY <1>1, <1>4, <1>7, <1>9 DEF AgreeInv, NoTraceOfCancel

(* A step of setState() keeps what the future and the FX state agree on. *)
LEMMA AgreeFrameStep ==
    ASSUME LifeInv, AgreeInv, FrameStep
    PROVE  AgreeInv'
<1>1. UNCHANGED <<hand, fxq, runPc, future, outcome>>
  BY DEF FrameStep, FxBefore, FxSetState, FxSetRunning, FxFireEvent, FxHandlersReturn
<1>2. \A r : Out(r)' <=> Out(r)
  BY <1>1, QueueKept
<1>3. [Lifecycle!Next]_state
  BY LifeFrameStep
<1>4. \A s \in {"SUCCEEDED", "FAILED", "CANCELLED"} :
        state \in {s, "CANCELLED"} => state' \in {s, "CANCELLED"}
  BY <1>3 DEF Lifecycle!Next, Lifecycle!Schedule, Lifecycle!Run, Lifecycle!Conclude,
              Lifecycle!Cancel
<1>5. Top \in Frames /\ Top.target \in States /\ Top.phase \in Phases
  BY FrameTypes DEF Top, LifeInv, TypeOK
<1>6. \A s, p : Frame(s, p).target = s /\ Frame(s, p).phase = p
  BY DEF Frame
<1>7. \E f \in {Frame(Top.target, "set"), Frame(Top.target, "running"), Frame(Top.target, "fire"),
                 Frame(Top.target, "handlers"), After(Top.target)} : ReplaceTop(f)
  BY DEF FrameStep, FxBefore, FxSetState, FxSetRunning, FxFireEvent, FxHandlersReturn,
         AfterAssignment
<1>8. NoTraceOfCancel'
  <2> SUFFICES ASSUME future # "CANCELLED" PROVE NoTraceOfCancel'
    BY <1>1 DEF NoTraceOfCancel
  <2>1. nest = Idle /\ Top = main /\ main.target # "CANCELLED" /\ state # "CANCELLED"
    BY DEF AgreeInv, NoTraceOfCancel, Top
  <2>2. nest' = Idle /\ main'.target # "CANCELLED"
    BY <1>6, <1>7, <2>1 DEF ReplaceTop, After, Idle
  <2>3. state' # "CANCELLED"
    BY <2>1 DEF FrameStep, FxBefore, FxSetState, FxSetRunning, FxFireEvent, FxHandlersReturn
  <2> QED BY <1>2, <2>2, <2>3 DEF AgreeInv, NoTraceOfCancel
<1>9. ASSUME NEW r, NEW s \in {"SUCCEEDED", "FAILED", "CANCELLED"}, Announced(r, s)
      PROVE  Announced(r, s)'
  <2>1. CASE Out(r) \/ state \in {s, "CANCELLED"}
    BY <1>2, <1>4, <2>1 DEF Announced
  <2>2. CASE Top = Frame(s, "before")
    <3>1. FxBefore /\ Top.target = s
      BY <1>6, <2>2 DEF FrameStep, FxBefore, FxSetState, FxSetRunning, FxFireEvent, FxHandlersReturn
    <3>2. nest' = Frame(s, "set") \/ main' = Frame(s, "set")
      BY <3>1 DEF FxBefore, ReplaceTop
    <3> QED BY <3>2 DEF Announced
  <2>3. CASE Top = Frame(s, "set")
    <3>1. FxSetState /\ Top.target = s
      BY <1>6, <2>3 DEF FrameStep, FxBefore, FxSetState, FxSetRunning, FxFireEvent, FxHandlersReturn
    <3>2. state' \in {s, "CANCELLED"}
      BY <3>1 DEF FxSetState, IgnoresSetState
    <3> QED BY <3>2 DEF Announced
  <2>4. CASE Top # main /\ main \in {Frame(s, "before"), Frame(s, "set")}
    BY <1>7, <2>4 DEF Announced, ReplaceTop, Top
  <2>5. CASE Top # nest /\ nest = Frame(s, "set")
    <3>1. nest = Idle
      BY <2>5 DEF Top
    <3> QED BY <1>6, <2>5, <3>1 DEF Idle
  <2> QED BY <1>9, <2>1, <2>2, <2>3, <2>4, <2>5 DEF Announced
<1> QED BY <1>1, <1>8, <1>9 DEF AgreeInv

(* The agreement invariant is inductive, given the life cycle invariant. *)
LEMMA AgreeInductive ==
    ASSUME LifeInv, ExecutorFree, AgreeInv, [Next]_vars
    PROVE  AgreeInv'
<1>1. CASE FxCancel
  <2>1. /\ UNCHANGED <<runPc, outcome, hand, fxq, main, state>>
        /\ nest = Idle /\ nest' = Frame("CANCELLED", "set") /\ future' = "CANCELLED"
        /\ future = "NEW"
    BY <1>1 DEF FxCancel, CancelAccepted, AgreeInv, NoTraceOfCancel
  <2>2. \A r : Out(r)' <=> Out(r)
    BY <2>1, QueueKept
  <2>3. \A s : Frame(s, "set") # Idle
    BY DEF Frame, Idle
  <2> QED BY <2>1, <2>2, <2>3 DEF AgreeInv, NoTraceOfCancel, Announced
<1>2. CASE UNCHANGED vars \/ \E c \in Channels, v \in Values : FxUpdate(c, v)
  <2>1. UNCHANGED <<future, runPc, outcome, hand, fxq, main, nest, state>>
    BY <1>2 DEF FxUpdate, vars
  <2>2. \A r : Out(r)' <=> Out(r)
    BY <2>1, QueueKept
  <2> QED BY <2>1, <2>2 DEF AgreeInv, NoTraceOfCancel, Announced
<1> QED
  BY <1>1, <1>2, AgreeBackground, AgreeTake, AgreeFrameStep DEF Next, FxStep, FrameStep

(* ConclusionAgrees, for any number of threads: when nothing is in flight, *)
(* the FX state mirrors the concluded future.                              *)
THEOREM ConclusionsAgree == Spec => []ConclusionAgrees
<1>1. TypeOK /\ AgreeInv => ConclusionAgrees
  <2> SUFFICES ASSUME TypeOK, AgreeInv, Quiescent, future # "NEW"
               PROVE  state = Mirror(future)
    BY DEF ConclusionAgrees
  <2>1. \A r \in StateRunnables : ~Out(r)
    BY DEF Quiescent, Out, Holders, Posted, StateRunnables
  <2>2. main = Idle /\ nest = Idle /\ \A s, p : p # "idle" => Frame(s, p) # Idle
    BY DEF Quiescent, FxIdle, Frame, Idle
  <2>3. \A r \in StateRunnables : \A s : Announced(r, s) => state \in {s, "CANCELLED"}
    BY <2>1, <2>2 DEF Announced
  <2>4. "cancelled" \in StateRunnables /\ "succeed" \in StateRunnables /\ "fail" \in StateRunnables
    BY DEF StateRunnables
  <2>5. CASE future = "CANCELLED"
    BY <2>3, <2>4, <2>5 DEF AgreeInv, Mirror
  <2>6. CASE future = "NORMAL"
    BY <2>3, <2>4, <2>6 DEF AgreeInv, NoTraceOfCancel, Mirror
  <2>7. CASE future = "EXCEPTIONAL"
    BY <2>3, <2>4, <2>7 DEF AgreeInv, NoTraceOfCancel, Mirror
  <2> QED BY <2>5, <2>6, <2>7 DEF TypeOK
<1>2. LifeInv => TypeOK
  BY DEF LifeInv
<1> QED
  BY <1>1, <1>2, AgreeInit, AgreeInductive, LifeInvariant, ExecutorIsFree, PTL DEF Spec

-----------------------------------------------------------------------------
(***************************************************************************)
(* Events.  The states in which a task that has announced s may be.        *)
(***************************************************************************)
Since(s) == CASE s = "READY" -> States
              [] s = "SCHEDULED" -> States \ {"READY"}
              [] s = "RUNNING" -> States \ {"READY", "SCHEDULED"}
              [] s \in {"SUCCEEDED", "FAILED"} -> {s, "CANCELLED"}
              [] s = "CANCELLED" -> {s}

(* An event about to be fired is the first of its kind, and cancel() of a  *)
(* handler or of an unrelated event does not come between an assignment    *)
(* and its event.                                                          *)
EventsInv ==
    /\ Top.phase \in {"running", "fire"} => state = Top.target /\ events[Top.target] = 0
    /\ nest # Idle => main.phase \in {"idle", "handlers"}
    /\ \A s \in States : events[s] = 0 \/ (events[s] = 1 /\ state \in Since(s))

(* A new task has announced nothing. *)
LEMMA EventsInit == Init => EventsInv
BY DEF Init, EventsInv, Top, Idle, Frame

(* While neither frame nor state nor events change, the invariant holds.   *)
LEMMA EventsKept ==
    ASSUME EventsInv, UNCHANGED <<main, nest, state, events>>
    PROVE  EventsInv'
BY DEF EventsInv, Top

(* The state only goes on from where an announced state has led.           *)
LEMMA SinceFacts ==
    ASSUME state \in States, state' \in States, [Lifecycle!Next]_state
    PROVE  /\ \A s \in States : state \in Since(s) => state' \in Since(s)
           /\ \A s \in States : s \in Since(s)
           /\ state' # state => state \notin Since(state')
BY DEF Since, States, Lifecycle!Next, Lifecycle!Schedule, Lifecycle!Run,
       Lifecycle!Conclude, Lifecycle!Cancel

(* The frame on top after a step of setState(). *)
LEMMA TopAfter ==
    ASSUME LifeInv, EventsInv, NEW f, ReplaceTop(f)
    PROVE  /\ nest' # Idle => main'.phase \in {"idle", "handlers"}
           /\ Top' = f \/ Top'.phase \in {"idle", "handlers"}
<1>1. CASE nest # Idle
  BY <1>1 DEF ReplaceTop, EventsInv, Top
<1>2. CASE nest = Idle
  BY <1>2 DEF ReplaceTop, EventsInv, Top
<1> QED BY <1>1, <1>2

(* A step of setState() fires an event that was not fired before.          *)
LEMMA EventsFrameStep ==
    ASSUME LifeInv, EventsInv, FrameStep
    PROVE  EventsInv'
<1>1. /\ LifeInv' /\ [Lifecycle!Next]_state
      /\ state \in States /\ state' \in States /\ events \in [States -> Nat]
  BY LifeFrameStep DEF LifeInv, TypeOK
<1>2. Top \in Frames /\ Top.target \in States /\ Top.phase \in Phases
  BY FrameTypes DEF LifeInv, TypeOK, Top
<1>3. \A s \in States, p \in Phases : Frame(s, p).target = s /\ Frame(s, p).phase = p
  BY FrameTypes
<1>4. \A s \in States : After(s).phase \in {"idle", "set"}
  BY DEF After, Frame, Idle
<1>5. ASSUME UNCHANGED events
      PROVE  \A s \in States : events'[s] = 0 \/ (events'[s] = 1 /\ state' \in Since(s))
  BY <1>1, <1>5, SinceFacts DEF EventsInv
<1>6. CASE FxBefore \/ FxHandlersReturn
  <2>1. PICK f : ReplaceTop(f) /\ f.phase \in {"idle", "set"} /\ UNCHANGED events
    <3>1. CASE FxBefore
      BY <1>2, <1>3, <3>1 DEF FxBefore, Phases
    <3>2. CASE FxHandlersReturn
      BY <1>2, <1>4, <3>2 DEF FxHandlersReturn
    <3> QED BY <1>6, <3>1, <3>2
  <2>2. /\ nest' # Idle => main'.phase \in {"idle", "handlers"}
        /\ Top'.phase \notin {"running", "fire"}
    BY <2>1, TopAfter
  <2> QED BY <1>5, <2>1, <2>2 DEF EventsInv
<1>7. CASE FxSetState /\ IgnoresSetState
  <2>1. ReplaceTop(After(Top.target)) /\ UNCHANGED events
    BY <1>7 DEF FxSetState, AfterAssignment
  <2>2. /\ nest' # Idle => main'.phase \in {"idle", "handlers"}
        /\ Top'.phase \notin {"running", "fire"}
    BY <1>2, <1>4, <2>1, TopAfter
  <2> QED BY <1>5, <2>1, <2>2 DEF EventsInv
<1>8. CASE FxSetState /\ ~IgnoresSetState
  <2> DEFINE f == Frame(Top.target, "running")
  <2>1. /\ ReplaceTop(f) /\ UNCHANGED events /\ f.phase = "running" /\ f.target = Top.target
        /\ state' = Top.target /\ state # "CANCELLED" /\ Top.phase = "set"
    BY <1>2, <1>3, <1>8 DEF FxSetState, AfterAssignment, IgnoresSetState, Phases
  <2>2. state' # state
    <3>1. CASE nest # Idle
      BY <2>1, <3>1 DEF LifeInv, LifeFrame, Top
    <3>2. CASE nest = Idle
      BY <1>2, <2>1, <3>2 DEF LifeInv, LifeFrame, Top, States
    <3> QED BY <3>1, <3>2
  <2>3. events[state'] = 0
    BY <1>1, <2>2, SinceFacts DEF EventsInv
  <2>4. /\ nest' # Idle => main'.phase \in {"idle", "handlers"}
        /\ Top' = f \/ Top'.phase \in {"idle", "handlers"}
    BY <2>1, TopAfter
  <2> QED BY <1>5, <2>1, <2>3, <2>4 DEF EventsInv
<1>9. CASE FxSetRunning
  <2> DEFINE f == Frame(Top.target, "fire")
  <2>1. /\ ReplaceTop(f) /\ UNCHANGED <<events, state>> /\ f.target = Top.target
        /\ state = Top.target /\ events[Top.target] = 0
    BY <1>2, <1>3, <1>9 DEF FxSetRunning, Phases, EventsInv
  <2>2. /\ nest' # Idle => main'.phase \in {"idle", "handlers"}
        /\ Top' = f \/ Top'.phase \in {"idle", "handlers"}
    BY <2>1, TopAfter
  <2> QED BY <1>5, <2>1, <2>2 DEF EventsInv
<1>10. CASE FxFireEvent
  <2> DEFINE f == Frame(Top.target, "handlers")
  <2>1. /\ ReplaceTop(f) /\ f.phase = "handlers" /\ state' = state
        /\ events[state] = 0 /\ events' = [events EXCEPT ![state] = events[state] + 1]
    BY <1>2, <1>3, <1>10 DEF FxFireEvent, Phases, EventsInv
  <2>2. /\ nest' # Idle => main'.phase \in {"idle", "handlers"}
        /\ Top'.phase \notin {"running", "fire"}
    BY <2>1, TopAfter
  <2>3. /\ events'[state] = 1 /\ state' \in Since(state)
        /\ \A s \in States \ {state} : events'[s] = events[s]
    BY <1>1, <2>1, SinceFacts
  <2>4. \A s \in States : events'[s] = 0 \/ (events'[s] = 1 /\ state' \in Since(s))
    BY <2>1, <2>3 DEF EventsInv
  <2> QED BY <2>2, <2>4 DEF EventsInv
<1> QED BY <1>6, <1>7, <1>8, <1>9, <1>10 DEF FrameStep

(* Unless property listeners call cancel(), no step repeats an event.      *)
LEMMA EventsInductive ==
    ASSUME ~ReentrantListeners, LifeInv, EventsInv, [Next]_vars
    PROVE  EventsInv'
<1>1. CASE FxCancel
  <2>1. /\ Top.phase \in {"idle", "handlers"} /\ UNCHANGED <<main, state, events>>
        /\ nest' = Frame("CANCELLED", "set")
    BY <1>1 DEF FxCancel, AppOnFx
  <2>2. nest' # Idle /\ Top' = nest' /\ Top'.phase = "set"
    BY <2>1 DEF Top, Frame, Idle
  <2>3. main'.phase \in {"idle", "handlers"}
    BY <2>1 DEF EventsInv, Top
  <2> QED BY <2>1, <2>2, <2>3 DEF EventsInv
<1>2. CASE FxTakeState
  <2>1. /\ nest = Idle /\ nest' = nest /\ UNCHANGED <<state, events>>
        /\ Head(fxq) \in StateRunnables /\ main' = Entry(Head(fxq))
    BY <1>2 DEF FxTakeState, FxIdle
  <2>2. main'.phase \in {"before", "set"}
    BY <2>1 DEF Entry, Frame, StateRunnables
  <2>3. Top' = main'
    BY <2>1 DEF Top
  <2> QED BY <2>1, <2>2, <2>3 DEF EventsInv
<1>3. FrameStep \/ FxCancel \/ FxTakeState \/ UNCHANGED <<main, nest, state, events>>
  BY DEF Next, FxStep, FrameStep, Run, CallReturns, CallThrows, CompleteFuture, Cancel,
         RunLater, Update, FxDeliver, FxUpdate, vars, fxVars
<1> QED BY <1>1, <1>2, <1>3, EventsFrameStep, EventsKept

(* However completion, failure and cancel() from other threads and from    *)
(* handlers race, setState() announces no state twice, for any number of   *)
(* threads.  Listeners of the properties it assigns must not call          *)
(* cancel(): one that does has CANCELLED announced by both calls.          *)
THEOREM EventsFiredOnce ==
    ASSUME ~ReentrantListeners
    PROVE  Spec => []EventsOnce
<1>1. EventsInv => EventsOnce
  BY DEF EventsInv, EventsOnce
<1>2. LifeInv /\ EventsInv /\ [Next]_vars => EventsInv'
  BY EventsInductive
<1> QED BY <1>1, <1>2, EventsInit, LifeInvariant, PTL DEF Spec
=============================================================================
