--------------------------- MODULE PlatformProofs ---------------------------
(***************************************************************************)
(* Theorems about the Platform module, for any number of client threads,   *)
(* windows, nested loops and queued runnables.                             *)
(*                                                                         *)
(* The count of pending runnables is inductive together with the types.    *)
(* That the idle notification finds the runtime idle follows from the      *)
(* count.  That stop() precedes the end of the toolkit needs the history   *)
(* of the launcher: where its own runnable is, and which of its phases     *)
(* leave the toolkit open to be ended (Launching, below).  It holds until  *)
(* the registration of the launcher's listener overtakes a notification    *)
(* that has found no listener and goes on to tkExit().                     *)
(***************************************************************************)
EXTENDS Platform, FiniteSetTheorems, SequenceTheorems, TLAPS

Runnables == [kind : {"later", "wait", "dummy", "exit"}, by : Threads]
Progress == {"idle", "posting", "check", "await", "testing", "telling", "ending"}
Phases == {"startup", "register", "add", "construct", "start", "wait", "stop", "remove",
           "unset", "exit", "exiting", "done"}

TypeOK ==
    /\ queue \in Seq(Runnables)
    /\ pending \in Int
    /\ cur \in Items
    /\ nested \in Seq(Items)
    /\ windows \in Int
    /\ pc \in [Threads -> Progress]
    /\ op \in [Threads -> {"later", "wait", "dummy", "exit"}]
    /\ done \in [Threads -> BOOLEAN]
    /\ phase \in Phases

-----------------------------------------------------------------------------
(* The launcher's own runnable and Toolkit.exit(), wherever they are.      *)
Own == Item("wait", LAUNCHER)
Queued(i) == \E n \in 1..Len(queue) : queue[n] = i
Begun(i) == cur = i \/ \E n \in 1..Len(nested) : nested[n] = i

Listening == {"add", "construct", "start", "wait", "stop", "remove", "unset"}
Calling == {"construct", "start", "stop"}

(* The launcher makes its calls in its phases. *)
CallsInPhase ==
    /\ pc[LAUNCHER] = "posting" =>
          \/ phase \in Calling /\ op[LAUNCHER] = "wait"
          \/ phase = "exit" /\ op[LAUNCHER] = "dummy"
          \/ phase = "exiting" /\ op[LAUNCHER] = "exit"
    /\ pc[LAUNCHER] = "check" => phase \in Calling
    /\ pc[LAUNCHER] = "await" => phase \in Calling \cup {"exiting"}

(* There is one runnable of the launcher's at most, and while there is one *)
(* the launcher waits for it and the toolkit goes on.                      *)
QueuedOnce == \A m, n \in 1..Len(queue) : queue[m] = Own /\ queue[n] = Own => m = n
BegunOnce ==
    /\ \A m, n \in 1..Len(nested) : nested[m] = Own /\ nested[n] = Own => m = n
    /\ cur = Own => \A n \in 1..Len(nested) : nested[n] # Own
OwnOnce == QueuedOnce /\ BegunOnce /\ ~(Queued(Own) /\ Begun(Own))
OwnAwaited ==
    Queued(Own) \/ Begun(Own) =>
        /\ pc[LAUNCHER] \in {"check", "await"} /\ ~done[LAUNCHER]
        /\ phase \in Calling /\ ~toolkitExit
OwnDone ==
    /\ phase \notin Calling \cup {"exiting", "done"} => ~done[LAUNCHER]
    /\ phase \in Calling /\ done[LAUNCHER] =>
          /\ pc[LAUNCHER] \in {"check", "await"} /\ ~toolkitExit
          /\ phase = "stop" => stopCalled
    /\ phase = "stop" /\ Begun(Own) => stopCalled

(* Only tkExit() has Toolkit.exit() run, the launcher's at the very end. *)
ExitItems ==
    /\ \A t \in Threads : Queued(Item("exit", t)) => toolkitExit
    /\ \A t \in Threads : pc[t] = "posting" /\ op[t] = "exit" => toolkitExit
    /\ Queued(Item("exit", LAUNCHER)) => phase \in {"exiting", "done"}
    /\ terminated => toolkitExit

(* What the phases of the launcher say about start() and stop(). *)
StartAndStop ==
    /\ listener <=> phase \in Listening
    /\ phase \in {"startup", "register", "add", "construct"} => ~startCalled
    /\ toolkitExit /\ startCalled => phase \in {"exit", "exiting", "done"}
    /\ phase \in {"remove", "unset", "exit", "exiting", "done"} /\ startCalled => stopCalled

Launching ==
    /\ CallsInPhase /\ OwnOnce /\ OwnAwaited /\ OwnDone /\ ExitItems /\ StartAndStop

(* A notification that goes on to tkExit() does so without a listener. *)
Committed == Ending => phase \notin Listening

-----------------------------------------------------------------------------
(* The queue and the stack of nested loops.                                *)

(* Items are what they are made of. *)
LEMMA ItemFacts ==
    /\ Nothing \in Items /\ Native \in Items /\ Nothing # Native
    /\ Runnables \subseteq Items
    /\ \A r \in Runnables : IsRunnable(r)
    /\ \A k \in {"later", "wait", "dummy", "exit"}, t \in Threads :
          Item(k, t) \in Runnables /\ Item(k, t).kind = k /\ Item(k, t).by = t
    /\ \A r \in Runnables : r = Item(r.kind, r.by)
    /\ LAUNCHER \in Threads
    /\ Own \in Runnables
BY DEF Items, Runnables, Item, Nothing, Native, IsRunnable, Threads, Own

(* What is posted goes to the end of the queue, what is suspended to the   *)
(* top of the stack.                                                       *)
LEMMA AppendFacts ==
    ASSUME NEW S, NEW q \in Seq(S), NEW x \in S
    PROVE  /\ Append(q, x) \in Seq(S)
           /\ Len(q) \in Nat /\ Len(Append(q, x)) = Len(q) + 1
           /\ \A i \in 1..Len(q) : Append(q, x)[i] = q[i]
           /\ Append(q, x)[Len(q) + 1] = x
OBVIOUS

(* The oldest runnable is taken first. *)
LEMMA TailFacts ==
    ASSUME NEW S, NEW q \in Seq(S), q # <<>>
    PROVE  /\ Tail(q) \in Seq(S)
           /\ Len(q) \in Nat /\ Len(q) >= 1
           /\ Len(Tail(q)) = Len(q) - 1
           /\ Head(q) = q[1] /\ Head(q) \in S
           /\ \A i \in 1..(Len(q) - 1) : Tail(q)[i] = q[i + 1]
OBVIOUS

(* The innermost nested loop is left first. *)
LEMMA FrontFacts ==
    ASSUME NEW S, NEW n \in Seq(S), n # <<>>
    PROVE  /\ SubSeq(n, 1, Len(n) - 1) \in Seq(S)
           /\ Len(n) \in Nat /\ Len(n) >= 1
           /\ Len(SubSeq(n, 1, Len(n) - 1)) = Len(n) - 1
           /\ n[Len(n)] \in S
           /\ \A i \in 1..(Len(n) - 1) : SubSeq(n, 1, Len(n) - 1)[i] = n[i]
<1>1. Len(n) \in Nat /\ Len(n) >= 1 /\ \A i \in 1..Len(n) : n[i] \in S
  OBVIOUS
<1>2. \A i \in 1..(Len(n) - 1) : n[i] \in S
  BY <1>1
<1>3. 1 \in Int /\ Len(n) - 1 \in Int
  BY <1>1
<1>4. /\ SubSeq(n, 1, Len(n) - 1) \in Seq(S)
      /\ Len(SubSeq(n, 1, Len(n) - 1)) = IF 1 <= Len(n) - 1 THEN (Len(n) - 1) - 1 + 1 ELSE 0
      /\ \A i \in 1..((Len(n) - 1) - 1 + 1) : SubSeq(n, 1, Len(n) - 1)[i] = n[1 + i - 1]
  BY <1>2, <1>3, SubSeqProperties
<1>5. /\ (Len(n) - 1) - 1 + 1 = Len(n) - 1
      /\ \A i \in 1..(Len(n) - 1) : 1 + i - 1 = i
  BY <1>1
<1>6. Len(SubSeq(n, 1, Len(n) - 1)) = Len(n) - 1
  BY <1>1, <1>4, <1>5
<1>7. \A i \in 1..(Len(n) - 1) : SubSeq(n, 1, Len(n) - 1)[i] = n[i]
  BY <1>4, <1>5, Zenon
<1> QED BY <1>1, <1>4, <1>6, <1>7

(* What a call of runLater(), runAndWait() or tkExit() does before it      *)
(* posts.                                                                  *)
LEMMA BeginFacts ==
    ASSUME TypeOK, NEW t \in Threads, NEW k \in {"later", "wait", "dummy", "exit"}, Begin(t, k)
    PROVE  /\ pending' = pending + 1
           /\ pc' = [pc EXCEPT ![t] = "posting"] /\ op' = [op EXCEPT ![t] = k]
           /\ done' = [done EXCEPT ![t] = FALSE]
           /\ pending' \in Int
           /\ pc' \in [Threads -> Progress]
           /\ op' \in [Threads -> {"later", "wait", "dummy", "exit"}]
           /\ done' \in [Threads -> BOOLEAN]
BY DEF TypeOK, Begin, Counted, Progress

(* A call begins in an idle thread. *)
LEMMA CallFacts ==
    ASSUME TypeOK, NEW t \in Threads, NEW k \in {"later", "wait", "dummy", "exit"}, Call(t, k)
    PROVE  pc[t] = "idle" /\ Begin(t, k)
BY DEF Call

(* checkIdle() counts the dummy runnable it posts, and notifies only when  *)
(* it finds no window, no pending runnable and no nested loop.             *)
LEMMA CheckIdleFacts ==
    ASSUME NEW w, NEW p \in Int, NEW q \in Seq(Runnables), NEW n, CheckIdle(w, p, q, n)
    PROVE  /\ queue' \in Seq(Runnables) /\ pending' \in Int
           /\ pending' - p = Len(queue') - Len(q)
           /\ queue' = q \/ queue' = Append(q, Item("dummy", LAUNCHER))
           /\ notify' => w = 0 /\ p = 0 /\ (toolkitExit \/ n = <<>>)
<1>1. \/ pending' = p /\ queue' = q
      \/ pending' = p + 1 /\ queue' = Append(q, Item("dummy", LAUNCHER))
  BY DEF CheckIdle
<1>2. Item("dummy", LAUNCHER) \in Runnables
  BY ItemFacts
<1>3. /\ Append(q, Item("dummy", LAUNCHER)) \in Seq(Runnables)
      /\ Len(q) \in Nat
      /\ Len(Append(q, Item("dummy", LAUNCHER))) = Len(q) + 1
  BY <1>2, AppendFacts
<1>4. notify' => w = 0 /\ p = 0 /\ (toolkitExit \/ n = <<>>)
  BY DEF CheckIdle, NestedAllows
<1> QED BY <1>1, <1>3, <1>4

(* The types are inductive by themselves. *)
LEMMA TypeInit == Init => TypeOK
BY ItemFacts DEF Init, TypeOK, Progress, Phases

(* Every step keeps the types. *)
LEMMA TypeStep == TypeOK /\ [Next]_vars => TypeOK'
<1> SUFFICES ASSUME TypeOK, [Next]_vars PROVE TypeOK'
  OBVIOUS
<1> USE DEF TypeOK, Progress, Phases, vars, fxVars, idleVars, launchVars, exitVars, callVars
<1>1. ASSUME NEW t \in Threads, Post(t) PROVE TypeOK'
  <2>1. Item(op[t], t) \in Runnables
    <3>1. op[t] \in {"later", "wait", "dummy", "exit"}
      OBVIOUS
    <3> QED BY <3>1, ItemFacts
  <2>2. Append(queue, Item(op[t], t)) \in Seq(Runnables)
    BY <2>1, AppendFacts
  <2>3. \/ queue' = queue /\ pending' = pending - 1
        \/ (queue' = queue \/ queue' = Append(queue, Item(op[t], t))) /\ pending' = pending
    BY <1>1, Zenon DEF Post, Refused
  <2>4. queue' \in Seq(Runnables) /\ pending' \in Int
    <3>1. pending \in Int /\ queue \in Seq(Runnables)
      OBVIOUS
    <3>2. pending' \in Int
      BY <2>3, <3>1
    <3> QED BY <2>2, <2>3, <3>1, <3>2, Zenon
  <2> QED BY <1>1, <2>4 DEF Post, Then
<1>2. ASSUME NEW t \in Threads, CheckExited(t) PROVE TypeOK'
  BY <1>2 DEF CheckExited, Returned
<1>3. ASSUME NEW t \in Threads, Awaited(t) PROVE TypeOK'
  BY <1>3 DEF Awaited
<1>4. ASSUME NEW t \in Clients, ClientCall(t) PROVE TypeOK'
  <2>1. \E k \in {"later", "wait", "dummy", "exit"} : Call(t, k)
    BY <1>4 DEF ClientCall
  <2>2. t \in Threads
    BY DEF Threads
  <2> QED BY <1>4, <2>1, <2>2, CallFacts, BeginFacts DEF ClientCall
<1>5. ASSUME NEW t \in Clients, Exit(t) PROVE TypeOK'
  BY <1>5 DEF Exit
<1>6. ASSUME NEW t \in Clients, ExitTest(t) PROVE TypeOK'
  BY <1>6 DEF ExitTest
<1>7. ASSUME NEW t \in Clients, ExitTell(t) PROVE TypeOK'
  BY <1>7 DEF ExitTell
<1>8. ASSUME NEW t \in Clients, ExitEnd(t) PROVE TypeOK'
  <2>1. t \in Threads
    BY DEF Threads
  <2>2. \/ Begin(t, "exit")
        \/ pc' = [pc EXCEPT ![t] = "idle"] /\ UNCHANGED <<pending, op, done>>
    BY <1>8 DEF ExitEnd
  <2>3. /\ pending' \in Int /\ pc' \in [Threads -> Progress] /\ done' \in [Threads -> BOOLEAN]
        /\ op' \in [Threads -> {"later", "wait", "dummy", "exit"}]
    BY <2>1, <2>2, BeginFacts
  <2>4. UNCHANGED <<queue, cur, nested, windows, phase>>
    BY <1>8 DEF ExitEnd
  <2> QED BY <2>3, <2>4
<1>9. CASE FxStarted
  BY <1>9 DEF FxStarted
<1>10. CASE FxTake
  <2>1. cur' \in Items /\ queue' \in Seq(Runnables)
    BY <1>10, TailFacts, ItemFacts DEF FxTake
  <2> QED BY <1>10, <2>1 DEF FxTake
<1>11. CASE FxTakeExit
  <2>1. Head(queue) \in Runnables /\ queue' \in Seq(Runnables)
    BY <1>11, TailFacts DEF FxTakeExit
  <2>2. Head(queue).by \in Threads
    BY <2>1 DEF Runnables
  <2> QED BY <1>11, <2>1, <2>2 DEF FxTakeExit
<1>12. CASE FxNotify
  BY <1>12 DEF FxNotify, FxTest, FxAsk, FxTell, FxTkExit
<1>13. CASE FxFinish
  <2>1. cur.by \in Threads
    BY DEF Items
  <2>2. CheckIdle(windows, pending - 1, queue, nested) \/ UNCHANGED <<pending, queue>>
    BY <1>13 DEF FxFinish
  <2>3. queue' \in Seq(Runnables) /\ pending' \in Int
    BY <2>2, CheckIdleFacts
  <2>4. cur' \in Items
    BY <1>13, ItemFacts DEF FxFinish
  <2> QED BY <1>13, <2>1, <2>3, <2>4 DEF FxFinish
<1>14. CASE FxEvent
  <2>1. cur' \in Items
    BY <1>14, ItemFacts DEF FxEvent
  <2> QED BY <1>14, <2>1 DEF FxEvent
<1>15. CASE FxEnterNested
  <2>1. cur' \in Items /\ nested' \in Seq(Items)
    BY <1>15, ItemFacts, AppendFacts DEF FxEnterNested
  <2> QED BY <1>15, <2>1 DEF FxEnterNested
<1>16. CASE FxExit
  BY <1>16 DEF FxExit
<1>17. CASE FxThrows
  BY <1>17 DEF FxThrows
<1>18. ASSUME NEW w \in 0..MaxWindows, FxWindows(w) PROVE TypeOK'
  <2>1. queue' \in Seq(Runnables) /\ pending' \in Int
    BY <1>18, CheckIdleFacts DEF FxWindows
  <2> QED BY <1>18, <2>1 DEF FxWindows
<1>19. ASSUME NEW b \in BOOLEAN, FxSetImplicitExit(b) PROVE TypeOK'
  <2>1. queue' \in Seq(Runnables) /\ pending' \in Int
    BY <1>19, CheckIdleFacts DEF FxSetImplicitExit
  <2> QED BY <1>19, <2>1 DEF FxSetImplicitExit
<1>20. CASE FxLeaveNested
  <2>1. CheckIdle(windows, pending, queue, nested') \/ UNCHANGED <<pending, queue>>
    BY <1>20 DEF FxLeaveNested, ExitChecks
  <2>2. queue' \in Seq(Runnables) /\ pending' \in Int
    BY <2>1, CheckIdleFacts
  <2>3. cur' \in Items /\ nested' \in Seq(Items)
    BY <1>20, FrontFacts DEF FxLeaveNested
  <2> QED BY <1>20, <2>2, <2>3 DEF FxLeaveNested
<1>21. CASE LaunchStartup
  BY <1>21 DEF LaunchStartup
<1>22. CASE LaunchRegister
  BY <1>22 DEF LaunchRegister
<1>23. CASE LaunchAdd
  BY <1>23 DEF LaunchAdd
<1>24. CASE LaunchRun
  <2>1. Call(LAUNCHER, "wait") \/ UNCHANGED <<pending, callVars>>
    BY <1>24 DEF LaunchRun
  <2> QED BY <1>24, <2>1, CallFacts, BeginFacts, ItemFacts DEF LaunchRun
<1>25. CASE LaunchAwaited
  BY <1>25, ItemFacts DEF LaunchAwaited
<1>26. CASE LaunchShutdown
  BY <1>26 DEF LaunchShutdown
<1>27. CASE LaunchRemove
  BY <1>27 DEF LaunchRemove
<1>28. CASE LaunchUnset
  BY <1>28, CallFacts, BeginFacts, ItemFacts DEF LaunchUnset
<1>29. CASE LaunchExit
  <2>1. Begin(LAUNCHER, "exit") \/ UNCHANGED <<pending, callVars>>
    BY <1>29 DEF LaunchExit
  <2> QED BY <1>29, <2>1, BeginFacts, ItemFacts DEF LaunchExit
<1>30. CASE UNCHANGED vars
  BY <1>30 DEF vars
<1> QED
  BY <1>1, <1>2, <1>3, <1>4, <1>5, <1>6, <1>7, <1>8, <1>9, <1>10, <1>11, <1>12, <1>13,
     <1>14, <1>15, <1>16, <1>17, <1>18, <1>19, <1>20, <1>21, <1>22, <1>23, <1>24,
     <1>25, <1>26, <1>27, <1>28, <1>29, <1>30
     DEF Next, FxLoop, FxApp, Exiting, Launch

-----------------------------------------------------------------------------
(* Counting the runnables.                                                 *)

(* The threads that are posting can be counted. *)
LEMMA PostingFinite ==
    \A p : IsFiniteSet(Posting(p)) /\ Cardinality(Posting(p)) \in Nat
<1>1. IsFiniteSet(Threads)
  BY ThreadsAssumption, FS_AddElement DEF Threads
<1>2. \A p : Posting(p) \subseteq Threads
  BY DEF Posting
<1> QED BY <1>1, <1>2, FS_Subset, FS_CardinalityType

(* A call that begins is one more. *)
LEMMA PostingBegins ==
    ASSUME NEW p \in [Threads -> Progress], NEW t \in Threads,
           p[t] # "posting"
    PROVE  Cardinality(Posting([p EXCEPT ![t] = "posting"])) = Cardinality(Posting(p)) + 1
<1>1. Posting([p EXCEPT ![t] = "posting"]) = Posting(p) \cup {t} /\ t \notin Posting(p)
  BY DEF Posting
<1> QED BY <1>1, FS_AddElement, PostingFinite

(* One that has posted is one less. *)
LEMMA PostingEnds ==
    ASSUME NEW p \in [Threads -> Progress], NEW t \in Threads,
           NEW x, x # "posting"
    PROVE  /\ p[t] # "posting" =>
                 Cardinality(Posting([p EXCEPT ![t] = x])) = Cardinality(Posting(p))
           /\ p[t] = "posting" =>
                 Cardinality(Posting([p EXCEPT ![t] = x])) = Cardinality(Posting(p)) - 1
<1>1. CASE p[t] # "posting"
  <2>1. Posting([p EXCEPT ![t] = x]) = Posting(p)
    BY <1>1 DEF Posting
  <2> QED BY <1>1, <2>1, PostingFinite
<1>2. CASE p[t] = "posting"
  <2>1. Posting([p EXCEPT ![t] = x]) = Posting(p) \ {t} /\ t \in Posting(p)
    BY <1>2 DEF Posting
  <2> QED BY <1>2, <2>1, FS_RemoveElement, PostingFinite
<1> QED BY <1>1, <1>2

(* The runnables below nested loops can be counted; entering and leaving   *)
(* a loop adds and takes away the one that is on top.                      *)
LEMMA SuspendedFacts ==
    ASSUME NEW n \in Seq(Items)
    PROVE  /\ Cardinality(Suspended(n)) \in Nat
           /\ \A x \in Items :
                 Cardinality(Suspended(Append(n, x)))
                   = Cardinality(Suspended(n)) + (IF IsRunnable(x) THEN 1 ELSE 0)
           /\ n # <<>> =>
                 Cardinality(Suspended(SubSeq(n, 1, Len(n) - 1)))
                   = Cardinality(Suspended(n)) - (IF IsRunnable(n[Len(n)]) THEN 1 ELSE 0)
<1>1. IsFiniteSet(Suspended(n)) /\ Cardinality(Suspended(n)) \in Nat
  <2>1. Len(n) \in Int /\ 1 \in Int
    OBVIOUS
  <2>2. Suspended(n) \subseteq 1..Len(n)
    BY DEF Suspended
  <2>3. IsFiniteSet(1..Len(n))
    BY <2>1, FS_Interval
  <2> QED BY <2>2, <2>3, FS_Subset, FS_CardinalityType
<1>2. ASSUME NEW x \in Items
      PROVE  Cardinality(Suspended(Append(n, x)))
               = Cardinality(Suspended(n)) + (IF IsRunnable(x) THEN 1 ELSE 0)
  <2>1. /\ Len(n) \in Nat /\ Len(Append(n, x)) = Len(n) + 1
        /\ \A i \in 1..Len(n) : Append(n, x)[i] = n[i]
        /\ Append(n, x)[Len(n) + 1] = x
    BY AppendFacts
  <2>2. CASE IsRunnable(x)
    <3>1. Suspended(Append(n, x)) = Suspended(n) \cup {Len(n) + 1}
      BY <2>1, <2>2 DEF Suspended
    <3>2. Len(n) + 1 \notin Suspended(n)
      BY <2>1 DEF Suspended
    <3> QED BY <1>1, <2>2, <3>1, <3>2, FS_AddElement
  <2>3. CASE ~IsRunnable(x)
    <3>1. Suspended(Append(n, x)) = Suspended(n)
      BY <2>1, <2>3 DEF Suspended
    <3> QED BY <1>1, <2>3, <3>1
  <2> QED BY <2>2, <2>3
<1>3. ASSUME n # <<>>
      PROVE  Cardinality(Suspended(SubSeq(n, 1, Len(n) - 1)))
               = Cardinality(Suspended(n)) - (IF IsRunnable(n[Len(n)]) THEN 1 ELSE 0)
  <2> DEFINE m == SubSeq(n, 1, Len(n) - 1)
  <2>1. /\ Len(n) \in Nat /\ Len(n) >= 1 /\ Len(m) = Len(n) - 1
        /\ \A i \in 1..(Len(n) - 1) : m[i] = n[i]
    BY <1>3, FrontFacts
  <2> HIDE DEF m
  <2>2. CASE IsRunnable(n[Len(n)])
    <3>1. Suspended(m) = Suspended(n) \ {Len(n)} /\ Len(n) \in Suspended(n)
      BY <2>1, <2>2 DEF Suspended
    <3> QED BY <1>1, <2>2, <3>1, FS_RemoveElement DEF m
  <2>3. CASE ~IsRunnable(n[Len(n)])
    <3>1. Suspended(m) = Suspended(n)
      BY <2>1, <2>3 DEF Suspended
    <3> QED BY <1>1, <2>3, <3>1 DEF m
  <2> QED BY <2>2, <2>3
<1> QED BY <1>1, <1>2, <1>3

(* No runnable is counted to begin with. *)
LEMMA PendingInit == Init => PendingAgrees
<1> SUFFICES ASSUME Init PROVE PendingAgrees
  OBVIOUS
<1>1. Posting(pc) = {} /\ Suspended(nested) = {} /\ ~IsRunnable(cur)
  BY DEF Init, Posting, Suspended, IsRunnable
<1>2. Cardinality(Posting(pc)) = 0 /\ Cardinality(Suspended(nested)) = 0
  BY <1>1, FS_EmptySet
<1>3. Len(queue) = 0 /\ pending = 0
  BY DEF Init
<1> QED BY <1>1, <1>2, <1>3 DEF PendingAgrees

(* Every step of the launcher, the clients and the FX thread keeps the     *)
(* count right.                                                            *)
LEMMA PendingStep == TypeOK /\ TypeOK' /\ PendingAgrees /\ [Next]_vars => PendingAgrees'
<1> SUFFICES ASSUME TypeOK, TypeOK', PendingAgrees, [Next]_vars PROVE PendingAgrees'
  OBVIOUS
<1> DEFINE P == Cardinality(Posting(pc))
           S == Cardinality(Suspended(nested))
           C == IF IsRunnable(cur) THEN 1 ELSE 0
<1>a. /\ P \in Nat /\ P' \in Nat /\ S \in Nat /\ S' \in Nat
      /\ C \in Nat /\ C' \in Nat /\ Len(queue) \in Nat /\ Len(queue') \in Nat
      /\ pending \in Int /\ pending' \in Int
      /\ ~terminated => pending = P + Len(queue) + S + C
      /\ PendingAgrees' <=> (~terminated' => pending' = P' + Len(queue') + S' + C')
  BY PostingFinite, SuspendedFacts DEF TypeOK, PendingAgrees
<1>b. /\ pc' = pc => P' = P
      /\ nested' = nested => S' = S
      /\ cur' = cur => C' = C
  OBVIOUS
<1>c. /\ queue \in Seq(Runnables) /\ queue' \in Seq(Runnables)
      /\ cur \in Items /\ nested \in Seq(Items)
      /\ pending \in Int
      /\ pc \in [Threads -> Progress]
      /\ op \in [Threads -> {"later", "wait", "dummy", "exit"}]
      /\ LAUNCHER \in Threads
  BY ItemFacts DEF TypeOK
<1> HIDE DEF P, S, C
<1>1. ASSUME NEW t \in Threads, Post(t) PROVE PendingAgrees'
  <2>1. P' = P - 1
    <3>1. pc[t] = "posting" /\ pc' = [pc EXCEPT ![t] = Then(op[t])] /\ Then(op[t]) # "posting"
      BY <1>1 DEF Post, Then
    <3> QED BY <1>a, <1>c, <3>1, PostingEnds DEF P
  <2>2. Item(op[t], t) \in Runnables
    <3>1. op[t] \in {"later", "wait", "dummy", "exit"}
      BY <1>c
    <3> QED BY <3>1, ItemFacts
  <2>3. Len(Append(queue, Item(op[t], t))) = Len(queue) + 1
    BY <1>c, <2>2, AppendFacts
  <2>4. terminated' = terminated /\ nested' = nested /\ cur' = cur
    BY <1>1 DEF Post, fxVars
  <2>5. CASE Refuses(t)
    <3>1. queue' = queue /\ pending' = pending - 1
      BY <1>1, <2>5 DEF Post, Refused
    <3> QED BY <1>a, <1>b, <2>1, <2>4, <3>1
  <2>6. CASE ~Refuses(t)
    <3>1. /\ pending' = pending
          /\ ~terminated => queue' = Append(queue, Item(op[t], t))
      BY <1>1, <2>6 DEF Post
    <3> QED BY <1>a, <1>b, <2>1, <2>3, <2>4, <3>1
  <2> QED BY <2>5, <2>6
<1>2. ASSUME NEW t \in Threads, CheckExited(t) PROVE PendingAgrees'
  <2>1. pc[t] # "posting" /\ (pc' = [pc EXCEPT ![t] = "idle"] \/ pc' = [pc EXCEPT ![t] = "await"])
    BY <1>2 DEF CheckExited
  <2>2. P' = P
    <3>1. PICK x \in {"idle", "await"} : pc' = [pc EXCEPT ![t] = x]
      BY <2>1
    <3>2. x # "posting"
      OBVIOUS
    <3> QED BY <1>c, <2>1, <3>1, <3>2, PostingEnds DEF P
  <2>3. /\ pending' = pending /\ queue' = queue /\ terminated' = terminated
        /\ nested' = nested /\ cur' = cur
    BY <1>2 DEF CheckExited, fxVars
  <2> QED BY <1>a, <1>b, <2>2, <2>3
<1>3. ASSUME NEW t \in Threads, Awaited(t) PROVE PendingAgrees'
  <2>1. pc[t] # "posting" /\ pc' = [pc EXCEPT ![t] = "idle"]
    BY <1>3 DEF Awaited
  <2>3. P' = P
    BY <1>a, <1>c, <2>1, PostingEnds DEF P
  <2>2. /\ pending' = pending /\ queue' = queue /\ terminated' = terminated
        /\ nested' = nested /\ cur' = cur
    BY <1>3 DEF Awaited, fxVars
  <2> QED BY <1>a, <1>b, <2>2, <2>3
<1>4. ASSUME NEW t \in Clients, ClientCall(t) PROVE PendingAgrees'
  <2>1. PICK k \in {"later", "wait", "dummy", "exit"} : Call(t, k)
    BY <1>4 DEF ClientCall
  <2>2. t \in Threads
    BY DEF Threads
  <2>3. pending' = pending + 1 /\ P' = P + 1
    BY <1>c, <2>1, <2>2, CallFacts, BeginFacts, PostingBegins DEF P
  <2>4. queue' = queue /\ terminated' = terminated /\ nested' = nested /\ cur' = cur
    BY <1>4 DEF ClientCall, fxVars
  <2> QED BY <1>a, <1>b, <2>3, <2>4
<1>5. ASSUME NEW t \in Clients, Exit(t) \/ ExitTest(t) \/ ExitTell(t) PROVE PendingAgrees'
  <2>0. t \in Threads
    BY DEF Threads
  <2>1. PICK x \in {"idle", "testing", "telling", "ending"} : pc' = [pc EXCEPT ![t] = x]
    BY <1>5 DEF Exit, ExitTest, ExitTell
  <2>2. x # "posting" /\ pc[t] # "posting"
    BY <1>5 DEF Exit, ExitTest, ExitTell
  <2>3. P' = P
    BY <1>a, <1>c, <2>0, <2>1, <2>2, PostingEnds DEF P
  <2>4. /\ pending' = pending /\ queue' = queue /\ terminated' = terminated
        /\ nested' = nested /\ cur' = cur
    BY <1>5 DEF Exit, ExitTest, ExitTell, fxVars
  <2> QED BY <1>a, <1>b, <2>3, <2>4
<1>6. ASSUME NEW t \in Clients, ExitEnd(t) PROVE PendingAgrees'
  <2>0. t \in Threads /\ pc[t] = "ending"
    BY <1>6 DEF Threads, ExitEnd
  <2>1. queue' = queue /\ terminated' = terminated /\ nested' = nested /\ cur' = cur
    BY <1>6 DEF ExitEnd, fxVars
  <2>2. CASE Begin(t, "exit")
    <3>1. pending' = pending + 1 /\ pc' = [pc EXCEPT ![t] = "posting"]
      BY <2>0, <2>2, BeginFacts
    <3>2. P' = P + 1
      BY <1>c, <2>0, <3>1, PostingBegins DEF P
    <3> QED BY <1>a, <1>b, <2>1, <3>1, <3>2
  <2>3. CASE pc' = [pc EXCEPT ![t] = "idle"] /\ pending' = pending
    <3>1. P' = P
      BY <1>a, <1>c, <2>0, <2>3, PostingEnds DEF P
    <3> QED BY <1>a, <1>b, <2>1, <2>3, <3>1
  <2> QED BY <1>6, <2>2, <2>3 DEF ExitEnd
<1>7. CASE FxStarted
  BY <1>7, <1>a, <1>b DEF FxStarted, fxVars, callVars
<1>8. CASE FxTake
  <2>1. Len(queue') = Len(queue) - 1 /\ Head(queue) \in Runnables
    BY <1>8, <1>c, TailFacts DEF FxTake
  <2>2. C' = 1 /\ C = 0
    BY <1>8, <2>1, ItemFacts DEF FxTake, IsRunnable, C
  <2>3. pending' = pending /\ terminated' = terminated /\ nested' = nested /\ pc' = pc
    BY <1>8 DEF FxTake, callVars
  <2> QED BY <1>a, <1>b, <2>1, <2>2, <2>3
<1>9. CASE FxTakeExit
  BY <1>9, <1>a DEF FxTakeExit
<1>10. CASE FxNotify
  <2>1. /\ ~terminated' => ~terminated
        /\ UNCHANGED <<pending, queue, nested, cur, pc>>
    <3>1. CASE FxTkExit
      BY <3>1 DEF FxTkExit, callVars
    <3>2. CASE FxTest \/ FxAsk \/ FxTell
      BY <3>2 DEF FxTest, FxAsk, FxTell, callVars
    <3> QED BY <1>10, <3>1, <3>2 DEF FxNotify
  <2> QED BY <1>a, <1>b, <2>1
<1>11. CASE FxFinish
  <2>1. C' = 0 /\ (cur = Native => C = 0) /\ (cur # Native => C = 1)
    BY <1>11 DEF FxFinish, InApp, IsRunnable, C
  <2>2. terminated' = terminated /\ nested' = nested /\ pc' = pc
    BY <1>11 DEF FxFinish
  <2>3. CASE cur = Native
    <3>1. pending' = pending /\ queue' = queue
      BY <1>11, <2>3 DEF FxFinish
    <3> QED BY <1>a, <1>b, <2>1, <2>2, <2>3, <3>1
  <2>4. CASE cur # Native
    <3>1. pending - 1 \in Int /\ queue \in Seq(Runnables)
      BY <1>c
    <3>2. CheckIdle(windows, pending - 1, queue, nested)
      BY <1>11, <2>4 DEF FxFinish
    <3>3. pending' - (pending - 1) = Len(queue') - Len(queue)
      BY <3>1, <3>2, CheckIdleFacts
    <3> QED BY <1>a, <1>b, <2>1, <2>2, <2>4, <3>3
  <2> QED BY <2>3, <2>4
<1>12. CASE FxEvent
  <2>1. C' = 0 /\ C = 0
    BY <1>12 DEF FxEvent, IsRunnable, C
  <2> QED BY <1>12, <1>a, <1>b, <2>1 DEF FxEvent, callVars
<1>13. CASE FxEnterNested
  <2>1. C' = 0
    BY <1>13 DEF FxEnterNested, IsRunnable, C
  <2>2. S' = S + C
    BY <1>13, <1>c, SuspendedFacts DEF FxEnterNested, S, C
  <2> QED BY <1>13, <1>a, <1>b, <2>1, <2>2 DEF FxEnterNested, callVars
<1>14. CASE FxExit
  BY <1>14, <1>a, <1>b DEF FxExit, callVars
<1>15. CASE FxThrows
  BY <1>15, <1>a, <1>b DEF FxThrows, fxVars, callVars
<1>16. ASSUME NEW w \in 0..MaxWindows, FxWindows(w) PROVE PendingAgrees'
  <2>1. pending' - pending = Len(queue') - Len(queue)
    BY <1>16, <1>c, CheckIdleFacts DEF FxWindows
  <2>2. terminated' = terminated /\ nested' = nested /\ cur' = cur /\ pc' = pc
    BY <1>16 DEF FxWindows, callVars
  <2> QED BY <1>a, <1>b, <2>1, <2>2
<1>17. ASSUME NEW b \in BOOLEAN, FxSetImplicitExit(b) PROVE PendingAgrees'
  <2>1. pending' - pending = Len(queue') - Len(queue)
    BY <1>17, <1>c, CheckIdleFacts DEF FxSetImplicitExit
  <2>2. terminated' = terminated /\ nested' = nested /\ cur' = cur /\ pc' = pc
    BY <1>17 DEF FxSetImplicitExit, callVars
  <2> QED BY <1>a, <1>b, <2>1, <2>2
<1>18. CASE FxLeaveNested
  <2>1. CheckIdle(windows, pending, queue, nested') \/ UNCHANGED <<pending, queue>>
    BY <1>18 DEF FxLeaveNested, ExitChecks
  <2>2. pending' - pending = Len(queue') - Len(queue)
    BY <1>a, <1>c, <2>1, CheckIdleFacts
  <2>3. C = 0 /\ C' = (IF IsRunnable(nested[Len(nested)]) THEN 1 ELSE 0)
    BY <1>18 DEF FxLeaveNested, IsRunnable, C
  <2>4. S' = S - (IF IsRunnable(nested[Len(nested)]) THEN 1 ELSE 0)
    BY <1>18, <1>c, SuspendedFacts DEF FxLeaveNested, S
  <2>5. terminated' = terminated /\ pc' = pc
    BY <1>18 DEF FxLeaveNested, callVars
  <2> QED BY <1>a, <1>b, <2>2, <2>3, <2>4, <2>5
<1>19. CASE LaunchStartup
  BY <1>19, <1>a, <1>b DEF LaunchStartup, fxVars, callVars
<1>20. CASE LaunchRegister
  BY <1>20, <1>a, <1>b DEF LaunchRegister, fxVars, callVars
<1>21. CASE LaunchAdd
  BY <1>21, <1>a, <1>b DEF LaunchAdd, fxVars, callVars
<1>22. CASE LaunchRun
  <2>1. CASE Call(LAUNCHER, "wait")
    <3>0. pc' = [pc EXCEPT ![LAUNCHER] = "posting"] /\ pc[LAUNCHER] = "idle" /\ pending' = pending + 1
      BY <1>c, <2>1, CallFacts, BeginFacts
    <3>1. pending' = pending + 1 /\ P' = P + 1
      BY <1>c, <3>0, PostingBegins DEF P
    <3>2. queue' = queue /\ terminated' = terminated /\ nested' = nested /\ cur' = cur
      BY <1>22 DEF LaunchRun, fxVars
    <3> QED BY <1>a, <1>b, <3>1, <3>2
  <2>2. CASE UNCHANGED <<pending, callVars>>
    BY <1>22, <1>a, <1>b, <2>2 DEF LaunchRun, callVars, fxVars
  <2> QED BY <1>22, <2>1, <2>2 DEF LaunchRun
<1>23. CASE LaunchAwaited
  <2>1. pc[LAUNCHER] # "posting" /\ pc' = [pc EXCEPT ![LAUNCHER] = "idle"]
    BY <1>23 DEF LaunchAwaited
  <2>3. P' = P
    BY <1>a, <1>c, <2>1, PostingEnds DEF P
  <2>2. /\ pending' = pending /\ queue' = queue /\ terminated' = terminated
        /\ nested' = nested /\ cur' = cur
    BY <1>23 DEF LaunchAwaited, fxVars
  <2> QED BY <1>a, <1>b, <2>2, <2>3
<1>24. CASE LaunchShutdown
  BY <1>24, <1>a, <1>b DEF LaunchShutdown, fxVars, callVars
<1>25. CASE LaunchRemove
  BY <1>25, <1>a, <1>b DEF LaunchRemove, fxVars, callVars
<1>26. CASE LaunchUnset
  <2>1. pending' = pending + 1 /\ P' = P + 1
    BY <1>26, <1>c, CallFacts, BeginFacts, PostingBegins, ItemFacts DEF LaunchUnset, P
  <2>2. queue' = queue /\ terminated' = terminated /\ nested' = nested /\ cur' = cur
    BY <1>26 DEF LaunchUnset, fxVars
  <2> QED BY <1>a, <1>b, <2>1, <2>2
<1>27. CASE LaunchExit
  <2>1. CASE Begin(LAUNCHER, "exit")
    <3>0. pc[LAUNCHER] = "idle"
      BY <1>27 DEF LaunchExit
    <3>1. pending' = pending + 1 /\ pc' = [pc EXCEPT ![LAUNCHER] = "posting"]
      BY <1>c, <2>1, BeginFacts
    <3>2. P' = P + 1
      BY <1>c, <3>0, <3>1, PostingBegins DEF P
    <3>3. queue' = queue /\ terminated' = terminated /\ nested' = nested /\ cur' = cur
      BY <1>27 DEF LaunchExit, fxVars
    <3> QED BY <1>a, <1>b, <3>1, <3>2, <3>3
  <2>2. CASE UNCHANGED <<pending, callVars>>
    BY <1>27, <1>a, <1>b, <2>2 DEF LaunchExit, callVars, fxVars
  <2> QED BY <1>27, <2>1, <2>2 DEF LaunchExit
<1>28. CASE UNCHANGED vars
  BY <1>28, <1>a, <1>b DEF vars, fxVars, callVars
<1> QED
  BY <1>1, <1>2, <1>3, <1>4, <1>5, <1>6, <1>7, <1>8, <1>9, <1>10, <1>11, <1>12, <1>13,
     <1>14, <1>15, <1>16, <1>17, <1>18, <1>19, <1>20, <1>21, <1>22, <1>23, <1>24,
     <1>25, <1>26, <1>27, <1>28
     DEF Next, FxLoop, FxApp, Exiting, Launch

-----------------------------------------------------------------------------
(* Idleness.                                                               *)

(* When nothing is pending, no runnable executes or is suspended. *)
LEMMA NothingPending ==
    ASSUME TypeOK, PendingAgrees, ~terminated, pending = 0
    PROVE  ~IsRunnable(cur) /\ \A i \in 1..Len(nested) : ~IsRunnable(nested[i])
<1> DEFINE S == Cardinality(Suspended(nested))
<1>1. Cardinality(Posting(pc)) \in Nat /\ S \in Nat /\ Len(queue) \in Nat
  BY PostingFinite, SuspendedFacts DEF TypeOK
<1>2. ~IsRunnable(cur) /\ S = 0
  BY <1>1 DEF PendingAgrees
<1>3. IsFiniteSet(Suspended(nested))
  <2>1. Len(nested) \in Int /\ 1 \in Int
    BY DEF TypeOK
  <2>2. IsFiniteSet(1..Len(nested)) /\ Suspended(nested) \subseteq 1..Len(nested)
    BY <2>1, FS_Interval DEF Suspended
  <2> QED BY <2>2, FS_Subset
<1>4. Suspended(nested) = {}
  BY <1>2, <1>3, FS_EmptySet
<1> QED BY <1>2, <1>4 DEF Suspended

(* checkIdle() never lets the FX thread notify under a runnable or in a    *)
(* nested loop, and until the notification nothing else happens there.     *)
LEMMA IdleStep == TypeOK /\ PendingAgrees /\ IdleIsIdle /\ [Next]_vars => IdleIsIdle'
<1> SUFFICES ASSUME TypeOK, PendingAgrees, IdleIsIdle, [Next]_vars PROVE IdleIsIdle'
  OBVIOUS
<1> USE DEF IdleIsIdle
<1>1. ASSUME NEW t \in Threads, Post(t) PROVE IdleIsIdle'
  BY <1>1
     DEF Post, Then, Refuses, Refused, FxRuns, InApp, vars, fxVars, idleVars, launchVars, exitVars, callVars
<1>2. ASSUME NEW t \in Threads, CheckExited(t) PROVE IdleIsIdle'
  BY <1>2
     DEF CheckExited, Returned, FxRuns, InApp, vars, fxVars, idleVars, launchVars, exitVars, callVars
<1>3. ASSUME NEW t \in Threads, Awaited(t) PROVE IdleIsIdle'
  BY <1>3 DEF Awaited, FxRuns, InApp, vars, fxVars, idleVars, launchVars, exitVars, callVars
<1>4. ASSUME NEW t \in Clients, ClientCall(t) PROVE IdleIsIdle'
  BY <1>4 DEF ClientCall, fxVars, exitVars
<1>5. ASSUME NEW t \in Clients, Exit(t) PROVE IdleIsIdle'
  BY <1>5 DEF Exit, fxVars
<1>6. ASSUME NEW t \in Clients, ExitTest(t) \/ ExitTell(t) PROVE IdleIsIdle'
  BY <1>6 DEF ExitTest, ExitTell, fxVars, exitVars
<1>7. ASSUME NEW t \in Clients, ExitEnd(t) PROVE IdleIsIdle'
  BY <1>7 DEF ExitEnd, fxVars
<1>8. CASE FxStarted
  BY <1>8 DEF FxStarted, FxRuns, InApp, vars, fxVars, idleVars, launchVars, exitVars, callVars
<1>9. CASE FxTake
  BY <1>9 DEF FxTake, FxRuns, InApp, vars, fxVars, idleVars, launchVars, exitVars, callVars
<1>10. CASE FxTakeExit
  BY <1>10 DEF FxTakeExit, FxRuns, InApp, vars, fxVars, idleVars, launchVars, exitVars, callVars
<1>11. CASE FxNotify
  BY <1>11 DEF FxNotify, FxTest, FxAsk, FxTell, FxTkExit, exitVars
<1>12. CASE FxFinish
  <2>1. pending - 1 \in Int /\ queue \in Seq(Runnables) /\ ~IsRunnable(cur')
    BY <1>12 DEF FxFinish, TypeOK, IsRunnable
  <2>2. CASE cur = Native
    BY <1>12, <2>2 DEF FxFinish, InApp, FxRuns, idleVars
  <2>3. CASE cur # Native
    <3>1. CheckIdle(windows, pending - 1, queue, nested)
      BY <1>12, <2>3 DEF FxFinish
    <3>2. notify' => windows = 0 /\ (toolkitExit \/ nested = <<>>)
      BY <2>1, <3>1, CheckIdleFacts
    <3> QED BY <1>12, <2>1, <3>2 DEF FxFinish, exitVars
  <2> QED BY <2>2, <2>3
<1>13. CASE FxEvent
  BY <1>13 DEF FxEvent, FxRuns, InApp, vars, fxVars, idleVars, launchVars, exitVars, callVars
<1>14. CASE FxEnterNested
  BY <1>14 DEF FxEnterNested, FxRuns, InApp, vars, fxVars, idleVars, launchVars, exitVars, callVars
<1>15. CASE FxExit
  BY <1>15 DEF FxExit
<1>16. CASE FxThrows
  BY <1>16 DEF FxThrows, FxRuns, InApp, vars, fxVars, idleVars, launchVars, exitVars, callVars
<1>17. ASSUME NEW w \in 0..MaxWindows, FxWindows(w) PROVE IdleIsIdle'
  <2>1. pending \in Int /\ queue \in Seq(Runnables)
    BY DEF TypeOK
  <2>2. notify' => w = 0 /\ pending = 0 /\ (toolkitExit \/ nested = <<>>)
    BY <1>17, <2>1, CheckIdleFacts DEF FxWindows
  <2>3. ~terminated /\ cur' = cur /\ nested' = nested /\ windows' = w
        /\ toolkitExit' = toolkitExit
    BY <1>17 DEF FxWindows, InApp, FxRuns, exitVars
  <2> QED BY <2>2, <2>3, NothingPending
<1>18. ASSUME NEW b \in BOOLEAN, FxSetImplicitExit(b) PROVE IdleIsIdle'
  <2>1. pending \in Int /\ queue \in Seq(Runnables)
    BY DEF TypeOK
  <2>2. notify' => windows = 0 /\ pending = 0 /\ (toolkitExit \/ nested = <<>>)
    BY <1>18, <2>1, CheckIdleFacts DEF FxSetImplicitExit
  <2>3. ~terminated /\ cur' = cur /\ nested' = nested /\ windows' = windows
        /\ toolkitExit' = toolkitExit
    BY <1>18 DEF FxSetImplicitExit, InApp, FxRuns, exitVars
  <2> QED BY <2>2, <2>3, NothingPending
<1>19. CASE FxLeaveNested
  <2>1. pending \in Int /\ queue \in Seq(Runnables) /\ Len(nested) \in 1..Len(nested)
    BY <1>19, FrontFacts DEF FxLeaveNested, TypeOK
  <2>2. CASE nested' = <<>>
    <3>1. CheckIdle(windows, pending, queue, nested')
      BY <1>19, <2>2 DEF FxLeaveNested, ExitChecks
    <3>2. notify' => windows = 0 /\ pending = 0
      BY <2>1, <3>1, CheckIdleFacts
    <3>3. ~terminated /\ windows' = windows /\ cur' = nested[Len(nested)]
      BY <1>19 DEF FxLeaveNested, FxRuns
    <3> QED BY <2>1, <2>2, <3>2, <3>3, NothingPending
  <2>3. CASE nested' # <<>>
    BY <1>19, <2>3 DEF FxLeaveNested, ExitChecks, FxRuns, idleVars
  <2> QED BY <2>2, <2>3
<1>20. CASE LaunchStartup
  BY <1>20 DEF LaunchStartup, FxRuns, InApp, vars, fxVars, idleVars, launchVars, exitVars, callVars
<1>21. CASE LaunchRegister
  BY <1>21 DEF LaunchRegister, FxRuns, InApp, vars, fxVars, idleVars, launchVars, exitVars, callVars
<1>22. CASE LaunchAdd
  BY <1>22 DEF LaunchAdd, fxVars, exitVars
<1>23. CASE LaunchRun
  BY <1>23 DEF LaunchRun, fxVars, exitVars
<1>24. CASE LaunchAwaited
  BY <1>24 DEF LaunchAwaited, FxRuns, InApp, vars, fxVars, idleVars, launchVars, exitVars, callVars
<1>25. CASE LaunchShutdown
  BY <1>25 DEF LaunchShutdown, FxRuns, InApp, vars, fxVars, idleVars, launchVars, exitVars, callVars
<1>26. CASE LaunchRemove
  BY <1>26 DEF LaunchRemove, fxVars, exitVars
<1>27. CASE LaunchUnset
  BY <1>27 DEF LaunchUnset, fxVars, exitVars
<1>28. CASE LaunchExit
  BY <1>28 DEF LaunchExit, fxVars
<1>29. CASE UNCHANGED vars
  BY <1>29 DEF vars, FxRuns, InApp, vars, fxVars, idleVars, launchVars, exitVars, callVars
<1> QED
  BY <1>1, <1>2, <1>3, <1>4, <1>5, <1>6, <1>7, <1>8, <1>9, <1>10, <1>11, <1>12, <1>13,
     <1>14, <1>15, <1>16, <1>17, <1>18, <1>19, <1>20, <1>21, <1>22, <1>23, <1>24,
     <1>25, <1>26, <1>27, <1>28, <1>29
     DEF Next, FxLoop, FxApp, Exiting, Launch

-----------------------------------------------------------------------------
(* The history of the launcher.                                            *)

(* What stays where it is. *)
LEMMA Unmoved ==
    /\ queue' = queue => QueuedOnce' = QueuedOnce /\ \A i : Queued(i)' = Queued(i)
    /\ cur' = cur /\ nested' = nested => BegunOnce' = BegunOnce /\ \A i : Begun(i)' = Begun(i)
BY DEF Queued, Begun, QueuedOnce, BegunOnce

(* A runnable is posted. *)
LEMMA Posted ==
    ASSUME TypeOK, NEW x \in Runnables, queue' = Append(queue, x)
    PROVE  /\ \A i : Queued(i)' <=> Queued(i) \/ i = x
           /\ QueuedOnce /\ (x = Own => ~Queued(Own)) => QueuedOnce'
<1>1. /\ Len(queue) \in Nat /\ Len(queue') = Len(queue) + 1
      /\ \A i \in 1..Len(queue) : queue'[i] = queue[i]
      /\ queue'[Len(queue) + 1] = x
  BY AppendFacts DEF TypeOK
<1>2. \A n : n \in 1..Len(queue') <=> n \in 1..Len(queue) \/ n = Len(queue) + 1
  BY <1>1
<1>3. \A i : Queued(i)' <=> Queued(i) \/ i = x
  BY <1>1, <1>2 DEF Queued
<1>4. QueuedOnce /\ (x = Own => ~Queued(Own)) => QueuedOnce'
  BY <1>1, <1>2 DEF Queued, QueuedOnce
<1> QED BY <1>3, <1>4

(* The oldest runnable is taken. *)
LEMMA Taken ==
    ASSUME TypeOK, queue # <<>>, queue' = Tail(queue)
    PROVE  /\ \A i : Queued(i) <=> Queued(i)' \/ i = Head(queue)
           /\ QueuedOnce => QueuedOnce' /\ (Head(queue) = Own => ~Queued(Own)')
<1>1. /\ Len(queue) \in Nat /\ Len(queue) >= 1 /\ Len(queue') = Len(queue) - 1
      /\ Head(queue) = queue[1]
      /\ \A i \in 1..(Len(queue) - 1) : queue'[i] = queue[i + 1]
  BY TailFacts DEF TypeOK
<1>2. /\ \A n \in 1..Len(queue') : n + 1 \in 1..Len(queue) /\ queue'[n] = queue[n + 1]
      /\ \A n \in 1..Len(queue) : n = 1 \/ (n - 1 \in 1..Len(queue') /\ queue'[n - 1] = queue[n])
      /\ 1 \in 1..Len(queue)
  BY <1>1
<1>3. \A i : Queued(i) <=> Queued(i)' \/ i = Head(queue)
  BY <1>1, <1>2 DEF Queued
<1>4. ASSUME QueuedOnce PROVE QueuedOnce'
  BY <1>1, <1>2, <1>4 DEF QueuedOnce
<1>5. ASSUME QueuedOnce, Head(queue) = Own PROVE ~Queued(Own)'
  BY <1>1, <1>2, <1>5 DEF Queued, QueuedOnce
<1> QED BY <1>3, <1>4, <1>5

(* checkIdle() posts no runnable but the dummy. *)
LEMMA IdleCheckPosts ==
    ASSUME TypeOK, NEW w, NEW p \in Int, NEW n, CheckIdle(w, p, queue, n)
    PROVE  /\ QueuedOnce => QueuedOnce'
           /\ Queued(Own)' <=> Queued(Own)
           /\ \A t \in Threads : Queued(Item("exit", t))' <=> Queued(Item("exit", t))
<1>1. queue' = queue \/ queue' = Append(queue, Item("dummy", LAUNCHER))
  BY CheckIdleFacts DEF TypeOK
<1>2. /\ Item("dummy", LAUNCHER) \in Runnables /\ Item("dummy", LAUNCHER) # Own
      /\ \A t \in Threads : Item("dummy", LAUNCHER) # Item("exit", t)
  BY ItemFacts DEF Item, Own
<1> QED BY <1>1, <1>2, Unmoved, Posted

(* A nested loop is entered. *)
LEMMA Entered ==
    ASSUME TypeOK, nested' = Append(nested, cur), cur' = Nothing
    PROVE  /\ Begun(Own)' <=> Begun(Own)
           /\ BegunOnce => BegunOnce'
<1>1. /\ Len(nested) \in Nat /\ Len(nested') = Len(nested) + 1
      /\ \A i \in 1..Len(nested) : nested'[i] = nested[i]
      /\ nested'[Len(nested) + 1] = cur
  BY AppendFacts DEF TypeOK
<1>2. \A n : n \in 1..Len(nested') <=> n \in 1..Len(nested) \/ n = Len(nested) + 1
  BY <1>1
<1>3. Own # Nothing
  BY DEF Own, Nothing, Item
<1>4. Begun(Own)' <=> Begun(Own)
  BY <1>1, <1>2, <1>3 DEF Begun
<1>5. BegunOnce => BegunOnce'
  BY <1>1, <1>2, <1>3 DEF BegunOnce
<1> QED BY <1>4, <1>5

(* A nested loop is left. *)
LEMMA Left ==
    ASSUME TypeOK, cur = Nothing, nested # <<>>, cur' = nested[Len(nested)],
           nested' = SubSeq(nested, 1, Len(nested) - 1)
    PROVE  /\ Begun(Own)' <=> Begun(Own)
           /\ BegunOnce => BegunOnce'
<1>1. /\ Len(nested) \in Nat /\ Len(nested) >= 1 /\ Len(nested') = Len(nested) - 1
      /\ \A i \in 1..(Len(nested) - 1) : nested'[i] = nested[i]
  BY FrontFacts DEF TypeOK
<1>2. \A n : n \in 1..Len(nested) <=> n \in 1..Len(nested') \/ n = Len(nested)
  BY <1>1
<1>3. Own # Nothing /\ Len(nested) \notin 1..Len(nested')
  BY <1>1 DEF Own, Nothing, Item
<1>4. Begun(Own)' <=> Begun(Own)
  BY <1>1, <1>2, <1>3 DEF Begun
<1>5. BegunOnce => BegunOnce'
  BY <1>1, <1>2, <1>3 DEF BegunOnce
<1> QED BY <1>4, <1>5

(* A handler or a runnable ends. *)
LEMMA Ended ==
    ASSUME BegunOnce, nested' = nested, cur' = Nothing
    PROVE  /\ BegunOnce'
           /\ cur = Own => ~Begun(Own)'
           /\ cur # Own => (Begun(Own)' <=> Begun(Own))
<1>1. Own # Nothing
  BY DEF Own, Nothing, Item
<1> QED BY <1>1 DEF Begun, BegunOnce

(* There is no runnable and no phase behind the launcher to begin with. *)
LEMMA LaunchingInit == Init => Launching /\ Committed
<1> SUFFICES ASSUME Init PROVE Launching /\ Committed
  OBVIOUS
<1>1. Own # Nothing /\ LAUNCHER \in Threads
  BY ItemFacts DEF Own, Nothing, Item
<1>2. (\A i : ~Queued(i)) /\ ~Begun(Own) /\ QueuedOnce /\ BegunOnce
  BY <1>1 DEF Init, Queued, Begun, QueuedOnce, BegunOnce
<1> QED BY <1>1, <1>2 DEF Init, Launching, CallsInPhase, OwnOnce, OwnAwaited, OwnDone, ExitItems,
                      StartAndStop, Committed, Listening, Calling

(* Every step keeps the launcher's history consistent, as long as nobody   *)
(* ends the toolkit while there is a listener.                             *)
LEMMA LaunchingStep == TypeOK /\ Launching /\ Committed /\ [Next]_vars => Launching'
<1> SUFFICES ASSUME TypeOK, Launching, Committed, [Next]_vars PROVE Launching'
  OBVIOUS
<1>a. /\ pc \in [Threads -> Progress]
      /\ op \in [Threads -> {"later", "wait", "dummy", "exit"}]
      /\ done \in [Threads -> BOOLEAN]
      /\ queue \in Seq(Runnables) /\ cur \in Items
      /\ LAUNCHER \in Threads /\ LAUNCHER \notin Clients /\ Clients \subseteq Threads
      /\ Listens \subseteq BOOLEAN
      /\ phase \in {"startup", "register", "exit", "exiting", "done"} \cup Listening
  BY ItemFacts, ThreadsAssumption, BoundsAssumption DEF TypeOK, Threads, Phases, Listening
<1>b. UNCHANGED <<queue, cur, nested>> =>
          OwnOnce' /\ Begun(Own)' = Begun(Own) /\ \A i : Queued(i)' = Queued(i)
  BY Unmoved DEF Launching, OwnOnce
<1> USE DEF Launching, CallsInPhase, OwnAwaited, OwnDone, ExitItems, StartAndStop, Listening,
            Calling
<1>1. ASSUME NEW t \in Threads, Post(t) PROVE Launching'
  <2>1. Item(op[t], t) \in Runnables
    BY <1>a, ItemFacts
  <2>2. UNCHANGED <<cur, nested, phase, done, toolkitExit, startCalled, stopCalled, listener,
                    terminated>>
    BY <1>1 DEF Post, fxVars, exitVars, launchVars
  <2>3. CASE queue' = queue
    BY <1>1, <1>a, <1>b, <2>2, <2>3 DEF Post, Then
  <2>4. CASE ~Refuses(t) /\ queue' = Append(queue, Item(op[t], t))
    <3>1. /\ \A i : Queued(i)' <=> Queued(i) \/ i = Item(op[t], t)
          /\ Item(op[t], t) # Own \/ ~Queued(Own) => QueuedOnce'
      BY <2>1, <2>4, Posted DEF OwnOnce
    <3>2. /\ BegunOnce' /\ (Begun(Own)' <=> Begun(Own))
      BY <2>2, Unmoved DEF OwnOnce
    <3>3. /\ Item(op[t], t) = Own <=> t = LAUNCHER /\ op[t] = "wait"
          /\ \A u \in Threads : Item(op[t], t) = Item("exit", u) <=> t = u /\ op[t] = "exit"
      BY DEF Item, Own
    <3>4. pc[t] = "posting" /\ pc' = [pc EXCEPT ![t] = Then(op[t])]
          /\ op' = [op EXCEPT ![t] = "later"]
      BY <1>1 DEF Post
    <3>5. CASE t = LAUNCHER /\ op[t] = "wait"
      BY <1>a, <2>2, <2>4, <3>1, <3>2, <3>3, <3>4, <3>5 DEF Then, Refuses, OwnOnce
    <3>6. CASE ~(t = LAUNCHER /\ op[t] = "wait")
      BY <1>a, <2>2, <2>4, <3>1, <3>2, <3>3, <3>4, <3>6 DEF Then, Refuses, OwnOnce
    <3> QED BY <3>5, <3>6
  <2> QED BY <1>1, <2>3, <2>4 DEF Post
<1>2. ASSUME NEW t \in Threads, CheckExited(t) PROVE Launching'
  <2>1. UNCHANGED <<queue, cur, nested>>
    BY <1>2 DEF CheckExited, vars, fxVars
  <2> QED BY <1>2, <1>a, <1>b, <2>1
             DEF CheckExited, Returned, fxVars, launchVars, exitVars, callVars
<1>3. ASSUME NEW t \in Threads, Awaited(t) PROVE Launching'
  <2>1. UNCHANGED <<queue, cur, nested>>
    BY <1>3 DEF Awaited, vars, fxVars
  <2> QED BY <1>3, <1>a, <1>b, <2>1 DEF Awaited, fxVars, launchVars, exitVars, callVars
<1>4. ASSUME NEW t \in Clients, ClientCall(t) PROVE Launching'
  <2>1. UNCHANGED <<queue, cur, nested>>
    BY <1>4 DEF ClientCall, vars, fxVars
  <2> QED BY <1>4, <1>a, <1>b, <2>1 DEF ClientCall, Call, Begin, fxVars, launchVars, exitVars, callVars
<1>5. ASSUME NEW t \in Clients, Exit(t) \/ ExitTest(t) \/ ExitTell(t) PROVE Launching'
  <2>1. UNCHANGED <<queue, cur, nested, phase, startCalled, stopCalled, listener, terminated,
                    toolkitExit, op, done>>
    BY <1>5 DEF Exit, ExitTest, ExitTell, fxVars, exitVars, launchVars
  <2>2. PICK x \in {"idle", "testing", "telling", "ending"} : pc' = [pc EXCEPT ![t] = x]
    BY <1>5 DEF Exit, ExitTest, ExitTell
  <2>3. pc'[LAUNCHER] = pc[LAUNCHER] /\ pc'[t] # "posting"
    BY <1>a, <2>2
  <2>4. \A u \in Threads : pc'[u] = "posting" => pc[u] = "posting"
    BY <1>a, <2>2
  <2> QED BY <1>a, <1>b, <2>1, <2>3, <2>4
<1>6. ASSUME NEW t \in Clients, ExitEnd(t) PROVE Launching'
  <2>1. UNCHANGED <<queue, cur, nested, phase, startCalled, stopCalled, listener, terminated>>
    BY <1>6 DEF ExitEnd, fxVars, launchVars
  <2>2. toolkitExit' = TRUE /\ phase \notin Listening
    BY <1>6 DEF ExitEnd, Committed, Ending
  <2>3. t \in Threads /\ t # LAUNCHER
    BY <1>a
  <2>4. UNCHANGED <<pc[LAUNCHER], op[LAUNCHER], done[LAUNCHER]>>
    BY <1>6, <1>a, <2>3 DEF ExitEnd, Begin
  <2> QED BY <1>a, <1>b, <2>1, <2>2, <2>3, <2>4
<1>7. CASE FxStarted
  <2>1. UNCHANGED <<queue, cur, nested>>
    BY <1>7 DEF FxStarted, vars, fxVars
  <2> QED BY <1>7, <1>a, <1>b, <2>1 DEF FxStarted, fxVars, launchVars, exitVars, callVars
<1>8. CASE FxTake
  <2>1. UNCHANGED <<nested, phase, done, pc, op, toolkitExit, listener, terminated>>
    BY <1>8 DEF FxTake, exitVars, callVars
  <2>2. /\ cur = Nothing /\ cur' = Head(queue) /\ cur # Own
        /\ startCalled' = (startCalled \/ (Head(queue) = Own /\ phase = "start"))
        /\ stopCalled' = (stopCalled \/ (Head(queue) = Own /\ phase = "stop"))
    BY <1>8 DEF FxTake, Own, Nothing, Item
  <2>3. /\ \A i : Queued(i) <=> Queued(i)' \/ i = Head(queue)
        /\ QueuedOnce' /\ (Head(queue) = Own => ~Queued(Own)')
    BY <1>8, Taken DEF FxTake, OwnOnce
  <2>4. /\ Begun(Own)' <=> Begun(Own) \/ Head(queue) = Own
        /\ BegunOnce'
    BY <2>1, <2>2, <2>3 DEF Begun, BegunOnce, OwnOnce
  <2>5. OwnOnce'
    BY <2>3, <2>4 DEF OwnOnce
  <2> QED BY <1>a, <2>1, <2>2, <2>3, <2>4, <2>5
<1>9. CASE FxTakeExit
  <2>1. UNCHANGED <<cur, nested, phase, pc, op, toolkitExit, listener, startCalled, stopCalled>>
    BY <1>9 DEF FxTakeExit, exitVars, launchVars
  <2>2. /\ \A i : Queued(i) <=> Queued(i)' \/ i = Head(queue)
        /\ QueuedOnce'
    BY <1>9, Taken DEF FxTakeExit, OwnOnce
  <2>3. /\ Begun(Own)' <=> Begun(Own)
        /\ BegunOnce'
    BY <2>1, Unmoved DEF OwnOnce
  <2>4. OwnOnce'
    BY <2>2, <2>3 DEF OwnOnce
  <2>5. PICK u \in Threads : Head(queue) = Item("exit", u)
    <3>1. Head(queue) \in Runnables /\ Head(queue).kind = "exit"
      BY <1>9, <1>a, TailFacts DEF FxTakeExit
    <3>2. Head(queue) = Item("exit", Head(queue).by) /\ Head(queue).by \in Threads
      BY <3>1, ItemFacts DEF Runnables
    <3> QED BY <3>2
  <2>6. done' = [done EXCEPT ![u] = TRUE]
    <3>1. Item("exit", u).by = u
      BY DEF Item
    <3> QED BY <1>9, <2>5, <3>1 DEF FxTakeExit
  <2> QED BY <1>a, <2>1, <2>2, <2>3, <2>4, <2>5, <2>6
<1>10. CASE FxNotify
  <2>1. UNCHANGED <<queue, cur, nested, pc, op, done, phase, startCalled, stopCalled, listener>>
    BY <1>10 DEF FxNotify, FxTest, FxAsk, FxTell, FxTkExit, callVars, launchVars
  <2>2. /\ toolkitExit => toolkitExit'
        /\ toolkitExit' => toolkitExit \/ phase \notin Listening
        /\ terminated' => terminated \/ toolkitExit'
    BY <1>10 DEF FxNotify, FxTest, FxAsk, FxTell, FxTkExit, exitVars, Committed, Ending
  <2> QED BY <1>a, <1>b, <2>1, <2>2
<1>11. CASE FxFinish
  <2>1. /\ UNCHANGED <<nested, phase, pc, op, toolkitExit, listener, startCalled, stopCalled,
                        terminated>>
        /\ cur' = Nothing
    BY <1>11 DEF FxFinish, exitVars, launchVars
  <2>2. /\ QueuedOnce' /\ (Queued(Own)' <=> Queued(Own))
        /\ \A t \in Threads : Queued(Item("exit", t))' <=> Queued(Item("exit", t))
    <3>1. CheckIdle(windows, pending - 1, queue, nested) \/ queue' = queue
      BY <1>11 DEF FxFinish
    <3>2. pending - 1 \in Int
      BY DEF TypeOK
    <3> QED BY <3>1, <3>2, IdleCheckPosts, Unmoved DEF OwnOnce
  <2>3. /\ BegunOnce'
        /\ cur = Own => ~Begun(Own)'
        /\ cur # Own => (Begun(Own)' <=> Begun(Own))
    BY <2>1, Ended DEF OwnOnce
  <2>4. cur = Own => Begun(Own)
    BY DEF Begun
  <2>5. OwnOnce'
    BY <2>2, <2>3, <2>4 DEF OwnOnce
  <2>6. done'[LAUNCHER] <=> done[LAUNCHER] \/ cur = Own
    <3>1. cur = Own <=> cur.kind = "wait" /\ cur.by = LAUNCHER
      BY <1>a DEF Own, Item, Items
    <3>2. cur.by \in Threads
      BY <1>a DEF Items
    <3>3. cur = Own => cur # Native
      BY DEF Own, Native, Item
    <3> QED BY <1>11, <1>a, <3>1, <3>2, <3>3 DEF FxFinish
  <2>7. CASE cur = Own
    BY <1>a, <2>1, <2>2, <2>3, <2>4, <2>5, <2>6, <2>7 DEF OwnOnce
  <2>8. CASE cur # Own
    BY <1>a, <2>1, <2>2, <2>3, <2>5, <2>6, <2>8
  <2> QED BY <2>7, <2>8
<1>12. CASE FxEvent
  <2>1. /\ UNCHANGED <<queue, nested, phase, pc, op, done, toolkitExit, listener, startCalled,
                        stopCalled, terminated>>
        /\ cur = Nothing /\ cur' = Native
    BY <1>12 DEF FxEvent, exitVars, launchVars, callVars
  <2>2. Own # Nothing /\ Own # Native
    BY DEF Own, Nothing, Native, Item
  <2>3. BegunOnce' /\ (Begun(Own)' <=> Begun(Own))
    BY <2>1, <2>2 DEF Begun, BegunOnce, OwnOnce
  <2>4. QueuedOnce' /\ \A i : Queued(i)' = Queued(i)
    BY <2>1, Unmoved DEF OwnOnce
  <2> QED BY <2>1, <2>3, <2>4 DEF OwnOnce
<1>13. CASE FxEnterNested
  <2>1. UNCHANGED <<queue, phase, pc, op, done, toolkitExit, listener, startCalled, stopCalled,
                    terminated>>
    BY <1>13 DEF FxEnterNested, exitVars, launchVars, callVars
  <2>2. BegunOnce' /\ (Begun(Own)' <=> Begun(Own))
    BY <1>13, Entered DEF FxEnterNested, OwnOnce
  <2>3. QueuedOnce' /\ \A i : Queued(i)' = Queued(i)
    BY <2>1, Unmoved DEF OwnOnce
  <2> QED BY <2>1, <2>2, <2>3 DEF OwnOnce
<1>14. CASE FxExit
  <2>1. UNCHANGED <<queue, cur, nested>>
    BY <1>14 DEF FxExit
  <2> QED BY <1>14, <1>a, <1>b, <2>1 DEF FxExit, launchVars, callVars
<1>15. CASE FxThrows
  <2>1. UNCHANGED <<queue, cur, nested>>
    BY <1>15 DEF FxThrows, vars, fxVars
  <2> QED BY <1>15, <1>a, <1>b, <2>1 DEF FxThrows, fxVars, launchVars, exitVars, callVars
<1>16. ASSUME NEW w \in 0..MaxWindows, FxWindows(w) PROVE Launching'
  <2>1. UNCHANGED <<cur, nested, phase, pc, op, done, toolkitExit, listener, startCalled,
                    stopCalled, terminated>>
    BY <1>16 DEF FxWindows, exitVars, launchVars, callVars
  <2>2. BegunOnce' /\ (Begun(Own)' <=> Begun(Own))
    BY <2>1, Unmoved DEF OwnOnce
  <2>3. /\ QueuedOnce' /\ (Queued(Own)' <=> Queued(Own))
        /\ \A t \in Threads : Queued(Item("exit", t))' <=> Queued(Item("exit", t))
    <3>1. pending \in Int
      BY DEF TypeOK
    <3> QED BY <1>16, <3>1, IdleCheckPosts DEF FxWindows, OwnOnce
  <2> QED BY <1>a, <2>1, <2>2, <2>3 DEF OwnOnce
<1>17. ASSUME NEW b \in BOOLEAN, FxSetImplicitExit(b) PROVE Launching'
  <2>1. UNCHANGED <<cur, nested, phase, pc, op, done, toolkitExit, listener, startCalled,
                    stopCalled, terminated>>
    BY <1>17 DEF FxSetImplicitExit, exitVars, launchVars, callVars
  <2>2. BegunOnce' /\ (Begun(Own)' <=> Begun(Own))
    BY <2>1, Unmoved DEF OwnOnce
  <2>3. /\ QueuedOnce' /\ (Queued(Own)' <=> Queued(Own))
        /\ \A t \in Threads : Queued(Item("exit", t))' <=> Queued(Item("exit", t))
    <3>1. pending \in Int
      BY DEF TypeOK
    <3> QED BY <1>17, <3>1, IdleCheckPosts DEF FxSetImplicitExit, OwnOnce
  <2> QED BY <1>a, <2>1, <2>2, <2>3 DEF OwnOnce
<1>18. CASE FxLeaveNested
  <2>1. UNCHANGED <<phase, pc, op, done, toolkitExit, listener, startCalled, stopCalled,
                    terminated>>
    BY <1>18 DEF FxLeaveNested, exitVars, launchVars, callVars
  <2>2. BegunOnce' /\ (Begun(Own)' <=> Begun(Own))
    BY <1>18, Left DEF FxLeaveNested, OwnOnce
  <2>3. /\ QueuedOnce' /\ (Queued(Own)' <=> Queued(Own))
        /\ \A t \in Threads : Queued(Item("exit", t))' <=> Queued(Item("exit", t))
    <3>1. pending \in Int
      BY DEF TypeOK
    <3>2. CheckIdle(windows, pending, queue, nested') \/ queue' = queue
      BY <1>18 DEF FxLeaveNested, ExitChecks
    <3> QED BY <3>1, <3>2, IdleCheckPosts, Unmoved DEF OwnOnce
  <2> QED BY <1>a, <2>1, <2>2, <2>3 DEF OwnOnce
<1>19. CASE LaunchStartup
  <2>1. UNCHANGED <<queue, cur, nested>>
    BY <1>19 DEF LaunchStartup, vars, fxVars
  <2> QED BY <1>19, <1>a, <1>b, <2>1 DEF LaunchStartup, fxVars, launchVars, exitVars, callVars
<1>20. CASE LaunchRegister
  <2>1. UNCHANGED <<queue, cur, nested>>
    BY <1>20 DEF LaunchRegister, vars, fxVars
  <2> QED BY <1>20, <1>a, <1>b, <2>1 DEF LaunchRegister, fxVars, launchVars, exitVars, callVars
<1>21. CASE LaunchAdd
  <2>1. UNCHANGED <<queue, cur, nested>>
    BY <1>21 DEF LaunchAdd, vars, fxVars
  <2> QED BY <1>21, <1>a, <1>b, <2>1 DEF LaunchAdd, fxVars, launchVars, exitVars, callVars
<1>22. CASE LaunchRun
  <2>1. UNCHANGED <<queue, cur, nested>>
    BY <1>22 DEF LaunchRun, vars, fxVars
  <2> QED BY <1>22, <1>a, <1>b, <2>1 DEF LaunchRun, Call, Begin, fxVars, launchVars, exitVars, callVars
<1>23. CASE LaunchAwaited
  <2>1. UNCHANGED <<queue, cur, nested>>
    BY <1>23 DEF LaunchAwaited, vars, fxVars
  <2> QED BY <1>23, <1>a, <1>b, <2>1 DEF LaunchAwaited, fxVars, launchVars, exitVars, callVars
<1>24. CASE LaunchShutdown
  <2>1. UNCHANGED <<queue, cur, nested>>
    BY <1>24 DEF LaunchShutdown, vars, fxVars
  <2> QED BY <1>24, <1>a, <1>b, <2>1
             DEF LaunchShutdown, Stops, fxVars, launchVars, exitVars, callVars
<1>25. CASE LaunchRemove
  <2>1. UNCHANGED <<queue, cur, nested>>
    BY <1>25 DEF LaunchRemove, vars, fxVars
  <2> QED BY <1>25, <1>a, <1>b, <2>1 DEF LaunchRemove, fxVars, launchVars, exitVars, callVars
<1>26. CASE LaunchUnset
  <2>1. UNCHANGED <<queue, cur, nested>>
    BY <1>26 DEF LaunchUnset, vars, fxVars
  <2> QED BY <1>26, <1>a, <1>b, <2>1
             DEF LaunchUnset, Call, Begin, fxVars, launchVars, exitVars, callVars
<1>27. CASE LaunchExit
  <2>1. UNCHANGED <<queue, cur, nested>>
    BY <1>27 DEF LaunchExit, vars, fxVars
  <2> QED BY <1>27, <1>a, <1>b, <2>1
             DEF LaunchExit, Begin, fxVars, launchVars, exitVars, callVars
<1>28. CASE UNCHANGED vars
  <2>1. UNCHANGED <<queue, cur, nested>>
    BY <1>28 DEF vars, fxVars
  <2> QED BY <1>28, <1>a, <1>b, <2>1 DEF vars, fxVars, launchVars, exitVars, callVars
<1> QED
  BY <1>1, <1>2, <1>3, <1>4, <1>5, <1>6, <1>7, <1>8, <1>9, <1>10, <1>11, <1>12, <1>13,
     <1>14, <1>15, <1>16, <1>17, <1>18, <1>19, <1>20, <1>21, <1>22, <1>23, <1>24,
     <1>25, <1>26, <1>27, <1>28
     DEF Next, FxLoop, FxApp, Exiting, Launch

(* Whoever goes on to tkExit() has found no listener, and none comes but   *)
(* by an overtaking registration.                                          *)
LEMMA CommittedStep ==
    TypeOK /\ Launching /\ Committed /\ [Next]_vars => Committed' \/ overtaken'
<1> SUFFICES ASSUME TypeOK, Launching, Committed, [Next]_vars, ~overtaken' PROVE Committed'
  OBVIOUS
<1>a. /\ pc \in [Threads -> Progress]
      /\ LAUNCHER \in Threads /\ LAUNCHER \notin Clients /\ Clients \subseteq Threads
      /\ listener <=> phase \in Listening
  BY ItemFacts, ThreadsAssumption DEF TypeOK, Threads, Launching, StartAndStop
<1>b. ASSUME fx' = fx, phase' = phase \/ phase' \notin Listening \/ phase \in Listening,
             NEW t \in Threads, NEW x \in Progress, x # "ending",
             pc' = pc \/ pc' = [pc EXCEPT ![t] = x]
      PROVE  Committed'
  BY <1>a, <1>b DEF Committed, Ending
<1>1. ASSUME NEW t \in Threads, Post(t) \/ CheckExited(t) \/ Awaited(t) PROVE Committed'
  <2>1. fx' = fx /\ (phase' = phase \/ phase' \notin Listening \/ phase \in Listening)
    <3>1. CASE CheckExited(t)
      <4>1. fx' = fx /\ (phase' = phase \/ t = LAUNCHER)
        BY <3>1 DEF CheckExited, Returned, fxVars
      <4>2. t = LAUNCHER => phase \in Listening
        BY <3>1 DEF CheckExited, Launching, CallsInPhase, Calling, Listening
      <4> QED BY <4>1, <4>2
    <3> QED BY <1>1, <3>1 DEF Post, Awaited, fxVars, launchVars
  <2>2. \E x \in Progress : x # "ending" /\ pc' = [pc EXCEPT ![t] = x]
    BY <1>1 DEF Post, Then, CheckExited, Awaited, Progress
  <2> QED BY <1>b, <2>1, <2>2
<1>2. ASSUME NEW t \in Clients, ClientCall(t) \/ Exit(t) \/ ExitTell(t) \/ ExitEnd(t)
      PROVE  Committed'
  <2>1. fx' = fx /\ phase' = phase
    BY <1>2 DEF ClientCall, Exit, ExitTell, ExitEnd, fxVars, launchVars
  <2>2. \E x \in Progress : x # "ending" /\ pc' = [pc EXCEPT ![t] = x]
    BY <1>2 DEF ClientCall, Call, Begin, Exit, ExitTell, ExitEnd, Progress
  <2> QED BY <1>a, <1>b, <2>1, <2>2
<1>3. ASSUME NEW t \in Clients, ExitTest(t) PROVE Committed'
  BY <1>3, <1>a DEF ExitTest, fxVars, launchVars, Committed, Ending
<1>4. CASE FxNotify \/ FxExit
  BY <1>4, <1>a DEF FxNotify, FxTest, FxAsk, FxTell, FxTkExit, FxExit, Committed, Ending, callVars,
                    launchVars
<1>5. CASE FxLoop \/ FxFinish \/ FxLeaveNested \/ (FxApp /\ ~FxExit)
  <2>1. UNCHANGED <<fx, pc, phase>>
    BY <1>5 DEF FxLoop, FxStarted, FxTake, FxTakeExit, FxFinish, FxLeaveNested, FxApp, FxEvent,
                FxEnterNested, FxThrows, FxWindows, FxSetImplicitExit, fxVars, callVars, launchVars
  <2> QED BY <2>1 DEF Committed, Ending
<1>6. CASE LaunchRegister
  BY <1>6 DEF LaunchRegister, Committed, Listening, Ending, fxVars, callVars
<1>7. CASE Launch /\ ~LaunchRegister
  <2>1. fx' = fx
    BY <1>7 DEF Launch, LaunchStartup, LaunchAdd, LaunchRun, LaunchAwaited, LaunchShutdown,
                LaunchRemove, LaunchUnset, LaunchExit, fxVars
  <2>2. phase' = phase \/ phase' \notin Listening \/ phase \in Listening
    <3>1. CASE LaunchAwaited
      BY <3>1 DEF LaunchAwaited, Launching, CallsInPhase, Calling, Listening
    <3> QED BY <1>7, <3>1
            DEF Launch, LaunchStartup, LaunchAdd, LaunchRun, LaunchShutdown, LaunchRemove,
                LaunchUnset, LaunchExit, Listening
  <2>3. pc' = pc \/ \E x \in Progress : x # "ending" /\ pc' = [pc EXCEPT ![LAUNCHER] = x]
    BY <1>7 DEF Launch, LaunchStartup, LaunchAdd, LaunchRun, LaunchAwaited, LaunchShutdown,
                LaunchRemove, LaunchUnset, LaunchExit, Call, Begin, Progress, callVars
  <2>4. "idle" \in Progress /\ "idle" # "ending"
    BY DEF Progress
  <2> QED BY <1>a, <1>b, <2>1, <2>2, <2>3, <2>4
<1>8. CASE UNCHANGED vars
  BY <1>8 DEF vars, fxVars, callVars, launchVars, Committed, Ending
<1> QED
  BY <1>1, <1>2, <1>3, <1>4, <1>5, <1>6, <1>7, <1>8 DEF Next, Exiting

(* A registration that has overtaken a notification stays so. *)
LEMMA OvertakenStep == overtaken /\ [Next]_vars => overtaken'
BY DEF Next, vars, exitVars, fxVars, launchVars, Post, CheckExited, Awaited, ClientCall, Exit, Exiting,
       ExitTest, ExitTell, ExitEnd, FxLoop, FxStarted, FxTake, FxTakeExit, FxNotify, FxTest,
       FxAsk, FxTell, FxTkExit, FxFinish, FxApp, FxEvent, FxEnterNested, FxExit, FxThrows,
       FxWindows, FxSetImplicitExit, FxLeaveNested, Launch, LaunchStartup, LaunchRegister,
       LaunchAdd, LaunchRun, LaunchAwaited, LaunchShutdown, LaunchRemove, LaunchUnset, LaunchExit

-----------------------------------------------------------------------------
(* The theorems.                                                           *)

(* pendingRunnables is exact at all times, for any number of threads that  *)
(* post while the FX thread takes, suspends, resumes and ends runnables    *)
(* and while a shutdown refuses them (runLater, runAndWait, checkIdle).    *)
THEOREM PendingCount == Spec => []PendingAgrees
<1>1. Init => TypeOK /\ PendingAgrees
  BY TypeInit, PendingInit
<1>2. TypeOK /\ PendingAgrees /\ [Next]_vars => (TypeOK /\ PendingAgrees)'
  BY TypeStep, PendingStep
<1> QED BY <1>1, <1>2, PTL DEF Spec

(* The idle notification of checkIdle() finds no window, no nested loop    *)
(* and no runnable, for any number of each.                                *)
THEOREM IdleNotification == Spec => []IdleIsIdle
<1>1. Init => IdleIsIdle
  BY DEF Init, IdleIsIdle
<1>2. TypeOK /\ PendingAgrees /\ IdleIsIdle /\ [Next]_vars => IdleIsIdle'
  BY IdleStep
<1>3. Init => TypeOK
  BY TypeInit
<1>4. TypeOK /\ [Next]_vars => TypeOK'
  BY TypeStep
<1> QED BY <1>1, <1>2, <1>3, <1>4, PendingCount, PTL DEF Spec

(* Whoever ends the toolkit, and whatever races with it, an application    *)
(* whose start() was called has had its stop() called by then, unless the  *)
(* registration of the launcher's listener overtook a notification that    *)
(* goes on to tkExit() (LauncherImpl.launchApplication1, PlatformImpl.exit,*)
(* notifyFinishListeners, tkExit).                                         *)
THEOREM StopPrecedesExit == Spec => []StopBeforeExit
<1> DEFINE IInv == TypeOK /\ (overtaken \/ (Launching /\ Committed))
<1>1. Init => IInv
  BY TypeInit, LaunchingInit
<1>2. IInv /\ [Next]_vars => IInv'
  BY TypeStep, LaunchingStep, CommittedStep, OvertakenStep
<1>3. IInv => StopBeforeExit
  BY DEF Launching, ExitItems, StartAndStop, StopBeforeExit
<1> QED BY <1>1, <1>2, <1>3, PTL DEF Spec
=============================================================================
