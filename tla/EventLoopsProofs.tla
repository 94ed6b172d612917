-------------------------- MODULE EventLoopsProofs --------------------------
(***************************************************************************)
(* Theorems about the EventLoops module, for any number of loops and of    *)
(* runnables.                                                              *)
(*                                                                         *)
(* The loop objects agree with the native stack (LoopsOnStack), which is   *)
(* inductive together with what is known of the main loop and of the loops *)
(* that are told to quit; and the dispatcher, the native queue and the     *)
(* event thread together are a FIFO executor (StartsInOrder): whatever the *)
(* dispatcher does with a runnable, it stays behind the ones that were     *)
(* posted earlier.                                                         *)
(***************************************************************************)
EXTENDS EventLoops, SequenceTheorems, TLAPS

TypeOK ==
    /\ deque \in Seq(Runnables) /\ native \in Seq(Runnables)
    /\ pc \in {"take", "check", "waitLeft", "submit", "wait"}
    /\ pc \in {"check", "submit"} => held \in Runnables
    /\ levels \in Seq(Levels) /\ Len(levels) >= 1
    /\ state \in [Loops -> {"IDLE", "ACTIVE", "LEAVING"}]

(* The main loop is the outermost one and is never told to quit. *)
MainLoop ==
    /\ levels[1].loop = MAIN
    /\ \A i \in 1..Len(levels) : levels[i].quit # NONE => levels[i].loop # MAIN

(* While no handler of a loop that was leaving has entered another, only   *)
(* the innermost loop has been told to quit.                               *)
OnlyTopQuits ==
    ~nested => \A i \in 1..(Len(levels) - 1) : levels[i].quit = NONE

Inv == TypeOK /\ MainLoop /\ OnlyTopQuits /\ LoopsOnStack

-----------------------------------------------------------------------------
(* Sequences.                                                              *)

(* The innermost level is the last one. *)
LEMMA TopFacts ==
    ASSUME NEW S, NEW n \in Seq(S), Len(n) >= 1
    PROVE  /\ Last(n) = n[Len(n)] /\ Last(n) \in S
           /\ Len(n) \in Nat /\ Len(n) \in 1..Len(n)
           /\ \A i \in 1..Len(n) : n[i] \in S
BY DEF Last

(* Leaving the innermost level leaves the others. *)
LEMMA FrontFacts ==
    ASSUME NEW S, NEW n \in Seq(S), Len(n) >= 1
    PROVE  /\ Front(n) \in Seq(S)
           /\ Len(Front(n)) = Len(n) - 1
           /\ \A i \in 1..(Len(n) - 1) : Front(n)[i] = n[i]
<1>1. Len(n) \in Nat /\ Len(n) >= 1 /\ \A i \in 1..Len(n) : n[i] \in S
  OBVIOUS
<1>2. \A i \in 1..(Len(n) - 1) : n[i] \in S
  BY <1>1
<1>3. 1 \in Int /\ Len(n) - 1 \in Int
  BY <1>1
<1>4. /\ SubSeq(n, 1, Len(n) - 1) \in Seq(S)
      /\ Len(SubSeq(n, 1, Len(n) - 1)) = IF 1 <= Len(n) - 1 THEN (Len(n) - 1) - 1 + 1 ELSE 0
      /\ \A i \in 1..((Len(n) - 1) - 1 + 1) : SubSeq(n, 1, Len(n) - 1)[i] = n[1 + i - 1]
  BY <1>2, <1>3, SubSeqProperties
<1>5. /\ (Len(n) - 1) - 1 + 1 = Len(n) - 1
      /\ \A i \in 1..(Len(n) - 1) : 1 + i - 1 = i
  BY <1>1
<1>6. Len(SubSeq(n, 1, Len(n) - 1)) = Len(n) - 1
  BY <1>1, <1>4, <1>5
<1>7. \A i \in 1..(Len(n) - 1) : SubSeq(n, 1, Len(n) - 1)[i] = n[i]
  BY <1>4, <1>5
<1> QED BY <1>4, <1>6, <1>7 DEF Front

(* Only the innermost level changes. *)
LEMMA ReplaceFacts ==
    ASSUME levels \in Seq(Levels), Len(levels) >= 1, NEW t \in Levels
    PROVE  /\ ReplaceTop(t) \in Seq(Levels) /\ Len(ReplaceTop(t)) = Len(levels)
           /\ Last(ReplaceTop(t)) = t
           /\ \A i \in 1..Len(levels) :
                 ReplaceTop(t)[i] = IF i = Len(levels) THEN t ELSE levels[i]
BY DEF ReplaceTop, Last

(* A loop that is entered becomes the innermost one. *)
LEMMA AppendFacts ==
    ASSUME NEW S, NEW n \in Seq(S), NEW x \in S
    PROVE  /\ Append(n, x) \in Seq(S) /\ Len(Append(n, x)) = Len(n) + 1 /\ Len(n) \in Nat
           /\ Append(n, x)[Len(n) + 1] = x /\ Last(Append(n, x)) = x
           /\ \A i \in 1..Len(n) : Append(n, x)[i] = n[i]
BY DEF Last

(* What a level is made of. *)
LEMMA LevelFacts ==
    /\ \A l \in Loops \cup {MAIN} : Level(l) \in Levels /\ Level(l).loop = l /\ Level(l).quit = NONE
    /\ \A t \in Levels, h \in Runnables \cup {EVENT, NONE} :
          LET e == [t EXCEPT !.handler = h]
          IN  e \in Levels /\ e.loop = t.loop /\ e.quit = t.quit
    /\ \A t \in Levels, q \in Runnables \cup {EVENT, NONE} :
          LET e == [t EXCEPT !.quit = q]
          IN  e \in Levels /\ e.loop = t.loop /\ e.quit = q
BY DEF Level, Levels

-----------------------------------------------------------------------------
(* Types.                                                                  *)

(* The innermost level. *)
LEMMA TopType ==
    ASSUME TypeOK
    PROVE  /\ Top \in Levels /\ Top = levels[Len(levels)]
           /\ Len(levels) \in Nat /\ Len(levels) >= 1 /\ Len(levels) \in 1..Len(levels)
           /\ Top.loop \in Loops \cup {MAIN}
           /\ Top.handler \in Runnables \cup {EVENT, NONE}
           /\ Top.quit \in Runnables \cup {EVENT, NONE}
<1>1. /\ Top \in Levels /\ Top = levels[Len(levels)]
      /\ Len(levels) \in Nat /\ Len(levels) >= 1 /\ Len(levels) \in 1..Len(levels)
  BY TopFacts DEF TypeOK, Top
<1> QED BY <1>1 DEF Levels

(* The head of a queue is one of its runnables. *)
LEMMA QueueFacts ==
    ASSUME NEW q \in Seq(Runnables)
    PROVE  /\ q # <<>> => Head(q) \in Runnables /\ Tail(q) \in Seq(Runnables)
           /\ \A r \in Runnables : Append(q, r) \in Seq(Runnables)
OBVIOUS

(* Before the dispatcher starts, there is the main loop. *)
LEMMA TypeInit == Init => TypeOK
<1> SUFFICES ASSUME Init PROVE TypeOK
  OBVIOUS
<1>1. levels = <<Level(MAIN)>> /\ Level(MAIN) \in Levels
  BY LevelFacts DEF Init
<1>2. levels \in Seq(Levels) /\ Len(levels) = 1
  BY <1>1
<1> QED BY <1>2 DEF Init, TypeOK

(* Every step keeps the types. *)
LEMMA TypeStep == TypeOK /\ MainLoop /\ [Next]_vars => TypeOK'
<1> SUFFICES ASSUME TypeOK, MainLoop, [Next]_vars PROVE TypeOK'
  OBVIOUS
<1>a. /\ deque \in Seq(Runnables) /\ native \in Seq(Runnables)
      /\ pc \in {"check", "submit"} => held \in Runnables
      /\ levels \in Seq(Levels) /\ Len(levels) >= 1
      /\ state \in [Loops -> {"IDLE", "ACTIVE", "LEAVING"}]
  BY DEF TypeOK
<1>b. \A t \in Levels : ReplaceTop(t) \in Seq(Levels) /\ Len(ReplaceTop(t)) >= 1
  <2> TAKE t \in Levels
  <2>1. ReplaceTop(t) \in Seq(Levels) /\ Len(ReplaceTop(t)) = Len(levels)
    BY <1>a, ReplaceFacts
  <2> QED BY <1>a, <2>1
<1>c. \A r \in Later : r \in Runnables
  BY DEF Runnables
<1>1. ASSUME NEW r \in Apps, InvokeLater(r) PROVE TypeOK'
  BY <1>1, QueueFacts DEF InvokeLater, TypeOK, Runnables, Later
<1>2. ASSUME NEW w \in Waits, InvokeAndWait(w) PROVE TypeOK'
  BY <1>2, QueueFacts DEF InvokeAndWait, TypeOK, Runnables
<1>3. CASE Take
  BY <1>3, QueueFacts DEF Take, TypeOK
<1>4. CASE Check
  <2>1. leaving => deque' \in Seq(Runnables)
    <3>1. <<held>> \in Seq(Runnables)
      BY <1>4, <1>a DEF Check
    <3>2. <<held>> \o deque \in Seq(Runnables)
      BY <1>a, <3>1, ConcatProperties
    <3> QED BY <1>4, <3>2 DEF Check, PutBack
  <2> QED BY <1>4, <2>1 DEF Check, TypeOK
<1>5. CASE WaitLeft \/ Wait
  BY <1>5 DEF WaitLeft, Wait, TypeOK
<1>6. CASE Submit
  BY <1>6, QueueFacts DEF Submit, TypeOK
<1>7. CASE Event \/ HandlerReturns
  <2>1. \E h \in Runnables \cup {EVENT, NONE} : levels' = ReplaceTop([Top EXCEPT !.handler = h])
    BY <1>7 DEF Event, HandlerReturns
  <2>2. levels' \in Seq(Levels) /\ Len(levels') >= 1
    BY <1>b, <2>1, TopType, LevelFacts
  <2> QED BY <1>7, <2>2 DEF Event, HandlerReturns, TypeOK
<1>8. CASE StartRunnable
  <2>1. Head(native) \in Runnables /\ Tail(native) \in Seq(Runnables)
    BY <1>8, <1>a, QueueFacts DEF StartRunnable
  <2>2. levels' \in Seq(Levels) /\ Len(levels') >= 1
    BY <1>8, <1>b, <2>1, TopType, LevelFacts DEF StartRunnable
  <2> QED BY <1>8, <2>1, <2>2 DEF StartRunnable, TypeOK
<1>9. ASSUME NEW who \in Runnables \cup {EVENT, NONE}, LeaveNative(who)
      PROVE  levels' \in Seq(Levels) /\ Len(levels') >= 1
  BY <1>9, <1>b, TopType, LevelFacts DEF LeaveNative
<1>10. CASE Relay
  <2>1. Head(native) \in Runnables /\ Tail(native) \in Seq(Runnables)
    BY <1>10, <1>a, QueueFacts DEF Relay
  <2>2. levels' \in Seq(Levels) /\ Len(levels') >= 1
    BY <1>10, <1>9, <1>a, <2>1 DEF Relay
  <2> QED BY <1>10, <2>1, <2>2 DEF Relay, TypeOK
<1>11. ASSUME NEW l \in Loops, Enter(l) PROVE TypeOK'
  <2>1. levels' = Append(levels, Level(l)) /\ Level(l) \in Levels
    BY <1>11, LevelFacts DEF Enter
  <2>2. levels' \in Seq(Levels) /\ Len(levels') >= 1
    BY <1>a, <2>1, AppendFacts
  <2> QED BY <1>11, <2>2 DEF Enter, TypeOK
<1>12. ASSUME NEW l \in Loops, Leave(l) PROVE TypeOK'
  <2>1. levels' \in Seq(Levels) /\ Len(levels') >= 1
    BY <1>12, <1>9, <1>a, TopType DEF Leave
  <2> QED BY <1>12, <2>1 DEF Leave, TypeOK
<1>13. CASE Return
  <2>1. Len(levels) # 1
    BY <1>13, TopType DEF Return, MainLoop, TypeOK
  <2>2. levels' \in Seq(Levels) /\ Len(levels') = Len(levels) - 1
    BY <1>13, <1>a, FrontFacts DEF Return
  <2>3. Len(levels') >= 1
    BY <2>1, <2>2, TopType
  <2>4. deque' \in Seq(Runnables)
    <3>1. deque' = deque \/ \E r \in Relays : deque' = Append(deque, r)
      BY <1>13 DEF Return
    <3> QED BY <1>a, <3>1, QueueFacts DEF Runnables, Later
  <2> QED BY <1>13, <2>2, <2>3, <2>4 DEF Return, TypeOK
<1>14. CASE UNCHANGED vars
  BY <1>14 DEF vars, TypeOK
<1> QED
  BY <1>1, <1>2, <1>3, <1>4, <1>5, <1>6, <1>7, <1>8, <1>10, <1>11, <1>12, <1>13, <1>14
  DEF Next, Dispatch, FxStep

-----------------------------------------------------------------------------
(* The stack of loops.                                                     *)

(* Posting runnables and dispatching them does not touch the loops. *)
LoopVars == <<levels, state, passValue, nested>>

(* Every step leaves the loops alone, changes only the handler on top of the *)
(* stack, or is one of those that move them.                              *)
LEMMA LoopSteps ==
    [Next]_vars =>
        \/ UNCHANGED LoopVars
        \/ \E h : levels' = ReplaceTop([Top EXCEPT !.handler = h]) /\ h \in Runnables \cup {EVENT, NONE}
                  /\ UNCHANGED <<state, passValue, nested>>
        \/ StartRunnable \/ Relay \/ Return
        \/ \E l \in Loops : Enter(l) \/ Leave(l)
<1> SUFFICES ASSUME [Next]_vars, ~StartRunnable, ~Relay, ~Return,
                    ~(\E l \in Loops : Enter(l) \/ Leave(l)), ~Event, ~HandlerReturns
             PROVE  UNCHANGED LoopVars
  BY DEF Event, HandlerReturns
<1>1. CASE Dispatch
  BY <1>1 DEF Dispatch, Take, Check, WaitLeft, Submit, Wait, LoopVars
<1>2. CASE UNCHANGED vars
  BY <1>2 DEF vars, LoopVars
<1>3. CASE (\E r \in Apps : InvokeLater(r)) \/ (\E w \in Waits : InvokeAndWait(w))
  BY <1>3 DEF InvokeLater, InvokeAndWait, LoopVars
<1> QED BY <1>1, <1>2, <1>3 DEF Next, FxStep

(* The loop invariants. *)
LoopInv == MainLoop /\ OnlyTopQuits /\ LoopsOnStack

(* They hold where the loops are the same and so are those told to quit. *)
LEMMA SameLoops ==
    ASSUME TypeOK, TypeOK', LoopInv, Len(levels') = Len(levels),
           UNCHANGED <<state, passValue, nested>>,
           \A i \in 1..Len(levels) :
              levels'[i].loop = levels[i].loop /\ levels'[i].quit = levels[i].quit
    PROVE  LoopInv'
<1>1. /\ Len(levels) \in 1..Len(levels) /\ Len(levels) \in Nat /\ 1 \in 1..Len(levels)
      /\ Top = levels[Len(levels)] /\ Top' = levels'[Len(levels)]
  <2>1. Top' = levels'[Len(levels')]
    BY DEF Top, Last
  <2> QED BY <2>1, TopType
<1>2. MainLoop'
  BY <1>1 DEF LoopInv, MainLoop
<1>3. OnlyTopQuits'
  BY <1>1 DEF LoopInv, OnlyTopQuits
<1>4. Top'.loop = Top.loop /\ Top'.quit = Top.quit
  BY <1>1
<1>5. LoopsOnStack'
  <2>1. \A l \in Loops : state'[l] # "IDLE" <=> \E i \in 2..Len(levels') : levels'[i].loop = l
    BY <1>1 DEF LoopInv, LoopsOnStack
  <2>2. \A i, j \in 1..Len(levels') : levels'[i].loop = levels'[j].loop => i = j
    BY <1>1 DEF LoopInv, LoopsOnStack
  <2>3. Top'.quit # NONE /\ ~nested' => passValue' = Top'.loop /\ state'[Top'.loop] = "LEAVING"
    BY <1>4 DEF LoopInv, LoopsOnStack
  <2> QED BY <2>1, <2>2, <2>3 DEF LoopsOnStack
<1> QED BY <1>2, <1>3, <1>5 DEF LoopInv

(* A loop that is entered was not on the stack, and goes on top of it. *)
LEMMA EnterStep ==
    ASSUME TypeOK, LoopInv, NEW l \in Loops, Enter(l)
    PROVE  LoopInv'
<1> DEFINE n == Len(levels)
<1>1. /\ state[l] = "IDLE" /\ state' = [state EXCEPT ![l] = "ACTIVE"]
      /\ levels' = Append(levels, Level(l)) /\ nested' = (nested \/ Top.quit # NONE)
      /\ passValue' = passValue
  BY DEF Enter, MayEnter
<1>2. Level(l) \in Levels /\ Level(l).loop = l /\ Level(l).quit = NONE
  BY LevelFacts
<1>3. /\ n \in Nat /\ n >= 1 /\ Len(levels') = n + 1 /\ levels'[n + 1] = Level(l)
      /\ Top' = Level(l)
      /\ \A i \in 1..n : levels'[i] = levels[i]
      /\ Top = levels[n]
  BY <1>1, <1>2, AppendFacts, TopType DEF TypeOK, Top
<1>4. \A i \in 1..(n + 1) : i \in 1..n \/ i = n + 1
  BY <1>3
<1>5. l # MAIN /\ state \in [Loops -> {"IDLE", "ACTIVE", "LEAVING"}]
  BY DisjointAssumption DEF TypeOK
<1>6. \A i \in 1..n : levels[i].loop # l
  BY <1>1, <1>3, <1>5 DEF LoopInv, MainLoop, LoopsOnStack
<1> HIDE DEF n
<1>7. MainLoop'
  BY <1>2, <1>3, <1>4, <1>5 DEF LoopInv, MainLoop, n
<1>8. OnlyTopQuits'
  <2>1. ASSUME ~nested' PROVE \A i \in 1..n : levels[i].quit = NONE
    <3>1. ~nested /\ levels[n].quit = NONE
      BY <1>1, <1>3, <2>1
    <3>2. \A i \in 1..(n - 1) : levels[i].quit = NONE
      BY <3>1 DEF LoopInv, OnlyTopQuits, n
    <3>3. \A i \in 1..n : i \in 1..(n - 1) \/ i = n
      BY <1>3
    <3> QED BY <3>1, <3>2, <3>3
  <2>2. (n + 1) - 1 = n
    BY <1>3
  <2> QED BY <1>3, <2>1, <2>2 DEF OnlyTopQuits
<1>9. LoopsOnStack'
  <2>1. ASSUME NEW k \in Loops
        PROVE  state'[k] # "IDLE" <=> \E i \in 2..(n + 1) : levels'[i].loop = k
    <3>1. CASE k = l
      <4>1. n + 1 \in 2..(n + 1) /\ levels'[n + 1].loop = l
        BY <1>2, <1>3
      <4> QED BY <1>1, <1>5, <3>1, <4>1
    <3>2. CASE k # l
      <4>1. state'[k] = state[k]
        BY <1>1, <1>5, <3>2
      <4>2. (\E i \in 2..(n + 1) : levels'[i].loop = k) <=> (\E i \in 2..n : levels[i].loop = k)
        <5>1. \A i \in 2..(n + 1) : (i \in 2..n /\ i \in 1..n) \/ i = n + 1
          BY <1>3
        <5>2. \A i \in 2..n : i \in 2..(n + 1) /\ i \in 1..n
          BY <1>3
        <5> QED BY <1>2, <1>3, <3>2, <5>1, <5>2
      <4> QED BY <4>1, <4>2 DEF LoopInv, LoopsOnStack, n
    <3> QED BY <3>1, <3>2
  <2>2. \A i, j \in 1..(n + 1) : levels'[i].loop = levels'[j].loop => i = j
    BY <1>2, <1>3, <1>4, <1>6 DEF LoopInv, LoopsOnStack, n
  <2>3. Top'.quit = NONE
    BY <1>2, <1>3
  <2> QED BY <1>3, <2>1, <2>2, <2>3 DEF LoopsOnStack
<1> QED BY <1>7, <1>8, <1>9 DEF LoopInv

(* A loop that is told to quit is the innermost one, and LEAVING. *)
LEMMA LeaveStep ==
    ASSUME TypeOK, LoopInv, NEW l \in Loops, state[l] # "IDLE",
           state' = [state EXCEPT ![l] = "LEAVING"], nested' = nested,
           \/ Top.loop = l /\ LeaveNative(Top.handler) /\ Top.handler # NONE
           \/ Top.loop = l /\ native # <<>> /\ LeaveNative(Head(native))
           \/ UNCHANGED <<levels, passValue>>
    PROVE  LoopInv'
<1> DEFINE n == Len(levels)
<1>a. /\ n \in Nat /\ n >= 1 /\ n \in 1..n /\ Top = levels[n] /\ Top \in Levels
      /\ state \in [Loops -> {"IDLE", "ACTIVE", "LEAVING"}] /\ l # MAIN
      /\ levels \in Seq(Levels)
  BY TopType, DisjointAssumption DEF TypeOK
<1>b. \A k \in Loops : state'[k] # "IDLE" <=> state[k] # "IDLE"
  BY <1>a
<1> HIDE DEF n
<1>1. CASE UNCHANGED <<levels, passValue>>
  <2>1. Top' = Top
    BY <1>1 DEF Top
  <2>2. state'[l] = "LEAVING" /\ \A k \in Loops : k # l => state'[k] = state[k]
    BY <1>a
  <2>3. Top.quit # NONE => Top.loop \in Loops
    BY <1>a DEF LoopInv, MainLoop, Levels, n
  <2>4. LoopsOnStack'
    BY <1>1, <1>b, <2>1, <2>2, <2>3 DEF LoopInv, LoopsOnStack
  <2> QED BY <1>1, <2>4 DEF LoopInv, MainLoop, OnlyTopQuits
<1>2. ASSUME Top.loop = l, NEW who \in Runnables \cup {EVENT, NONE}, LeaveNative(who)
      PROVE  LoopInv'
  <2> DEFINE t == [Top EXCEPT !.quit = who]
  <2>1. t \in Levels /\ t.loop = l /\ t.quit = who
    BY <1>2, <1>a, LevelFacts
  <2>2. levels' = ReplaceTop(t) /\ passValue' = l
    BY <1>2 DEF LeaveNative
  <2> HIDE DEF t
  <2>3. /\ Len(levels') = n /\ Top' = t
        /\ \A i \in 1..n : levels'[i] = IF i = n THEN t ELSE levels[i]
    BY <1>a, <2>1, <2>2, ReplaceFacts DEF Top, n
  <2>4. \A i \in 1..n : levels'[i].loop = levels[i].loop
    BY <1>2, <1>a, <2>1, <2>3
  <2>5. MainLoop'
    BY <1>a, <2>1, <2>3, <2>4 DEF LoopInv, MainLoop, n
  <2>6. OnlyTopQuits'
    <3>1. \A i \in 1..(n - 1) : i \in 1..n /\ i # n
      BY <1>a
    <3> QED BY <2>3, <3>1 DEF LoopInv, OnlyTopQuits, n
  <2>7. LoopsOnStack'
    <3>1. \A k \in Loops : state'[k] # "IDLE" <=> \E i \in 2..n : levels'[i].loop = k
      BY <1>a, <1>b, <2>4 DEF LoopInv, LoopsOnStack, n
    <3>2. \A i, j \in 1..n : levels'[i].loop = levels'[j].loop => i = j
      BY <2>4 DEF LoopInv, LoopsOnStack, n
    <3>3. passValue' = Top'.loop /\ state'[Top'.loop] = "LEAVING"
      BY <1>a, <2>1, <2>2, <2>3
    <3> QED BY <2>3, <3>1, <3>2, <3>3 DEF LoopsOnStack
  <2> QED BY <2>5, <2>6, <2>7 DEF LoopInv
<1>3. Top.handler \in Runnables \cup {EVENT, NONE}
  BY TopType
<1>4. native # <<>> => Head(native) \in Runnables \cup {EVENT, NONE}
  BY QueueFacts DEF TypeOK
<1> QED BY <1>1, <1>2, <1>3, <1>4

(* A loop whose native loop returns leaves the stack, and is IDLE again. *)
LEMMA ReturnStep ==
    ASSUME TypeOK, LoopInv, Return
    PROVE  LoopInv'
<1> DEFINE n == Len(levels)
           l == Top.loop
<1>a. /\ n \in Nat /\ n >= 1 /\ n \in 1..n /\ Top = levels[n]
      /\ l \in Loops \cup {MAIN}
      /\ state \in [Loops -> {"IDLE", "ACTIVE", "LEAVING"}]
      /\ levels \in Seq(Levels)
  BY TopType DEF TypeOK
<1>b. /\ Top.quit # NONE /\ state' = [state EXCEPT ![l] = "IDLE"] /\ levels' = Front(levels)
      /\ nested' = nested
  BY DEF Return
<1>c. l # MAIN /\ n # 1 /\ l \in Loops
  BY <1>a, <1>b DEF LoopInv, MainLoop
<1>d. /\ Len(levels') = n - 1 /\ \A i \in 1..(n - 1) : levels'[i] = levels[i]
  BY <1>a, <1>b, FrontFacts
<1> HIDE DEF n, l
<1>h. n \in Nat /\ n >= 2
  <2>1. n \in Nat /\ n >= 1
    BY <1>a
  <2>2. n # 1
    BY <1>c
  <2> QED BY ONLY <2>1, <2>2
<1>e. /\ n - 1 \in Nat /\ n - 1 >= 1 /\ 1 \in 1..(n - 1) /\ (n - 1) \in 1..(n - 1)
      /\ \A i \in 1..(n - 1) : i \in 1..n /\ i # n
      /\ \A i \in 1..((n - 1) - 1) : i \in 1..(n - 1)
  BY <1>h
<1>f. /\ \A k \in Loops : state[k] # "IDLE" <=> \E i \in 2..n : levels[i].loop = k
      /\ \A i, j \in 1..n : levels[i].loop = levels[j].loop => i = j
      /\ levels[1].loop = MAIN
      /\ \A i \in 1..n : levels[i].quit # NONE => levels[i].loop # MAIN
      /\ ~nested => \A i \in 1..(n - 1) : levels[i].quit = NONE
  BY DEF LoopInv, LoopsOnStack, MainLoop, OnlyTopQuits, n
<1>g. Top' = levels[n - 1]
  BY <1>d, <1>e DEF Top, Last
<1>1. MainLoop'
  BY <1>d, <1>e, <1>f DEF MainLoop
<1>2. OnlyTopQuits'
  BY <1>b, <1>d, <1>e, <1>f DEF OnlyTopQuits
<1>3. \A i \in 1..(n - 1) : levels[i].loop # l
  BY <1>a, <1>e, <1>f DEF l
<1>4. ASSUME NEW k \in Loops
      PROVE  state'[k] # "IDLE" <=> \E i \in 2..(n - 1) : levels'[i].loop = k
  <2>1. \A i \in 2..(n - 1) : i \in 1..(n - 1) /\ i \in 2..n
    BY <1>a
  <2>2. CASE k = l
    <3>1. state'[k] = "IDLE"
      BY <1>a, <1>b, <2>2
    <3> QED BY <1>3, <1>d, <2>1, <2>2, <3>1
  <2>3. CASE k # l
    <3>1. state'[k] = state[k]
      BY <1>a, <1>b, <2>3
    <3>2. levels[n].loop = l
      BY <1>a DEF l
    <3>3. \A i \in 2..n : i = n \/ i \in 2..(n - 1)
      BY <1>a
    <3> QED BY <1>d, <1>f, <2>1, <2>3, <3>1, <3>2, <3>3
  <2> QED BY <2>2, <2>3
<1>5. \A i, j \in 1..(n - 1) : levels'[i].loop = levels'[j].loop => i = j
  BY <1>d, <1>e, <1>f
<1>6. ~nested' => Top'.quit = NONE
  BY <1>b, <1>e, <1>f, <1>g
<1> QED BY <1>1, <1>2, <1>4, <1>5, <1>6, <1>d DEF LoopInv, LoopsOnStack

(* In whatever order loops are entered and left, LoopInv holds. *)
LEMMA LoopStep == TypeOK /\ LoopInv /\ [Next]_vars => LoopInv'
<1> SUFFICES ASSUME TypeOK, LoopInv, [Next]_vars PROVE LoopInv'
  OBVIOUS
<1>a. TypeOK'
  BY TypeStep DEF LoopInv
<1>b. levels \in Seq(Levels) /\ Len(levels) >= 1 /\ Len(levels) \in 1..Len(levels) /\ Top = levels[Len(levels)]
  BY TopType DEF TypeOK
<1>1. CASE UNCHANGED LoopVars
  BY <1>1, <1>a, SameLoops DEF LoopVars
<1>2. ASSUME NEW h \in Runnables \cup {EVENT, NONE},
             levels' = ReplaceTop([Top EXCEPT !.handler = h]),
             UNCHANGED <<state, passValue, nested>>
      PROVE  LoopInv'
  <2> DEFINE t == [Top EXCEPT !.handler = h]
  <2>1. t \in Levels /\ t.loop = Top.loop /\ t.quit = Top.quit
    BY TopType, LevelFacts
  <2> HIDE DEF t
  <2>2. Len(levels') = Len(levels) /\ \A i \in 1..Len(levels) :
           levels'[i] = IF i = Len(levels) THEN t ELSE levels[i]
    BY <1>2, <1>b, <2>1, ReplaceFacts DEF t
  <2>3. \A i \in 1..Len(levels) : levels'[i].loop = levels[i].loop /\ levels'[i].quit = levels[i].quit
    BY <1>b, <2>1, <2>2
  <2> QED BY <1>2, <1>a, <2>2, <2>3, SameLoops
<1>3. CASE StartRunnable
  <2>1. Head(native) \in Runnables
    BY <1>3, QueueFacts DEF StartRunnable, TypeOK
  <2> QED BY <1>3, <1>2, <2>1 DEF StartRunnable
<1>4. CASE Relay
  <2>1. native # <<>> /\ state' = state /\ nested' = nested
    BY <1>4 DEF Relay
  <2>2. CASE RelayLeaves
    <3>1. Top.loop \in Loops /\ state[Top.loop] = "LEAVING" /\ LeaveNative(Head(native))
      BY <1>4, <2>2, TopType DEF Relay, RelayLeaves
    <3>2. state' = [state EXCEPT ![Top.loop] = "LEAVING"]
      BY <2>1, <3>1 DEF TypeOK
    <3> QED BY <2>1, <3>1, <3>2, LeaveStep
  <2>3. CASE ~RelayLeaves
    BY <1>1, <1>4, <2>1, <2>3 DEF Relay, LoopVars
  <2> QED BY <2>2, <2>3
<1>5. ASSUME NEW l \in Loops, Leave(l) PROVE LoopInv'
  BY <1>5, LeaveStep DEF Leave, QuitsNow
<1> QED
  BY <1>1, <1>2, <1>3, <1>4, <1>5, LoopSteps, EnterStep, ReturnStep

(* EventLoop objects and native loops agree in every state.                *)
LEMMA LoopInvariance == Spec => [](TypeOK /\ LoopInv)
<1>1. Init => TypeOK /\ LoopInv
  <2> SUFFICES ASSUME Init PROVE LoopInv
    BY TypeInit
  <2>1. levels = <<Level(MAIN)>> /\ Level(MAIN).loop = MAIN /\ Level(MAIN).quit = NONE
    BY LevelFacts DEF Init
  <2>2. Len(levels) = 1 /\ levels[1] = Level(MAIN) /\ Top = Level(MAIN)
    BY <2>1 DEF Top, Last
  <2> QED BY <2>1, <2>2 DEF Init, LoopInv, MainLoop, OnlyTopQuits, LoopsOnStack
<1>2. (TypeOK /\ LoopInv) /\ [Next]_vars => (TypeOK /\ LoopInv)'
  BY TypeStep, LoopStep DEF LoopInv
<1> QED BY <1>1, <1>2, PTL DEF Spec

(* An EventLoop is IDLE exactly when no native loop runs for it, no loop   *)
(* runs twice, and the asserts of EventLoop.enter() hold until a handler   *)
(* of a loop that was told to quit enters another.                         *)
THEOREM LoopsMatchStack == Spec => []LoopsOnStack
<1>1. TypeOK /\ LoopInv => LoopsOnStack
  BY DEF LoopInv
<1> QED BY <1>1, LoopInvariance, PTL

-----------------------------------------------------------------------------
(* The dispatcher implements a FIFO executor.                              *)

(* Inserting an element between two sequences.                             *)
LEMMA InsertBetween ==
    ASSUME NEW S, NEW a \in Seq(S), NEW b \in Seq(S), NEW x \in S
    PROVE  InsertAt(a \o b, Len(a) + 1, x) = (a \o <<x>>) \o b
<1> DEFINE m == Len(a)
           n == Len(b)
<1>1. m \in Nat /\ n \in Nat /\ Len(a \o b) = m + n /\ a \o b \in Seq(S)
  BY ConcatProperties, LenProperties
<1>2. SubSeq(a \o b, 1, m) = a
  <2>1. CASE a = <<>>
    BY <1>1, <2>1, SubSeqEmpty
  <2>2. CASE a # <<>>
    <3>1. m \in 1..m /\ 1 \in 1..m
      BY <2>2, EmptySeq
    <3>2. SubSeq(a \o b, 1, m) = SubSeq(a, 1, m)
      BY <3>1, SubSeqOfConcat1
    <3> QED BY <3>2, SubSeqFull
  <2> QED BY <2>1, <2>2
<1>3. SubSeq(a \o b, m + 1, m + n) = b
  <2>1. CASE b = <<>>
    <3>1. m + 1 \in Int /\ m + n \in Int /\ m + n < m + 1
      BY <1>1, <2>1
    <3> QED BY <2>1, <3>1, SubSeqEmpty
  <2>2. CASE b # <<>>
    <3>1. n \in Nat /\ n >= 1
      BY <2>2, EmptySeq
    <3> HIDE DEF m, n
    <3>2. m + 1 \in m + 1..m + n /\ m + n \in m + 1..m + n /\ (m + 1) - m = 1 /\ (m + n) - m = n
      BY <1>1, <3>1
    <3>3. SubSeq(a \o b, m + 1, m + n) = SubSeq(b, (m + 1) - m, (m + n) - m)
      BY <3>2, SubSeqOfConcat2 DEF m, n
    <3>4. SubSeq(b, 1, n) = b
      BY SubSeqFull DEF n
    <3> QED BY <3>2, <3>3, <3>4
  <2> QED BY <2>1, <2>2
<1>4. (m + 1) - 1 = m
  BY <1>1
<1>5. InsertAt(a \o b, m + 1, x) = SubSeq(a \o b, 1, m) \o <<x>> \o SubSeq(a \o b, m + 1, m + n)
  BY <1>1, <1>4 DEF InsertAt
<1> QED BY <1>2, <1>3, <1>5

(* What lies between two calls of the dispatcher is a sequence of runnables. *)
LEMMA FlightType ==
    ASSUME TypeOK
    PROVE  /\ native \in Seq(Runnables) /\ deque \in Seq(Runnables) /\ Taken \in Seq(Runnables)
           /\ Taken \o deque \in Seq(Runnables) /\ native \o Taken \in Seq(Runnables)
           /\ InFlight \in Seq(Runnables)
           /\ InFlight = native \o (Taken \o deque)
<1>1. native \in Seq(Runnables) /\ deque \in Seq(Runnables)
  BY DEF TypeOK
<1>2. Taken \in Seq(Runnables)
  <2>1. CASE pc \in {"check", "submit"}
    <3>1. held \in Runnables
      BY <2>1 DEF TypeOK
    <3> QED BY <2>1, <3>1 DEF Taken
  <2>2. CASE pc \notin {"check", "submit"}
    BY <2>2 DEF Taken
  <2> QED BY <2>1, <2>2
<1>3. Taken \o deque \in Seq(Runnables) /\ native \o Taken \in Seq(Runnables)
  BY <1>1, <1>2, ConcatProperties
<1>4. InFlight \in Seq(Runnables)
  BY <1>1, <1>3, ConcatProperties DEF InFlight
<1>5. InFlight = native \o (Taken \o deque)
  BY <1>1, <1>2, ConcatAssociative DEF InFlight
<1> QED BY <1>1, <1>2, <1>3, <1>4, <1>5

(* invokeLater(), and the relay of a loop that returns, post behind all.   *)
LEMMA PostStep ==
    ASSUME TypeOK, NEW r \in Later, deque' = Append(deque, r), UNCHANGED <<native, pc, held>>
    PROVE  Fifo!Post(r)
<1>1. r \in Runnables
  BY DEF Runnables
<1> DEFINE a == native \o Taken
<1>2. a' = a
  BY DEF Taken
<1>3. InFlight' = a \o Append(deque, r) /\ InFlight = a \o deque
  BY <1>2 DEF InFlight
<1>4. a \in Seq(Runnables) /\ deque \in Seq(Runnables) /\ a \o deque \in Seq(Runnables)
  BY <1>3, FlightType
<1>5. <<r>> \in Seq(Runnables)
  BY <1>1
<1> HIDE DEF a
<1>6. Append(deque, r) = deque \o <<r>> /\ Append(a \o deque, r) = (a \o deque) \o <<r>>
  BY <1>1, <1>4, AppendIsConcat
<1>7. a \o (deque \o <<r>>) = (a \o deque) \o <<r>>
  BY <1>4, <1>5, ConcatAssociative
<1> QED BY <1>3, <1>6, <1>7 DEF Fifo!Post

(* invokeAndWait() goes to the native queue, past what the dispatcher has. *)
LEMMA BypassStep ==
    ASSUME TypeOK, NEW w \in Waits, InvokeAndWait(w)
    PROVE  Fifo!Bypass(w)
<1> DEFINE a == native
           b == Taken \o deque
           i == Len(a) + 1
<1>1. w \in Runnables /\ a \in Seq(Runnables) /\ b \in Seq(Runnables) /\ InFlight = a \o b
  BY FlightType DEF Runnables
<1>2. native' = a \o <<w>> /\ Taken' = Taken /\ deque' = deque
  BY <1>1, AppendIsConcat DEF InvokeAndWait, Taken
<1>3. InFlight' = (a \o <<w>>) \o (Taken \o deque)
  <2>1. <<w>> \in Seq(Runnables)
    BY <1>1
  <2>2. a \o <<w>> \in Seq(Runnables)
    BY <1>1, <2>1, ConcatProperties
  <2>3. InFlight' = ((a \o <<w>>) \o Taken) \o deque
    BY <1>2 DEF InFlight
  <2>4. Taken \in Seq(Runnables) /\ deque \in Seq(Runnables)
    BY FlightType
  <2> HIDE DEF a
  <2> QED BY <2>2, <2>3, <2>4, ConcatAssociative
<1>4. InFlight' = InsertAt(InFlight, i, w)
  BY <1>1, <1>3, InsertBetween
<1>5. i \in 1..(Len(InFlight) + 1)
  <2>1. Len(InFlight) = Len(a) + Len(b) /\ Len(a) \in Nat /\ Len(b) \in Nat
    BY <1>1, ConcatProperties, LenProperties
  <2> QED BY <2>1
<1> QED BY <1>4, <1>5 DEF Fifo!Bypass, InsertAt, Fifo!InsertAt

(* The event thread starts the oldest submitted runnable, or relay.        *)
LEMMA StartStep ==
    ASSUME TypeOK, native # <<>>, native' = Tail(native), UNCHANGED <<deque, pc, held>>
    PROVE  Fifo!Start
<1> DEFINE h == Head(native)
           t == Tail(native)
           b == Taken \o deque
<1>1. native \in Seq(Runnables) /\ b \in Seq(Runnables) /\ InFlight = native \o b
  BY FlightType
<1>2. h \in Runnables /\ t \in Seq(Runnables) /\ native = <<h>> \o t /\ <<h>> \in Seq(Runnables)
  BY <1>1
<1>3. t \o b \in Seq(Runnables)
  BY <1>1, <1>2, ConcatProperties
<1>4. InFlight' = t \o b
  <2>1. InFlight' = (t \o Taken) \o deque
    BY DEF InFlight, Taken
  <2>2. Taken \in Seq(Runnables) /\ deque \in Seq(Runnables)
    BY FlightType
  <2>3. (t \o Taken) \o deque = t \o (Taken \o deque)
    <3> HIDE DEF t
    <3> QED BY <1>2, <2>2, ConcatAssociative
  <2> QED BY <2>1, <2>3
<1>5. InFlight = <<h>> \o (t \o b)
  BY <1>1, <1>2, ConcatAssociative
<1> HIDE DEF h, t, b
<1>6. InFlight # <<>> /\ Tail(InFlight) = t \o b
  BY <1>2, <1>3, <1>5
<1> QED BY <1>4, <1>6 DEF Fifo!Start

(* What the dispatcher takes, puts back or submits keeps its place.        *)
LEMMA DispatchStep ==
    ASSUME TypeOK, Dispatch
    PROVE  InFlight' = InFlight
<1>1. /\ native \in Seq(Runnables) /\ deque \in Seq(Runnables)
      /\ pc \in {"check", "submit"} => held \in Runnables /\ <<held>> \in Seq(Runnables)
      /\ native \o <<>> = native /\ <<>> \o deque = deque
  BY ConcatEmptySeq DEF TypeOK
<1>2. CASE Take
  <2> DEFINE h == Head(deque)
             t == Tail(deque)
  <2>1. /\ h \in Runnables /\ t \in Seq(Runnables) /\ deque = <<h>> \o t
        /\ <<h>> \in Seq(Runnables)
    BY <1>1, <1>2 DEF Take
  <2>2. Taken = <<>> /\ Taken' = <<h>> /\ deque' = t /\ native' = native
    BY <1>2 DEF Take, Taken
  <2> HIDE DEF h, t
  <2>3. InFlight' = (native \o <<h>>) \o t /\ InFlight = native \o (<<h>> \o t)
    BY <1>1, <2>1, <2>2 DEF InFlight
  <2> QED BY <1>1, <2>1, <2>3, ConcatAssociative
<1>3. CASE Check
  <2>1. Taken = <<held>> /\ native' = native /\ held \in Runnables /\ <<held>> \in Seq(Runnables)
    BY <1>1, <1>3 DEF Check, Taken
  <2>2. CASE leaving
    <3>1. Taken' = <<>> /\ deque' = <<held>> \o deque
      BY <1>3, <2>2 DEF Check, PutBack, Taken
    <3>2. InFlight' = native \o (<<held>> \o deque) /\ InFlight = (native \o <<held>>) \o deque
      BY <1>1, <2>1, <3>1 DEF InFlight
    <3> QED BY <1>1, <2>1, <3>2, ConcatAssociative
  <2>3. CASE ~leaving
    BY <1>3, <2>1, <2>3 DEF Check, Taken, InFlight
  <2> QED BY <2>2, <2>3
<1>4. CASE WaitLeft \/ Wait
  <2>1. Taken' = Taken /\ native' = native /\ deque' = deque
    BY <1>4 DEF WaitLeft, Wait, Taken
  <2> QED BY <2>1 DEF InFlight
<1>5. CASE Submit
  <2>1. /\ Taken = <<held>> /\ Taken' = <<>> /\ deque' = deque /\ native' = native \o <<held>>
        /\ native \o <<held>> \in Seq(Runnables)
    BY <1>1, <1>5, AppendIsConcat, ConcatProperties DEF Submit, Taken
  <2>2. (native \o <<held>>) \o <<>> = native \o <<held>>
    BY <2>1, ConcatEmptySeq
  <2> QED BY <2>1, <2>2 DEF InFlight
<1> QED BY <1>2, <1>3, <1>4, <1>5 DEF Dispatch

(* Every step is one of the executor's or leaves what is in flight.        *)
LEMMA FifoStep == TypeOK /\ [Next]_vars => [Fifo!Next]_InFlight
<1> SUFFICES ASSUME TypeOK, [Next]_vars PROVE Fifo!Next \/ InFlight' = InFlight
  OBVIOUS
<1>a. (UNCHANGED <<native, deque, pc, held>>) => InFlight' = InFlight
  BY DEF InFlight, Taken
<1>1. ASSUME NEW r \in Apps, InvokeLater(r) PROVE Fifo!Next
  <2>1. r \in Later /\ Fifo!Post(r)
    BY <1>1, PostStep DEF InvokeLater, Later
  <2> QED BY <2>1 DEF Fifo!Next
<1>2. ASSUME NEW w \in Waits, InvokeAndWait(w) PROVE Fifo!Next
  BY <1>2, BypassStep DEF Fifo!Next
<1>3. CASE StartRunnable \/ Relay
  <2>1. Fifo!Start
    BY <1>3, StartStep DEF StartRunnable, Relay
  <2> QED BY <2>1 DEF Fifo!Next
<1>4. CASE Return
  <2>1. UNCHANGED <<native, pc, held>>
    BY <1>4 DEF Return
  <2>2. CASE deque' = deque
    BY <1>a, <2>1, <2>2
  <2>3. CASE \E r \in Relays : deque' = Append(deque, r)
    <3>1. PICK r \in Relays : deque' = Append(deque, r)
      BY <2>3
    <3>2. r \in Later /\ Fifo!Post(r)
      BY <2>1, <3>1, PostStep DEF Later
    <3> QED BY <3>2 DEF Fifo!Next
  <2> QED BY <1>4, <2>2, <2>3 DEF Return
<1>5. CASE Event \/ HandlerReturns \/ UNCHANGED vars
  BY <1>5, <1>a DEF Event, HandlerReturns, vars
<1>6. ASSUME NEW l \in Loops, Enter(l) \/ Leave(l) PROVE InFlight' = InFlight
  BY <1>6, <1>a DEF Enter, Leave
<1> QED
  BY <1>1, <1>2, <1>3, <1>4, <1>5, <1>6, DispatchStep DEF Next, FxStep

(* StartsInOrder, for any number of threads, loops and runnables: whatever *)
(* the dispatcher takes, puts back and submits while loops are entered and *)
(* left, runnables start in the order in which they were posted, and only  *)
(* invokeAndWait() overtakes.                                              *)
THEOREM DispatcherIsFifo == Spec => StartsInOrder
<1>1. Init => Fifo!Init
  <2> SUFFICES ASSUME Init PROVE InFlight = <<>>
    BY DEF Fifo!Init
  <2>1. native = <<>> /\ Taken = <<>> /\ deque = <<>>
    BY DEF Init, Taken
  <2>2. <<>> \in Seq(Runnables) /\ <<>> \o <<>> = <<>>
    OBVIOUS
  <2> QED BY <2>1, <2>2 DEF InFlight
<1>2. TypeOK /\ [Next]_vars => [Fifo!Next]_InFlight
  BY FifoStep
<1> QED BY <1>1, <1>2, LoopInvariance, PTL DEF Spec, StartsInOrder, Fifo!Spec
=============================================================================
