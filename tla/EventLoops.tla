----------------------------- MODULE EventLoops -----------------------------
(***************************************************************************)
(* The FX event thread of the GTK port: nested event loops (EventLoop,     *)
(* Application, GtkApplication) and the InvokeLaterDispatcher thread that  *)
(* feeds the native queue one runnable at a time.                          *)
(*                                                                         *)
(* The event thread is a stack of native loops, each of which runs at most *)
(* one handler; a handler that enters a nested loop is suspended under it. *)
(* The dispatcher is a thread of its own and shares two flags with it.     *)
(* Any thread may post runnables, and a client thread may bypass the       *)
(* dispatcher with invokeAndWait().                                        *)
(***************************************************************************)
EXTENDS Integers, Sequences, FiniteSets, SequencesExt

CONSTANTS
    Loops,              \* EventLoop objects
    Apps,               \* runnables of the application, passed to invokeLater()
    Waits,              \* runnables passed to invokeAndWait()
    Relays,             \* the runnables EventLoop.enter() posts when it returns
    MAIN, EVENT, NONE   \* the main loop, a native event, nothing

ASSUME DisjointAssumption ==
    /\ Apps \cap (Waits \cup Relays) = {} /\ Waits \cap Relays = {}
    /\ {EVENT, NONE} \cap (Apps \cup Waits \cup Relays) = {} /\ EVENT # NONE
    /\ {MAIN, NONE} \cap Loops = {} /\ MAIN # NONE

Later == Apps \cup Relays           \* everything that goes through the dispatcher
Runnables == Later \cup Waits

VARIABLES
    deque,      \* InvokeLaterDispatcher.deque
    held,       \* the runnable the dispatcher took
    pc,         \* where the dispatcher is in its loop
    entered,    \* nestedEventLoopEntered
    leaving,    \* leavingNestedEventLoop
    native,     \* runnables submitted to the native system, oldest first
    levels,     \* the native loops of the event thread, outermost first
    state,      \* state[l] of each EventLoop
    passValue,  \* GtkApplication.eventLoopExitEnterPassValue
    nested      \* history: a handler of a loop that was leaving entered another

vars == <<deque, held, pc, entered, leaving, native, levels, state, passValue, nested>>

(* One running native loop; `quit' is who called gtk_main_quit() for it.   *)
Level(l) == [loop |-> l, handler |-> NONE, quit |-> NONE]
Levels == [loop : Loops \cup {MAIN}, handler : Runnables \cup {EVENT, NONE},
           quit : Runnables \cup {EVENT, NONE}]

Init ==
    /\ deque = <<>> /\ held = NONE /\ pc = "take"
    /\ entered = FALSE /\ leaving = FALSE
    /\ native = <<>>
    /\ levels = <<Level(MAIN)>>
    /\ state = [l \in Loops |-> "IDLE"]
    /\ passValue = NONE
    /\ nested = FALSE

Top == Last(levels)
ReplaceTop(t) == [levels EXCEPT ![Len(levels)] = t]

(* Submitted and not finished: what Future.isDone() denies. *)
Unfinished == Range(native) \cup {levels[i].handler : i \in 1..Len(levels)}
Free(r) == r \notin Unfinished \cup Range(deque) \cup {held}

-----------------------------------------------------------------------------
(* Any thread. *)

InvokeLater(r) ==
    /\ Free(r)
    /\ deque' = Append(deque, r)
    /\ UNCHANGED <<held, pc, entered, leaving, native, levels, state, passValue, nested>>

(* invokeAndWait() of a client thread, which then waits for the future. *)
InvokeAndWait(w) ==
    /\ Free(w)
    /\ native' = Append(native, w)
    /\ UNCHANGED <<deque, held, pc, entered, leaving, levels, state, passValue, nested>>

-----------------------------------------------------------------------------
(* InvokeLaterDispatcher.run() *)

Take ==
    /\ pc = "take" /\ deque # <<>>
    /\ held' = Head(deque)
    /\ deque' = Tail(deque)
    /\ pc' = "check"
    /\ UNCHANGED <<entered, leaving, native, levels, state, passValue, nested>>

(* A runnable taken while a loop is leaving goes back to the front.        *)
PutBackLast(r) == Append(deque, r)
PutBack(r) == <<r>> \o deque

Check ==
    /\ pc = "check"
    /\ IF leaving
       THEN deque' = PutBack(held) /\ held' = NONE /\ pc' = "waitLeft"
       ELSE pc' = "submit" /\ UNCHANGED <<deque, held>>
    /\ UNCHANGED <<entered, leaving, native, levels, state, passValue, nested>>

WaitLeft ==
    /\ pc = "waitLeft" /\ ~leaving
    /\ pc' = "take"
    /\ UNCHANGED <<deque, held, entered, leaving, native, levels, state, passValue, nested>>

Submit ==
    /\ pc = "submit"
    /\ native' = Append(native, held)
    /\ pc' = "wait"
    /\ UNCHANGED <<deque, held, entered, leaving, levels, state, passValue, nested>>

(* Go on when the runnable has finished, or has entered a nested loop.     *)
GoesOnWhenDone == held \notin Unfinished
GoesOn == held \notin Unfinished \/ entered

Wait ==
    /\ pc = "wait"
    /\ GoesOn
    /\ entered' = FALSE
    /\ held' = NONE
    /\ pc' = "take"
    /\ UNCHANGED <<deque, leaving, native, levels, state, passValue, nested>>

Dispatch == Take \/ Check \/ WaitLeft \/ Submit \/ Wait

-----------------------------------------------------------------------------
(* The event thread. *)

(* A native event is delivered by the innermost loop. *)
Event ==
    /\ Top.handler = NONE /\ Top.quit = NONE
    /\ levels' = ReplaceTop([Top EXCEPT !.handler = EVENT])
    /\ UNCHANGED <<deque, held, pc, entered, leaving, native, state, passValue, nested>>

(* The oldest submitted runnable starts.  A loop that was told to quit may *)
(* still start what was submitted to it.                                   *)
StartRunnable ==
    /\ Top.handler = NONE
    /\ native # <<>> /\ Head(native) \notin Relays
    /\ native' = Tail(native)
    /\ levels' = ReplaceTop([Top EXCEPT !.handler = Head(native)])
    /\ UNCHANGED <<deque, held, pc, entered, leaving, state, passValue, nested>>

(* The handler returns; the future of a runnable is done.                  *)
HandlerReturns ==
    /\ Top.handler # NONE
    /\ levels' = ReplaceTop([Top EXCEPT !.handler = NONE])
    /\ UNCHANGED <<deque, held, pc, entered, leaving, native, state, passValue, nested>>

(* EventLoop.enter(): outside IDLE it throws.  The dispatcher is notified  *)
(* before gtk_main() starts.  Bound: a relay must be left for its return.  *)
MayEnter(l) == state[l] = "IDLE"

Enter(l) ==
    /\ Top.handler # NONE
    /\ MayEnter(l)
    /\ Cardinality({r \in Relays : Free(r)}) >= Len(levels)
    /\ state' = [state EXCEPT ![l] = "ACTIVE"]
    /\ levels' = Append(levels, Level(l))
    /\ entered' = TRUE
    /\ nested' = (nested \/ Top.quit # NONE)
    /\ UNCHANGED <<deque, held, pc, leaving, native, passValue>>

(* Application.leaveNestedEventLoop() for the innermost loop. *)
LeaveNative(who) ==
    /\ leaving' = TRUE
    /\ passValue' = Top.loop
    /\ levels' = ReplaceTop([Top EXCEPT !.quit = who])

(* EventLoop.leave(): outside ACTIVE it throws.  Only the innermost loop   *)
(* is told to quit at once.                                                *)
QuitsAlways(l) == TRUE
QuitsNow(l) == Top.loop = l

Leave(l) ==
    /\ Top.handler # NONE
    /\ state[l] = "ACTIVE"
    /\ state' = [state EXCEPT ![l] = "LEAVING"]
    /\ IF QuitsNow(l) THEN LeaveNative(Top.handler) ELSE UNCHANGED <<leaving, passValue, levels>>
    /\ UNCHANGED <<deque, held, pc, entered, native, nested>>

(* The relay: leave the innermost loop if it is LEAVING by now.            *)
RelayLeaves == Top.loop # MAIN /\ state[Top.loop] = "LEAVING"

Relay ==
    /\ Top.handler = NONE
    /\ native # <<>> /\ Head(native) \in Relays
    /\ native' = Tail(native)
    /\ IF RelayLeaves
       THEN LeaveNative(Head(native))
       ELSE UNCHANGED <<leaving, passValue, levels>>
    /\ UNCHANGED <<deque, held, pc, entered, state, nested>>

(* gtk_main() returns, and with it enter(), into the suspended handler.    *)
(* When the loop around it is LEAVING too, a relay is posted for it.       *)
NeedsRelayNever(l) == FALSE
NeedsRelay(l) == l # MAIN /\ state[l] = "LEAVING"

Return ==
    /\ Top.handler = NONE /\ Top.quit # NONE
    /\ LET l == Top.loop
           outer == levels[Len(levels) - 1].loop
       IN  /\ state' = [state EXCEPT ![l] = "IDLE"]
           /\ IF NeedsRelay(outer)
              THEN \E r \in Relays : Free(r) /\ deque' = Append(deque, r)
              ELSE UNCHANGED deque
    /\ levels' = Front(levels)
    /\ leaving' = FALSE
    /\ passValue' = NONE
    /\ UNCHANGED <<held, pc, entered, native, nested>>

FxStep == StartRunnable \/ HandlerReturns \/ Relay

Next ==
    \/ \E r \in Apps : InvokeLater(r)
    \/ \E w \in Waits : InvokeAndWait(w)
    \/ Dispatch
    \/ FxStep \/ Return \/ Event
    \/ \E l \in Loops : Enter(l) \/ Leave(l)

Spec == Init /\ [][Next]_vars

(***************************************************************************)
(* Threads make progress: the dispatcher, the event thread with what was   *)
(* submitted, a handler with returning, and a native loop that was told to *)
(* quit leaves after finitely many runnables.  No loop has to be left.     *)
(***************************************************************************)
Fairness ==
    /\ WF_vars(Dispatch)
    /\ SF_vars(StartRunnable) /\ SF_vars(Relay)
    /\ SF_vars(HandlerReturns)
    /\ SF_vars(Return)

FairSpec == Spec /\ Fairness

-----------------------------------------------------------------------------
(* Properties. *)

(* An EventLoop is IDLE exactly when no native loop runs for it, and no    *)
(* loop runs twice, in whatever order loops are entered and left; and the  *)
(* asserts of EventLoop.enter() hold when the native loop returns: what it *)
(* returns is the loop that was entered, and that loop is LEAVING.  The    *)
(* asserts hold until a handler of a loop that was told to quit enters     *)
(* another.                                                                *)
LoopsOnStack ==
    /\ \A l \in Loops : state[l] # "IDLE" <=> \E i \in 2..Len(levels) : levels[i].loop = l
    /\ \A i, j \in 1..Len(levels) : levels[i].loop = levels[j].loop => i = j
    /\ Top.quit # NONE /\ ~nested => passValue = Top.loop /\ state[Top.loop] = "LEAVING"

Taken == IF pc \in {"check", "submit"} THEN <<held>> ELSE <<>>
InFlight == native \o Taken \o deque

Fifo == INSTANCE FifoExecutor WITH Posts <- Later, queue <- InFlight

(* Runnables start in the order they were posted, through every deferral   *)
(* and every nested loop: the dispatcher implements a FIFO executor.       *)
StartsInOrder == Fifo!Spec

(* Nobody calls leave() any more, from some point on. *)
LeavesCease ==
    <>[][\A l \in Loops : state[l] = "ACTIVE" => state'[l] # "LEAVING"]_vars

(* Application.invokeLater(): "run on the native event loop thread some    *)
(* time in the future".  Whatever is posted eventually starts, however     *)
(* deep the loops are nested and whether or not they are ever left, unless *)
(* loops are left over and over or entered while another is being left.    *)
EverythingRuns ==
    LeavesCease =>
        \A r \in Apps \cup Waits : r \in Range(deque) \cup Range(native) ~>
                               nested \/ r \notin Range(deque) \cup Range(native) \cup {held}

(* Loops that were asked to leave do leave, one after the other, also when *)
(* they were asked while other loops ran inside them, until the innermost  *)
(* loop is one that goes on; unless another loop is entered inside a loop  *)
(* that is being left.                                                     *)
LeavingLoopLeft == RelayLeaves ~> nested \/ ~RelayLeaves
=============================================================================
