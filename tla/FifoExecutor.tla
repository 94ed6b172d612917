---------------------------- MODULE FifoExecutor ----------------------------
(***************************************************************************)
(* What Platform.runLater() promises, and what Task and Service rely on:   *)
(* one thread starts the posted runnables, each once, in the order they    *)
(* were posted.  A thread that waits for its runnable may have it put in   *)
(* before others; it changes nothing in the order of those.                *)
(***************************************************************************)
EXTENDS SequencesExt

CONSTANTS
    Posts,      \* runnables that are posted
    Waits       \* runnables whose threads wait for them

VARIABLE queue      \* runnables not yet started

Init == queue = <<>>

Post(r) == queue' = Append(queue, r)

Bypass(w) == \E i \in 1..(Len(queue) + 1) : queue' = InsertAt(queue, i, w)

Start == queue # <<>> /\ queue' = Tail(queue)

Next == Start \/ (\E r \in Posts : Post(r)) \/ (\E w \in Waits : Bypass(w))

Spec == Init /\ [][Next]_queue
=============================================================================
