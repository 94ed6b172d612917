-------------------------- MODULE WorkerLifecycle --------------------------
(***************************************************************************)
(* What javafx.concurrent.Worker promises of the `state' property of a     *)
(* worker that is used once (a Task): the states a client observes, and    *)
(* the order in which it may observe them.  It says nothing of threads,    *)
(* queues or futures.                                                      *)
(***************************************************************************)

VARIABLE state

States == {"READY", "SCHEDULED", "RUNNING", "SUCCEEDED", "FAILED", "CANCELLED"}

Init == state = "READY"

Schedule == state = "READY" /\ state' = "SCHEDULED"

Run == state = "SCHEDULED" /\ state' = "RUNNING"

Conclude == state = "RUNNING" /\ state' \in {"SUCCEEDED", "FAILED"}

(***************************************************************************)
(* Cancellation is possible from every state but CANCELLED.  That includes *)
(* SUCCEEDED and FAILED: the future a task wraps completes only after the  *)
(* conclusion was announced to the application thread.                     *)
(***************************************************************************)
Cancel == state # "CANCELLED" /\ state' = "CANCELLED"

Next == Schedule \/ Run \/ Conclude \/ Cancel

Spec == Init /\ [][Next]_state
=============================================================================
