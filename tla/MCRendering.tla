----------------------------- MODULE MCRendering -----------------------------
(* The configurations the runs check. *)
EXTENDS Rendering

CONSTANT Presenting     \* the scene that presents, where there are two

Quiet == [synchronous |-> Scenes, multithreaded |-> TRUE, animates |-> TRUE, exposes |-> FALSE,
          waits |-> FALSE, framesLost |-> FALSE, maxPosted |-> 0]

\* One scene of each kind, live repaints and snapshots.
BothKinds == {[Quiet EXCEPT !.synchronous = {Presenting}, !.waits = TRUE]}

\* The same, with painters that fail once instead of live repaints and snapshots.
Retry == {[Quiet EXCEPT !.synchronous = {Presenting}, !.maxPosted = 1]}

\* A presenting scene that loses no frame, and an uploading scene painted in
\* single-threaded mode by painters that fail or are not ready.
Liveness == {[Quiet EXCEPT !.exposes = TRUE, !.waits = TRUE],
             [Quiet EXCEPT !.exposes = TRUE, !.synchronous = {}, !.multithreaded = FALSE,
                           !.framesLost = TRUE, !.maxPosted = 1]}
=============================================================================
