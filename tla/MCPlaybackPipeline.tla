------------------------- MODULE MCPlaybackPipeline -------------------------
(* The media the run plays. *)
EXTENDS PlaybackPipeline

Bounds(calls, crossing, stalls, arrivals, fulls) ==
    [calls |-> calls, crossing |-> crossing, stalls |-> stalls, arrivals |-> arrivals, fulls |-> fulls,
     frees |-> fulls, errors |-> 0, disposals |-> 0]

File == [hls |-> FALSE, bounds |-> Bounds(3, 0, 1, 1, 0)]
Hls == [hls |-> TRUE, bounds |-> Bounds(2, 0, 1, 1, 0)]
HlsFull == [hls |-> TRUE, bounds |-> Bounds(1, 0, 1, 1, 1)]
\* Calls that cross what is under way.
Crossing == [hls |-> FALSE, bounds |-> Bounds(2, 2, 1, 0, 0)]
\* Failures and Dispose() at any time.
Closing == [hls |-> FALSE, bounds |-> [Bounds(2, 1, 0, 0, 0) EXCEPT !.errors = 1, !.disposals = 1]]

MCMedia == {File, Hls, HlsFull, Crossing, Closing}
=============================================================================
