---------------------------- MODULE MediaBuffer -----------------------------
(***************************************************************************)
(* What hlsprogressbuffer.c and progressbuffer.c have in common: a second  *)
(* task, the reader, that takes data out of a cache file and pushes it to  *)
(* the demuxer, and the condition variable add_cond on which it waits; the *)
(* cache file (filecache.c); and the demuxer as far as the buffers see it. *)
(***************************************************************************)
EXTENDS JavaSource

CONSTANT NoBuffer

ASSUME NoBufferAssumption == NoBuffer \notin Nat \X Nat

VARIABLES
    bTask,      \* the reader task: stopped, started or paused
    bAt,        \* where it is in its loop; "asleep" and "woken" on add_cond
    bResult,    \* its local result
    bSrcresult, \* srcresult
    bBuffer,    \* the chunk it pushes
    \* downstream
    dFlushing,  \* FLUSH_START has passed
    dSegment,   \* position of the last SEGMENT, since the last flush
    out,        \* chunks received since the last SEGMENT or flush
    dEos,       \* EOS received since the last flush
    \* history
    mishaps     \* races and failures of this behaviour that have a lasting effect

readerVars == <<bTask, bAt, bResult, bBuffer>>
downVars == <<dFlushing, dSegment, out, dEos>>
bufferVars == <<readerVars, bSrcresult, downVars, mishaps>>

NoPosition == -1

MediaBufferInit ==
    /\ bAt = "idle" /\ bResult = "OK" /\ bSrcresult = "OK" /\ bBuffer = NoBuffer
    /\ dFlushing = FALSE /\ dSegment = NoPosition /\ out = <<>> /\ dEos = FALSE
    /\ mishaps = {}

-----------------------------------------------------------------------------
(* filecache.c: what was written, and how much of it was read. *)

EmptyCache == [data |-> <<>>, read |-> 0]
cache_write_buffer(cache, chunk) == [cache EXCEPT !.data = Append(@, chunk)]
cache_has_enough_data(cache) == cache.read < Len(cache.data)
cache_read_buffer(cache) == [cache EXCEPT !.read = @ + 1]
NextRead(cache) == cache.data[cache.read + 1]

-----------------------------------------------------------------------------
(* Events and data that go downstream. *)

PushSegmentDown(at) ==
    IF dFlushing THEN UNCHANGED downVars
    ELSE dSegment' = at /\ out' = <<>> /\ UNCHANGED <<dFlushing, dEos>>

PushEosDown ==
    IF dFlushing THEN UNCHANGED downVars
    ELSE dEos' = TRUE /\ UNCHANGED <<dFlushing, dSegment, out>>

PushBufferDown(chunk) ==
    IF dFlushing THEN UNCHANGED downVars
    ELSE out' = Append(out, chunk) /\ UNCHANGED <<dFlushing, dSegment, dEos>>

FlushStartDown == dFlushing' = TRUE /\ UNCHANGED <<dSegment, out, dEos>>

FlushStopDown == dFlushing' = FALSE /\ dSegment' = NoPosition /\ out' = <<>> /\ dEos' = FALSE

-----------------------------------------------------------------------------
(* The reader task. *)

\* g_cond_signal(add_cond)
SignalAdd == bAt' = IF bAt = "asleep" THEN "woken" ELSE bAt

\* The task has let go of its stream lock.
ReaderIdle == bAt = "idle" /\ bTask # "started"

\* The loop function begins, or goes on after its wait.
ReaderRuns == (bTask = "started" /\ bAt = "idle") \/ bAt = "woken"

\* A wait may end for no reason.
SpuriousWakeUp ==
    /\ bAt = "asleep"
    /\ bAt' = "woken"
    /\ UNCHANGED <<sourceVars, bTask, bResult, bSrcresult, bBuffer, downVars, mishaps>>
=============================================================================
