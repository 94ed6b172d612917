----------------------------- MODULE JavaSource -----------------------------
(***************************************************************************)
(* The element that feeds a media pipeline from a Java connection          *)
(* (javasource.c), with the connection behind it and the pads in front.    *)
(*                                                                         *)
(* Its task pushes STREAM_START, SEGMENT, data and EOS into a buffer       *)
(* element, whose handlers run on the same thread: `sAt' names the push    *)
(* under way, and the module of the buffer element (HLSProgressBuffer or   *)
(* ProgressBuffer) carries it out.  The thread of the application runs     *)
(* perform_seek() and the shutdown; it too goes back and forth between the *)
(* two elements.                                                           *)
(*                                                                         *)
(* Of GStreamer the model has the state of a task, which holds the stream  *)
(* lock of its pad while it is started and runs, and the FLUSHING flags of *)
(* the two pads between source and buffer.                                 *)
(*                                                                         *)
(* Data is counted in chunks: chunk b of media file f is <<f, b>>.  An     *)
(* HLS medium has several files, any other medium has one.                 *)
(***************************************************************************)
EXTENDS Integers, Sequences, FiniteSets

(***************************************************************************)
(* The media: whether it is HLS, the chunks of each file, and as bounds    *)
(* how often the application seeks and how often the connection fails.     *)
(***************************************************************************)
CONSTANT Streams

ASSUME StreamsAssumption ==
    \A s \in Streams :
        /\ s.hls \in BOOLEAN
        /\ s.sizes \in Seq(Nat \ {0}) /\ s.sizes # <<>>
        /\ ~s.hls => Len(s.sizes) = 1
        /\ s.maxSeeks \in Nat /\ s.maxFailures \in Nat

VARIABLES
    stream,     \* the medium
    conn,       \* the connection: next file, current file, chunks read of it, and
                \* whether a chunk or the last SEGMENT was refused
    failures,   \* failures of the connection so far
    sTask,      \* the task of the source: started, paused or stopped
    sAt,        \* where it is in java_source_loop()
    sResult,    \* its local result
    sSrcresult, \* srcresult
    pending,    \* pending_event
    position,   \* position_time (a file) or position (a chunk): of the next SEGMENT
    flushing,   \* pads that are FLUSHING: the source's, the buffer's sink
    app,        \* where the application thread is
    target,     \* what it sought last
    seeks       \* seeks so far

connVars == <<conn, failures>>
loopVars == <<sTask, sAt, sResult, sSrcresult, pending>>
appVars == <<app, target, seeks>>
sourceVars == <<stream, connVars, loopVars, position, flushing, appVars>>

MaxSeeks == stream.maxSeeks
MaxFailures == stream.maxFailures
NumFiles == Len(stream.sizes)
EndPosition == NumFiles + 1

\* Where the application may seek: a file or the end; a chunk.
Positions == IF stream.hls THEN 1..EndPosition ELSE 0..(stream.sizes[1] - 1)

JavaSourceInit ==
    /\ stream \in Streams
    /\ conn = [next |-> 1, file |-> 1, read |-> 0, lost |-> FALSE]
    /\ failures = 0
    /\ sTask = "started" /\ sAt = "idle" /\ sResult = "OK" /\ sSrcresult = "OK"
    /\ pending = "STREAM_START"
    /\ position = IF stream.hls THEN 1 ELSE 0
    /\ flushing = {}
    /\ app = "idle" /\ target = position /\ seeks = 0

-----------------------------------------------------------------------------
(* java_source_loop(), on the task of the source. *)

\* Where the loop goes for an event that is pending.
NextEvent(event) ==
    CASE event = "STREAM_START" -> "start"
      [] event = "SEGMENT" -> IF stream.hls THEN "size" ELSE "segment"
      [] event = "EOS" -> "eos"
      [] event = "UNKNOWN" -> "read"

\* The loop is at its end, with a result.
Ends(result) == sAt' = "merge" /\ sResult' = result

LoopBegins ==
    /\ sTask = "started" /\ sAt = "idle"
    /\ IF sSrcresult = "OK" THEN sAt' = NextEvent(pending) /\ sResult' = "OK"
                            ELSE Ends(sSrcresult)
    /\ UNCHANGED <<stream, connVars, sTask, sSrcresult, pending, position, flushing, appVars>>

PushStreamStart ==
    /\ sAt = "start"
    /\ Ends(IF "src" \in flushing THEN "FLUSHING" ELSE "OK")
    /\ pending' = "SEGMENT"
    /\ UNCHANGED <<stream, connVars, sTask, sSrcresult, position, flushing, appVars>>

\* GET_STREAM_SIZE: the next media file is opened, if there is one and it opens.
GetStreamSize ==
    /\ sAt = "size"
    /\ \/ /\ conn.next <= NumFiles
          /\ conn' = [conn EXCEPT !.next = @ + 1, !.file = conn.next, !.read = 0]
          /\ sAt' = "sized"
          /\ UNCHANGED failures
       \/ /\ conn.next > NumFiles
          /\ sAt' = "none"
          /\ UNCHANGED connVars
       \/ /\ conn.next <= NumFiles /\ failures < MaxFailures
          /\ conn' = [conn EXCEPT !.next = @ + 1]
          /\ failures' = failures + 1
          /\ sAt' = "none"
    /\ UNCHANGED <<stream, sTask, sResult, sSrcresult, pending, position, flushing, appVars>>

\* A seek has begun meanwhile: the file is for nothing.  No file: the end.
WrongState == sSrcresult = "FLUSHING"

Sized ==
    /\ sAt \in {"sized", "none"}
    /\ \/ WrongState /\ Ends("OK") /\ UNCHANGED pending
       \/ ~WrongState /\ sAt = "sized" /\ sAt' = "segment" /\ UNCHANGED <<sResult, pending>>
       \/ ~WrongState /\ sAt = "none" /\ sAt' = "eos" /\ pending' = "EOS" /\ UNCHANGED sResult
    /\ UNCHANGED <<stream, connVars, sTask, sSrcresult, position, flushing, appVars>>

\* The SEGMENT is out: it went to the buffer, or no further than a flushing pad.
SegmentPushed(result) == Ends(result) /\ pending' = "UNKNOWN"

SegmentRefused ==
    /\ sAt = "segment" /\ flushing # {}
    /\ SegmentPushed(IF "src" \in flushing THEN "FLUSHING" ELSE "OK")
    /\ conn' = [conn EXCEPT !.lost = ~stream.hls]
    /\ UNCHANGED <<stream, failures, sTask, sSrcresult, position, flushing, appVars>>

\* READ_NEXT_BLOCK and COPY_BLOCK.
ReadNextBlock ==
    /\ sAt = "read"
    /\ \/ /\ conn.read < stream.sizes[conn.file]
          /\ conn' = [conn EXCEPT !.read = @ + 1]
          /\ sAt' = "buffer"
          /\ UNCHANGED <<failures, sResult, pending>>
       \/ /\ conn.read = stream.sizes[conn.file]
          /\ pending' = (IF stream.hls THEN "SEGMENT" ELSE "EOS")
          /\ sAt' = NextEvent(pending')
          /\ UNCHANGED <<connVars, sResult>>
       \/ /\ failures < MaxFailures
          /\ failures' = failures + 1
          /\ Ends("FLUSHING")
          /\ UNCHANGED <<conn, pending>>
    /\ UNCHANGED <<stream, sTask, sSrcresult, position, flushing, appVars>>

\* The chunk that is pushed.
Chunk == <<conn.file, conn.read>>

BufferPushed(result) ==
    IF result = "EOS" THEN sAt' = "eos" /\ pending' = "EOS" /\ UNCHANGED sResult
                      ELSE Ends(result) /\ UNCHANGED pending

BufferRefused ==
    /\ sAt = "buffer" /\ flushing # {}
    /\ BufferPushed("FLUSHING")
    /\ conn' = [conn EXCEPT !.lost = ~stream.hls]
    /\ UNCHANGED <<stream, failures, sTask, sSrcresult, position, flushing, appVars>>

EosRefused ==
    /\ sAt = "eos" /\ flushing # {}
    /\ Ends("EOS")
    /\ UNCHANGED <<stream, connVars, sTask, sSrcresult, pending, position, flushing, appVars>>

\* The result is merged with what other threads have stored.
Merged(stored, result) == IF stored = "OK" \/ result # "OK" THEN result ELSE stored

Merge ==
    /\ sAt = "merge"
    /\ LET result == Merged(sSrcresult, sResult)
       IN  /\ sSrcresult' = result
           /\ sTask' = IF result # "OK" /\ sTask = "started" THEN "paused" ELSE sTask
    /\ sAt' = "idle" /\ sResult' = "OK"
    /\ UNCHANGED <<stream, connVars, pending, position, flushing, appVars>>

SourceSteps ==
    \/ LoopBegins \/ PushStreamStart \/ GetStreamSize \/ Sized \/ SegmentRefused
    \/ ReadNextBlock \/ BufferRefused \/ EosRefused \/ Merge

-----------------------------------------------------------------------------
(* java_source_perform_seek(), on the application's thread. *)

\* FLUSH_START reaches both pads, then the buffer's handler.
PushFlushStart ==
    /\ app = "flush start"
    /\ flushing' = {"src", "sink"}
    /\ app' = IF stream.hls THEN "hls flag" ELSE "mark"
    /\ UNCHANGED <<stream, connVars, loopVars, position, target, seeks>>

MarkFlushing ==
    /\ app = "mark"
    /\ sSrcresult' = "FLUSHING"
    /\ app' = "seek data"
    /\ UNCHANGED <<stream, connVars, sTask, sAt, sResult, pending, position, flushing, target, seeks>>

\* The task has let go of the stream lock.
SourceIdle == sAt = "idle" /\ sTask # "started"

\* Where the connection goes on after a seek.  HLSConnectionHolder leaves its index
\* alone when the very end is sought.
Sought(to) ==
    IF ~stream.hls THEN [conn EXCEPT !.read = to]
    ELSE IF to = EndPosition THEN conn ELSE [conn EXCEPT !.next = to]

\* SEEK_DATA, and the new position if it succeeds; an HTTP server may refuse ranges.
SeekData ==
    /\ app = "seek data" /\ SourceIdle
    /\ \/ /\ conn' = Sought(target)
          /\ position' = target
          /\ pending' = "SEGMENT"
          /\ app' = "flush stop"
          /\ UNCHANGED failures
       \/ /\ ~stream.hls /\ failures < MaxFailures
          /\ failures' = failures + 1
          /\ app' = "flush stop refused"
          /\ UNCHANGED <<conn, position, pending>>
    /\ sSrcresult' = "OK"
    /\ UNCHANGED <<stream, sTask, sAt, sResult, flushing, target, seeks>>

PushFlushStop ==
    /\ app \in {"flush stop", "flush stop refused"}
    /\ flushing' = {}
    /\ app' = CASE stream.hls -> "hls stop"
                [] ~stream.hls /\ app = "flush stop" -> "start"
                [] OTHER -> "start refused"
    /\ UNCHANGED <<stream, connVars, loopVars, position, target, seeks>>

\* The task is started again and perform_seek() returns.
StartSource ==
    /\ app \in {"start", "start refused"}
    /\ sTask' = "started"
    /\ app' = CASE stream.hls -> "idle"
                [] ~stream.hls /\ app = "start" -> "sought"
                [] OTHER -> "refused"
    /\ UNCHANGED <<stream, connVars, sAt, sResult, sSrcresult, pending, position, flushing, target, seeks>>

\* The source is deactivated, after the elements downstream.
StopSource ==
    /\ app = "stop source"
    /\ sSrcresult' = "FLUSHING"
    /\ flushing' = {"src", "sink"}
    /\ sTask' = "stopped"
    /\ app' = "join source"
    /\ UNCHANGED <<stream, connVars, sAt, sResult, pending, position, target, seeks>>

JoinSource ==
    /\ app = "join source" /\ SourceIdle
    /\ app' = "closed"
    /\ UNCHANGED <<stream, connVars, loopVars, position, flushing, target, seeks>>

SeekSteps ==
    \/ PushFlushStart \/ MarkFlushing \/ SeekData \/ PushFlushStop \/ StartSource
    \/ StopSource \/ JoinSource
=============================================================================
