--------------------------- MODULE ProgressBuffer ---------------------------
(***************************************************************************)
(* The buffer of progressive downloads (progressbuffer.c) in push mode:    *)
(* one cache file that the source's thread writes and the reader task      *)
(* reads.  A seek into the cache is instant, any other one goes on to the  *)
(* source.  Positions are chunks of the medium, whose only file is file 1. *)
(***************************************************************************)
EXTENDS MediaBuffer

CONSTANT NoEvent

ASSUME NoEventAssumption == \A e \in {NoEvent, NoBuffer} : e \notin [type : {"SEGMENT", "EOS"}, at : Int]

VARIABLES
    cache,          \* cache
    readOffset,     \* cache_read_offset
    segment,        \* sink_segment: start, position, stop
    pendingSrc,     \* pending_src_event
    eosStatus,      \* eos_status.eos
    unexpected, instantSeek, sourceSeeking,
    hasSrcpad,      \* srcpad was created
    skip            \* the reader discards what it reads (a local variable of its loop)

fillVars == <<cache, readOffset, segment, eosStatus, unexpected>>
flagVars == <<instantSeek, sourceSeeking, hasSrcpad, skip>>
pbVars == <<fillVars, pendingSrc, flagVars>>

SegmentEvent(at) == [type |-> "SEGMENT", at |-> at]
EosEvent == [type |-> "EOS", at |-> NoPosition]

PBInit ==
    /\ cache = EmptyCache /\ readOffset = 0
    /\ segment = [start |-> 0, position |-> 0, stop |-> 0]
    /\ pendingSrc = NoEvent
    /\ eosStatus = FALSE /\ unexpected = FALSE
    /\ instantSeek = FALSE /\ sourceSeeking = FALSE /\ hasSrcpad = FALSE /\ skip = FALSE

-----------------------------------------------------------------------------
(* Events and data from the source: progress_buffer_enqueue_item(). *)

\* The SEGMENT belongs to an earlier seek than the last: that one stayed in the cache, or
\* has not reached the source.
SeekGivesWay == hasSrcpad /\ (instantSeek \/ app \in {"pb ask", "flush start"})

\* SEGMENT begins a new cache, unless the buffer has had its EOS.  What was lost before is
\* history then, but for what the reader may have of the old cache.
PBSegment ==
    /\ ~stream.hls /\ sAt = "segment" /\ flushing = {}
    /\ IF eosStatus
       THEN /\ conn' = [conn EXCEPT !.lost = TRUE]
            /\ UNCHANGED <<cache, readOffset, segment, pendingSrc, unexpected, instantSeek, bAt, mishaps>>
       ELSE /\ cache' = EmptyCache
            /\ readOffset' = position
            /\ segment' = [start |-> position, position |-> position, stop |-> stream.sizes[1]]
            /\ pendingSrc' = SegmentEvent(position)
            /\ conn' = [conn EXCEPT !.lost = @ /\ ~(out = <<>> /\ bBuffer = NoBuffer)]
            /\ unexpected' = FALSE
            /\ instantSeek' = TRUE
            /\ SignalAdd
            /\ mishaps' = mishaps \union (IF SeekGivesWay THEN {"seek overtaken"} ELSE {})
    /\ SegmentPushed("OK")
    /\ UNCHANGED <<stream, failures, sTask, sSrcresult, position, flushing, appVars,
                   bTask, bResult, bBuffer, bSrcresult, downVars, eosStatus, sourceSeeking, hasSrcpad, skip>>

\* chain(): the chunk is appended to the cache.  The reader is told only when a
\* position message is due, so not for every chunk.
ChunkResult ==
    IF eosStatus \/ unexpected THEN "EOS"
    ELSE IF segment.stop < conn.read THEN "ERROR" ELSE "OK"

PBChain ==
    /\ ~stream.hls /\ sAt = "buffer" /\ flushing = {}
    /\ segment' = [segment EXCEPT !.position = IF ChunkResult = "EOS" THEN @ ELSE conn.read]
    /\ IF ChunkResult = "OK"
       THEN cache' = cache_write_buffer(cache, Chunk) /\ (SignalAdd \/ UNCHANGED bAt)
       ELSE UNCHANGED <<cache, bAt>>
    /\ IF ~hasSrcpad /\ ChunkResult # "ERROR"
       THEN sAt' = "pb pad" /\ sResult' = ChunkResult /\ UNCHANGED pending
       ELSE BufferPushed(ChunkResult)
    /\ mishaps' = mishaps \union (IF ChunkResult = "EOS" THEN {"cut short"} ELSE {})
    /\ UNCHANGED <<stream, connVars, sTask, sSrcresult, position, flushing, appVars,
                   bTask, bResult, bBuffer, bSrcresult, downVars,
                   readOffset, eosStatus, unexpected, pendingSrc, flagVars>>

\* The first chunk creates the source pad, which starts the reader.
PBCreateSourcepad ==
    /\ sAt = "pb pad"
    /\ hasSrcpad' = TRUE
    /\ bSrcresult' = "OK"
    /\ eosStatus' = FALSE /\ unexpected' = FALSE
    /\ bTask' = "started"
    /\ BufferPushed(sResult)
    /\ UNCHANGED <<stream, connVars, sTask, sSrcresult, position, flushing, appVars,
                   bAt, bResult, bBuffer, downVars, mishaps,
                   cache, readOffset, segment, pendingSrc, instantSeek, sourceSeeking, skip>>

\* EOS: the segment ends here, and an event that is pending is dropped.
PBEos ==
    /\ ~stream.hls /\ sAt = "eos" /\ flushing = {}
    /\ IF eosStatus
       THEN UNCHANGED <<segment, eosStatus, pendingSrc, bAt, mishaps>>
       ELSE /\ eosStatus' = TRUE
            /\ segment' = [segment EXCEPT !.stop = IF segment.position < @ THEN segment.position ELSE @]
            /\ pendingSrc' = NoEvent
            /\ SignalAdd
            /\ mishaps' = mishaps \union (IF pendingSrc # NoEvent THEN {"event dropped"} ELSE {})
    /\ Ends("EOS")
    /\ UNCHANGED <<stream, connVars, sTask, sSrcresult, pending, position, flushing, appVars,
                   bTask, bResult, bBuffer, bSrcresult, downVars, cache, readOffset, unexpected, flagVars>>

PBSourceSteps == PBSegment \/ PBChain \/ PBCreateSourcepad \/ PBEos

-----------------------------------------------------------------------------
(* progress_buffer_loop(), on the reader task. *)

\* The loop begins, was woken, or goes on in skip mode.
PBRuns == ~stream.hls /\ (ReaderRuns \/ bAt = "next")

PBReadable == cache_has_enough_data(cache) /\ instantSeek

\* UNDERRUN may be posted.
PBWait ==
    /\ PBRuns /\ bSrcresult = "OK" /\ pendingSrc = NoEvent /\ ~PBReadable
    /\ bAt' = "asleep"
    /\ UNCHANGED <<sourceVars, bTask, bResult, bBuffer, bSrcresult, downVars, mishaps, pbVars>>

PBStopped ==
    /\ PBRuns /\ bSrcresult # "OK"
    /\ unexpected' = (unexpected \/ skip)
    /\ bAt' = IF skip THEN "idle" ELSE "pause"
    /\ skip' = FALSE
    /\ UNCHANGED <<sourceVars, bTask, bResult, bBuffer, bSrcresult, downVars, mishaps,
                   cache, readOffset, segment, eosStatus, pendingSrc, instantSeek, sourceSeeking, hasSrcpad>>

\* A pending event goes first; it is pushed after the unlock.
PBEvent ==
    /\ PBRuns /\ bSrcresult = "OK" /\ pendingSrc # NoEvent
    /\ bBuffer' = pendingSrc
    /\ pendingSrc' = NoEvent
    /\ bSrcresult' = IF pendingSrc.type = "EOS" THEN "EOS" ELSE "OK"
    /\ bAt' = "event"
    /\ skip' = FALSE
    /\ UNCHANGED <<sourceVars, bTask, bResult, downVars, mishaps, fillVars, instantSeek, sourceSeeking, hasSrcpad>>

PBPushEvent ==
    /\ ~stream.hls /\ bAt = "event"
    /\ IF bBuffer.type = "EOS" THEN PushEosDown ELSE PushSegmentDown(bBuffer.at)
    /\ bAt' = IF bBuffer.type = "EOS" THEN "pause" ELSE "idle"
    /\ bBuffer' = NoBuffer
    /\ UNCHANGED <<sourceVars, bTask, bResult, bSrcresult, mishaps, pbVars>>

\* Mutants: the end is never seen; it is where the download has come to.
AtStopNever(read) == FALSE

AtStopEarly(read) == readOffset + read >= segment.position

\* The chunk that ends the segment has the EOS follow it.
AtStop(read) == readOffset + read = segment.stop

PBRead ==
    /\ PBRuns /\ bSrcresult = "OK" /\ pendingSrc = NoEvent /\ PBReadable
    /\ cache' = cache_read_buffer(cache)
    /\ pendingSrc' = IF AtStop(cache'.read) THEN EosEvent ELSE NoEvent
    /\ IF skip THEN bAt' = "next" /\ UNCHANGED bBuffer
               ELSE bAt' = "push" /\ bBuffer' = NextRead(cache)
    /\ UNCHANGED <<sourceVars, bTask, bResult, bSrcresult, downVars, mishaps,
                   readOffset, segment, eosStatus, unexpected, flagVars>>

\* The demuxer may have had enough and say EOS.
PBPush ==
    /\ ~stream.hls /\ bAt = "push"
    /\ \/ /\ PushBufferDown(bBuffer)
          /\ bResult' = IF dFlushing THEN "FLUSHING" ELSE "OK"
          /\ bAt' = "merge"
          /\ UNCHANGED <<failures, skip>>
       \/ /\ failures < MaxFailures /\ ~dFlushing
          /\ failures' = failures + 1
          /\ skip' = TRUE
          /\ bAt' = "next"
          /\ UNCHANGED <<bResult, downVars>>
    /\ bBuffer' = NoBuffer
    /\ UNCHANGED <<stream, conn, loopVars, position, flushing, appVars, bTask, bSrcresult, mishaps,
                   fillVars, pendingSrc, instantSeek, sourceSeeking, hasSrcpad>>

\* Here the result of the push replaces what other threads have stored.
PBStore ==
    /\ ~stream.hls /\ bAt = "merge"
    /\ bSrcresult' = bResult
    /\ bResult' = "OK"
    /\ bAt' = IF bResult = "OK" THEN "idle" ELSE "pause"
    /\ mishaps' = mishaps \union (IF bSrcresult # "OK" /\ bResult = "OK" THEN {"flush overwritten"} ELSE {})
    /\ UNCHANGED <<sourceVars, bTask, bBuffer, downVars, pbVars>>

PBPause ==
    /\ ~stream.hls /\ bAt = "pause"
    /\ bTask' = IF bTask = "stopped" THEN bTask ELSE "paused"
    /\ bAt' = "idle"
    /\ UNCHANGED <<sourceVars, bResult, bBuffer, bSrcresult, downVars, mishaps, pbVars>>

PBReaderSteps ==
    PBWait \/ PBStopped \/ PBEvent \/ PBPushEvent \/ PBRead \/ PBPush \/ PBStore \/ PBPause

-----------------------------------------------------------------------------
(* progress_buffer_perform_push_seek() and the shutdown. *)

\* FLUSH_START goes downstream first.
PBSeek(to) ==
    /\ ~stream.hls /\ app = "idle" /\ hasSrcpad /\ seeks < MaxSeeks
    /\ seeks' = seeks + 1
    /\ target' = to
    /\ FlushStartDown
    /\ app' = "pb mark"
    /\ UNCHANGED <<stream, connVars, loopVars, position, flushing, readerVars, bSrcresult, mishaps, pbVars>>

PBMark ==
    /\ app = "pb mark"
    /\ bSrcresult' = "FLUSHING"
    /\ SignalAdd
    /\ app' = "pb lock"
    /\ UNCHANGED <<stream, connVars, loopVars, position, flushing, target, seeks,
                   bTask, bResult, bBuffer, downVars, mishaps, pbVars>>

\* Mutant: the reader is left where it was.
SeekCacheKept == cache

\* cache_set_read_position(): a negative position fails and changes nothing.
SeekCache == [cache EXCEPT !.read = IF target >= readOffset THEN target - readOffset ELSE @]

\* With the reader's stream lock.  A position somewhat ahead of the download counts as
\* buffered too, depending on the bandwidth.
PBLocked ==
    /\ app = "pb lock" /\ ReaderIdle
    /\ bSrcresult' = "OK"
    /\ \/ /\ target >= segment.start
          /\ instantSeek' = TRUE
          /\ cache' = SeekCache
          /\ pendingSrc' = SegmentEvent(target)
          /\ app' = "pb stop"
          /\ UNCHANGED eosStatus
       \/ /\ target < segment.start \/ target > segment.position
          /\ instantSeek' = FALSE
          /\ eosStatus' = FALSE
          /\ pendingSrc' = NoEvent
          /\ app' = "pb ask"
          /\ UNCHANGED cache
    /\ UNCHANGED <<stream, connVars, loopVars, position, flushing, target, seeks,
                   readerVars, downVars, mishaps, readOffset, segment, unexpected,
                   sourceSeeking, hasSrcpad, skip>>

\* The source is asked after the unlock, and not if a SEGMENT has come in between.
PBAsk ==
    /\ app = "pb ask"
    /\ sourceSeeking' = ~instantSeek
    /\ app' = IF instantSeek THEN "pb stop" ELSE "flush start"
    /\ UNCHANGED <<stream, connVars, loopVars, position, flushing, target, seeks, readerVars, bSrcresult, downVars,
                   mishaps, fillVars, pendingSrc, instantSeek, hasSrcpad, skip>>

\* The source's seek has returned; its flushes stopped at the sink pad.
PBSought ==
    /\ app \in {"sought", "refused"}
    /\ sourceSeeking' = FALSE
    /\ IF app = "refused"
       THEN instantSeek' = TRUE /\ cache' = SeekCache /\ pendingSrc' = SegmentEvent(target)
       ELSE UNCHANGED <<instantSeek, cache, pendingSrc>>
    /\ mishaps' = mishaps \union (IF app = "refused" /\ target < readOffset THEN {"cannot go back"} ELSE {})
    /\ app' = "pb stop"
    /\ UNCHANGED <<stream, connVars, loopVars, position, flushing, target, seeks, readerVars, bSrcresult, downVars,
                   readOffset, segment, eosStatus, unexpected, hasSrcpad, skip>>

PBFlushStop ==
    /\ app = "pb stop"
    /\ FlushStopDown
    /\ app' = "pb start"
    /\ UNCHANGED <<stream, connVars, loopVars, position, flushing, target, seeks, readerVars, bSrcresult,
                   mishaps, pbVars>>

PBStart ==
    /\ app = "pb start"
    /\ bTask' = "started"
    /\ app' = "idle"
    /\ UNCHANGED <<stream, connVars, loopVars, position, flushing, target, seeks,
                   bAt, bResult, bBuffer, bSrcresult, downVars, mishaps, pbVars>>

\* The pads are deactivated: the reader's ...
PBClose ==
    /\ ~stream.hls /\ app = "idle"
    /\ dFlushing' = TRUE
    /\ IF hasSrcpad THEN bSrcresult' = "FLUSHING" /\ SignalAdd /\ bTask' = "stopped"
                    ELSE UNCHANGED <<bSrcresult, bAt, bTask>>
    /\ app' = "pb join"
    /\ UNCHANGED <<stream, connVars, loopVars, position, flushing, target, seeks,
                   bResult, bBuffer, dSegment, out, dEos, mishaps, pbVars>>

PBJoin ==
    /\ app = "pb join" /\ ReaderIdle
    /\ flushing' = {"sink"}
    /\ app' = "pb sink"
    /\ UNCHANGED <<stream, connVars, loopVars, position, target, seeks, bufferVars, pbVars>>

\* ... then the sink pad, and the state is reset.
PBSinkJoin ==
    /\ app = "pb sink" /\ sAt # "pb pad"
    /\ bSrcresult' = "FLUSHING"
    /\ pendingSrc' = NoEvent
    /\ segment' = [start |-> 0, position |-> 0, stop |-> 0]
    /\ SignalAdd
    /\ app' = "stop source"
    /\ UNCHANGED <<stream, connVars, loopVars, position, flushing, target, seeks,
                   bTask, bResult, bBuffer, downVars, mishaps, cache, readOffset, eosStatus, unexpected, flagVars>>

PBAppSteps ==
    PBMark \/ PBLocked \/ PBAsk \/ PBSought \/ PBFlushStop \/ PBStart \/ PBJoin \/ PBSinkJoin
=============================================================================
