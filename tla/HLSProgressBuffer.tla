------------------------- MODULE HLSProgressBuffer --------------------------
(***************************************************************************)
(* The buffer of HTTP live streaming (hlsprogressbuffer.c): a ring of      *)
(* cache files, one media file in each.  The source's thread writes, and   *)
(* waits on del_cond for a slot; the reader task empties one slot after    *)
(* the other.  A section under the element's lock is one step.             *)
(***************************************************************************)
EXTENDS MediaBuffer

CONSTANT NumCached      \* NUM_OF_CACHED_SEGMENTS

ASSUME NumCachedAssumption == NumCached \in Nat \ {0}

VARIABLES
    caches,     \* cache[]
    cacheSize,  \* cache_size[]
    writeReady, \* cache_write_ready[]
    writeIndex, \* cache_write_index
    readIndex,  \* cache_read_index
    sendNewSegment, isFlushing, isEos

ringVars == <<caches, cacheSize, writeReady, writeIndex, readIndex>>
hlsVars == <<ringVars, sendNewSegment, isFlushing, isEos>>

Slots == 0..(NumCached - 1)
After(i) == (i + 1) % NumCached

RingInit ==
    /\ caches = [i \in Slots |-> EmptyCache]
    /\ cacheSize = [i \in Slots |-> 0]
    /\ writeReady = [i \in Slots |-> TRUE]
    /\ writeIndex = -1 /\ readIndex = 0

HLSInit == RingInit /\ sendNewSegment = TRUE /\ isFlushing = FALSE /\ isEos = FALSE

-----------------------------------------------------------------------------
(* hls_progress_buffer_sink_event() and chain(), on the source's thread. *)

\* SEGMENT: dropped unless all is well.
HLSSegment ==
    /\ stream.hls /\ sAt = "segment" /\ flushing = {}
    /\ IF bSrcresult = "OK" THEN sAt' = "hls restart" /\ UNCHANGED <<sResult, pending>>
                            ELSE SegmentPushed("OK")
    /\ UNCHANGED <<stream, connVars, sTask, sSrcresult, position, flushing, appVars, bufferVars, hlsVars>>

\* The first SEGMENT after the end starts the reader again; this is not locked.
HLSRestart ==
    /\ sAt = "hls restart"
    /\ IF isEos
       THEN /\ isEos' = FALSE
            /\ bSrcresult' = "OK"
            /\ bTask' = "started"
            /\ mishaps' = mishaps \union (IF bSrcresult # "OK" THEN {"restart in flush"} ELSE {})
       ELSE UNCHANGED <<isEos, bSrcresult, bTask, mishaps>>
    /\ sAt' = "hls segment"
    /\ UNCHANGED <<stream, connVars, sTask, sResult, sSrcresult, pending, position, flushing, appVars,
                   bAt, bResult, bBuffer, downVars, ringVars, sendNewSegment, isFlushing>>

\* One SEGMENT goes downstream for each flush.
HLSSendSegment ==
    /\ sAt = "hls segment"
    /\ IF sendNewSegment THEN PushSegmentDown(position) ELSE UNCHANGED downVars
    /\ sendNewSegment' = FALSE
    /\ sAt' = "hls claim"
    /\ UNCHANGED <<stream, connVars, sTask, sResult, sSrcresult, pending, position, flushing, appVars,
                   readerVars, bSrcresult, mishaps, ringVars, isFlushing, isEos>>

\* The slot is made ready for the file; RESUME is posted.
Prepare(i) ==
    /\ cacheSize' = [cacheSize EXCEPT ![i] = stream.sizes[conn.file]]
    /\ writeReady' = [writeReady EXCEPT ![i] = FALSE]
    /\ caches' = [caches EXCEPT ![i] = EmptyCache]

\* Mutant: a slot in use is taken.
MustWaitNever(i) == FALSE

MustWait(i) == bSrcresult = "OK" /\ ~writeReady[i]

\* The next slot becomes the write slot, at once or once it is free.
HLSClaim ==
    /\ sAt = "hls claim"
    /\ writeIndex' = After(writeIndex)
    /\ IF MustWait(writeIndex')
       THEN sAt' = "hls full" /\ UNCHANGED <<sResult, pending, caches, cacheSize, writeReady>>
       ELSE Prepare(writeIndex') /\ SegmentPushed("OK")
    /\ mishaps' = mishaps \union (IF bSrcresult # "OK" THEN {"stale claim"} ELSE {})
    /\ UNCHANGED <<stream, connVars, sTask, sSrcresult, position, flushing, appVars,
                   readerVars, bSrcresult, downVars, readIndex, sendNewSegment, isFlushing, isEos>>

\* FULL was posted without the lock; the wait begins without another look, and nobody
\* ends it if the buffer was flushed or emptied meanwhile.
HLSFull ==
    /\ sAt = "hls full"
    /\ sAt' = "hls asleep"
    /\ mishaps' = mishaps \union (IF bSrcresult # "OK" \/ \A i \in Slots : writeReady[i]
                                  THEN {"lost wake-up"} ELSE {})
    /\ UNCHANGED <<stream, connVars, sTask, sResult, sSrcresult, pending, position, flushing, appVars,
                   readerVars, bSrcresult, downVars, hlsVars>>

HLSSpurious ==
    /\ sAt = "hls asleep"
    /\ sAt' = "hls woken"
    /\ UNCHANGED <<stream, connVars, sTask, sResult, sSrcresult, pending, position, flushing, appVars,
                   bufferVars, hlsVars>>

HLSWoken ==
    /\ sAt = "hls woken"
    /\ \/ /\ bSrcresult # "OK"
          /\ SegmentPushed("OK")
          /\ UNCHANGED <<caches, cacheSize, writeReady>>
       \/ /\ MustWait(writeIndex)
          /\ sAt' = "hls full"
          /\ UNCHANGED <<sResult, pending, caches, cacheSize, writeReady>>
       \/ /\ bSrcresult = "OK" /\ ~MustWait(writeIndex)
          /\ Prepare(writeIndex) /\ SegmentPushed("OK")
    /\ UNCHANGED <<stream, connVars, sTask, sSrcresult, position, flushing, appVars, bufferVars,
                   writeIndex, readIndex, sendNewSegment, isFlushing, isEos>>

\* chain(): an early look without the lock ...
HLSChain ==
    /\ stream.hls /\ sAt = "buffer" /\ flushing = {}
    /\ IF isFlushing \/ isEos THEN BufferPushed("FLUSHING")
                              ELSE sAt' = "hls write" /\ UNCHANGED <<sResult, pending>>
    /\ UNCHANGED <<stream, connVars, sTask, sSrcresult, position, flushing, appVars, bufferVars, hlsVars>>

\* Mutant: written even while it is flushed.
MayWriteAlways == TRUE

\* ... and the write, unless the buffer is being flushed.
MayWrite == bSrcresult # "FLUSHING"

HLSWrite ==
    /\ sAt = "hls write"
    /\ IF MayWrite
       THEN /\ caches' = [caches EXCEPT ![writeIndex] = cache_write_buffer(@, Chunk)]
            /\ SignalAdd
       ELSE UNCHANGED <<caches, bAt>>
    /\ BufferPushed("OK")
    /\ UNCHANGED <<stream, connVars, sTask, sSrcresult, position, flushing, appVars,
                   bTask, bResult, bBuffer, bSrcresult, downVars, mishaps,
                   cacheSize, writeReady, writeIndex, readIndex, sendNewSegment, isFlushing, isEos>>

\* EOS is only noted; it is for the reader to pass it on.
HLSEos ==
    /\ stream.hls /\ sAt = "eos" /\ flushing = {}
    /\ isEos' = TRUE
    /\ SignalAdd
    /\ Ends("EOS")
    /\ mishaps' = mishaps \union (IF isEos THEN {"end again"} ELSE {})
    /\ UNCHANGED <<stream, connVars, sTask, sSrcresult, pending, position, flushing, appVars,
                   bTask, bResult, bBuffer, bSrcresult, downVars, ringVars, sendNewSegment, isFlushing>>

HLSSourceSteps ==
    \/ HLSSegment \/ HLSRestart \/ HLSSendSegment \/ HLSClaim \/ HLSFull \/ HLSWoken
    \/ HLSChain \/ HLSWrite \/ HLSEos

-----------------------------------------------------------------------------
(* hls_progress_buffer_loop(), on the reader task. *)

\* Mutant: the writer is not told.
SignalDelNever == UNCHANGED sAt

\* g_cond_signal(del_cond)
SignalDel == sAt' = IF sAt = "hls asleep" THEN "hls woken" ELSE sAt

SlotDone(cache) == cache.read = cacheSize[readIndex]

\* A chunk is read; with the last one of its file the slot is free again, and
\* NOT_FULL is posted.
HLSRead ==
    /\ stream.hls /\ ReaderRuns
    /\ bSrcresult = "OK" /\ cache_has_enough_data(caches[readIndex])
    /\ LET cache == cache_read_buffer(caches[readIndex])
       IN  /\ bBuffer' = NextRead(caches[readIndex])
           /\ caches' = [caches EXCEPT ![readIndex] = cache]
           /\ IF SlotDone(cache)
              THEN /\ writeReady' = [writeReady EXCEPT ![readIndex] = TRUE]
                   /\ readIndex' = After(readIndex)
                   /\ SignalDel
              ELSE UNCHANGED <<writeReady, readIndex, sAt>>
    /\ bAt' = "push"
    /\ UNCHANGED <<stream, connVars, sTask, sResult, sSrcresult, pending, position, flushing, appVars,
                   bTask, bResult, bSrcresult, downVars, mishaps, cacheSize, writeIndex, sendNewSegment, isFlushing, isEos>>

\* Nothing to read: the end, or the wait on add_cond.
HLSNothing ==
    /\ stream.hls /\ ReaderRuns
    /\ bSrcresult = "OK" /\ ~cache_has_enough_data(caches[readIndex])
    /\ IF isEos
       THEN PushEosDown /\ bSrcresult' = "FLUSHING" /\ bAt' = "failed"
       ELSE bAt' = "asleep" /\ UNCHANGED <<downVars, bSrcresult>>
    /\ UNCHANGED <<sourceVars, bTask, bResult, bBuffer, mishaps, hlsVars>>

HLSStopped ==
    /\ stream.hls /\ ReaderRuns
    /\ bSrcresult # "OK"
    /\ bAt' = "failed"
    /\ UNCHANGED <<sourceVars, bTask, bResult, bBuffer, bSrcresult, downVars, mishaps, hlsVars>>

HLSPush ==
    /\ stream.hls /\ bAt = "push"
    /\ PushBufferDown(bBuffer)
    /\ bResult' = IF dFlushing THEN "FLUSHING" ELSE "OK"
    /\ bBuffer' = NoBuffer
    /\ bAt' = "merge"
    /\ UNCHANGED <<sourceVars, bTask, bSrcresult, mishaps, hlsVars>>

HLSMerge ==
    /\ stream.hls /\ bAt = "merge"
    /\ bSrcresult' = Merged(bSrcresult, bResult)
    /\ bResult' = "OK"
    /\ bAt' = IF bSrcresult' = "OK" THEN "idle" ELSE "failed"
    /\ UNCHANGED <<sourceVars, bTask, bBuffer, downVars, mishaps, hlsVars>>

\* After a failure the task is paused, unless the flush will do that.
HLSFailed ==
    /\ stream.hls /\ bAt = "failed"
    /\ bAt' = IF isFlushing THEN "idle" ELSE "pause"
    /\ UNCHANGED <<sourceVars, bTask, bResult, bBuffer, bSrcresult, downVars, mishaps, hlsVars>>

HLSPause ==
    /\ stream.hls /\ bAt = "pause"
    /\ bTask' = IF bTask = "stopped" THEN bTask ELSE "paused"
    /\ bAt' = "idle"
    /\ UNCHANGED <<sourceVars, bResult, bBuffer, bSrcresult, downVars, mishaps, hlsVars>>

HLSReaderSteps == HLSRead \/ HLSNothing \/ HLSStopped \/ HLSPush \/ HLSMerge \/ HLSFailed \/ HLSPause

-----------------------------------------------------------------------------
(* Seeks and the shutdown, on the application's thread. *)

\* hls_progress_buffer_flush_data()
FlushData ==
    /\ bSrcresult' = "FLUSHING"
    /\ SignalAdd /\ SignalDel
    /\ writeIndex' = -1 /\ readIndex' = 0
    /\ caches' = [i \in Slots |-> EmptyCache]
    /\ cacheSize' = [i \in Slots |-> 0]
    /\ writeReady' = [i \in Slots |-> TRUE]

HLSSeek(to) ==
    /\ stream.hls /\ app = "idle" /\ seeks < MaxSeeks
    /\ seeks' = seeks + 1
    /\ target' = to
    /\ app' = "flush start"
    /\ UNCHANGED <<stream, connVars, loopVars, position, flushing, bufferVars, hlsVars>>

\* FLUSH_START
HLSFlushFlag ==
    /\ app = "hls flag"
    /\ isFlushing' = TRUE
    /\ app' = "hls down"
    /\ UNCHANGED <<stream, connVars, loopVars, position, flushing, target, seeks, bufferVars,
                   ringVars, sendNewSegment, isEos>>

HLSFlushDown ==
    /\ app = "hls down"
    /\ FlushStartDown
    /\ app' = "hls data"
    /\ UNCHANGED <<stream, connVars, loopVars, position, flushing, target, seeks, readerVars, bSrcresult,
                   mishaps, hlsVars>>

HLSFlushData ==
    /\ app = "hls data"
    /\ FlushData
    /\ app' = "hls pause"
    /\ UNCHANGED <<stream, connVars, sTask, sResult, sSrcresult, pending, position, flushing, target, seeks,
                   bTask, bResult, bBuffer, downVars, mishaps, sendNewSegment, isFlushing, isEos>>

HLSPauseReader ==
    /\ app = "hls pause"
    /\ bTask' = "paused"
    /\ app' = "hls paused"
    /\ UNCHANGED <<stream, connVars, loopVars, position, flushing, target, seeks,
                   bAt, bResult, bBuffer, bSrcresult, downVars, mishaps, hlsVars>>

\* gst_pad_pause_task() waits for the reader's stream lock.
HLSReaderPaused ==
    /\ app = "hls paused" /\ ReaderIdle
    /\ app' = "mark"
    /\ UNCHANGED <<stream, connVars, loopVars, position, flushing, target, seeks, bufferVars, hlsVars>>

\* FLUSH_STOP, first downstream, whose stream lock a push may hold.
HLSFlushStopDown ==
    /\ app = "hls stop" /\ bAt # "push"
    /\ FlushStopDown
    /\ app' = "hls stopped"
    /\ UNCHANGED <<stream, connVars, loopVars, position, flushing, target, seeks, readerVars, bSrcresult,
                   mishaps, hlsVars>>

HLSFlushStop ==
    /\ app = "hls stopped"
    /\ sendNewSegment' = TRUE
    /\ isFlushing' = FALSE
    /\ bSrcresult' = "OK"
    /\ bTask' = IF isEos THEN bTask ELSE "started"
    /\ app' = "start"
    /\ UNCHANGED <<stream, connVars, loopVars, position, flushing, target, seeks,
                   bAt, bResult, bBuffer, downVars, mishaps, ringVars, isEos>>

\* PAUSED_TO_READY: downstream has been deactivated; change_state() flushes ...
HLSClose ==
    /\ stream.hls /\ app = "idle"
    /\ dFlushing' = TRUE
    /\ FlushData
    /\ app' = "hls deactivate"
    /\ UNCHANGED <<stream, connVars, sTask, sResult, sSrcresult, pending, position, flushing, target, seeks,
                   bTask, bResult, bBuffer, dSegment, out, dEos, mishaps, sendNewSegment, isFlushing, isEos>>

\* ... then the reader's pad is deactivated ...
HLSDeactivate ==
    /\ app = "hls deactivate"
    /\ bSrcresult' = "FLUSHING"
    /\ SignalAdd /\ SignalDel
    /\ bTask' = "stopped"
    /\ app' = "hls join"
    /\ UNCHANGED <<stream, connVars, sTask, sResult, sSrcresult, pending, position, flushing, target, seeks,
                   bResult, bBuffer, downVars, mishaps, hlsVars>>

HLSJoin ==
    /\ app = "hls join" /\ ReaderIdle
    /\ flushing' = {"sink"}
    /\ app' = "hls sink"
    /\ UNCHANGED <<stream, connVars, loopVars, position, target, seeks, bufferVars, hlsVars>>

\* ... and the sink pad, whose stream lock a handler on the source's thread holds.
InHandler == sAt \in {"hls restart", "hls segment", "hls claim", "hls full", "hls asleep", "hls woken", "hls write"}

HLSSinkJoin ==
    /\ app = "hls sink" /\ ~InHandler
    /\ app' = "stop source"
    /\ UNCHANGED <<stream, connVars, loopVars, position, flushing, target, seeks, bufferVars, hlsVars>>

HLSAppSteps ==
    \/ HLSFlushFlag \/ HLSFlushDown \/ HLSFlushData \/ HLSPauseReader \/ HLSReaderPaused
    \/ HLSFlushStopDown \/ HLSFlushStop
    \/ HLSDeactivate \/ HLSJoin \/ HLSSinkJoin
=============================================================================
