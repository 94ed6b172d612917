---------------------------- MODULE MediaStream -----------------------------
(***************************************************************************)
(* A media stream from the connection to the demuxer: the source, the      *)
(* buffer the pipeline factory puts behind it (one for HLS and one for     *)
(* other media), and the thread of the application that seeks and shuts    *)
(* the pipeline down.                                                      *)
(***************************************************************************)
EXTENDS HLSProgressBuffer, ProgressBuffer

vars == <<sourceVars, bufferVars, hlsVars, pbVars>>

Init ==
    /\ JavaSourceInit /\ MediaBufferInit /\ HLSInit /\ PBInit
    /\ bTask = IF stream.hls THEN "started" ELSE "stopped"

SourceThread ==
    \/ SourceSteps /\ UNCHANGED <<bufferVars, hlsVars, pbVars>>
    \/ HLSSourceSteps /\ UNCHANGED pbVars
    \/ PBSourceSteps /\ UNCHANGED hlsVars

ReaderThread ==
    \/ HLSReaderSteps /\ UNCHANGED pbVars
    \/ PBReaderSteps /\ UNCHANGED hlsVars

AppThread ==
    \/ SeekSteps /\ UNCHANGED <<bufferVars, hlsVars, pbVars>>
    \/ HLSAppSteps /\ UNCHANGED pbVars
    \/ PBAppSteps /\ UNCHANGED hlsVars

Requests ==
    \/ \E to \in Positions : HLSSeek(to) /\ UNCHANGED pbVars
    \/ \E to \in Positions : PBSeek(to) /\ UNCHANGED hlsVars
    \/ HLSClose /\ UNCHANGED pbVars
    \/ PBClose /\ UNCHANGED hlsVars

Spurious ==
    \/ SpuriousWakeUp /\ UNCHANGED <<hlsVars, pbVars>>
    \/ HLSSpurious /\ UNCHANGED pbVars

Next == SourceThread \/ ReaderThread \/ AppThread \/ Requests \/ Spurious

Spec == Init /\ [][Next]_vars

\* The three threads run; nobody has to seek or to close, and nobody is woken for
\* no reason.
FairSpec == Spec /\ WF_vars(SourceThread) /\ WF_vars(ReaderThread) /\ WF_vars(AppThread)

-----------------------------------------------------------------------------
(* The order of the medium. *)

InMedium(chunk) == chunk[1] \in 1..NumFiles /\ chunk[2] \in 1..stream.sizes[chunk[1]]

FirstChunk(at) == IF stream.hls THEN <<at, 1>> ELSE <<1, at + 1>>
NextChunk(chunk) == IF chunk[2] < stream.sizes[chunk[1]] THEN <<chunk[1], chunk[2] + 1>> ELSE <<chunk[1] + 1, 1>>
LastChunk == <<NumFiles, stream.sizes[NumFiles]>>

\* The chunks are those of the medium from a position on, to wherever they end.
MediumFrom(at, chunks) ==
    /\ \A i \in 1..Len(chunks) : InMedium(chunks[i])
    /\ chunks # <<>> => chunks[1] = FirstChunk(at)
    /\ \A i \in 1..(Len(chunks) - 1) : chunks[i + 1] = NextChunk(chunks[i])

Undisturbed == app = "idle" /\ mishaps = {}

\* Where the chunks are that were read from a file and not dropped: with the demuxer, the
\* reader, in a slot and not yet read, with the source.
Places ==
    {<<"out", 0, i>> : i \in 1..Len(out)}
    \union (IF bBuffer = NoBuffer THEN {} ELSE {<<"reader", 0, 0>>})
    \union (UNION {{<<"ring", i, b>> : b \in (caches[i].read + 1)..Len(caches[i].data)} : i \in Slots})
    \union (IF sAt \in {"buffer", "hls write"} THEN {<<"source", 0, 0>>} ELSE {})

ChunkAt(place) ==
    CASE place[1] = "out" -> out[place[3]]
      [] place[1] = "reader" -> bBuffer
      [] place[1] = "ring" -> caches[place[2]].data[place[3]]
      [] place[1] = "source" -> Chunk

\* The chunks that the connection has given since the last SEGMENT.
ReadSince(chunk) ==
    /\ chunk[1] \in dSegment..conn.file
    /\ chunk[2] \in 1..(IF chunk[1] = conn.file THEN conn.read ELSE stream.sizes[chunk[1]])

RingConserved ==
    stream.hls /\ Undisturbed /\ dSegment \in 1..NumFiles =>
        /\ \A f \in 1..NumFiles : \A b \in 1..stream.sizes[f] :
              ReadSince(<<f, b>>) <=> \E p \in Places : ChunkAt(p) = <<f, b>>
        /\ \A p, q \in Places : ChunkAt(p) = ChunkAt(q) => p = q

CachePlaced ==
    ~stream.hls /\ ~conn.lost =>
        \A i \in 1..Len(cache.data) : cache.data[i] = <<1, readOffset + i>>

\* No chunk is lost, doubled or overwritten between the connection and the demuxer, through
\* a ring whose slots are claimed by one thread and freed by another (hlsprogressbuffer.c),
\* as long as no seek is under way: each that was read is in one place, and no other is.
\* And the cache of a progressive download (progressbuffer.c) holds at offset i what the
\* medium holds at cache_read_offset + i, through all seeks, unless the pads or the buffer
\* refused data or a SEGMENT of a connection that then would not seek.
Conserved == RingConserved /\ CachePlaced

\* The very end was sought: HLSConnectionHolder goes on with the file it has come to.
BeyondEnd == stream.hls /\ dSegment = EndPosition

\* What the demuxer is given after a SEGMENT is the medium from the position of that SEGMENT
\* on, whatever seeks of the application cut across the two threads; and once a seek has
\* returned undisturbed it is the position that was sought.  (A pending SEGMENT that an
\* EOS wiped, progressbuffer.c:593, and a seek back in the cache after the source refused
\* it, progressbuffer.c:754, give data of another position.)
InOrder ==
    /\ out # <<>> /\ ~conn.lost /\ ~BeyondEnd
    /\ mishaps \intersect {"event dropped", "cannot go back"} = {}
    => /\ dSegment # NoPosition
       /\ MediumFrom(dSegment, out)
       /\ Undisturbed => dSegment = target

\* EOS reaches the demuxer after the last chunk of the medium and not before: EOS overtakes
\* the data in the source and waits for it in the buffers (is_eos, sink_segment.stop).
EosIsEnd ==
    dEos /\ mishaps = {} /\ failures = 0 /\ ~BeyondEnd /\ dSegment # NoPosition =>
        /\ MediumFrom(dSegment, out)
        /\ out # <<>> /\ out[Len(out)] = LastChunk

\* A chunk is only written into a slot that was claimed for its file and has room for it:
\* chain() reads cache_write_index, -1 after a flush, long after the handler of the SEGMENT
\* has let go of the lock.
SlotsValid ==
    sAt = "hls write" /\ MayWrite =>
        /\ writeIndex \in Slots
        /\ ~writeReady[writeIndex]
        /\ Len(caches[writeIndex].data) < cacheSize[writeIndex]

\* The races after which a seek does not return: the writer goes to sleep on del_cond after
\* the flush that should have woken it (hlsprogressbuffer.c:513-516 does not look again
\* after FULL is posted); it starts the reader again in the middle of a flush
\* (hlsprogressbuffer.c:470-476 is not locked); the reader replaces the FLUSHING it should
\* have seen by the OK of its push (progressbuffer.c:909).
Hangs == {"lost wake-up", "restart in flush", "flush overwritten"}

\* The thread of the application comes back from every seek, and from the shutdown: it
\* waits for the locks of two tasks that wait on two conditions.  Only the races above
\* can keep it.
SeekReturns == app # "idle" ~> app \in {"idle", "closed"} \/ mishaps \intersect Hangs # {}

\* The races and failures after which the end may never be reported: two of those above; a
\* slot claimed during a flush; a second end for which the reader is not started again
\* (hlsprogressbuffer.c:554); a pending event wiped by EOS (progressbuffer.c:593); a seek back
\* that the source refused; a download cut short because the demuxer once had enough
\* (unexpected, progressbuffer.c:917).
NoEnds == {"lost wake-up", "restart in flush", "stale claim", "end again",
           "event dropped", "cannot go back", "cut short"}

\* A read failed: the source pauses its task without EOS or error (javasource.c:696).
GaveUp == SourceIdle /\ sSrcresult = "FLUSHING"

\* Unless one of them happened, the pads refused data of a connection that would not seek,
\* or the connection broke, the end of the medium reaches the demuxer and stays.
PlaysToTheEnd == <>[](dEos \/ app = "closed" \/ mishaps \intersect NoEnds # {} \/ conn.lost \/ GaveUp)
=============================================================================
