------------------------- MODULE MediaStreamProofs --------------------------
(***************************************************************************)
(* Proofs about the data of a media stream, for every medium and every     *)
(* number of slots, of seeks and of failures.                              *)
(*                                                                         *)
(* HLS: a chunk is written with the index that the handler of a SEGMENT    *)
(* left behind many steps ago.  Meanwhile the application may have flushed *)
(* the ring, the pads may have refused the SEGMENT, and the reader may     *)
(* have freed slots.  The inductive invariant says from when to when the   *)
(* index can be relied on (SlotHeld) and why a flush is over only when the *)
(* source has a SEGMENT to send first (SoughtWaits).                       *)
(*                                                                         *)
(* Progressive download: the cache has no positions of its own; what it    *)
(* holds is the right part of the medium because it ends where the         *)
(* connection goes on (CacheMeetsConn), from every SEGMENT to the next.    *)
(*                                                                         *)
(* The demuxer gets the medium in order and to its end, because reader and *)
(* source go on where they are.  In a download the SEGMENT that waits is   *)
(* for what is read next from the cache (DeliveryInv).  In the ring n      *)
(* files lie one after the other from the slot that is read on, and the    *)
(* source has the file after those (RingDeliveryInv); a slot that was      *)
(* claimed during a flush leaves the reader waiting for ever (Stuck).      *)
(***************************************************************************)
EXTENDS MediaStream, SequenceTheorems, TLAPS

-----------------------------------------------------------------------------
(* The inductive invariant of an HLS stream. *)

SourcePlaces == {"idle", "start", "size", "sized", "none", "segment", "hls restart", "hls segment",
                 "hls claim", "hls full", "hls asleep", "hls woken", "read", "buffer", "hls write",
                 "eos", "merge"}

AppPlaces == {"idle", "flush start", "hls flag", "hls down", "hls data", "hls pause", "hls paused", "mark",
              "seek data", "flush stop", "hls stop", "hls stopped", "start", "hls deactivate", "hls join",
              "hls sink", "stop source", "join source", "closed"}

\* A cache file never gives more than was written into it.
CacheFile == {c \in [data : Seq(Nat \X Nat), read : Nat] : c.read <= Len(c.data)}

RingOK ==
    /\ caches \in [Slots -> CacheFile]
    /\ cacheSize \in [Slots -> Nat]
    /\ writeReady \in [Slots -> BOOLEAN]
    /\ writeIndex \in Slots \union {-1} /\ readIndex \in Slots

ConnOK ==
    /\ conn \in [next : 1..EndPosition, file : 1..NumFiles, read : Nat, lost : BOOLEAN]
    /\ conn.read <= stream.sizes[conn.file]
    /\ target \in 1..EndPosition

\* No other element's places; the results that the ring has.
PlacesOK ==
    /\ sAt \in SourcePlaces /\ app \in AppPlaces
    /\ bSrcresult \in {"OK", "FLUSHING"} /\ bResult \in {"OK", "FLUSHING"}

Events == {"STREAM_START", "SEGMENT", "EOS", "UNKNOWN"}

\* The event that is pending is the one being sent.
SendsPending ==
    /\ sAt \in {"size", "sized", "none", "segment", "hls restart", "hls segment", "hls claim",
                "hls full", "hls asleep", "hls woken"} => pending = "SEGMENT"
    /\ sAt \in {"read", "buffer", "hls write"} => pending = "UNKNOWN"
    /\ sAt = "start" => pending = "STREAM_START"
    /\ sAt = "eos" => pending = "EOS"
    /\ pending \in Events

\* From SEEK_DATA until the task is started again the source rests and has to send a
\* SEGMENT first.
SoughtWaits ==
    app \in {"flush stop", "hls stop", "hls stopped", "start"} =>
        sAt = "idle" /\ sTask # "started" /\ pending = "SEGMENT"

\* While the writer waits for a slot, the slot it waits for is known, unless it was flushed.
ClaimKnown ==
    sAt \in {"hls full", "hls asleep", "hls woken"} /\ bSrcresult = "OK" => writeIndex \in Slots

\* The source is between the SEGMENT of a file and the end of that file.
InFile ==
    \/ sAt \in {"read", "buffer", "hls write"}
    \/ sAt \in {"idle", "merge"} /\ pending = "UNKNOWN"

\* Chunks of the file that were pushed to the buffer; one may be on its way.
Arrived == IF sAt \in {"buffer", "hls write"} THEN conn.read - 1 ELSE conn.read

\* Unless it is flushed, or the pads refuse what comes, the write slot is one that was
\* prepared for the file at hand; it has not more than was read of the file, and if the
\* reader has freed it then because it had read the whole file.
SlotHeld ==
    InFile /\ bSrcresult = "OK" /\ (flushing = {} \/ sAt = "hls write") =>
        /\ writeIndex \in Slots
        /\ cacheSize[writeIndex] = stream.sizes[conn.file]
        /\ Len(caches[writeIndex].data) <= Arrived
        /\ writeReady[writeIndex] => caches[writeIndex].read = cacheSize[writeIndex]

RingInv == RingOK /\ ConnOK /\ PlacesOK /\ SendsPending /\ SoughtWaits /\ ClaimKnown /\ SlotHeld

-----------------------------------------------------------------------------
(* The inductive invariant of a progressive download. *)

DownloadSourcePlaces == {"idle", "start", "segment", "read", "buffer", "pb pad", "eos", "merge"}

DownloadAppPlaces == {"idle", "pb mark", "pb lock", "pb ask", "flush start", "mark", "seek data", "flush stop",
                      "flush stop refused", "start", "start refused", "sought", "refused", "pb stop", "pb start",
                      "pb join", "pb sink", "stop source", "join source", "closed"}

\* The sink pad has been deactivated.
Closing == app \in {"pb sink", "stop source", "join source", "closed"}

DownloadTypes ==
    /\ conn \in [next : Nat, file : {1}, read : Nat, lost : BOOLEAN] /\ conn.read <= stream.sizes[1]
    /\ target \in 0..stream.sizes[1] /\ position \in 0..stream.sizes[1]
    /\ readOffset \in Nat
    /\ cache \in [data : Seq(Nat \X Nat), read : Nat]
    /\ segment \in [start : Nat, position : Nat, stop : Nat]

DownloadPlaces ==
    /\ sAt \in DownloadSourcePlaces /\ app \in DownloadAppPlaces
    /\ sAt = "segment" => pending = "SEGMENT"
    /\ sAt \in {"read", "buffer", "pb pad"} => pending = "UNKNOWN"
    /\ sAt = "start" => pending = "STREAM_START"
    /\ sAt = "eos" => pending = "EOS"
    /\ pending \in Events
    /\ Closing => flushing # {}

\* The SEGMENT that is to be sent has the position of the connection.
SegmentAtConn == pending \in {"STREAM_START", "SEGMENT"} => conn.read = position

\* The segment ends with the medium as long as there is data to come.
StopIsEnd == pending = "UNKNOWN" /\ ~conn.lost /\ ~Closing => segment.stop = stream.sizes[1]

\* Chunks up to which the cache has the medium.
Come == IF sAt = "buffer" THEN conn.read - 1 ELSE conn.read

\* The cache ends where the connection goes on; a chunk that was answered with EOS is the last.
CacheMeetsConn ==
    pending = "UNKNOWN" /\ ~conn.lost /\ ~(sAt = "pb pad" /\ sResult = "EOS") =>
        readOffset + Len(cache.data) = Come

DownloadInv == DownloadTypes /\ DownloadPlaces /\ SegmentAtConn /\ StopIsEnd /\ CacheMeetsConn /\ CachePlaced

Inv ==
    /\ stream \in Streams
    /\ stream.hls => RingInv
    /\ ~stream.hls => DownloadInv

-----------------------------------------------------------------------------
(* The inductive invariant of what a progressive download gives to the demuxer. *)

ReaderPlaces == {"idle", "asleep", "woken", "next", "event", "push", "merge", "pause"}

\* The application's thread holds the reader's stream lock; it seeks; it closes.
LockedPlaces == {"pb ask", "flush start", "mark", "seek data", "flush stop", "flush stop refused",
                 "start", "start refused", "sought", "refused", "pb stop"}
Seeking == app \in LockedPlaces \union {"pb mark", "pb lock"}
Closed == Closing \/ app = "pb join"

Size == stream.sizes[1]

EventTypes == [type : {"SEGMENT", "EOS"}, at : Int]
SegmentWaits == pendingSrc # NoEvent /\ pendingSrc.type = "SEGMENT"
EosWaits == pendingSrc # NoEvent /\ pendingSrc.type = "EOS"
SegmentInHand == bAt = "event" /\ bBuffer.type = "SEGMENT"
EosInHand == bAt = "event" /\ bBuffer.type = "EOS"

ReaderTypes ==
    /\ bAt \in ReaderPlaces
    /\ bSrcresult \in {"OK", "FLUSHING", "EOS"} /\ bResult \in {"OK", "FLUSHING"}
    /\ pendingSrc \in EventTypes \union {NoEvent}
    /\ out \in Seq(Nat \X Nat) /\ dSegment \in Int
    /\ failures \in Nat
    /\ cache.data \in Seq({1} \X (1..Size))

HandTypes ==
    /\ bAt = "push" => bBuffer \in {1} \X (1..Size)
    /\ bAt = "event" => bBuffer \in EventTypes
    /\ SegmentInHand => bBuffer.at \in 0..(Size - 1)
    /\ SegmentWaits => pendingSrc.at \in 0..(Size - 1)
    /\ position \in 0..(Size - 1) /\ target \in 0..(Size - 1)
    /\ dSegment \in 0..(Size - 1) \union {NoPosition}

\* The demuxer is flushing during a seek and once the pads are deactivated; meanwhile the
\* reader rests, from when the seek has its lock.
FlushKnown == dFlushing <=> Seeking \/ Closed
ReaderRests ==
    app \in LockedPlaces \union {"pb start"} => bAt = "idle" /\ bTask # "started" /\ bSrcresult = "OK"

\* What srcresult says and where the reader is.
ResultKnown ==
    /\ skip => bAt \in {"next", "asleep", "woken"}
    /\ ~dFlushing => bSrcresult # "FLUSHING" /\ (bAt = "merge" => bSrcresult = "OK" /\ bResult = "OK")
    /\ bSrcresult = "EOS" => bAt \in {"idle", "pause", "event"} /\ (bAt = "event" => EosInHand)
    /\ EosInHand /\ ~dFlushing => bSrcresult = "EOS"
    /\ dEos /\ ~dFlushing => bSrcresult = "EOS" /\ bAt \in {"idle", "pause"}

\* Before the first chunk there is no reader, and nothing is sought.
NoReaderYet ==
    /\ ~hasSrcpad => /\ ~Seeking /\ app # "pb start"
                     /\ bTask = "stopped" /\ bAt = "idle" /\ bSrcresult # "EOS"
                     /\ out = <<>> /\ dSegment = NoPosition /\ ~dEos
                     /\ target = position
    /\ sAt = "pb pad" => ~hasSrcpad

\* The source rests from SEEK_DATA until it is started again; the pads flush during a
\* seek and once they are deactivated; a refused seek is a failure.
SourceKnown ==
    /\ app \in {"flush stop", "start"} => sAt = "idle" /\ sTask # "started" /\ pending = "SEGMENT"
    /\ flushing # {} <=> Closing \/ app \in {"mark", "seek data", "flush stop", "flush stop refused"}
    /\ app \in {"flush stop refused", "start refused", "refused"} => failures > 0
    /\ sAt = "buffer" => conn.read > 0
    /\ ~Closing => segment.start = readOffset

ReaderInv == ReaderTypes /\ HandTypes /\ FlushKnown /\ ReaderRests /\ ResultKnown /\ NoReaderYet /\ SourceKnown

\* What InOrder and EosIsEnd take for granted.
NothingMisplaced == ~conn.lost /\ mishaps \intersect {"event dropped", "cannot go back"} = {}
NothingHappened == mishaps = {} /\ failures = 0
Good == NothingMisplaced \/ NothingHappened

Placed(at, chunks) == \A i \in 1..Len(chunks) : chunks[i] = <<1, at + i>>

\* The chunks that the demuxer has are those from the SEGMENT on, and so is the next one.
GivenPlaced ==
    Good /\ out # <<>> => dSegment # NoPosition /\ dSegment + Len(out) <= Size /\ Placed(dSegment, out)
InHandIsNext ==
    Good /\ bAt = "push" /\ ~dFlushing => dSegment # NoPosition /\ bBuffer = <<1, dSegment + Len(out) + 1>>

\* The SEGMENT that waits, or was taken, is for what is read next from the cache.
SegmentIsNext ==
    /\ Good /\ SegmentWaits => pendingSrc.at = readOffset + cache.read
    /\ Good /\ SegmentInHand /\ ~SegmentWaits /\ instantSeek /\ ~dFlushing => bBuffer.at = readOffset + cache.read
    /\ Good /\ app \in LockedPlaces /\ instantSeek => SegmentWaits
    /\ Good /\ ~hasSrcpad /\ ~Closing /\ instantSeek => SegmentWaits

\* With no SEGMENT to come, the cache goes on where the demuxer stands.
CacheIsNext ==
    Good /\ ~SegmentWaits /\ instantSeek /\ bSrcresult = "OK" /\ ~skip /\ bAt # "event" /\ ~dFlushing /\ hasSrcpad =>
        /\ dSegment # NoPosition
        /\ readOffset + cache.read = dSegment + Len(out) + (IF bAt = "push" THEN 1 ELSE 0)

OrderInv == GivenPlaced /\ InHandIsNext /\ SegmentIsNext /\ CacheIsNext

\* The SEGMENT of a seek is for its target, unless a SEGMENT has overtaken the seek.
SoughtIsTarget ==
    /\ mishaps = {} /\ app \in {"pb ask", "flush start", "mark", "seek data"} => ~instantSeek /\ ~SegmentWaits
    /\ mishaps = {} /\ app \in {"flush stop", "start", "sought", "pb stop", "pb start", "idle"} =>
          /\ SegmentWaits => pendingSrc.at = target
          /\ pending \in {"STREAM_START", "SEGMENT"} /\ (~instantSeek \/ ~hasSrcpad) => position = target
    /\ mishaps = {} /\ app \in {"idle", "pb start"} =>
          /\ SegmentInHand => bBuffer.at = target
          /\ dSegment \in {NoPosition, target}

\* The cache reaches to the end of the medium.
Full == readOffset + Len(cache.data) >= Size

CacheToEnd == \A i \in 1..Len(cache.data) : readOffset + i <= Size => cache.data[i] = <<1, readOffset + i>>

\* Unless something happened, the cache has the medium up to where the connection is, ...
CacheGrows ==
    /\ NothingHappened => CacheToEnd
    /\ NothingHappened /\ pending = "UNKNOWN" /\ flushing = {} => Full \/ readOffset + Len(cache.data) = Come
    /\ NothingHappened /\ pending = "UNKNOWN" /\ flushing = {} /\ Come = Size => segment.position = Size /\ Full
    /\ NothingHappened /\ pending = "EOS" /\ flushing = {} => segment.position = Size /\ Full
    /\ NothingHappened /\ eosStatus => Full
    /\ mishaps = {} /\ sAt = "pb pad" => sResult # "EOS"

\* ... the segment ends with the medium, ...
StopsAtEnd ==
    NothingHappened /\ ~Closing =>
        \/ segment.stop = Size
        \/ /\ pending \in {"STREAM_START", "SEGMENT"} /\ sAt # "pb pad"
           /\ ~hasSrcpad /\ ~instantSeek /\ ~eosStatus

\* ... and EOS comes after the last chunk.
EosIsLast ==
    /\ NothingHappened => ~skip
    /\ EosWaits => instantSeek
    /\ NothingHappened /\ ~Closing /\ EosWaits => readOffset + cache.read = Size
    /\ NothingHappened /\ instantSeek /\ bSrcresult = "OK" /\ ~EosWaits /\ ~dFlushing => readOffset + cache.read < Size
    /\ NothingHappened /\ EosInHand /\ ~dFlushing => dSegment # NoPosition /\ dSegment + Len(out) = Size
    /\ NothingHappened /\ dEos /\ dSegment # NoPosition => dSegment + Len(out) = Size

EndInv == CacheGrows /\ StopsAtEnd /\ EosIsLast

DeliveryInv == ReaderInv /\ OrderInv /\ SoughtIsTarget /\ EndInv

-----------------------------------------------------------------------------
(* The inductive invariant of what an HLS stream gives to the demuxer. *)

\* The ring is in use; it has been flushed for a seek; and the reader rests too.
Flowing == app \in {"idle", "flush start", "hls flag", "hls down"}
RestPlaces == {"mark", "seek data", "flush stop", "hls stop", "hls stopped", "start"}
Flushed == app \in {"hls pause", "hls paused"} \union RestPlaces

\* The source waits for a slot; it has opened a file and has no slot for it yet.
WaitPlaces == {"hls full", "hls asleep", "hls woken"}
OpenPlaces == {"sized", "segment", "hls restart", "hls segment", "hls claim"} \union WaitPlaces

\* The loop of the source is about to end with an error.
Halted == (sAt = "idle" /\ sSrcresult # "OK") \/ (sAt = "merge" /\ sResult # "OK")

HLSTypes ==
    /\ out \in Seq(Nat \X Nat) /\ failures \in Nat
    /\ bAt = "push" => bBuffer \in Nat \X Nat
    /\ bAt # "push" => bBuffer = NoBuffer
    /\ position \in 1..EndPosition

\* The demuxer flushes from "hls down" to "hls stop" and once it is deactivated; the pads flush
\* from a little earlier on; a seek has brought the connection to its position.
PhasesKnown ==
    /\ dFlushing <=> ~Flowing /\ app \notin {"hls stopped", "start"}
    /\ app \in {"idle", "flush start", "hls stop", "hls stopped", "start"} => flushing = {}
    /\ app \in {"hls flag", "hls down", "hls data", "hls pause", "hls paused", "mark", "seek data", "flush stop"} =>
          flushing = {"src", "sink"}
    /\ app \in {"start", "idle", "flush start", "hls flag"} => ~isFlushing
    /\ app \in {"idle", "flush stop", "hls stop", "hls stopped", "start"} => position = target
    /\ app \in {"flush stop", "hls stop", "hls stopped", "start"} /\ position <= NumFiles => conn.next = position

\* Who has stopped, and when the end is still to be seen.
StopsKnown ==
    /\ Flowing => bSrcresult = "OK" \/ (pending = "EOS" /\ isEos)
    /\ Flowing /\ bAt = "merge" => bResult = "OK"
    /\ Flowing /\ sAt \notin {"idle", "merge"} => sSrcresult = "OK"
    /\ app \in RestPlaces => bAt \notin {"push", "merge"}
    /\ isEos /\ (app \in RestPlaces \/ (Flowing /\ pending # "EOS")) => bTask # "started" /\ bAt = "idle"
    /\ isEos /\ Flowing /\ pending # "EOS" =>
          sendNewSegment /\ sAt \notin {"hls segment", "hls claim", "hls write"} \union WaitPlaces
    /\ Flowing /\ dEos => bSrcresult # "OK" /\ bAt # "push"

\* Since the flush no SEGMENT has been sent, or that of the position.
SegmentSent ==
    /\ app \in {"hls stopped", "start"} => dSegment = NoPosition /\ out = <<>> /\ ~dEos
    /\ app = "start" => sendNewSegment /\ bSrcresult = "OK"
    /\ Flowing /\ sendNewSegment =>
          /\ dSegment = NoPosition /\ out = <<>> /\ bAt # "push"
          /\ \A i \in Slots : caches[i].data = <<>>
          /\ sAt \notin {"hls claim", "hls write"} \union WaitPlaces
          /\ pending = "UNKNOWN" => flushing # {}
    /\ Flowing /\ ~sendNewSegment => dSegment = position /\ pending # "STREAM_START"

\* A flushed ring stays empty; a slot that was claimed meanwhile is a mishap.
RingFlushed ==
    Flushed =>
        /\ readIndex = 0 /\ \A i \in Slots : caches[i].data = <<>>
        /\ \/ writeIndex = -1 /\ \A i \in Slots : writeReady[i]
           \/ ~writeReady[0] /\ mishaps # {}
        /\ sAt = "hls write" => bSrcresult # "OK"
        /\ bSrcresult = "OK" => app = "start" \/ mishaps # {}

\* Then the reader waits for a file that nobody writes.
Stuck ==
    /\ mishaps # {} /\ out = <<>> /\ bAt # "push"
    /\ ~writeReady[readIndex] /\ caches[readIndex].data = <<>>
    /\ pending = "UNKNOWN" /\ (flushing = {} \/ sAt = "hls write") => writeIndex # readIndex

\* How far a slot is from the one that is read.
Gap(r, i) == IF i >= r THEN i - r ELSE i + NumCached - r
Dist(i) == Gap(readIndex, i)

\* Slot i has (the beginning of) file f.
Holds(i, f) ==
    /\ ~writeReady[i] /\ f <= NumFiles /\ cacheSize[i] = stream.sizes[f]
    /\ caches[i].read < cacheSize[i] /\ Len(caches[i].data) <= cacheSize[i]
    /\ \A b \in 1..Len(caches[i].data) : caches[i].data[b] = <<f, b>>

NextSlot == IF sAt \in WaitPlaces THEN writeIndex ELSE After(writeIndex)

\* n files from `first' on are in the ring, all but the last to their end.
RingHolds(first, n) ==
    /\ \A i \in Slots : Dist(i) < n => Holds(i, first + Dist(i)) /\ (Dist(i) > 0 => caches[i].read = 0)
    /\ \A i \in Slots : Dist(i) < n - 1 => Len(caches[i].data) = cacheSize[i]
    /\ \A i \in Slots : Dist(i) >= n => writeReady[i] /\ caches[i].read = Len(caches[i].data)
    /\ NextSlot \in Slots /\ (IF n < NumCached THEN Dist(NextSlot) = n ELSE NextSlot = readIndex)

\* The source goes on with the file after those, or writes the last of them.
SourceGoesOn(next, n) ==
    /\ sAt \in OpenPlaces => conn.file = next /\ conn.read = 0 /\ conn.next = next + 1
    /\ pending \in {"STREAM_START", "SEGMENT"} /\ sAt \notin OpenPlaces \union {"none"} => conn.next = next
    /\ ~sendNewSegment /\ pending \in {"SEGMENT", "EOS"} /\ sAt \notin OpenPlaces =>
          conn.file = next - 1 /\ conn.read = stream.sizes[conn.file]
    /\ pending # "UNKNOWN" => \A i \in Slots : Dist(i) = n - 1 => Len(caches[i].data) = cacheSize[i]
    /\ pending = "UNKNOWN" /\ ~(Halted /\ flushing # {}) =>
          /\ conn.file = next - 1 /\ conn.next = next
          /\ \A i \in Slots : Dist(i) = n - 1 => Len(caches[i].data) = Arrived
          /\ n = 0 => Arrived = stream.sizes[conn.file]
    /\ failures = 0 /\ (sAt = "none" \/ pending = "EOS") => next = EndPosition

Before(c, d) == c[1] < d[1] \/ (c[1] = d[1] /\ c[2] < d[2])

\* What the reader reads next, and what it gives next.
ReadNext(first, n) == <<first, IF n = 0 THEN 1 ELSE caches[readIndex].read + 1>>
GiveNext(first, n) == IF bAt = "push" THEN bBuffer ELSE ReadNext(first, n)

\* The demuxer has what comes before that.
ReaderGoesOn(first, n) ==
    /\ sendNewSegment => n = 0
    /\ bAt = "push" => InMedium(bBuffer) /\ NextChunk(bBuffer) = ReadNext(first, n)
    /\ out = <<>> => GiveNext(first, n) = <<position, 1>>
    /\ out # <<>> => NextChunk(out[Len(out)]) = GiveNext(first, n)
    /\ ~sendNewSegment =>
          \A f \in 1..NumFiles : \A b \in 1..stream.sizes[f] :
              (\E i \in 1..Len(out) : out[i] = <<f, b>>) <=> position <= f /\ Before(<<f, b>>, GiveNext(first, n))

Goes(first, n) == RingHolds(first, n) /\ SourceGoesOn(first + n, n) /\ ReaderGoesOn(first, n)

RingGoes ==
    Flowing /\ position <= NumFiles =>
        Stuck \/ \E first \in 1..EndPosition, n \in 0..NumCached : first + n <= EndPosition /\ Goes(first, n)

\* What the demuxer has.
HLSGiven ==
    /\ dSegment \in {NoPosition} \union 1..EndPosition
    /\ out # <<>> => dSegment # NoPosition
    /\ dSegment \in 1..NumFiles =>
          /\ MediumFrom(dSegment, out)
          /\ \A i, j \in 1..Len(out) : out[i] = out[j] => i = j
          /\ dEos /\ mishaps = {} /\ failures = 0 => out # <<>> /\ out[Len(out)] = LastChunk

RingDeliveryInv == HLSTypes /\ PhasesKnown /\ StopsKnown /\ SegmentSent /\ RingFlushed /\ RingGoes /\ HLSGiven

-----------------------------------------------------------------------------
(* Facts about the operators of the model. *)

\* A cache file stays one when a chunk is appended or read (filecache.c).
LEMMA CacheFacts ==
    /\ EmptyCache \in CacheFile /\ Len(EmptyCache.data) = 0
    /\ \A c \in CacheFile, chunk \in Nat \X Nat :
          /\ cache_write_buffer(c, chunk) \in CacheFile
          /\ Len(cache_write_buffer(c, chunk).data) = Len(c.data) + 1
          /\ cache_write_buffer(c, chunk).read = c.read
    /\ \A c \in CacheFile : cache_has_enough_data(c) =>
          /\ cache_read_buffer(c) \in CacheFile
          /\ cache_read_buffer(c).data = c.data
          /\ cache_read_buffer(c).read = c.read + 1
<1>1. EmptyCache \in CacheFile /\ Len(EmptyCache.data) = 0
    BY DEF CacheFile, EmptyCache
<1>2. ASSUME NEW c \in CacheFile, NEW chunk \in Nat \X Nat
      PROVE  /\ cache_write_buffer(c, chunk) \in CacheFile
             /\ Len(cache_write_buffer(c, chunk).data) = Len(c.data) + 1
             /\ cache_write_buffer(c, chunk).read = c.read
  <2>1. /\ c \in [data : Seq(Nat \X Nat), read : Nat] /\ c.read <= Len(c.data)
        /\ c.data \in Seq(Nat \X Nat) /\ c.read \in Nat
    BY DEF CacheFile
  <2>2. /\ Append(c.data, chunk) \in Seq(Nat \X Nat)
        /\ Len(Append(c.data, chunk)) = Len(c.data) + 1 /\ Len(c.data) \in Nat
    BY <2>1, AppendProperties, LenProperties
  <2>3. /\ cache_write_buffer(c, chunk) \in [data : Seq(Nat \X Nat), read : Nat]
        /\ cache_write_buffer(c, chunk).data = Append(c.data, chunk)
        /\ cache_write_buffer(c, chunk).read = c.read
    BY <2>1, <2>2 DEF cache_write_buffer
  <2> QED
    BY <2>1, <2>2, <2>3 DEF CacheFile
<1>3. ASSUME NEW c \in CacheFile, cache_has_enough_data(c)
      PROVE  /\ cache_read_buffer(c) \in CacheFile
             /\ cache_read_buffer(c).data = c.data
             /\ cache_read_buffer(c).read = c.read + 1
  <2>1. /\ c \in [data : Seq(Nat \X Nat), read : Nat] /\ c.read < Len(c.data)
        /\ Len(c.data) \in Nat /\ c.read + 1 \in Nat
    BY <1>3, LenProperties DEF CacheFile, cache_has_enough_data
  <2>2. /\ cache_read_buffer(c) \in [data : Seq(Nat \X Nat), read : Nat]
        /\ cache_read_buffer(c).data = c.data
        /\ cache_read_buffer(c).read = c.read + 1
    BY <2>1 DEF cache_read_buffer
  <2> QED
    BY <2>1, <2>2 DEF CacheFile
<1> QED
    BY <1>1, <1>2, <1>3

\* The slot after a slot, or after none, is a slot.
LEMMA AfterIsSlot == \A i \in Slots \union {-1} : After(i) \in Slots
    BY NumCachedAssumption DEF Slots, After

\* There is a slot to begin with.
LEMMA FirstSlot == 0 \in Slots
    BY NumCachedAssumption DEF Slots

\* The medium is fixed, and its files have sizes.
LEMMA SizesFacts ==
    ASSUME stream \in Streams
    PROVE  /\ NumFiles \in Nat \ {0} /\ EndPosition = NumFiles + 1
           /\ \A f \in 1..NumFiles : stream.sizes[f] \in Nat \ {0}
    BY StreamsAssumption DEF NumFiles, EndPosition

\* The invariant holds of every medium at the start.
LEMMA InitInv == Init => Inv
<1> SUFFICES ASSUME Init PROVE Inv
    OBVIOUS
<1> USE DEF Init, JavaSourceInit
<1>1. stream \in Streams /\ sAt = "idle"
    OBVIOUS
<1>2. ASSUME stream.hls PROVE RingInv
  <2>1. RingOK
    BY CacheFacts, NumCachedAssumption DEF HLSInit, RingInit, RingOK, Slots
  <2>2. ConnOK
    BY <1>1, <1>2, SizesFacts DEF ConnOK
  <2>3. PlacesOK
    BY DEF PlacesOK, MediaBufferInit, SourcePlaces, AppPlaces
  <2>4. SendsPending /\ SoughtWaits /\ ClaimKnown /\ SlotHeld
    BY DEF SendsPending, SoughtWaits, ClaimKnown, SlotHeld, InFile, Events
  <2> QED
    BY <2>1, <2>2, <2>3, <2>4 DEF RingInv
<1>3. ASSUME ~stream.hls PROVE DownloadInv
  <2>1. stream.sizes[1] \in Nat
    BY <1>1, SizesFacts
  <2>2. DownloadTypes
    BY <1>3, <2>1, CacheFacts DEF DownloadTypes, PBInit, EmptyCache
  <2>3. DownloadPlaces
    BY DEF DownloadPlaces, DownloadSourcePlaces, DownloadAppPlaces, Events, Closing
  <2>4. SegmentAtConn /\ StopIsEnd /\ CacheMeetsConn
    BY <1>3 DEF SegmentAtConn, StopIsEnd, CacheMeetsConn
  <2>5. CachePlaced
    BY DEF CachePlaced, PBInit, EmptyCache
  <2> QED
    BY <2>2, <2>3, <2>4, <2>5 DEF DownloadInv
<1> QED
    BY <1>1, <1>2, <1>3 DEF Inv

-----------------------------------------------------------------------------
(* Steps that leave the ring and the connection alone. *)

\* The ring and the connection stay in order if nobody touches them.
LEMMA RingFrame == RingOK /\ UNCHANGED ringVars => RingOK'
    BY DEF RingOK, ringVars

\* So does the connection.
LEMMA ConnFrame == ConnOK /\ UNCHANGED <<stream, conn, target>> => ConnOK'
    BY DEF ConnOK, EndPosition, NumFiles

\* The control of the source and of the buffer: what RingInv says beside RingOK and ConnOK.
Control == PlacesOK /\ SendsPending /\ SoughtWaits /\ ClaimKnown /\ SlotHeld

\* A step of another thread that leaves the source and the ring alone does no harm, unless it
\* ends a flush.
LEMMA ControlFrame ==
    ASSUME Control, UNCHANGED <<stream, conn, sAt, sTask, pending, flushing, ringVars>>,
           bResult' \in {"OK", "FLUSHING"}, bSrcresult' \in {"OK", "FLUSHING"},
           bSrcresult' = bSrcresult \/ bSrcresult' = "FLUSHING",
           app' = app \/ app' \in AppPlaces \ {"flush stop", "hls stop", "hls stopped", "start"}
    PROVE  Control'
<1>1. PlacesOK'
    BY DEF Control, PlacesOK, AppPlaces
<1>2. SendsPending'
    BY DEF Control, SendsPending
<1>3. SoughtWaits'
    BY DEF Control, SoughtWaits
<1>4. ClaimKnown'
    BY DEF Control, ClaimKnown, ringVars
<1>5. SlotHeld'
    BY DEF Control, SlotHeld, InFile, Arrived, ringVars
<1> QED
    BY <1>1, <1>2, <1>3, <1>4, <1>5 DEF Control

\* The task of the source leaves the ring to the buffer; what it reads from the connection is
\* counted in conn.read.
LEMMA SourceStep ==
    ASSUME stream \in Streams, stream.hls, RingInv, SourceSteps, UNCHANGED <<bufferVars, hlsVars>>
    PROVE  RingInv'
<1> USE DEF connVars, loopVars, appVars, bufferVars, readerVars, downVars, hlsVars, ringVars, sourceVars
<1>1. CASE LoopBegins
  <2>1. RingOK' /\ ConnOK'
    BY <1>1, RingFrame, ConnFrame DEF RingInv, LoopBegins, NextEvent, Ends
  <2>2. Control'
    BY <1>1, ZenonT(30) DEF RingInv, Control, PlacesOK, SendsPending, SoughtWaits, ClaimKnown, SlotHeld, InFile, Arrived,
           SourcePlaces, AppPlaces, Events,
           LoopBegins, NextEvent, Ends
  <2> QED
    BY <2>1, <2>2 DEF RingInv, Control
<1>2. CASE PushStreamStart
  <2>1. RingOK' /\ ConnOK'
    BY <1>2, RingFrame, ConnFrame DEF RingInv, PushStreamStart, Ends
  <2>2. Control'
    BY <1>2 DEF RingInv, Control, PlacesOK, SendsPending, SoughtWaits, ClaimKnown, SlotHeld, InFile, Arrived,
           SourcePlaces, AppPlaces, Events,
           PushStreamStart, Ends
  <2> QED
    BY <2>1, <2>2 DEF RingInv, Control
<1>3. CASE GetStreamSize
  <2>1. RingOK'
    BY <1>3, RingFrame DEF RingInv, GetStreamSize
  <2>2. ConnOK'
    <3>1. /\ conn \in [next : 1..(NumFiles + 1), file : 1..NumFiles, read : Nat, lost : BOOLEAN]
          /\ conn.next \in 1..(NumFiles + 1) /\ conn.file \in 1..NumFiles /\ conn.read \in Nat
          /\ conn.read <= stream.sizes[conn.file] /\ target \in 1..(NumFiles + 1)
      BY SizesFacts DEF RingInv, ConnOK
    <3>2. stream' = stream /\ NumFiles' = NumFiles /\ EndPosition' = NumFiles + 1 /\ target' = target
      BY <1>3, SizesFacts DEF GetStreamSize, NumFiles, EndPosition
    <3>3. CASE /\ conn.next <= NumFiles
               /\ conn' = [conn EXCEPT !.next = @ + 1, !.file = conn.next, !.read = 0]
      <4>1. conn.next + 1 \in 1..(NumFiles + 1) /\ conn.next \in 1..NumFiles /\ 0 <= stream.sizes[conn.next]
        BY <3>1, <3>3, SizesFacts
      <4>2. /\ conn' \in [next : 1..(NumFiles + 1), file : 1..NumFiles, read : Nat, lost : BOOLEAN]
            /\ conn'.file = conn.next /\ conn'.read = 0
        BY <3>1, <3>3, <4>1
      <4> QED
        BY <3>1, <3>2, <4>1, <4>2 DEF ConnOK
    <3>4. CASE conn' = conn
      BY <3>1, <3>2, <3>4 DEF ConnOK
    <3>5. CASE conn.next <= NumFiles /\ conn' = [conn EXCEPT !.next = @ + 1]
      <4>1. conn.next + 1 \in 1..(NumFiles + 1)
        BY <3>1, <3>5, SizesFacts
      <4>2. /\ conn' \in [next : 1..(NumFiles + 1), file : 1..NumFiles, read : Nat, lost : BOOLEAN]
            /\ conn'.file = conn.file /\ conn'.read = conn.read
        BY <3>1, <3>5, <4>1
      <4> QED
        BY <3>1, <3>2, <4>2 DEF ConnOK
    <3> QED
      BY <1>3, <3>3, <3>4, <3>5 DEF GetStreamSize
  <2>3. Control'
    BY <1>3 DEF RingInv, Control, PlacesOK, SendsPending, SoughtWaits, ClaimKnown, SlotHeld, InFile, Arrived,
           SourcePlaces, AppPlaces, Events,
           GetStreamSize
  <2> QED
    BY <2>1, <2>2, <2>3 DEF RingInv, Control
<1>4. CASE Sized
  <2>1. RingOK' /\ ConnOK'
    BY <1>4, RingFrame, ConnFrame DEF RingInv, Sized, Ends, WrongState
  <2>2. Control'
    BY <1>4 DEF RingInv, Control, PlacesOK, SendsPending, SoughtWaits, ClaimKnown, SlotHeld, InFile, Arrived,
           SourcePlaces, AppPlaces, Events,
           Sized, Ends, WrongState
  <2> QED
    BY <2>1, <2>2 DEF RingInv, Control
<1>5. CASE SegmentRefused
  <2>1. RingOK'
    BY <1>5, RingFrame DEF RingInv, SegmentRefused
  <2>2. ConnOK'
    BY <1>5 DEF RingInv, ConnOK, SegmentRefused, NumFiles, EndPosition
  <2>3. Control'
    BY <1>5 DEF RingInv, Control, PlacesOK, SendsPending, SoughtWaits, ClaimKnown, SlotHeld, InFile, Arrived,
           SourcePlaces, AppPlaces, Events,
           SegmentRefused, SegmentPushed, Ends
  <2> QED
    BY <2>1, <2>2, <2>3 DEF RingInv, Control
<1>6. CASE ReadNextBlock
  <2>1. RingOK'
    BY <1>6, RingFrame DEF RingInv, ReadNextBlock
  <2>2. ConnOK'
    BY <1>6, SizesFacts DEF RingInv, ConnOK, ReadNextBlock, NumFiles, EndPosition
  <2>3. PlacesOK' /\ SendsPending'
    BY <1>6 DEF RingInv, PlacesOK, SourcePlaces, SendsPending, Events, ReadNextBlock, NextEvent, Ends
  <2>4. SoughtWaits' /\ ClaimKnown'
    BY <1>6 DEF RingInv, SoughtWaits, ClaimKnown, ReadNextBlock, NextEvent, Ends
  <2>5. SlotHeld'
    <3>1. /\ InFile /\ Arrived = conn.read
          /\ UNCHANGED <<stream, flushing, bSrcresult, caches, cacheSize, writeReady, writeIndex>>
      BY <1>6 DEF InFile, Arrived, ReadNextBlock
    <3>2. CASE sAt' = "buffer" /\ conn' = [conn EXCEPT !.read = @ + 1]
      <4>1. conn'.file = conn.file /\ Arrived' = conn.read /\ sAt' # "hls write" /\ sAt # "hls write"
        BY <1>6, <3>2 DEF RingInv, ConnOK, Arrived, ReadNextBlock
      <4> QED
        BY <3>1, <4>1 DEF RingInv, SlotHeld
    <3>3. CASE pending' = "SEGMENT" /\ sAt' = "size"
      BY <3>3 DEF SlotHeld, InFile
    <3>4. CASE sAt' = "merge" /\ conn' = conn /\ pending' = pending
      <4>1. Arrived' = Arrived /\ sAt # "hls write"
        BY <1>6, <3>1, <3>4 DEF Arrived, ReadNextBlock
      <4> QED
        BY <3>1, <3>4, <4>1 DEF RingInv, SlotHeld
    <3> QED
      BY <1>6, <3>2, <3>3, <3>4 DEF ReadNextBlock, Ends, NextEvent
  <2> QED
    BY <2>1, <2>2, <2>3, <2>4, <2>5 DEF RingInv
<1>7. CASE BufferRefused
  <2>1. RingOK'
    BY <1>7, RingFrame DEF RingInv, BufferRefused
  <2>2. ConnOK'
    BY <1>7 DEF RingInv, ConnOK, BufferRefused, NumFiles, EndPosition
  <2>3. Control'
    BY <1>7 DEF RingInv, Control, PlacesOK, SendsPending, SoughtWaits, ClaimKnown, SlotHeld, InFile, Arrived,
           SourcePlaces, AppPlaces, Events,
           BufferRefused, BufferPushed, Ends
  <2> QED
    BY <2>1, <2>2, <2>3 DEF RingInv, Control
<1>8. CASE EosRefused
  <2>1. RingOK' /\ ConnOK'
    BY <1>8, RingFrame, ConnFrame DEF RingInv, EosRefused, Ends
  <2>2. Control'
    BY <1>8 DEF RingInv, Control, PlacesOK, SendsPending, SoughtWaits, ClaimKnown, SlotHeld, InFile, Arrived,
           SourcePlaces, AppPlaces, Events,
           EosRefused, Ends
  <2> QED
    BY <2>1, <2>2 DEF RingInv, Control
<1>9. CASE Merge
  <2>1. RingOK' /\ ConnOK'
    BY <1>9, RingFrame, ConnFrame DEF RingInv, Merge, Merged
  <2>2. Control'
    BY <1>9, ZenonT(30) DEF RingInv, Control, PlacesOK, SendsPending, SoughtWaits, ClaimKnown, SlotHeld, InFile, Arrived,
           SourcePlaces, AppPlaces, Events,
           Merge, Merged
  <2> QED
    BY <2>1, <2>2 DEF RingInv, Control
<1> QED
    BY <1>1, <1>2, <1>3, <1>4, <1>5, <1>6, <1>7, <1>8, <1>9 DEF SourceSteps

\* A seek of the application passes the source: it flushes the pads and has the source send
\* a SEGMENT before anything else.
LEMMA SeekStep ==
    ASSUME stream \in Streams, stream.hls, RingInv, SeekSteps, UNCHANGED <<bufferVars, hlsVars>>
    PROVE  RingInv'
<1> USE DEF connVars, loopVars, appVars, bufferVars, readerVars, downVars, hlsVars, ringVars, sourceVars
<1>1. CASE PushFlushStart
  <2>1. RingOK' /\ ConnOK'
    BY <1>1, RingFrame, ConnFrame DEF RingInv, PushFlushStart
  <2>2. Control'
    BY <1>1 DEF RingInv, Control, PlacesOK, SendsPending, SoughtWaits, ClaimKnown, SlotHeld, InFile, Arrived,
           SourcePlaces, AppPlaces, Events,
           PushFlushStart
  <2> QED
    BY <2>1, <2>2 DEF RingInv, Control
<1>2. CASE MarkFlushing
  <2>1. RingOK' /\ ConnOK'
    BY <1>2, RingFrame, ConnFrame DEF RingInv, MarkFlushing
  <2>2. Control'
    BY <1>2 DEF RingInv, Control, PlacesOK, SendsPending, SoughtWaits, ClaimKnown, SlotHeld, InFile, Arrived,
           SourcePlaces, AppPlaces, Events,
           MarkFlushing
  <2> QED
    BY <2>1, <2>2 DEF RingInv, Control
<1>3. CASE SeekData
  <2>1. RingOK'
    BY <1>3, RingFrame DEF RingInv, SeekData
  <2>2. ConnOK'
    BY <1>3, SizesFacts DEF RingInv, ConnOK, SeekData, Sought, NumFiles, EndPosition
  <2>3. Control'
    BY <1>3 DEF RingInv, Control, PlacesOK, SendsPending, SoughtWaits, ClaimKnown, SlotHeld, InFile, Arrived,
           SourcePlaces, AppPlaces, Events,
           SeekData, SourceIdle
  <2> QED
    BY <2>1, <2>2, <2>3 DEF RingInv, Control
<1>4. CASE PushFlushStop
  <2>1. RingOK' /\ ConnOK'
    BY <1>4, RingFrame, ConnFrame DEF RingInv, PushFlushStop
  <2>2. Control'
    BY <1>4 DEF RingInv, Control, PlacesOK, SendsPending, SoughtWaits, ClaimKnown, SlotHeld, InFile, Arrived,
           SourcePlaces, AppPlaces, Events,
           PushFlushStop
  <2> QED
    BY <2>1, <2>2 DEF RingInv, Control
<1>5. CASE StartSource
  <2>1. RingOK' /\ ConnOK'
    BY <1>5, RingFrame, ConnFrame DEF RingInv, StartSource
  <2>2. Control'
    BY <1>5 DEF RingInv, Control, PlacesOK, SendsPending, SoughtWaits, ClaimKnown, SlotHeld, InFile, Arrived,
           SourcePlaces, AppPlaces, Events,
           StartSource
  <2> QED
    BY <2>1, <2>2 DEF RingInv, Control
<1>6. CASE StopSource
  <2>1. RingOK' /\ ConnOK'
    BY <1>6, RingFrame, ConnFrame DEF RingInv, StopSource
  <2>2. Control'
    BY <1>6 DEF RingInv, Control, PlacesOK, SendsPending, SoughtWaits, ClaimKnown, SlotHeld, InFile, Arrived,
           SourcePlaces, AppPlaces, Events,
           StopSource
  <2> QED
    BY <2>1, <2>2 DEF RingInv, Control
<1>7. CASE JoinSource
  <2>1. RingOK' /\ ConnOK'
    BY <1>7, RingFrame, ConnFrame DEF RingInv, JoinSource
  <2>2. Control'
    BY <1>7 DEF RingInv, Control, PlacesOK, SendsPending, SoughtWaits, ClaimKnown, SlotHeld, InFile, Arrived,
           SourcePlaces, AppPlaces, Events,
           JoinSource
  <2> QED
    BY <2>1, <2>2 DEF RingInv, Control
<1> QED
    BY <1>1, <1>2, <1>3, <1>4, <1>5, <1>6, <1>7 DEF SeekSteps

\* The reader frees a slot when it has read the whole file, so never the one that is still
\* being written.
LEMMA HLSReaderStep ==
    ASSUME stream \in Streams, stream.hls, RingInv, HLSReaderSteps
    PROVE  RingInv'
<1> USE DEF connVars, loopVars, appVars, bufferVars, readerVars, downVars, hlsVars, ringVars, sourceVars
<1>1. CASE HLSRead
  <2> DEFINE file == cache_read_buffer(caches[readIndex])
  <2>a. /\ caches[readIndex] \in CacheFile /\ file \in CacheFile
        /\ file.data = caches[readIndex].data /\ file.read = caches[readIndex].read + 1
    BY <1>1, CacheFacts DEF RingInv, RingOK, HLSRead
  <2> HIDE DEF file
  <2>b. /\ caches' = [caches EXCEPT ![readIndex] = file]
        /\ \/ /\ SlotDone(file)
              /\ writeReady' = [writeReady EXCEPT ![readIndex] = TRUE]
              /\ readIndex' = After(readIndex)
              /\ SignalDel
           \/ UNCHANGED <<writeReady, readIndex, sAt>>
        /\ UNCHANGED <<stream, connVars, sTask, sResult, sSrcresult, pending, position, flushing, appVars,
                       bTask, bResult, bSrcresult, downVars, mishaps, cacheSize, writeIndex>>
    BY <1>1 DEF HLSRead, file
  <2>c. /\ caches \in [Slots -> CacheFile] /\ writeReady \in [Slots -> BOOLEAN]
        /\ readIndex \in Slots /\ After(readIndex) \in Slots
    BY AfterIsSlot DEF RingInv, RingOK
  <2>d. /\ caches' \in [Slots -> CacheFile] /\ writeReady' \in [Slots -> BOOLEAN]
        /\ readIndex' \in Slots
        /\ \A i \in Slots : caches'[i].data = caches[i].data
        /\ \A i \in Slots : i # readIndex => caches'[i] = caches[i] /\ writeReady'[i] = writeReady[i]
        /\ caches'[readIndex] = file
    BY <2>a, <2>b, <2>c
  <2>1. RingOK'
    BY <2>b, <2>d DEF RingInv, RingOK
  <2>2. ConnOK'
    BY <2>b, ConnFrame DEF RingInv
  <2>3. PlacesOK' /\ SendsPending' /\ SoughtWaits' /\ ClaimKnown'
    BY <2>b DEF RingInv, PlacesOK, SourcePlaces, SendsPending, Events, SoughtWaits, ClaimKnown, SignalDel
  <2>4. SlotHeld'
    <3>1. InFile' /\ (flushing' = {} \/ sAt' = "hls write") /\ bSrcresult' = "OK" =>
          InFile /\ (flushing = {} \/ sAt = "hls write") /\ bSrcresult = "OK" /\ Arrived' = Arrived
      BY <2>b DEF InFile, Arrived, SignalDel
    <3>2. SlotDone(file) => file.read = cacheSize[readIndex]
      BY DEF SlotDone
    <3>3. ASSUME writeIndex \in Slots, cacheSize[writeIndex] = stream.sizes[conn.file],
                 Len(caches[writeIndex].data) <= Arrived,
                 writeReady[writeIndex] => caches[writeIndex].read = cacheSize[writeIndex]
          PROVE  writeReady'[writeIndex] => caches'[writeIndex].read = cacheSize[writeIndex]
      <4>1. CASE writeIndex # readIndex
        BY <2>d, <3>3, <4>1
      <4>2. CASE writeIndex = readIndex
        <5>1. CASE SlotDone(file)
          BY <2>d, <3>2, <4>2, <5>1
        <5>2. CASE ~SlotDone(file)
          <6>1. ~writeReady[readIndex]
            <7>1. caches[readIndex].read < Len(caches[readIndex].data)
              BY <1>1 DEF HLSRead, cache_has_enough_data
            <7>2. /\ caches[readIndex].read \in Nat /\ Len(caches[readIndex].data) \in Nat
                  /\ Arrived <= stream.sizes[conn.file] /\ Arrived \in Int /\ stream.sizes[conn.file] \in Nat
              <8>1. /\ conn.read \in Nat /\ conn.read <= stream.sizes[conn.file]
                    /\ conn.file \in 1..NumFiles
                BY DEF RingInv, ConnOK
              <8>2. stream.sizes[conn.file] \in Nat
                BY <8>1, SizesFacts
              <8>3. caches[readIndex].read \in Nat /\ Len(caches[readIndex].data) \in Nat
                BY <2>a, LenProperties DEF CacheFile
              <8>4. Arrived = conn.read \/ Arrived = conn.read - 1
                BY DEF Arrived
              <8> QED
                BY <8>1, <8>2, <8>3, <8>4
            <7>3. /\ Len(caches[readIndex].data) <= Arrived
                  /\ writeReady[readIndex] => caches[readIndex].read = stream.sizes[conn.file]
              BY <3>3, <4>2
            <7> QED
              BY <7>1, <7>2, <7>3
          <6>2. writeReady' = writeReady
            BY <2>b, <5>2
          <6> QED
            BY <4>2, <6>1, <6>2
        <5> QED
          BY <5>1, <5>2
      <4> QED
        BY <4>1, <4>2
    <3> QED
      BY <2>b, <2>d, <3>1, <3>3 DEF RingInv, SlotHeld
  <2> QED
    BY <2>1, <2>2, <2>3, <2>4 DEF RingInv
<1>2. CASE HLSNothing
  <2>1. RingOK' /\ ConnOK'
    BY <1>2, RingFrame, ConnFrame DEF RingInv, HLSNothing, PushEosDown
  <2>2. Control'
    BY <1>2, ControlFrame DEF RingInv, Control, PlacesOK, AppPlaces, HLSNothing, PushEosDown
  <2> QED
    BY <2>1, <2>2 DEF RingInv, Control
<1>3. CASE HLSStopped
  <2>1. RingOK' /\ ConnOK'
    BY <1>3, RingFrame, ConnFrame DEF RingInv, HLSStopped
  <2>2. Control'
    BY <1>3, ControlFrame DEF RingInv, Control, PlacesOK, AppPlaces, HLSStopped
  <2> QED
    BY <2>1, <2>2 DEF RingInv, Control
<1>4. CASE HLSPush
  <2>1. RingOK' /\ ConnOK'
    BY <1>4, RingFrame, ConnFrame DEF RingInv, HLSPush, PushBufferDown
  <2>2. Control'
    BY <1>4, ControlFrame DEF RingInv, Control, PlacesOK, AppPlaces, HLSPush, PushBufferDown
  <2> QED
    BY <2>1, <2>2 DEF RingInv, Control
<1>5. CASE HLSMerge
  <2>1. RingOK' /\ ConnOK'
    BY <1>5, RingFrame, ConnFrame DEF RingInv, HLSMerge, Merged
  <2>2. Control'
    BY <1>5, ControlFrame DEF RingInv, Control, PlacesOK, AppPlaces, HLSMerge, Merged
  <2> QED
    BY <2>1, <2>2 DEF RingInv, Control
<1>6. CASE HLSFailed
  <2>1. RingOK' /\ ConnOK'
    BY <1>6, RingFrame, ConnFrame DEF RingInv, HLSFailed
  <2>2. Control'
    BY <1>6, ControlFrame DEF RingInv, Control, PlacesOK, AppPlaces, HLSFailed
  <2> QED
    BY <2>1, <2>2 DEF RingInv, Control
<1>7. CASE HLSPause
  <2>1. RingOK' /\ ConnOK'
    BY <1>7, RingFrame, ConnFrame DEF RingInv, HLSPause
  <2>2. Control'
    BY <1>7, ControlFrame DEF RingInv, Control, PlacesOK, AppPlaces, HLSPause
  <2> QED
    BY <2>1, <2>2 DEF RingInv, Control
<1> QED
    BY <1>1, <1>2, <1>3, <1>4, <1>5, <1>6, <1>7 DEF HLSReaderSteps

\* A slot that was just prepared is free of data and has the size of the file at hand.
LEMMA PrepareStep ==
    ASSUME stream \in Streams, RingOK, ConnOK, Prepare(writeIndex'), writeIndex' \in Slots, sAt' = "merge",
           UNCHANGED <<stream, conn, readIndex>>
    PROVE  RingOK' /\ SlotHeld'
<1>1. stream.sizes[conn.file] \in Nat /\ conn.read \in Nat
    BY SizesFacts DEF ConnOK
<1>2. /\ caches' \in [Slots -> CacheFile] /\ cacheSize' \in [Slots -> Nat] /\ writeReady' \in [Slots -> BOOLEAN]
      /\ caches'[writeIndex'] = EmptyCache /\ cacheSize'[writeIndex'] = stream.sizes[conn.file]
      /\ ~writeReady'[writeIndex']
    BY <1>1, CacheFacts DEF RingOK, Prepare
<1>3. Len(caches'[writeIndex'].data) <= conn.read
    BY <1>1, <1>2, CacheFacts
<1> QED
    BY <1>2, <1>3 DEF RingOK, SlotHeld, Arrived

\* The buffer's handlers on the source's thread claim a slot, prepare it and write into it.
LEMMA HLSSourceStep ==
    ASSUME stream \in Streams, stream.hls, RingInv, HLSSourceSteps
    PROVE  RingInv'
<1> USE DEF connVars, loopVars, appVars, bufferVars, readerVars, downVars, hlsVars, ringVars, sourceVars
<1>1. CASE HLSSegment
  <2>1. RingOK' /\ ConnOK'
    BY <1>1, RingFrame, ConnFrame DEF RingInv, HLSSegment, SegmentPushed, Ends
  <2>2. Control'
    BY <1>1 DEF RingInv, Control, PlacesOK, SendsPending, SoughtWaits, ClaimKnown, SlotHeld, InFile, Arrived,
           SourcePlaces, AppPlaces, Events,
           HLSSegment, SegmentPushed, Ends
  <2> QED
    BY <2>1, <2>2 DEF RingInv, Control
<1>2. CASE HLSRestart
  <2>1. RingOK' /\ ConnOK'
    BY <1>2, RingFrame, ConnFrame DEF RingInv, HLSRestart
  <2>2. Control'
    BY <1>2 DEF RingInv, Control, PlacesOK, SendsPending, Events, SoughtWaits, ClaimKnown, SlotHeld, InFile,
           SourcePlaces, HLSRestart
  <2> QED
    BY <2>1, <2>2 DEF RingInv, Control
<1>3. CASE HLSSendSegment
  <2>1. RingOK' /\ ConnOK'
    BY <1>3, RingFrame, ConnFrame DEF RingInv, HLSSendSegment
  <2>2. Control'
    BY <1>3 DEF RingInv, Control, PlacesOK, SendsPending, Events, SoughtWaits, ClaimKnown, SlotHeld, InFile,
           SourcePlaces, HLSSendSegment
  <2> QED
    BY <2>1, <2>2 DEF RingInv, Control
<1>4. CASE HLSClaim
  <2>1. After(writeIndex) \in Slots
    BY AfterIsSlot DEF RingInv, RingOK
  <2>2. ConnOK'
    BY <1>4, ConnFrame DEF RingInv, HLSClaim
  <2>3. CASE sAt' = "hls full" /\ UNCHANGED <<sResult, pending, caches, cacheSize, writeReady>>
    <3>1. RingOK'
      BY <1>4, <2>1, <2>3 DEF RingInv, RingOK, HLSClaim
    <3>2. Control'
      BY <1>4, <2>1, <2>3 DEF RingInv, Control, PlacesOK, SendsPending, Events, SoughtWaits, ClaimKnown, SlotHeld,
             InFile, SourcePlaces, HLSClaim
    <3> QED
      BY <2>2, <3>1, <3>2 DEF RingInv, Control
  <2>4. CASE Prepare(writeIndex') /\ SegmentPushed("OK")
    <3>1. writeIndex' \in Slots /\ UNCHANGED <<stream, conn, app, sTask, bSrcresult, bResult, readIndex>>
      BY <1>4, <2>1 DEF HLSClaim
    <3>2. RingOK' /\ SlotHeld'
      BY <2>4, <3>1, PrepareStep DEF RingInv, SegmentPushed, Ends
    <3>3. (PlacesOK /\ SendsPending /\ SoughtWaits /\ ClaimKnown)'
      BY <1>4, <2>4, <3>1 DEF RingInv, PlacesOK, SendsPending, Events, SoughtWaits, ClaimKnown, SourcePlaces,
             HLSClaim, SegmentPushed, Ends
    <3> QED
      BY <2>2, <3>2, <3>3 DEF RingInv
  <2> QED
    BY <1>4, <2>3, <2>4 DEF HLSClaim
<1>5. CASE HLSFull
  <2>1. RingOK' /\ ConnOK'
    BY <1>5, RingFrame, ConnFrame DEF RingInv, HLSFull
  <2>2. Control'
    BY <1>5 DEF RingInv, Control, PlacesOK, SendsPending, SoughtWaits, ClaimKnown, SlotHeld, InFile, Arrived,
           SourcePlaces, AppPlaces, Events,
           HLSFull
  <2> QED
    BY <2>1, <2>2 DEF RingInv, Control
<1>6. CASE HLSWoken
  <2>2. ConnOK'
    BY <1>6, ConnFrame DEF RingInv, HLSWoken
  <2>3. CASE bSrcresult # "OK" /\ SegmentPushed("OK") /\ UNCHANGED <<caches, cacheSize, writeReady>>
    <3>1. RingOK'
      BY <1>6, <2>3, RingFrame DEF RingInv, HLSWoken
    <3>2. Control'
      BY <1>6, <2>3 DEF RingInv, Control, PlacesOK, SendsPending, Events, SoughtWaits, ClaimKnown, SlotHeld,
             InFile, SourcePlaces, HLSWoken, SegmentPushed, Ends
    <3> QED
      BY <2>2, <3>1, <3>2 DEF RingInv, Control
  <2>4. CASE sAt' = "hls full" /\ UNCHANGED <<sResult, pending, caches, cacheSize, writeReady>>
    <3>1. RingOK'
      BY <1>6, <2>4, RingFrame DEF RingInv, HLSWoken
    <3>2. Control'
      BY <1>6, <2>4 DEF RingInv, Control, PlacesOK, SendsPending, Events, SoughtWaits, ClaimKnown, SlotHeld,
             InFile, SourcePlaces, HLSWoken
    <3> QED
      BY <2>2, <3>1, <3>2 DEF RingInv, Control
  <2>5. CASE bSrcresult = "OK" /\ Prepare(writeIndex) /\ SegmentPushed("OK")
    <3>1. writeIndex' \in Slots /\ UNCHANGED <<stream, conn, app, sTask, bSrcresult, bResult, readIndex, writeIndex>>
      BY <1>6, <2>5 DEF RingInv, ClaimKnown, HLSWoken
    <3>2. RingOK' /\ SlotHeld'
      BY <2>5, <3>1, PrepareStep DEF RingInv, SegmentPushed, Ends
    <3>3. (PlacesOK /\ SendsPending /\ SoughtWaits /\ ClaimKnown)'
      BY <1>6, <2>5, <3>1 DEF RingInv, PlacesOK, SendsPending, Events, SoughtWaits, ClaimKnown, SourcePlaces,
             HLSWoken, SegmentPushed, Ends
    <3> QED
      BY <2>2, <3>2, <3>3 DEF RingInv
  <2> QED
    BY <1>6, <2>3, <2>4, <2>5 DEF HLSWoken
<1>7. CASE HLSChain
  <2>1. RingOK' /\ ConnOK'
    BY <1>7, RingFrame, ConnFrame DEF RingInv, HLSChain
  <2>2. (PlacesOK /\ SendsPending /\ SoughtWaits /\ ClaimKnown)'
    BY <1>7 DEF RingInv, PlacesOK, SendsPending, Events, SoughtWaits, ClaimKnown, SourcePlaces, AppPlaces,
           HLSChain, BufferPushed, Ends
  <2>3. ASSUME writeIndex \in Slots, Len(caches[writeIndex].data) <= Arrived
        PROVE  Len(caches[writeIndex].data) <= Arrived'
    <3>1. Len(caches[writeIndex].data) \in Nat
      BY <2>3, LenProperties DEF RingInv, RingOK, CacheFile
    <3>2. conn.read \in Nat /\ Arrived = conn.read - 1 /\ (Arrived' = conn.read \/ Arrived' = conn.read - 1)
      BY <1>7 DEF RingInv, ConnOK, Arrived, HLSChain
    <3> QED
      BY <2>3, <3>1, <3>2
  <2>4. SlotHeld'
    BY <1>7, <2>3 DEF RingInv, SlotHeld, InFile, HLSChain, BufferPushed, Ends
  <2> QED
    BY <2>1, <2>2, <2>4 DEF RingInv
<1>8. CASE HLSWrite
  <2>1. CASE ~MayWrite
    <3>1. RingOK' /\ ConnOK'
      BY <1>8, <2>1, RingFrame, ConnFrame DEF RingInv, HLSWrite
    <3>2. Control'
      BY <1>8, <2>1 DEF RingInv, Control, PlacesOK, SendsPending, Events, SoughtWaits, ClaimKnown, SlotHeld,
             InFile, SourcePlaces, HLSWrite, MayWrite, BufferPushed, Ends
    <3> QED
      BY <3>1, <3>2 DEF RingInv, Control
  <2>2. CASE MayWrite
    <3>1. /\ writeIndex \in Slots /\ caches \in [Slots -> CacheFile] /\ caches[writeIndex] \in CacheFile
          /\ Len(caches[writeIndex].data) <= conn.read - 1 /\ conn.read \in Nat
          /\ Chunk \in Nat \X Nat
      <4>1. bSrcresult = "OK" /\ InFile /\ Arrived = conn.read - 1
        BY <1>8, <2>2 DEF RingInv, PlacesOK, InFile, Arrived, HLSWrite, MayWrite
      <4>2. writeIndex \in Slots /\ Len(caches[writeIndex].data) <= conn.read - 1
        BY <1>8, <4>1 DEF RingInv, SlotHeld, HLSWrite
      <4>3. conn.read \in Nat /\ Chunk \in Nat \X Nat
        BY SizesFacts DEF RingInv, ConnOK, Chunk
      <4> QED
        BY <4>2, <4>3 DEF RingInv, RingOK
    <3> DEFINE file == cache_write_buffer(caches[writeIndex], Chunk)
    <3>2. /\ file \in CacheFile /\ Len(file.data) = Len(caches[writeIndex].data) + 1
          /\ file.read = caches[writeIndex].read /\ Len(caches[writeIndex].data) \in Nat
      BY <3>1, CacheFacts, LenProperties DEF CacheFile
    <3>3. caches' = [caches EXCEPT ![writeIndex] = file]
      BY <1>8, <2>2 DEF HLSWrite
    <3> HIDE DEF file
    <3>4. caches' \in [Slots -> CacheFile] /\ caches'[writeIndex] = file
      BY <3>1, <3>2, <3>3
    <3>5. RingOK' /\ ConnOK'
      BY <1>8, <3>4, ConnFrame DEF RingInv, RingOK, HLSWrite
    <3>6. (PlacesOK /\ SendsPending /\ SoughtWaits /\ ClaimKnown)'
      BY <1>8 DEF RingInv, PlacesOK, SendsPending, Events, SoughtWaits, ClaimKnown, SourcePlaces,
             HLSWrite, BufferPushed, Ends
    <3>7. Len(file.data) <= conn.read
      BY <3>1, <3>2
    <3>8. SlotHeld'
      BY <1>8, <2>2, <3>1, <3>2, <3>4, <3>7 DEF RingInv, PlacesOK, MayWrite, SlotHeld, InFile, Arrived,
             HLSWrite, BufferPushed, Ends
    <3> QED
      BY <3>5, <3>6, <3>8 DEF RingInv
  <2> QED
    BY <2>1, <2>2
<1>9. CASE HLSEos
  <2>1. RingOK' /\ ConnOK'
    BY <1>9, RingFrame, ConnFrame DEF RingInv, HLSEos
  <2>2. Control'
    BY <1>9 DEF RingInv, Control, PlacesOK, SendsPending, Events, SoughtWaits, ClaimKnown, SlotHeld, InFile,
           SourcePlaces, HLSEos, Ends
  <2> QED
    BY <2>1, <2>2 DEF RingInv, Control
<1> QED
    BY <1>1, <1>2, <1>3, <1>4, <1>5, <1>6, <1>7, <1>8, <1>9 DEF HLSSourceSteps

\* A flush empties the ring and leaves the writer without a slot.
LEMMA FlushStep ==
    ASSUME stream \in Streams, RingInv, FlushData, bResult' = bResult,
           UNCHANGED <<stream, conn, target, sTask, pending, flushing>>,
           app' \in AppPlaces \ {"flush stop", "hls stop", "hls stopped", "start"}
    PROVE  RingInv'
<1>1. RingOK'
  <2>1. EmptyCache \in CacheFile
    BY CacheFacts
  <2> QED
    BY <2>1, FirstSlot DEF RingOK, FlushData
<1>2. ConnOK'
    BY ConnFrame DEF RingInv
<1>3. Control'
    BY DEF RingInv, Control, PlacesOK, SendsPending, Events, SoughtWaits, ClaimKnown, SlotHeld, SourcePlaces, AppPlaces,
           FlushData, SignalDel
<1> QED
    BY <1>1, <1>2, <1>3 DEF RingInv, Control

\* FLUSH_START, FLUSH_STOP and the shutdown in the buffer: a flush ends while the source rests
\* and has a SEGMENT to send.
LEMMA HLSAppStep ==
    ASSUME stream \in Streams, stream.hls, RingInv, HLSAppSteps
    PROVE  RingInv'
<1> USE DEF connVars, loopVars, appVars, bufferVars, readerVars, downVars, hlsVars, ringVars, sourceVars
<1>1. CASE HLSFlushFlag
  <2>1. RingOK' /\ ConnOK'
    BY <1>1, RingFrame, ConnFrame DEF RingInv, HLSFlushFlag
  <2>2. Control'
    BY <1>1, ControlFrame DEF RingInv, Control, PlacesOK, AppPlaces, HLSFlushFlag
  <2> QED
    BY <2>1, <2>2 DEF RingInv, Control
<1>2. CASE HLSFlushDown
  <2>1. RingOK' /\ ConnOK'
    BY <1>2, RingFrame, ConnFrame DEF RingInv, HLSFlushDown, FlushStartDown
  <2>2. Control'
    BY <1>2, ControlFrame DEF RingInv, Control, PlacesOK, AppPlaces, HLSFlushDown, FlushStartDown
  <2> QED
    BY <2>1, <2>2 DEF RingInv, Control
<1>3. CASE HLSFlushData
    BY <1>3, FlushStep DEF HLSFlushData, AppPlaces
<1>4. CASE HLSPauseReader
  <2>1. RingOK' /\ ConnOK'
    BY <1>4, RingFrame, ConnFrame DEF RingInv, HLSPauseReader
  <2>2. Control'
    BY <1>4, ControlFrame DEF RingInv, Control, PlacesOK, AppPlaces, HLSPauseReader
  <2> QED
    BY <2>1, <2>2 DEF RingInv, Control
<1>5. CASE HLSReaderPaused
  <2>1. RingOK' /\ ConnOK'
    BY <1>5, RingFrame, ConnFrame DEF RingInv, HLSReaderPaused
  <2>2. Control'
    BY <1>5, ControlFrame DEF RingInv, Control, PlacesOK, AppPlaces, HLSReaderPaused
  <2> QED
    BY <2>1, <2>2 DEF RingInv, Control
<1>6. CASE HLSFlushStopDown
  <2>1. RingOK' /\ ConnOK'
    BY <1>6, RingFrame, ConnFrame DEF RingInv, HLSFlushStopDown
  <2>2. Control'
    BY <1>6 DEF RingInv, Control, PlacesOK, SendsPending, SoughtWaits, ClaimKnown, SlotHeld, InFile, Arrived,
           SourcePlaces, AppPlaces, Events,
           HLSFlushStopDown
  <2> QED
    BY <2>1, <2>2 DEF RingInv, Control
<1>7. CASE HLSFlushStop
  <2>1. RingOK' /\ ConnOK'
    BY <1>7, RingFrame, ConnFrame DEF RingInv, HLSFlushStop
  <2>2. Control'
    BY <1>7 DEF RingInv, Control, PlacesOK, SendsPending, SoughtWaits, ClaimKnown, SlotHeld, InFile, Arrived,
           SourcePlaces, AppPlaces, Events,
           HLSFlushStop
  <2> QED
    BY <2>1, <2>2 DEF RingInv, Control
<1>8. CASE HLSDeactivate
  <2>1. RingOK' /\ ConnOK'
    BY <1>8, RingFrame, ConnFrame DEF RingInv, HLSDeactivate
  <2>2. Control'
    BY <1>8 DEF RingInv, Control, PlacesOK, SendsPending, Events, SoughtWaits, ClaimKnown, SlotHeld,
           SourcePlaces, AppPlaces, HLSDeactivate, SignalDel
  <2> QED
    BY <2>1, <2>2 DEF RingInv, Control
<1>9. CASE HLSJoin
  <2>1. RingOK' /\ ConnOK'
    BY <1>9, RingFrame, ConnFrame DEF RingInv, HLSJoin
  <2>2. Control'
    BY <1>9 DEF RingInv, Control, PlacesOK, SendsPending, Events, SoughtWaits, ClaimKnown, SlotHeld, InFile, Arrived,
           AppPlaces, HLSJoin
  <2> QED
    BY <2>1, <2>2 DEF RingInv, Control
<1>10. CASE HLSSinkJoin
  <2>1. RingOK' /\ ConnOK'
    BY <1>10, RingFrame, ConnFrame DEF RingInv, HLSSinkJoin
  <2>2. Control'
    BY <1>10, ControlFrame DEF RingInv, Control, PlacesOK, AppPlaces, HLSSinkJoin
  <2> QED
    BY <2>1, <2>2 DEF RingInv, Control
<1> QED
    BY <1>1, <1>2, <1>3, <1>4, <1>5, <1>6, <1>7, <1>8, <1>9, <1>10 DEF HLSAppSteps

\* The application asks for a seek or closes the stream; the writer is woken for no reason.
LEMMA RequestStep ==
    ASSUME stream \in Streams, stream.hls, RingInv,
           (\E to \in Positions : HLSSeek(to)) \/ HLSClose \/ HLSSpurious \/ (SpuriousWakeUp /\ UNCHANGED hlsVars)
    PROVE  RingInv'
<1> USE DEF connVars, loopVars, appVars, bufferVars, readerVars, downVars, hlsVars, ringVars, sourceVars
<1>1. ASSUME NEW to \in Positions, HLSSeek(to) PROVE RingInv'
  <2>1. RingOK'
    BY <1>1, RingFrame DEF RingInv, HLSSeek
  <2>2. ConnOK'
    BY <1>1 DEF RingInv, ConnOK, HLSSeek, Positions, NumFiles, EndPosition
  <2>3. Control'
    BY <1>1, ControlFrame DEF RingInv, Control, PlacesOK, AppPlaces, HLSSeek
  <2> QED
    BY <2>1, <2>2, <2>3 DEF RingInv, Control
<1>2. CASE HLSClose
    BY <1>2, FlushStep DEF HLSClose, AppPlaces
<1>3. CASE HLSSpurious
  <2>1. RingOK' /\ ConnOK'
    BY <1>3, RingFrame, ConnFrame DEF RingInv, HLSSpurious
  <2>2. Control'
    BY <1>3 DEF RingInv, Control, PlacesOK, SendsPending, Events, SoughtWaits, ClaimKnown, SlotHeld, InFile,
           SourcePlaces, HLSSpurious
  <2> QED
    BY <2>1, <2>2 DEF RingInv, Control
<1>4. CASE SpuriousWakeUp /\ UNCHANGED hlsVars
  <2>1. RingOK' /\ ConnOK'
    BY <1>4, RingFrame, ConnFrame DEF RingInv, SpuriousWakeUp
  <2>2. Control'
    BY <1>4, ControlFrame DEF RingInv, Control, PlacesOK, AppPlaces, SpuriousWakeUp
  <2> QED
    BY <2>1, <2>2 DEF RingInv, Control
<1> QED
    BY <1>1, <1>2, <1>3, <1>4

\* The steps of the other buffer are not those of an HLS stream.
LEMMA NoOtherBuffer ==
    ASSUME stream.hls, PlacesOK
    PROVE  /\ ~PBSourceSteps /\ ~PBReaderSteps /\ ~PBAppSteps /\ ~PBClose
           /\ \A to \in Positions : ~PBSeek(to)
<1>1. ~PBSourceSteps
    BY DEF PlacesOK, SourcePlaces, PBSourceSteps, PBSegment, PBChain, PBCreateSourcepad, PBEos
<1>2. ~PBReaderSteps
    BY DEF PBReaderSteps, PBWait, PBStopped, PBEvent, PBPushEvent, PBRead, PBPush, PBStore, PBPause, PBRuns
<1>3. ~PBAppSteps
    BY DEF PlacesOK, AppPlaces, PBAppSteps, PBMark, PBLocked, PBAsk, PBSought, PBFlushStop, PBStart, PBJoin, PBSinkJoin
<1> QED
    BY <1>1, <1>2, <1>3 DEF PBClose, PBSeek

\* Every step of an HLS stream keeps the invariant.
LEMMA HLSStep ==
    ASSUME stream \in Streams, stream.hls, RingInv, [Next]_vars
    PROVE  RingInv' /\ stream' = stream
<1>1. PlacesOK
    BY DEF RingInv
<1>2. CASE SourceThread
  <2>1. CASE SourceSteps /\ UNCHANGED <<bufferVars, hlsVars, pbVars>>
    <3>1. stream' = stream
      BY <2>1 DEF SourceSteps, LoopBegins, PushStreamStart, GetStreamSize, Sized, SegmentRefused,
             ReadNextBlock, BufferRefused, EosRefused, Merge
    <3> QED
      BY <2>1, <3>1, SourceStep
  <2>2. CASE HLSSourceSteps
    <3>1. stream' = stream
      BY <2>2 DEF HLSSourceSteps, HLSSegment, HLSRestart, HLSSendSegment, HLSClaim, HLSFull, HLSWoken,
             HLSChain, HLSWrite, HLSEos
    <3> QED
      BY <2>2, <3>1, HLSSourceStep
  <2> QED
    BY <1>1, <1>2, <2>1, <2>2, NoOtherBuffer DEF SourceThread
<1>3. CASE ReaderThread
  <2>1. HLSReaderSteps
    BY <1>1, <1>3, NoOtherBuffer DEF ReaderThread
  <2>2. stream' = stream
    BY <2>1 DEF HLSReaderSteps, HLSRead, HLSNothing, HLSStopped, HLSPush, HLSMerge, HLSFailed, HLSPause, sourceVars
  <2> QED
    BY <2>1, <2>2, HLSReaderStep
<1>4. CASE AppThread
  <2>1. CASE SeekSteps /\ UNCHANGED <<bufferVars, hlsVars, pbVars>>
    <3>1. stream' = stream
      BY <2>1 DEF SeekSteps, PushFlushStart, MarkFlushing, SeekData, PushFlushStop, StartSource, StopSource, JoinSource
    <3> QED
      BY <2>1, <3>1, SeekStep
  <2>2. CASE HLSAppSteps
    <3>1. stream' = stream
      BY <2>2 DEF HLSAppSteps, HLSFlushFlag, HLSFlushDown, HLSFlushData, HLSPauseReader, HLSReaderPaused,
             HLSFlushStopDown, HLSFlushStop, HLSDeactivate, HLSJoin, HLSSinkJoin
    <3> QED
      BY <2>2, <3>1, HLSAppStep
  <2> QED
    BY <1>1, <1>4, <2>1, <2>2, NoOtherBuffer DEF AppThread
<1>5. CASE Requests \/ Spurious
  <2>1. \/ \E to \in Positions : HLSSeek(to)
        \/ HLSClose \/ HLSSpurious \/ (SpuriousWakeUp /\ UNCHANGED hlsVars)
    BY <1>1, <1>5, NoOtherBuffer DEF Requests, Spurious
  <2>2. stream' = stream
    BY <2>1 DEF HLSSeek, HLSClose, HLSSpurious, SpuriousWakeUp, sourceVars
  <2> QED
    BY <2>1, <2>2, RequestStep
<1>6. CASE UNCHANGED vars
  <2> USE DEF vars, connVars, loopVars, appVars, bufferVars, readerVars, downVars, hlsVars, ringVars, sourceVars
  <2>1. RingOK' /\ ConnOK' /\ stream' = stream
    BY <1>6, RingFrame, ConnFrame DEF RingInv
  <2>2. Control'
    BY <1>6, ControlFrame DEF RingInv, Control, PlacesOK, AppPlaces
  <2> QED
    BY <2>1, <2>2 DEF RingInv, Control
<1> QED
    BY <1>2, <1>3, <1>4, <1>5, <1>6 DEF Next

-----------------------------------------------------------------------------
(* The steps of a progressive download. *)

\* A step that leaves the source's loop, the connection and the written data alone does no
\* harm, whatever becomes of the reader.
LEMMA DownloadFrame ==
    ASSUME DownloadInv, ~stream.hls,
           UNCHANGED <<stream, conn, position, readOffset, sAt, sResult, pending>>,
           target' \in 0..stream.sizes[1],
           cache' \in [data : Seq(Nat \X Nat), read : Nat], cache'.data = cache.data,
           segment' \in [start : Nat, position : Nat, stop : Nat],
           segment'.stop = segment.stop \/ Closing',
           app' \in DownloadAppPlaces, Closing => Closing', Closing' => flushing' # {}
    PROVE  DownloadInv'
<1>1. DownloadTypes'
    BY DEF DownloadInv, DownloadTypes
<1>2. DownloadPlaces'
    BY DEF DownloadInv, DownloadPlaces
<1>3. SegmentAtConn' /\ StopIsEnd'
    BY DEF DownloadInv, SegmentAtConn, StopIsEnd
<1>4. CacheMeetsConn' /\ CachePlaced'
    BY DEF DownloadInv, CacheMeetsConn, CachePlaced, Come
<1> QED
    BY <1>1, <1>2, <1>3, <1>4 DEF DownloadInv

\* The task of the source reads a chunk only after it has sent the one before.
LEMMA DownloadSourceStep ==
    ASSUME stream \in Streams, ~stream.hls, DownloadInv, SourceSteps, UNCHANGED <<bufferVars, hlsVars, pbVars>>
    PROVE  DownloadInv'
<1> USE DEF connVars, loopVars, appVars, bufferVars, readerVars, downVars, hlsVars, ringVars, sourceVars, pbVars, fillVars, flagVars
<1>1. UNCHANGED <<stream, position, flushing, app, target, readOffset, cache, segment>>
    BY DEF SourceSteps, LoopBegins, PushStreamStart, GetStreamSize, Sized, SegmentRefused, ReadNextBlock,
           BufferRefused, EosRefused, Merge
<1>2. stream.sizes[1] \in Nat /\ conn.read \in Nat /\ conn.file = 1 /\ conn.read <= stream.sizes[1]
    BY SizesFacts DEF DownloadInv, DownloadTypes
<1>3. ASSUME conn' = conn, DownloadPlaces', SegmentAtConn',
             pending' = "UNKNOWN" => pending = "UNKNOWN" /\ Come' = Come /\ sAt # "pb pad"
      PROVE  DownloadInv'
  <2>1. DownloadTypes'
    BY <1>1, <1>3 DEF DownloadInv, DownloadTypes
  <2>2. StopIsEnd' /\ CacheMeetsConn' /\ CachePlaced'
    BY <1>1, <1>3 DEF DownloadInv, StopIsEnd, CacheMeetsConn, CachePlaced, Closing
  <2> QED
    BY <1>3, <2>1, <2>2 DEF DownloadInv
<1>4. ASSUME conn' = [conn EXCEPT !.lost = TRUE], DownloadPlaces', SegmentAtConn'
      PROVE  DownloadInv'
  <2>1. DownloadTypes' /\ conn'.lost
    BY <1>1, <1>4 DEF DownloadInv, DownloadTypes
  <2>2. StopIsEnd' /\ CacheMeetsConn' /\ CachePlaced'
    BY <2>1 DEF StopIsEnd, CacheMeetsConn, CachePlaced
  <2> QED
    BY <1>4, <2>1, <2>2 DEF DownloadInv
<1>5. CASE LoopBegins
  <2>1. /\ conn' = conn /\ DownloadPlaces' /\ SegmentAtConn'
        /\ pending' = pending /\ Come' = Come /\ sAt # "pb pad"
    BY <1>1, <1>5 DEF DownloadInv, DownloadPlaces, DownloadSourcePlaces, Closing, SegmentAtConn, Come, Events,
           LoopBegins, NextEvent, Ends
  <2> QED
    BY <1>3, <2>1
<1>6. CASE PushStreamStart
  <2>1. conn' = conn /\ DownloadPlaces' /\ SegmentAtConn' /\ pending' # "UNKNOWN"
    BY <1>1, <1>6 DEF DownloadInv, DownloadPlaces, DownloadSourcePlaces, Closing, SegmentAtConn, Events,
           PushStreamStart, Ends
  <2> QED
    BY <1>3, <2>1
<1>7. CASE GetStreamSize \/ Sized
    BY <1>7 DEF DownloadInv, DownloadPlaces, DownloadSourcePlaces, GetStreamSize, Sized
<1>8. CASE SegmentRefused
  <2>1. conn' = [conn EXCEPT !.lost = TRUE] /\ DownloadPlaces' /\ SegmentAtConn'
    BY <1>1, <1>8 DEF DownloadInv, DownloadPlaces, DownloadSourcePlaces, Closing, SegmentAtConn, Events,
           SegmentRefused, SegmentPushed, Ends
  <2> QED
    BY <1>4, <2>1
<1>9. CASE ReadNextBlock
  <2>1. pending = "UNKNOWN" /\ sAt = "read"
    BY <1>9 DEF DownloadInv, DownloadPlaces, ReadNextBlock
  <2>2. CASE conn.read < stream.sizes[1] /\ conn' = [conn EXCEPT !.read = @ + 1] /\ sAt' = "buffer" /\ pending' = pending
    <3>1. conn.read + 1 \in Nat /\ conn.read + 1 <= stream.sizes[1] /\ conn.read + 1 - 1 = conn.read
      BY <1>2, <2>2
    <3>2. /\ conn' \in [next : Nat, file : {1}, read : Nat, lost : BOOLEAN]
          /\ conn'.read = conn.read + 1 /\ conn'.lost = conn.lost
      BY <2>2, <3>1 DEF DownloadInv, DownloadTypes
    <3>3. DownloadTypes'
      BY <1>1, <3>1, <3>2 DEF DownloadInv, DownloadTypes
    <3>4. DownloadPlaces' /\ SegmentAtConn'
      BY <1>1, <2>1, <2>2 DEF DownloadInv, DownloadPlaces, DownloadSourcePlaces, Closing, SegmentAtConn, Events
    <3>5. Come = conn.read /\ Come' = conn.read
      <4>1. Come = conn.read /\ Come' = conn'.read - 1
        BY <2>1, <2>2 DEF Come
      <4> QED
        BY <1>2, <3>2, <4>1
    <3>6. StopIsEnd' /\ CacheMeetsConn' /\ CachePlaced'
      BY <1>1, <2>1, <2>2, <3>2, <3>5 DEF DownloadInv, StopIsEnd, CacheMeetsConn, CachePlaced, Closing
    <3> QED
      BY <3>3, <3>4, <3>6 DEF DownloadInv
  <2>3. CASE conn' = conn /\ pending' = "EOS" /\ sAt' = "eos"
    <3>1. DownloadPlaces' /\ SegmentAtConn'
      BY <1>1, <2>3 DEF DownloadInv, DownloadPlaces, DownloadSourcePlaces, Closing, SegmentAtConn, Events
    <3> QED
      BY <1>3, <2>3, <3>1
  <2>4. CASE conn' = conn /\ pending' = pending /\ sAt' = "merge"
    <3>1. DownloadPlaces' /\ SegmentAtConn' /\ Come' = Come
      BY <1>1, <2>1, <2>4 DEF DownloadInv, DownloadPlaces, DownloadSourcePlaces, Closing, SegmentAtConn, Come, Events
    <3> QED
      BY <1>3, <2>1, <2>4, <3>1
  <2> QED
    BY <1>2, <1>9, <2>2, <2>3, <2>4 DEF ReadNextBlock, NextEvent, Ends
<1>10. CASE BufferRefused
  <2>1. conn' = [conn EXCEPT !.lost = TRUE] /\ DownloadPlaces' /\ SegmentAtConn'
    BY <1>1, <1>10 DEF DownloadInv, DownloadPlaces, DownloadSourcePlaces, Closing, SegmentAtConn, Events,
           BufferRefused, BufferPushed, Ends
  <2> QED
    BY <1>4, <2>1
<1>11. CASE EosRefused
  <2>1. conn' = conn /\ DownloadPlaces' /\ SegmentAtConn' /\ pending' # "UNKNOWN"
    BY <1>1, <1>11 DEF DownloadInv, DownloadPlaces, DownloadSourcePlaces, Closing, SegmentAtConn, Events,
           EosRefused, Ends
  <2> QED
    BY <1>3, <2>1
<1>12. CASE Merge
  <2>1. /\ conn' = conn /\ DownloadPlaces' /\ SegmentAtConn'
        /\ pending' = pending /\ Come' = Come /\ sAt # "pb pad"
    BY <1>1, <1>12 DEF DownloadInv, DownloadPlaces, DownloadSourcePlaces, Closing, SegmentAtConn, Come, Events, Merge
  <2> QED
    BY <1>3, <2>1
<1> QED
    BY <1>5, <1>6, <1>7, <1>8, <1>9, <1>10, <1>11, <1>12 DEF SourceSteps

\* The buffer's handlers: a SEGMENT begins a cache at the position of the connection, a chunk
\* goes to its end, and none comes after the end of the segment.
LEMMA PBSourceStep ==
    ASSUME stream \in Streams, ~stream.hls, DownloadInv, PBSourceSteps
    PROVE  DownloadInv'
<1> USE DEF connVars, loopVars, appVars, bufferVars, readerVars, downVars, hlsVars, ringVars, sourceVars, pbVars, fillVars, flagVars
<1>1. UNCHANGED <<stream, position, flushing, app, target>>
    BY DEF PBSourceSteps, PBSegment, PBChain, PBCreateSourcepad, PBEos
<1>2. stream.sizes[1] \in Nat /\ conn.read \in Nat /\ conn.file = 1 /\ conn.read <= stream.sizes[1]
    BY SizesFacts DEF DownloadInv, DownloadTypes
<1>3. CASE PBSegment
  <2>1. /\ pending = "SEGMENT" /\ conn.read = position /\ pending' = "UNKNOWN" /\ sAt' = "merge"
        /\ DownloadPlaces' /\ SegmentAtConn'
    BY <1>1, <1>3 DEF DownloadInv, DownloadPlaces, DownloadSourcePlaces, Closing, SegmentAtConn, Events,
           PBSegment, SegmentPushed, Ends
  <2>2. CASE conn' = [conn EXCEPT !.lost = TRUE] /\ UNCHANGED <<cache, readOffset, segment>>
    <3>1. DownloadTypes' /\ conn'.lost
      BY <1>1, <2>2 DEF DownloadInv, DownloadTypes
    <3>2. StopIsEnd' /\ CacheMeetsConn' /\ CachePlaced'
      BY <3>1 DEF StopIsEnd, CacheMeetsConn, CachePlaced
    <3> QED
      BY <2>1, <3>1, <3>2 DEF DownloadInv
  <2>3. CASE /\ cache' = EmptyCache /\ readOffset' = position
             /\ segment' = [start |-> position, position |-> position, stop |-> stream.sizes[1]]
             /\ conn' = [conn EXCEPT !.lost = @ /\ ~(out = <<>> /\ bBuffer = NoBuffer)]
    <3>1. /\ conn' \in [next : Nat, file : {1}, read : Nat, lost : BOOLEAN] /\ conn'.read = conn.read
          /\ position \in Nat
      BY <1>2, <2>1, <2>3 DEF DownloadInv, DownloadTypes
    <3>2. /\ cache' \in [data : Seq(Nat \X Nat), read : Nat]
          /\ segment' \in [start : Nat, position : Nat, stop : Nat] /\ segment'.stop = stream.sizes[1]
          /\ cache'.data = <<>>
      BY <1>2, <2>3, <3>1, CacheFacts DEF CacheFile, EmptyCache
    <3>3. DownloadTypes'
      BY <1>1, <1>2, <2>3, <3>1, <3>2 DEF DownloadInv, DownloadTypes
    <3>4. StopIsEnd' /\ CachePlaced'
      BY <1>1, <3>2 DEF StopIsEnd, CachePlaced
    <3>5. CacheMeetsConn'
      BY <2>1, <2>3, <3>1, <3>2 DEF CacheMeetsConn, Come
    <3> QED
      BY <2>1, <3>3, <3>4, <3>5 DEF DownloadInv
  <2> QED
    BY <1>3, <2>2, <2>3 DEF PBSegment
<1>4. CASE PBChain
  <2>1. /\ pending = "UNKNOWN" /\ sAt = "buffer" /\ ~Closing /\ Come = conn.read - 1
        /\ conn' = conn /\ readOffset' = readOffset
        /\ segment' = [segment EXCEPT !.position = IF ChunkResult = "EOS" THEN @ ELSE conn.read]
    BY <1>4 DEF DownloadInv, DownloadPlaces, Come, PBChain
  <2>2. segment' \in [start : Nat, position : Nat, stop : Nat] /\ segment'.stop = segment.stop
    BY <1>2, <2>1 DEF DownloadInv, DownloadTypes
  <2>3. /\ DownloadPlaces' /\ SegmentAtConn'
        /\ ChunkResult = "EOS" => pending' # "UNKNOWN" \/ (sAt' = "pb pad" /\ sResult' = "EOS")
        /\ sAt' # "buffer"
    BY <1>1, <1>4, <2>1 DEF DownloadInv, DownloadPlaces, DownloadSourcePlaces, Closing, SegmentAtConn, Events,
           PBChain, BufferPushed, Ends
  <2>4. StopIsEnd'
    BY <1>1, <2>1, <2>2 DEF DownloadInv, StopIsEnd, Closing
  <2>5. ~conn.lost => ChunkResult # "ERROR"
    <3>1. ~conn.lost => segment.stop = stream.sizes[1]
      BY <2>1 DEF DownloadInv, StopIsEnd
    <3>2. ~conn.lost => ~(segment.stop < conn.read)
      BY <1>2, <3>1
    <3> QED
      BY <3>2 DEF ChunkResult
  <2>6. CASE ChunkResult # "OK"
    <3>1. cache' = cache
      BY <1>4, <2>6 DEF PBChain
    <3>2. DownloadTypes' /\ CachePlaced'
      BY <1>1, <2>1, <2>2, <3>1 DEF DownloadInv, DownloadTypes, CachePlaced
    <3>3. ChunkResult \in {"OK", "EOS", "ERROR"}
      BY DEF ChunkResult
    <3>4. CacheMeetsConn'
      BY <2>1, <2>3, <2>5, <2>6, <3>3 DEF CacheMeetsConn
    <3> QED
      BY <2>3, <2>4, <3>2, <3>4 DEF DownloadInv
  <2>7. CASE ChunkResult = "OK"
    <3> DEFINE data == cache.data
    <3>1. data \in Seq(Nat \X Nat) /\ Len(data) \in Nat /\ Chunk = <<1, conn.read>> /\ Chunk \in Nat \X Nat
      BY <1>2, LenProperties DEF DownloadInv, DownloadTypes, Chunk
    <3>2. /\ cache' \in [data : Seq(Nat \X Nat), read : Nat] /\ cache'.data = Append(data, Chunk)
      <4>1. cache' = [cache EXCEPT !.data = Append(@, Chunk)]
        BY <1>4, <2>7 DEF PBChain, cache_write_buffer
      <4>2. Append(data, Chunk) \in Seq(Nat \X Nat)
        BY <3>1, AppendProperties
      <4> QED
        BY <4>1, <4>2 DEF DownloadInv, DownloadTypes
    <3>3. /\ Len(cache'.data) = Len(data) + 1
          /\ \A i \in 1..Len(data) : cache'.data[i] = data[i]
          /\ cache'.data[Len(data) + 1] = Chunk
      BY <3>1, <3>2, AppendProperties
    <3>4. DownloadTypes'
      BY <1>1, <2>1, <2>2, <3>2 DEF DownloadInv, DownloadTypes
    <3>5. readOffset \in Nat /\ (~conn.lost => readOffset + Len(data) = conn.read - 1)
      BY <2>1 DEF DownloadInv, DownloadTypes, CacheMeetsConn
    <3>6. ASSUME ~conn.lost PROVE readOffset + (Len(data) + 1) = conn.read
      <4> DEFINE got == conn.read
      <4> DEFINE written == Len(data)
      <4>1. got \in Nat /\ written \in Nat /\ readOffset \in Nat /\ readOffset + written = got - 1
        BY <1>2, <3>1, <3>5, <3>6
      <4> HIDE DEF got, written
      <4>2. readOffset + (written + 1) = got
        BY ONLY <4>1
      <4> QED
        BY <4>2 DEF got, written
    <3>7. CacheMeetsConn'
      BY <2>1, <2>3, <3>3, <3>6 DEF CacheMeetsConn, Come
    <3>8. ASSUME ~conn.lost PROVE \A i \in 1..(Len(data) + 1) : cache'.data[i] = <<1, readOffset + i>>
      <4> TAKE i \in 1..(Len(data) + 1)
      <4>1. CASE i \in 1..Len(data)
        BY <3>3, <3>8, <4>1 DEF DownloadInv, CachePlaced
      <4>2. CASE i = Len(data) + 1
        BY <3>1, <3>3, <3>6, <3>8, <4>2
      <4> QED
        BY <3>1, <4>1, <4>2
    <3>9. CachePlaced'
      BY <1>1, <2>1, <3>3, <3>8 DEF CachePlaced
    <3> QED
      BY <2>3, <2>4, <3>4, <3>7, <3>9 DEF DownloadInv
  <2> QED
    BY <2>6, <2>7
<1>5. CASE PBCreateSourcepad
  <2>1. /\ pending = "UNKNOWN" /\ UNCHANGED <<conn, cache, readOffset, segment>>
        /\ DownloadPlaces' /\ SegmentAtConn'
        /\ pending' = "UNKNOWN" => sResult # "EOS" /\ Come' = Come
    BY <1>1, <1>5 DEF DownloadInv, DownloadPlaces, DownloadSourcePlaces, Closing, SegmentAtConn, Come, Events,
           PBCreateSourcepad, BufferPushed, Ends
  <2>2. DownloadTypes'
    BY <1>1, <2>1 DEF DownloadInv, DownloadTypes
  <2>3. StopIsEnd' /\ CacheMeetsConn' /\ CachePlaced'
    BY <1>1, <2>1 DEF DownloadInv, StopIsEnd, CacheMeetsConn, CachePlaced, Closing
  <2> QED
    BY <2>1, <2>2, <2>3 DEF DownloadInv
<1>6. CASE PBEos
  <2>1. /\ pending' = "EOS" /\ UNCHANGED <<conn, cache, readOffset>>
        /\ DownloadPlaces' /\ SegmentAtConn'
    BY <1>1, <1>6 DEF DownloadInv, DownloadPlaces, DownloadSourcePlaces, Closing, SegmentAtConn, Events, PBEos, Ends
  <2>2. segment' \in [start : Nat, position : Nat, stop : Nat]
    BY <1>6 DEF DownloadInv, DownloadTypes, PBEos
  <2>3. DownloadTypes'
    BY <1>1, <2>1, <2>2 DEF DownloadInv, DownloadTypes
  <2>4. StopIsEnd' /\ CacheMeetsConn' /\ CachePlaced'
    BY <1>1, <2>1 DEF DownloadInv, StopIsEnd, CacheMeetsConn, CachePlaced
  <2> QED
    BY <2>1, <2>3, <2>4 DEF DownloadInv
<1> QED
    BY <1>3, <1>4, <1>5, <1>6 DEF PBSourceSteps

\* The reader takes data out of the cache and never changes what was written.
LEMMA PBReaderStep ==
    ASSUME stream \in Streams, ~stream.hls, DownloadInv, PBReaderSteps
    PROVE  DownloadInv'
<1> USE DEF connVars, loopVars, appVars, bufferVars, readerVars, downVars, hlsVars, ringVars, sourceVars, pbVars, fillVars, flagVars
<1>1. /\ cache \in [data : Seq(Nat \X Nat), read : Nat] /\ target \in 0..stream.sizes[1]
      /\ segment \in [start : Nat, position : Nat, stop : Nat] /\ app \in DownloadAppPlaces
      /\ Closing => flushing # {}
    BY DEF DownloadInv, DownloadTypes, DownloadPlaces
<1>2. UNCHANGED <<stream, conn, position, readOffset, sAt, sResult, pending, target, segment, app, flushing>>
    BY DEF PBReaderSteps, PBWait, PBStopped, PBEvent, PBPushEvent, PBRead, PBPush, PBStore, PBPause
<1>3. cache' = cache \/ cache' = [cache EXCEPT !.read = @ + 1]
    BY DEF PBReaderSteps, PBWait, PBStopped, PBEvent, PBPushEvent, PBRead, PBPush, PBStore, PBPause, cache_read_buffer
<1>4. cache' \in [data : Seq(Nat \X Nat), read : Nat] /\ cache'.data = cache.data
    BY <1>1, <1>3
<1>5. Closing' = Closing
    BY <1>2 DEF Closing
<1> QED
    BY <1>1, <1>2, <1>4, <1>5, DownloadFrame

\* A seek moves the position of the connection and that of the next SEGMENT together, or
\* neither of them.
LEMMA DownloadSeekStep ==
    ASSUME stream \in Streams, ~stream.hls, DownloadInv, SeekSteps, UNCHANGED <<bufferVars, hlsVars, pbVars>>
    PROVE  DownloadInv'
<1> USE DEF connVars, loopVars, appVars, bufferVars, readerVars, downVars, hlsVars, ringVars, sourceVars, pbVars, fillVars, flagVars
<1>1. /\ cache \in [data : Seq(Nat \X Nat), read : Nat] /\ target \in 0..stream.sizes[1]
      /\ segment \in [start : Nat, position : Nat, stop : Nat]
      /\ stream.sizes[1] \in Nat
    BY SizesFacts DEF DownloadInv, DownloadTypes
<1>2. CASE SeekData
  <2>1. UNCHANGED <<stream, target, sAt, flushing, cache, readOffset, segment>> /\ ~Closing /\ ~Closing'
    BY <1>2 DEF SeekData, Closing
  <2>2. CASE conn' = [conn EXCEPT !.read = target] /\ position' = target /\ pending' = "SEGMENT" /\ app' = "flush stop"
    <3>a. target \in Nat /\ target <= stream.sizes[1] /\ conn \in [next : Nat, file : {1}, read : Nat, lost : BOOLEAN]
      BY <1>1 DEF DownloadInv, DownloadTypes
    <3>b. /\ conn' \in [next : Nat, file : {1}, read : Nat, lost : BOOLEAN]
          /\ conn'.read = target /\ conn'.lost = conn.lost
      BY <2>2, <3>a
    <3>1. DownloadTypes' /\ conn'.read = target /\ conn'.lost = conn.lost
      BY <1>1, <2>1, <2>2, <3>a, <3>b DEF DownloadInv, DownloadTypes
    <3>2. DownloadPlaces' /\ SegmentAtConn'
      BY <1>2, <2>1, <2>2, <3>1 DEF DownloadInv, DownloadPlaces, DownloadSourcePlaces, DownloadAppPlaces,
             SegmentAtConn, Events, SeekData, SourceIdle
    <3>3. StopIsEnd' /\ CacheMeetsConn' /\ CachePlaced'
      BY <2>1, <2>2, <3>1 DEF DownloadInv, StopIsEnd, CacheMeetsConn, CachePlaced
    <3> QED
      BY <3>1, <3>2, <3>3 DEF DownloadInv
  <2>3. CASE app' = "flush stop refused" /\ UNCHANGED <<conn, position, pending>>
    <3>1. UNCHANGED <<stream, conn, position, readOffset, sAt, sResult, pending>> /\ app' \in DownloadAppPlaces
      BY <1>2, <2>1, <2>3 DEF SeekData, DownloadAppPlaces
    <3> QED
      BY <1>1, <2>1, <3>1, DownloadFrame
  <2> QED
    BY <1>2, <2>2, <2>3 DEF SeekData, Sought
<1>3. CASE ~SeekData
  <2>1. /\ UNCHANGED <<stream, conn, position, readOffset, sAt, sResult, pending, target, cache, segment>>
        /\ app' \in DownloadAppPlaces
    BY <1>3 DEF SeekSteps, PushFlushStart, MarkFlushing, PushFlushStop, StartSource, StopSource, JoinSource,
           DownloadAppPlaces
  <2>2. (Closing => Closing') /\ (Closing' => flushing' # {})
    BY <1>3 DEF SeekSteps, PushFlushStart, MarkFlushing, PushFlushStop, StartSource, StopSource, JoinSource,
           Closing, DownloadInv, DownloadPlaces
  <2> QED
    BY <1>1, <2>1, <2>2, DownloadFrame
<1> QED
    BY <1>2, <1>3

\* Seeks and the shutdown in the buffer set the reader's position and never the data.
LEMMA PBAppStep ==
    ASSUME stream \in Streams, ~stream.hls, DownloadInv,
           PBAppSteps \/ PBClose \/ (\E to \in Positions : PBSeek(to)) \/ (SpuriousWakeUp /\ UNCHANGED pbVars)
    PROVE  DownloadInv'
<1> USE DEF connVars, loopVars, appVars, bufferVars, readerVars, downVars, hlsVars, ringVars, sourceVars, pbVars, fillVars, flagVars
<1>1. /\ cache \in [data : Seq(Nat \X Nat), read : Nat] /\ target \in 0..stream.sizes[1]
      /\ segment \in [start : Nat, position : Nat, stop : Nat]
      /\ readOffset \in Nat /\ app \in DownloadAppPlaces
      /\ Closing => flushing # {}
    BY DEF DownloadInv, DownloadTypes, DownloadPlaces
<1>a. stream.sizes[1] \in Nat
    BY SizesFacts
<1>2. SeekCache \in [data : Seq(Nat \X Nat), read : Nat] /\ SeekCache.data = cache.data
    BY <1>1 DEF SeekCache
<1>3. ASSUME NEW to \in Positions, PBSeek(to) PROVE DownloadInv'
  <2>1. /\ UNCHANGED <<stream, conn, position, readOffset, sAt, sResult, pending, cache, segment, flushing>>
        /\ app' \in DownloadAppPlaces /\ ~Closing /\ ~Closing' /\ target' = to
    BY <1>3 DEF PBSeek, DownloadAppPlaces, Closing
  <2>2. to \in 0..stream.sizes[1]
    BY <1>a DEF Positions
  <2> QED
    BY <1>1, <2>1, <2>2, DownloadFrame
<1>4. CASE PBAppSteps \/ PBClose \/ (SpuriousWakeUp /\ UNCHANGED pbVars)
  <2> USE DEF PBAppSteps, PBMark, PBLocked, PBAsk, PBSought, PBFlushStop, PBStart, PBJoin, PBSinkJoin, PBClose,
              SpuriousWakeUp
  <2>1. UNCHANGED <<stream, conn, position, readOffset, sAt, sResult, pending, target>>
    BY <1>4
  <2>2. app' \in DownloadAppPlaces /\ (Closing => Closing') /\ (Closing' => flushing' # {})
    BY <1>1, <1>4 DEF DownloadAppPlaces, Closing
  <2>3. cache' = cache \/ cache' = SeekCache
    BY <1>4
  <2>4. segment' = segment \/ (segment' = [start |-> 0, position |-> 0, stop |-> 0] /\ Closing')
    BY <1>4 DEF Closing
  <2>5. /\ segment' \in [start : Nat, position : Nat, stop : Nat]
        /\ segment'.stop = segment.stop \/ Closing'
    <3>1. CASE segment' = segment
      BY <1>1, <3>1
    <3>2. CASE segment' = [start |-> 0, position |-> 0, stop |-> 0] /\ Closing'
      BY <3>2
    <3> QED
      BY <2>4, <3>1, <3>2
  <2>6. cache' \in [data : Seq(Nat \X Nat), read : Nat] /\ cache'.data = cache.data
    BY <1>1, <1>2, <2>3
  <2> QED
    BY <1>1, <2>1, <2>2, <2>5, <2>6, DownloadFrame
<1> QED
    BY <1>3, <1>4

\* The steps of the ring are not those of a progressive download.
LEMMA NoRing ==
    ASSUME ~stream.hls, DownloadPlaces
    PROVE  /\ ~HLSSourceSteps /\ ~HLSReaderSteps /\ ~HLSAppSteps /\ ~HLSClose /\ ~HLSSpurious
           /\ \A to \in Positions : ~HLSSeek(to)
<1>1. ~HLSSourceSteps
    BY DEF DownloadPlaces, DownloadSourcePlaces, HLSSourceSteps, HLSSegment, HLSRestart, HLSSendSegment, HLSClaim,
           HLSFull, HLSWoken, HLSChain, HLSWrite, HLSEos
<1>2. ~HLSReaderSteps
    BY DEF HLSReaderSteps, HLSRead, HLSNothing, HLSStopped, HLSPush, HLSMerge, HLSFailed, HLSPause
<1>3. ~HLSAppSteps
    BY DEF DownloadPlaces, DownloadAppPlaces, HLSAppSteps, HLSFlushFlag, HLSFlushDown, HLSFlushData, HLSPauseReader,
           HLSReaderPaused, HLSFlushStopDown, HLSFlushStop, HLSDeactivate, HLSJoin, HLSSinkJoin
<1> QED
    BY <1>1, <1>2, <1>3 DEF HLSClose, HLSSeek, HLSSpurious, DownloadPlaces, DownloadSourcePlaces

\* Every step of a progressive download keeps the invariant.
LEMMA DownloadStep ==
    ASSUME stream \in Streams, ~stream.hls, DownloadInv, [Next]_vars
    PROVE  DownloadInv' /\ stream' = stream
<1>1. DownloadPlaces
    BY DEF DownloadInv
<1>2. CASE SourceThread
  <2>1. CASE SourceSteps /\ UNCHANGED <<bufferVars, hlsVars, pbVars>>
    <3>1. stream' = stream
      BY <2>1 DEF SourceSteps, LoopBegins, PushStreamStart, GetStreamSize, Sized, SegmentRefused,
             ReadNextBlock, BufferRefused, EosRefused, Merge
    <3> QED
      BY <2>1, <3>1, DownloadSourceStep
  <2>2. CASE PBSourceSteps
    <3>1. stream' = stream
      BY <2>2 DEF PBSourceSteps, PBSegment, PBChain, PBCreateSourcepad, PBEos
    <3> QED
      BY <2>2, <3>1, PBSourceStep
  <2> QED
    BY <1>1, <1>2, <2>1, <2>2, NoRing DEF SourceThread
<1>3. CASE ReaderThread
  <2>1. PBReaderSteps
    BY <1>1, <1>3, NoRing DEF ReaderThread
  <2>2. stream' = stream
    BY <2>1 DEF PBReaderSteps, PBWait, PBStopped, PBEvent, PBPushEvent, PBRead, PBPush, PBStore, PBPause, sourceVars
  <2> QED
    BY <2>1, <2>2, PBReaderStep
<1>4. CASE AppThread /\ ~PBAppSteps
  <2>1. SeekSteps /\ UNCHANGED <<bufferVars, hlsVars, pbVars>>
    BY <1>1, <1>4, NoRing DEF AppThread
  <2>2. stream' = stream
    BY <2>1 DEF SeekSteps, PushFlushStart, MarkFlushing, SeekData, PushFlushStop, StartSource, StopSource, JoinSource
  <2> QED
    BY <2>1, <2>2, DownloadSeekStep
<1>5. CASE Requests \/ Spurious \/ PBAppSteps
  <2>1. PBAppSteps \/ PBClose \/ (\E to \in Positions : PBSeek(to)) \/ (SpuriousWakeUp /\ UNCHANGED pbVars)
    BY <1>1, <1>5, NoRing DEF Requests, Spurious
  <2>2. stream' = stream
    BY <2>1 DEF PBAppSteps, PBMark, PBLocked, PBAsk, PBSought, PBFlushStop, PBStart, PBJoin, PBSinkJoin,
           PBSeek, PBClose, SpuriousWakeUp, sourceVars
  <2> QED
    BY <2>1, <2>2, PBAppStep
<1>6. CASE UNCHANGED vars
  <2> USE DEF vars, connVars, loopVars, appVars, bufferVars, readerVars, downVars, hlsVars, ringVars, sourceVars, pbVars, fillVars, flagVars
  <2>1. /\ UNCHANGED <<stream, conn, position, readOffset, sAt, sResult, pending, target, cache, segment, app, flushing>>
        /\ Closing' = Closing
    BY <1>6 DEF Closing
  <2>2. /\ cache \in [data : Seq(Nat \X Nat), read : Nat] /\ target \in 0..stream.sizes[1]
        /\ segment \in [start : Nat, position : Nat, stop : Nat] /\ app \in DownloadAppPlaces
        /\ Closing => flushing # {}
    BY DEF DownloadInv, DownloadTypes, DownloadPlaces
  <2> QED
    BY <2>1, <2>2, DownloadFrame
<1> QED
    BY <1>2, <1>3, <1>4, <1>5, <1>6 DEF Next

-----------------------------------------------------------------------------
(* Progressive download: what the demuxer is given.  The steps of the source. *)

\* Types that the steps below need over and over.
LEMMA DeliveryFacts ==
    ASSUME stream \in Streams, ~stream.hls, DownloadInv, DeliveryInv
    PROVE  /\ Size \in Nat \ {0} /\ stream.sizes[1] = Size
           /\ conn.read \in Nat /\ conn.read <= Size /\ conn.file = 1
           /\ readOffset \in Nat /\ cache.read \in Nat /\ Len(cache.data) \in Nat
           /\ Len(out) \in Nat /\ (out = <<>> <=> Len(out) = 0)
           /\ segment.start \in Nat /\ segment.position \in Nat /\ segment.stop \in Nat
           /\ failures \in Nat
           /\ target \in 0..(Size - 1) /\ target \in Int /\ target >= 0 /\ target < Size
           /\ sAt \in DownloadSourcePlaces /\ app \in DownloadAppPlaces /\ pending \in Events
<1>1. Size \in Nat \ {0} /\ stream.sizes[1] = Size
    BY SizesFacts DEF Size
<1>2. out \in Seq(Nat \X Nat) /\ cache.data \in Seq(Nat \X Nat) /\ failures \in Nat
    BY DEF DeliveryInv, ReaderInv, ReaderTypes, DownloadInv, DownloadTypes
<1>3. Len(out) \in Nat /\ (out = <<>> <=> Len(out) = 0) /\ Len(cache.data) \in Nat
    BY <1>2, LenProperties, EmptySeq
<1>4. /\ conn.read \in Nat /\ conn.read <= Size /\ conn.file = 1
      /\ readOffset \in Nat /\ cache.read \in Nat
      /\ segment.start \in Nat /\ segment.position \in Nat /\ segment.stop \in Nat
    BY DEF DownloadInv, DownloadTypes, Size
<1>5. sAt \in DownloadSourcePlaces /\ app \in DownloadAppPlaces /\ pending \in Events
    BY DEF DownloadInv, DownloadPlaces
<1>6. target \in 0..(Size - 1)
    BY DEF DeliveryInv, ReaderInv, HandTypes
<1>7. target \in Int /\ target >= 0 /\ target < Size
    BY <1>1, <1>6
<1> QED
    BY <1>1, <1>2, <1>3, <1>4, <1>5, <1>6, <1>7

\* Nothing was given.
LEMMA NothingGiven == <<>> \in Seq(Nat \X Nat) /\ Len(<<>>) = 0
    OBVIOUS

\* Nothing that disturbs the order is forgotten: a history variable only grows, and what was
\* lost is forgotten only with a SEGMENT.
LEMMA GoodFrame ==
    ASSUME failures \in Nat, failures' \in Nat, failures' >= failures, mishaps \subseteq mishaps',
           conn'.lost = conn.lost \/ conn'.lost = TRUE
    PROVE  (NothingHappened' => NothingHappened) /\ (Good' => Good)
<1>1. NothingHappened' => NothingHappened
    BY DEF NothingHappened
<1>2. NothingMisplaced' => NothingMisplaced
    BY DEF NothingMisplaced
<1> QED
    BY <1>1, <1>2 DEF Good

\* So it is with a step of which nothing fails.
LEMMA GoodSame ==
    ASSUME failures' = failures, conn'.lost = conn.lost, mishaps \subseteq mishaps'
    PROVE  (NothingHappened' => NothingHappened) /\ (Good' => Good)
    BY DEF Good, NothingHappened, NothingMisplaced

\* The order is kept by all steps that neither give the demuxer or the reader anything, nor
\* turn to another place of the cache, nor end a flush.
LEMMA OrderFrame ==
    ASSUME OrderInv, Good' => Good, Size' = Size,
           UNCHANGED <<dSegment, out, bBuffer, pendingSrc, readOffset, instantSeek, hasSrcpad>>,
           cache'.read = cache.read,
           bAt' = bAt \/ (bAt \notin {"push", "event"} /\ bAt' \notin {"push", "event"}),
           app' \in LockedPlaces => app \in LockedPlaces, Closing => Closing',
           ~dFlushing' => ~dFlushing /\ (bSrcresult' = "OK" /\ ~skip' => bSrcresult = "OK" /\ ~skip)
    PROVE  OrderInv'
<1>1. GivenPlaced'
    BY DEF OrderInv, GivenPlaced, Placed
<1>2. InHandIsNext'
    BY DEF OrderInv, InHandIsNext
<1>3. SegmentIsNext'
    BY DEF OrderInv, SegmentIsNext, SegmentWaits, SegmentInHand
<1>4. CacheIsNext'
    BY DEF OrderInv, CacheIsNext, SegmentWaits
<1> QED
    BY <1>1, <1>2, <1>3, <1>4 DEF OrderInv

\* The events that the buffer makes.
LEMMA EventFacts ==
    /\ \A at \in Int : /\ SegmentEvent(at) \in EventTypes /\ SegmentEvent(at) # NoEvent
                       /\ SegmentEvent(at).type = "SEGMENT" /\ SegmentEvent(at).at = at
    /\ EosEvent \in EventTypes /\ EosEvent # NoEvent /\ EosEvent.type = "EOS"
    BY NoEventAssumption DEF EventTypes, SegmentEvent, EosEvent, NoPosition

\* The task of the source, up to the handlers of the buffer.
LEMMA DeliverySourceStep ==
    ASSUME stream \in Streams, ~stream.hls, DownloadInv, DownloadInv', DeliveryInv,
           SourceSteps, UNCHANGED <<bufferVars, hlsVars, pbVars>>
    PROVE  DeliveryInv'
<1> USE DEF connVars, loopVars, appVars, bufferVars, readerVars, downVars, hlsVars, ringVars, sourceVars, pbVars, fillVars, flagVars
<1>1. UNCHANGED <<stream, position, flushing, app, target>> /\ Size' = Size
    BY DEF SourceSteps, LoopBegins, PushStreamStart, GetStreamSize, Sized, SegmentRefused, ReadNextBlock,
           BufferRefused, EosRefused, Merge, Size
<1>2. /\ Size \in Nat \ {0} /\ stream.sizes[1] = Size
      /\ conn.read \in Nat /\ conn.read <= Size /\ conn.file = 1 /\ failures \in Nat
      /\ conn \in [next : Nat, file : {1}, read : Nat, lost : BOOLEAN]
      /\ sAt \in DownloadSourcePlaces /\ app \in DownloadAppPlaces /\ pending \in Events
    BY DeliveryFacts DEF DownloadInv, DownloadTypes
<1>3. (NothingHappened' => NothingHappened) /\ (Good' => Good) /\ failures' \in Nat /\ failures' >= failures
  <2>1. failures' = failures \/ failures' = failures + 1
    BY DEF SourceSteps, LoopBegins, PushStreamStart, GetStreamSize, Sized, SegmentRefused, ReadNextBlock,
           BufferRefused, EosRefused, Merge
  <2>3. conn'.lost = conn.lost \/ conn'.lost = TRUE
    <3>1. CASE SegmentRefused \/ BufferRefused
      BY <1>2, <3>1 DEF SegmentRefused, BufferRefused
    <3>2. CASE GetStreamSize \/ ReadNextBlock
      BY <1>2, <3>2 DEF GetStreamSize, ReadNextBlock
    <3>3. CASE LoopBegins \/ PushStreamStart \/ Sized \/ EosRefused \/ Merge
      BY <3>3 DEF LoopBegins, PushStreamStart, Sized, EosRefused, Merge
    <3> QED
      BY <3>1, <3>2, <3>3 DEF SourceSteps
  <2>2. failures' \in Nat /\ failures' >= failures
    BY <1>2, <2>1
  <2> QED
    BY <1>2, <2>2, <2>3, GoodFrame
<1>4. /\ sAt # "pb pad" /\ sAt' # "pb pad"
      /\ pending' \in {"STREAM_START", "SEGMENT"} => pending \in {"STREAM_START", "SEGMENT"}
  <2>1. CASE LoopBegins \/ ReadNextBlock
    BY <1>2, <2>1 DEF LoopBegins, ReadNextBlock, NextEvent, Ends, Events
  <2>2. CASE ~(LoopBegins \/ ReadNextBlock)
    BY <1>2, <2>2 DEF SourceSteps, PushStreamStart, GetStreamSize, Sized, SegmentRefused, BufferRefused,
           EosRefused, Merge, SegmentPushed, BufferPushed, Ends, DownloadInv, DownloadPlaces, DownloadSourcePlaces
  <2> QED
    BY <2>1, <2>2
<1>5. ReaderInv'
  <2>1. ReaderTypes'
    BY <1>1, <1>3 DEF DeliveryInv, ReaderInv, ReaderTypes
  <2>5. HandTypes'
    BY <1>1, <1>3 DEF DeliveryInv, ReaderInv, HandTypes, SegmentInHand, SegmentWaits
  <2>6. FlushKnown'
    BY <1>1 DEF DeliveryInv, ReaderInv, FlushKnown, Seeking, Closed, Closing
  <2>7. ReaderRests'
    BY <1>1, <1>3 DEF DeliveryInv, ReaderInv, ReaderRests
  <2>8. ResultKnown'
    BY <1>1, <1>3 DEF DeliveryInv, ReaderInv, ResultKnown, EosInHand
  <2>2. NoReaderYet'
    BY <1>1, <1>4 DEF DeliveryInv, ReaderInv, NoReaderYet, Seeking
  <2>3. app \notin {"flush stop", "start"}
    BY <1>2 DEF DeliveryInv, ReaderInv, SourceKnown,
           SourceSteps, LoopBegins, PushStreamStart, GetStreamSize, Sized, SegmentRefused, ReadNextBlock,
           BufferRefused, EosRefused, Merge
  <2>9. sAt' = "buffer" => conn'.read > 0
    <3>1. CASE ReadNextBlock
      BY <1>2, <3>1 DEF ReadNextBlock, NextEvent, Ends
    <3>2. CASE ~ReadNextBlock
      BY <1>2, <3>2 DEF SourceSteps, LoopBegins, PushStreamStart, GetStreamSize, Sized, SegmentRefused,
             BufferRefused, EosRefused, Merge, SegmentPushed, BufferPushed, Ends, NextEvent, Events
    <3> QED
      BY <3>1, <3>2
  <2>10. failures > 0 => failures' > 0
    BY <1>2, <1>3
  <2>4. SourceKnown'
    BY <1>1, <2>3, <2>9, <2>10 DEF DeliveryInv, ReaderInv, SourceKnown, Closing
  <2> QED
    BY <2>1, <2>2, <2>4, <2>5, <2>6, <2>7, <2>8 DEF ReaderInv
<1>6. OrderInv'
    BY <1>1, <1>3, OrderFrame DEF DeliveryInv, Closing
<1>7. SoughtIsTarget'
    BY <1>1, <1>4 DEF DeliveryInv, SoughtIsTarget, SegmentWaits, SegmentInHand
<1>8. EosIsLast'
    BY <1>1, <1>3 DEF DeliveryInv, EndInv, EosIsLast, EosWaits, EosInHand, Closing
<1>9. StopsAtEnd'
  <2>1. CASE SegmentRefused
    BY <1>1, <1>3, <1>4, <2>1 DEF DeliveryInv, ReaderInv, EndInv, StopsAtEnd, NoReaderYet, SourceKnown,
           Seeking, LockedPlaces, Closing, SegmentRefused
  <2>2. CASE ~SegmentRefused
    <3>1. pending \in {"STREAM_START", "SEGMENT"} => pending' \in {"STREAM_START", "SEGMENT"}
      BY <1>2, <2>2 DEF DownloadInv, DownloadPlaces, SourceSteps, LoopBegins, PushStreamStart, GetStreamSize, Sized,
             ReadNextBlock, BufferRefused, EosRefused, Merge, BufferPushed, DownloadSourcePlaces
    <3> QED
      BY <1>1, <1>3, <1>4, <3>1 DEF DeliveryInv, EndInv, StopsAtEnd, Closing
  <2> QED
    BY <2>1, <2>2
<1>10. CacheGrows'
  <2>1. ASSUME flushing = {}
        PROVE  \/ pending' \in {"STREAM_START", "SEGMENT"}
               \/ pending' = pending /\ Come' = Come
               \/ pending = "UNKNOWN" /\ Come = Size /\ pending' = "EOS"
    <3>1. CASE ReadNextBlock
      <4>1. pending = "UNKNOWN" /\ Come = conn.read
        BY <3>1 DEF DownloadInv, DownloadPlaces, ReadNextBlock, Come
      <4>2. CASE conn.read < stream.sizes[conn.file] /\ conn' = [conn EXCEPT !.read = @ + 1] /\ sAt' = "buffer" /\ pending' = pending
        <5>1. conn'.read = conn.read + 1
          BY <1>2, <4>2
        <5> QED
          BY <1>2, <4>1, <4>2, <5>1 DEF Come
      <4>3. CASE conn.read = stream.sizes[conn.file] /\ pending' = "EOS"
        BY <1>2, <4>1, <4>3
      <4>4. CASE conn' = conn /\ pending' = pending /\ sAt' = "merge"
        BY <4>1, <4>4 DEF Come
      <4> QED
        BY <3>1, <4>2, <4>3, <4>4 DEF ReadNextBlock, Ends
    <3>2. CASE ~ReadNextBlock
      BY <1>2, <2>1, <3>2 DEF Come, DownloadInv, DownloadPlaces, SourceSteps, LoopBegins, PushStreamStart, GetStreamSize,
             Sized, SegmentRefused, BufferRefused, EosRefused, Merge, Ends, NextEvent, DownloadSourcePlaces, Events
    <3> QED
      BY <3>1, <3>2
  <2>2. UNCHANGED <<Full, CacheToEnd>>
    BY <1>1 DEF Full, CacheToEnd
  <2> QED
    BY <1>1, <1>3, <1>4, <2>1, <2>2 DEF DeliveryInv, EndInv, CacheGrows
<1> QED
    BY <1>5, <1>6, <1>7, <1>8, <1>9, <1>10 DEF DeliveryInv, EndInv

-----------------------------------------------------------------------------
(* The steps of the buffer on the thread of the source. *)

\* A SEGMENT reaches the buffer after its EOS and is forgotten.
LEMMA DeliverySegmentLost ==
    ASSUME stream \in Streams, ~stream.hls, DownloadInv, DownloadInv', DeliveryInv,
           PBSegment, eosStatus
    PROVE  DeliveryInv'
<1> USE DEF connVars, loopVars, appVars, bufferVars, readerVars, downVars, hlsVars, ringVars, sourceVars, pbVars, fillVars, flagVars
<1>1. /\ Size \in Nat \ {0} /\ stream.sizes[1] = Size /\ stream' = stream /\ Size' = Size
      /\ conn.read \in Nat /\ conn.read <= Size /\ conn.file = 1
      /\ readOffset \in Nat /\ cache.read \in Nat /\ Len(cache.data) \in Nat
      /\ Len(out) \in Nat /\ (out = <<>> <=> Len(out) = 0)
      /\ segment.start \in Nat /\ segment.position \in Nat /\ segment.stop \in Nat /\ failures \in Nat
      /\ sAt \in DownloadSourcePlaces /\ app \in DownloadAppPlaces /\ pending \in Events
    BY DeliveryFacts DEF PBSegment, Size
<1>2. (NothingHappened' => NothingHappened) /\ (Good' => Good)
  <2>1. failures' = failures /\ mishaps' = mishaps /\ conn'.lost = TRUE
    BY DEF PBSegment, DownloadInv, DownloadTypes
  <2>2. failures \in Nat
    BY <1>1
  <2>3. failures' \in Nat /\ failures' >= failures
    BY ONLY <2>1, <2>2
  <2> QED
    BY <2>1, <2>2, <2>3, GoodFrame
<1>3. /\ sAt = "segment" /\ flushing = {} /\ pending = "SEGMENT" /\ ~Closing /\ conn.read = position
      /\ sAt' = "merge" /\ pending' = "UNKNOWN" /\ Come' = conn'.read /\ position < Size /\ position # Size /\ position \in Nat
      /\ app \notin {"mark", "seek data", "flush stop", "flush stop refused", "start"}
  <2>1. sAt = "segment" /\ flushing = {} /\ sAt' = "merge" /\ pending' = "UNKNOWN"
    BY DEF PBSegment, SegmentPushed, Ends
  <2>2. pending = "SEGMENT" /\ ~Closing /\ conn.read = position
    BY <2>1 DEF DownloadInv, DownloadPlaces, SegmentAtConn
  <2>3. position \in 0..(Size - 1)
    BY DEF DeliveryInv, ReaderInv, HandTypes
  <2>4. position < Size /\ position # Size /\ position \in Nat
    BY <1>1, <2>3
  <2> QED
    BY <2>1, <2>2, <2>4 DEF DeliveryInv, ReaderInv, SourceKnown, Come
<1>4. /\ UNCHANGED <<stream, failures, sTask, position, flushing, app, target>> /\ conn'.read = conn.read
      /\ UNCHANGED <<bAt, bTask, bResult, bBuffer, bSrcresult, dFlushing, dSegment, out, dEos, mishaps>>
      /\ UNCHANGED <<cache, readOffset, segment, eosStatus, pendingSrc, instantSeek, hasSrcpad, skip>>
    BY DEF PBSegment, DownloadInv, DownloadTypes
<1>5. /\ UNCHANGED <<SegmentWaits, EosWaits, SegmentInHand, EosInHand, Full, CacheToEnd>>
    BY <1>1, <1>4 DEF SegmentWaits, EosWaits, SegmentInHand, EosInHand, Full, CacheToEnd
<1>6. NothingHappened => Full /\ segment.stop = Size
    BY <1>3 DEF DeliveryInv, EndInv, CacheGrows, StopsAtEnd
<1>7. ReaderTypes'
    BY <1>1, <1>3, <1>4, <1>5, <1>6 DEF DeliveryInv, ReaderInv, ReaderTypes, ReaderPlaces, EventTypes
<1>8. HandTypes'
    BY <1>1, <1>3, <1>4, <1>5, <1>6 DEF DeliveryInv, ReaderInv, HandTypes, SegmentInHand, SegmentWaits,
           EventTypes
<1>9. FlushKnown'
    BY <1>1, <1>3, <1>4, <1>5, <1>6 DEF DeliveryInv, ReaderInv, FlushKnown, Seeking, Closed, Closing,
           LockedPlaces
<1>10. ReaderRests'
    BY <1>1, <1>3, <1>4, <1>5, <1>6 DEF DeliveryInv, ReaderInv, ReaderRests, LockedPlaces
<1>11. ResultKnown'
    BY <1>1, <1>3, <1>4, <1>5, <1>6 DEF DeliveryInv, ReaderInv, ResultKnown, EosInHand
<1>12. NoReaderYet'
    BY <1>1, <1>3, <1>4, <1>5, <1>6 DEF DeliveryInv, ReaderInv, NoReaderYet, Seeking, LockedPlaces
<1>13. SourceKnown'
    BY <1>1, <1>3, <1>4, <1>5, <1>6 DEF DeliveryInv, ReaderInv, SourceKnown, Closing
<1>14. OrderInv'
    BY <1>1, <1>2, <1>4, OrderFrame DEF DeliveryInv, Closing
<1>15. SoughtIsTarget'
    BY <1>3, <1>4, <1>5 DEF DeliveryInv, SoughtIsTarget
<1>16. CacheGrows'
    BY <1>1, <1>2, <1>3, <1>4, <1>5, <1>6 DEF DeliveryInv, EndInv, CacheGrows
<1>17. StopsAtEnd'
    BY <1>1, <1>2, <1>4, <1>6 DEF StopsAtEnd
<1>18. EosIsLast'
    BY <1>1, <1>2, <1>4, <1>5 DEF DeliveryInv, EndInv, EosIsLast, Closing
<1> QED
    BY <1>7, <1>8, <1>9, <1>10, <1>11, <1>12, <1>13, <1>14, <1>15, <1>16, <1>17, <1>18 DEF DeliveryInv,
           ReaderInv, EndInv

\* A SEGMENT begins a new cache and waits for the reader; what was lost before is forgotten only
\* if neither the demuxer nor the reader has any of the old cache.
LEMMA DeliverySegmentTaken ==
    ASSUME stream \in Streams, ~stream.hls, DownloadInv, DownloadInv', DeliveryInv,
           PBSegment, ~eosStatus
    PROVE  DeliveryInv'
<1> USE DEF connVars, loopVars, appVars, bufferVars, readerVars, downVars, hlsVars, ringVars, sourceVars, pbVars, fillVars, flagVars
<1>1. /\ Size \in Nat \ {0} /\ stream.sizes[1] = Size /\ stream' = stream /\ Size' = Size
      /\ conn.read \in Nat /\ conn.read <= Size /\ conn.file = 1
      /\ readOffset \in Nat /\ cache.read \in Nat /\ Len(cache.data) \in Nat
      /\ Len(out) \in Nat /\ (out = <<>> <=> Len(out) = 0)
      /\ segment.start \in Nat /\ segment.position \in Nat /\ segment.stop \in Nat /\ failures \in Nat
      /\ sAt \in DownloadSourcePlaces /\ app \in DownloadAppPlaces /\ pending \in Events
    BY DeliveryFacts DEF PBSegment, Size
<1>2. /\ sAt = "segment" /\ flushing = {} /\ pending = "SEGMENT" /\ ~Closing /\ conn.read = position
      /\ sAt' = "merge" /\ pending' = "UNKNOWN" /\ Come' = conn'.read /\ position < Size /\ position # Size /\ position \in Nat
      /\ app \notin {"mark", "seek data", "flush stop", "flush stop refused", "start"}
  <2>1. sAt = "segment" /\ flushing = {} /\ sAt' = "merge" /\ pending' = "UNKNOWN"
    BY DEF PBSegment, SegmentPushed, Ends
  <2>2. pending = "SEGMENT" /\ ~Closing /\ conn.read = position
    BY <2>1 DEF DownloadInv, DownloadPlaces, SegmentAtConn
  <2>3. position \in 0..(Size - 1)
    BY DEF DeliveryInv, ReaderInv, HandTypes
  <2>4. position < Size /\ position # Size /\ position \in Nat
    BY <1>1, <2>3
  <2> QED
    BY <2>1, <2>2, <2>4 DEF DeliveryInv, ReaderInv, SourceKnown, Come
<1>3. /\ UNCHANGED <<stream, failures, sTask, position, flushing, app, target>> /\ conn'.read = conn.read
      /\ UNCHANGED <<bTask, bResult, bBuffer, bSrcresult, dFlushing, dSegment, out, dEos>>
      /\ UNCHANGED <<eosStatus, hasSrcpad, skip>>
    BY DEF PBSegment, DownloadInv, DownloadTypes
<1>4. /\ cache'.data = <<>> /\ cache'.read = 0 /\ Len(cache'.data) = 0 /\ readOffset' = position
      /\ segment'.start = position /\ segment'.position = position /\ segment'.stop = Size
      /\ pendingSrc' = SegmentEvent(position) /\ instantSeek' = TRUE
      /\ bAt' = bAt \/ (bAt = "asleep" /\ bAt' = "woken")
  <2>1. /\ cache' = EmptyCache /\ readOffset' = position
        /\ segment' = [start |-> position, position |-> position, stop |-> stream.sizes[1]]
        /\ pendingSrc' = SegmentEvent(position) /\ instantSeek' = TRUE
    BY DEF PBSegment
  <2>2. bAt' = bAt \/ (bAt = "asleep" /\ bAt' = "woken")
    BY DEF PBSegment, SignalAdd
  <2>3. cache'.data = <<>> /\ cache'.read = 0
    BY <2>1 DEF EmptyCache
  <2>4. segment'.start = position /\ segment'.position = position /\ segment'.stop = Size
    BY <1>1, <2>1
  <2> QED
    BY <2>1, <2>2, <2>3, <2>4, NothingGiven
<1>5. position \in Int /\ readOffset' + cache'.read = position /\ readOffset' + Len(cache'.data) = position
  <2>1. position \in Int /\ position + 0 = position
    <3>1. position \in Nat
      BY <1>2
    <3> QED
      BY ONLY <3>1
  <2> QED
    BY <2>1, <1>4
<1>6. /\ SegmentWaits' /\ ~EosWaits' /\ pendingSrc'.at = position /\ pendingSrc' \in EventTypes
    BY <1>4, <1>5, EventFacts DEF SegmentWaits, EosWaits
<1>7. /\ SegmentInHand' <=> SegmentInHand
      /\ EosInHand' <=> EosInHand
    BY <1>4, <1>3 DEF SegmentInHand, EosInHand
<1>8. /\ mishaps' = mishaps \union (IF SeekGivesWay THEN {"seek overtaken"} ELSE {})
      /\ conn'.lost <=> conn.lost /\ ~(out = <<>> /\ bBuffer = NoBuffer)
  <2>1. conn \in [next : Nat, file : {1}, read : Nat, lost : BOOLEAN]
    BY DEF DownloadInv, DownloadTypes
  <2> QED
    BY <2>1 DEF PBSegment
<1>9. /\ NothingHappened' => NothingHappened
      /\ mishaps' = {} => mishaps = {} /\ ~SeekGivesWay
    BY <1>8, <1>3 DEF NothingHappened
<1>10. /\ Good' /\ out # <<>> => Good
       /\ Good' /\ bBuffer # NoBuffer => Good
    BY <1>8, <1>9 DEF Good, NothingMisplaced
<1>11. ReaderTypes'
    BY <1>3, <1>4, <1>6 DEF DeliveryInv, ReaderInv, ReaderTypes, ReaderPlaces
<1>12. HandTypes'
    BY <1>1, <1>3, <1>4, <1>6, <1>7 DEF DeliveryInv, ReaderInv, HandTypes
<1>13. FlushKnown'
    BY <1>3 DEF DeliveryInv, ReaderInv, FlushKnown, Seeking, Closed, Closing
<1>14. ReaderRests'
    BY <1>3, <1>4 DEF DeliveryInv, ReaderInv, ReaderRests
<1>15. ResultKnown'
    BY <1>3, <1>7, <1>4 DEF DeliveryInv, ReaderInv, ResultKnown
<1>16. NoReaderYet'
    BY <1>3, <1>4, <1>2 DEF DeliveryInv, ReaderInv, NoReaderYet, Seeking
<1>17. SourceKnown'
    BY <1>3, <1>2, <1>4 DEF DeliveryInv, ReaderInv, SourceKnown, Closing
<1>18. OrderInv'
  <2>1. GivenPlaced'
    BY <1>1, <1>3, <1>10 DEF DeliveryInv, OrderInv, GivenPlaced, Placed
  <2>2. InHandIsNext'
    <3>1. bAt = "push" => bBuffer # NoBuffer
      <4>1. bAt = "push" => bBuffer \in {1} \X (1..Size)
        BY DEF DeliveryInv, ReaderInv, HandTypes
      <4> QED
        BY <4>1, NoBufferAssumption
    <3> QED
      BY <3>1, <1>3, <1>4, <1>10 DEF DeliveryInv, OrderInv, InHandIsNext
  <2>3. SegmentIsNext'
    <3>1. readOffset' + cache'.read = position
      BY <1>5
    <3> QED
      BY <3>1, <1>6 DEF SegmentIsNext
  <2>4. CacheIsNext'
    BY <1>6 DEF CacheIsNext
  <2> QED
    BY <2>1, <2>2, <2>3, <2>4 DEF OrderInv
<1>19. SoughtIsTarget'
  <2> SUFFICES ASSUME mishaps' = {} PROVE SoughtIsTarget'
    BY DEF SoughtIsTarget
  <2>1. mishaps = {} /\ ~SeekGivesWay
    BY <1>9
  <2>2. app \in {"pb ask", "flush start"} => hasSrcpad
    BY DEF DeliveryInv, ReaderInv, NoReaderYet, Seeking, LockedPlaces
  <2>3. app \notin {"pb ask", "flush start"} /\ (~hasSrcpad \/ ~instantSeek)
    BY <2>1, <2>2 DEF SeekGivesWay
  <2>4. app \in {"sought", "pb stop", "pb start", "idle"} => position = target
    BY <2>1, <2>3, <1>2 DEF DeliveryInv, SoughtIsTarget
  <2>5. app \in {"idle", "pb start"} => (SegmentInHand => bBuffer.at = target) /\ dSegment \in {NoPosition, target}
    BY <2>1 DEF DeliveryInv, SoughtIsTarget
  <2> QED
    BY <2>3, <2>4, <2>5, <1>2, <1>3, <1>6, <1>7 DEF SoughtIsTarget
<1>20. CacheGrows'
  <2>1. CacheToEnd'
    BY <1>4 DEF CacheToEnd
  <2>2. readOffset' + Len(cache'.data) = Come' /\ Come' # Size'
    BY <1>1, <1>5, <1>2, <1>3
  <2> QED
    BY <2>1, <2>2, <1>2, <1>3 DEF CacheGrows
<1>21. StopsAtEnd'
    BY <1>1, <1>4 DEF StopsAtEnd
<1>22. EosIsLast'
  <2>1. readOffset' + cache'.read < Size'
    BY <1>1, <1>5, <1>2
  <2>2. /\ NothingHappened => ~skip
        /\ NothingHappened /\ EosInHand /\ ~dFlushing => dSegment # NoPosition /\ dSegment + Len(out) = Size
        /\ NothingHappened /\ dEos /\ dSegment # NoPosition => dSegment + Len(out) = Size
    BY DEF DeliveryInv, EndInv, EosIsLast
  <2> QED
    BY <1>1, <2>1, <2>2, <1>9, <1>3, <1>6, <1>7 DEF EosIsLast
<1> QED
    BY <1>11, <1>12, <1>13, <1>14, <1>15, <1>16, <1>17, <1>18, <1>19, <1>20, <1>21, <1>22 DEF DeliveryInv,
           ReaderInv, EndInv

\* A chunk reaches the buffer: it is appended, unless the buffer has its end or wants no more.
LEMMA DeliveryPBChain ==
    ASSUME stream \in Streams, ~stream.hls, DownloadInv, DownloadInv', DeliveryInv,
           PBChain
    PROVE  DeliveryInv'
<1> USE DEF connVars, loopVars, appVars, bufferVars, readerVars, downVars, hlsVars, ringVars, sourceVars, pbVars, fillVars, flagVars
<1>1. /\ Size \in Nat \ {0} /\ stream.sizes[1] = Size /\ stream' = stream /\ Size' = Size
      /\ conn.read \in Nat /\ conn.read <= Size /\ conn.file = 1
      /\ readOffset \in Nat /\ cache.read \in Nat /\ Len(cache.data) \in Nat
      /\ Len(out) \in Nat /\ (out = <<>> <=> Len(out) = 0)
      /\ segment.start \in Nat /\ segment.position \in Nat /\ segment.stop \in Nat /\ failures \in Nat
      /\ sAt \in DownloadSourcePlaces /\ app \in DownloadAppPlaces /\ pending \in Events
    BY DeliveryFacts DEF PBChain, Size
<1>2. (NothingHappened' => NothingHappened) /\ (Good' => Good)
  <2>1. failures' = failures /\ conn' = conn /\ mishaps \subseteq mishaps'
    BY DEF PBChain
  <2> QED
    BY <2>1, GoodSame
<1>3. /\ sAt = "buffer" /\ flushing = {} /\ pending = "UNKNOWN" /\ ~Closing /\ sAt' \in {"pb pad", "eos", "merge"}
      /\ app \notin {"mark", "seek data", "flush stop", "flush stop refused", "start"}
      /\ Come = conn.read - 1 /\ Come' = conn'.read
  <2>1. sAt = "buffer" /\ flushing = {} /\ sAt' \in {"pb pad", "eos", "merge"}
    BY DEF PBChain, BufferPushed, Ends
  <2> QED
    BY <2>1 DEF DownloadInv, DownloadPlaces, DeliveryInv, ReaderInv, SourceKnown, Come
<1>4. /\ UNCHANGED <<stream, conn, failures, sTask, position, flushing, app, target>>
      /\ UNCHANGED <<bTask, bResult, bBuffer, bSrcresult, dFlushing, dSegment, out, dEos>>
      /\ UNCHANGED <<readOffset, eosStatus, pendingSrc, instantSeek, hasSrcpad, skip>>
    BY DEF PBChain
<1>5. /\ bAt' = bAt \/ (bAt = "asleep" /\ bAt' = "woken")
      /\ SegmentInHand' <=> SegmentInHand
      /\ EosInHand' <=> EosInHand
      /\ SegmentWaits' <=> SegmentWaits
      /\ EosWaits' <=> EosWaits
  <2>1. bAt' = bAt \/ (bAt = "asleep" /\ bAt' = "woken")
    BY DEF PBChain, SignalAdd
  <2> QED
    BY <2>1, <1>4 DEF SegmentInHand, EosInHand, SegmentWaits, EosWaits
<1>6. /\ mishaps' = mishaps \union (IF ChunkResult = "EOS" THEN {"cut short"} ELSE {})
      /\ sAt' = "pb pad" => ~hasSrcpad /\ sResult' = ChunkResult
      /\ ChunkResult # "EOS" => pending' = pending
      /\ pending' \in {"UNKNOWN", "EOS"} /\ (pending' = "EOS" => ChunkResult = "EOS")
    BY <1>3 DEF PBChain, BufferPushed, Ends
<1>7. /\ mishaps' = {} => mishaps = {} /\ ChunkResult # "EOS"
      /\ NothingHappened' => mishaps' = {}
    BY <1>6 DEF NothingHappened
<1>8. /\ segment'.start = segment.start /\ segment'.stop = segment.stop
      /\ ChunkResult # "EOS" => segment'.position = conn.read
  <2>1. segment \in [start : Nat, position : Nat, stop : Nat]
    BY DEF DownloadInv, DownloadTypes
  <2>2. segment' = [segment EXCEPT !.position = IF ChunkResult = "EOS" THEN @ ELSE conn.read]
    BY DEF PBChain
  <2> QED
    BY <2>1, <2>2
<1>9. NothingHappened => segment.stop = Size
    BY <1>3 DEF DeliveryInv, EndInv, StopsAtEnd
<1>10. NothingHappened' => ChunkResult = "OK" /\ ~eosStatus
  <2>1. NothingHappened' => ~(segment.stop < conn.read)
    BY <1>1, <1>2, <1>9
  <2> QED
    BY <2>1, <1>7 DEF ChunkResult
<1>11. conn.read \in 1..Size /\ Chunk = <<1, conn.read>>
  <2>1. conn.read > 0
    BY <1>3 DEF DeliveryInv, ReaderInv, SourceKnown
  <2>2. conn.read \in Nat /\ Size \in Nat /\ conn.read <= Size
    BY <1>1
  <2>3. conn.read \in 1..Size
    BY ONLY <2>1, <2>2
  <2> QED
    BY <1>1, <2>3 DEF Chunk
<1>12. /\ cache'.read = cache.read /\ cache'.data \in Seq({1} \X (1..Size))
       /\ ChunkResult = "OK" => /\ Len(cache'.data) = Len(cache.data) + 1 /\ cache'.data[Len(cache.data) + 1] = <<1, conn.read>>
                                /\ \A i \in 1..Len(cache.data) : cache'.data[i] = cache.data[i]
  <2>1. cache \in [data : Seq(Nat \X Nat), read : Nat]
    BY DEF DownloadInv, DownloadTypes
  <2>2. cache.data \in Seq({1} \X (1..Size))
    BY DEF DeliveryInv, ReaderInv, ReaderTypes
  <2>3. CASE ChunkResult # "OK"
    BY <2>2, <2>3 DEF PBChain
  <2>4. CASE ChunkResult = "OK"
    <3>1. cache' = [cache EXCEPT !.data = Append(@, Chunk)]
      BY <2>4 DEF PBChain, cache_write_buffer
    <3>2. cache'.read = cache.read /\ cache'.data = Append(cache.data, Chunk)
      BY <2>1, <3>1
    <3>3. Chunk \in {1} \X (1..Size)
      BY <1>11
    <3>4. /\ Append(cache.data, Chunk) \in Seq({1} \X (1..Size))
          /\ Len(Append(cache.data, Chunk)) = Len(cache.data) + 1
          /\ \A i \in 1..Len(cache.data) : Append(cache.data, Chunk)[i] = cache.data[i]
          /\ Append(cache.data, Chunk)[Len(cache.data) + 1] = Chunk
      BY <2>2, <3>3, AppendProperties
    <3> QED
      BY <3>2, <3>4, <1>11
  <2> QED
    BY <2>3, <2>4
<1>13. ReaderTypes'
    BY <1>1, <1>4, <1>5, <1>12 DEF DeliveryInv, ReaderInv, ReaderTypes, ReaderPlaces
<1>14. HandTypes'
    BY <1>1, <1>4, <1>5 DEF DeliveryInv, ReaderInv, HandTypes
<1>15. FlushKnown'
    BY <1>4 DEF DeliveryInv, ReaderInv, FlushKnown, Seeking, Closed, Closing
<1>16. ReaderRests'
    BY <1>4, <1>5 DEF DeliveryInv, ReaderInv, ReaderRests
<1>17. ResultKnown'
    BY <1>4, <1>5 DEF DeliveryInv, ReaderInv, ResultKnown
<1>18. NoReaderYet'
    BY <1>4, <1>5, <1>6 DEF DeliveryInv, ReaderInv, NoReaderYet, Seeking
<1>19. SourceKnown'
    BY <1>4, <1>3, <1>8 DEF DeliveryInv, ReaderInv, SourceKnown, Closing
<1>20. OrderInv'
    BY <1>1, <1>2, <1>4, <1>5, <1>12, OrderFrame DEF DeliveryInv, Closing
<1>21. SoughtIsTarget'
    BY <1>4, <1>5, <1>6, <1>7 DEF DeliveryInv, SoughtIsTarget
<1>22. CacheGrows'
  <2>1. ASSUME NothingHappened'
        PROVE  CacheToEnd' /\ (Full' \/ readOffset' + Len(cache'.data) = Come')
    <3>1. NothingHappened /\ ChunkResult = "OK"
      BY <2>1, <1>2, <1>10
    <3>2. CacheToEnd /\ (Full \/ readOffset + Len(cache.data) = conn.read - 1)
      BY <3>1, <1>3 DEF DeliveryInv, EndInv, CacheGrows
    <3> DEFINE len == Len(cache.data)
    <3> DEFINE got == conn.read
    <3>3. len \in Nat /\ got \in Nat /\ readOffset \in Nat /\ Size \in Nat
      BY <1>1
    <3>4. /\ Len(cache'.data) = len + 1 /\ cache'.data[len + 1] = <<1, got>> /\ Come' = got
          /\ \A i \in 1..len : cache'.data[i] = cache.data[i]
      BY <3>1, <1>12, <1>4, <1>3
    <3>5. readOffset + len >= Size \/ readOffset + len = got - 1
      BY <3>2 DEF Full
    <3> HIDE DEF len, got
    <3>6. readOffset + (len + 1) >= Size \/ readOffset + (len + 1) = got
      BY ONLY <3>3, <3>5
    <3>7. ASSUME NEW i \in 1..(len + 1), readOffset + i <= Size PROVE cache'.data[i] = <<1, readOffset + i>>
      <4>1. i \in 1..len \/ (i = len + 1 /\ readOffset + i = got)
        BY ONLY <3>3, <3>5, <3>7
      <4>2. CASE i \in 1..len
        BY <3>2, <3>4, <3>7, <4>2 DEF CacheToEnd, len
      <4> QED
        BY <4>1, <4>2, <3>4
    <3> QED
      BY <1>1, <1>4, <3>4, <3>6, <3>7 DEF CacheToEnd, Full
  <2>2. NothingHappened' /\ pending' = "UNKNOWN" /\ Come' = Size' => segment'.position = Size' /\ Full'
    <3> SUFFICES ASSUME NothingHappened', Come' = Size' PROVE segment'.position = Size' /\ Full'
      OBVIOUS
    <3>1. segment'.position = Size'
      BY <1>10, <1>8, <1>3, <1>4
    <3> QED
      BY <2>1, <3>1, <1>1 DEF Full
  <2>3. NothingHappened' => pending' # "EOS" /\ ~eosStatus'
    BY <1>10, <1>6, <1>4
  <2>4. mishaps' = {} /\ sAt' = "pb pad" => sResult' # "EOS"
    BY <1>7, <1>6
  <2> QED
    BY <2>1, <2>2, <2>3, <2>4 DEF CacheGrows
<1>23. StopsAtEnd'
    BY <1>1, <1>2, <1>9, <1>8 DEF StopsAtEnd
<1>24. EosIsLast'
    BY <1>1, <1>2, <1>4, <1>5, <1>12 DEF DeliveryInv, EndInv, EosIsLast, Closing
<1> QED
    BY <1>13, <1>14, <1>15, <1>16, <1>17, <1>18, <1>19, <1>20, <1>21, <1>22, <1>23, <1>24 DEF DeliveryInv,
           ReaderInv, EndInv

\* EOS reaches the buffer: the segment ends where the download has come to, and a SEGMENT that
\* waits is dropped, which is a mishap.
LEMMA DeliveryPBEos ==
    ASSUME stream \in Streams, ~stream.hls, DownloadInv, DownloadInv', DeliveryInv,
           PBEos
    PROVE  DeliveryInv'
<1> USE DEF connVars, loopVars, appVars, bufferVars, readerVars, downVars, hlsVars, ringVars, sourceVars, pbVars, fillVars, flagVars
<1>1. /\ Size \in Nat \ {0} /\ stream.sizes[1] = Size /\ stream' = stream /\ Size' = Size
      /\ conn.read \in Nat /\ conn.read <= Size /\ conn.file = 1
      /\ readOffset \in Nat /\ cache.read \in Nat /\ Len(cache.data) \in Nat
      /\ Len(out) \in Nat /\ (out = <<>> <=> Len(out) = 0)
      /\ segment.start \in Nat /\ segment.position \in Nat /\ segment.stop \in Nat /\ failures \in Nat
      /\ sAt \in DownloadSourcePlaces /\ app \in DownloadAppPlaces /\ pending \in Events
    BY DeliveryFacts DEF PBEos, Size
<1>2. (NothingHappened' => NothingHappened) /\ (Good' => Good)
  <2>1. failures' = failures /\ conn' = conn /\ mishaps \subseteq mishaps'
    BY DEF PBEos
  <2> QED
    BY <2>1, GoodSame
<1>3. /\ sAt = "eos" /\ flushing = {} /\ sAt' = "merge" /\ sResult' = "EOS"
      /\ pending = "EOS" /\ ~Closing /\ app \notin {"mark", "seek data", "flush stop", "flush stop refused", "start"}
  <2>1. sAt = "eos" /\ flushing = {} /\ sAt' = "merge" /\ sResult' = "EOS"
    BY DEF PBEos, Ends
  <2> QED
    BY <2>1 DEF DownloadInv, DownloadPlaces, DeliveryInv, ReaderInv, SourceKnown
<1>4. /\ UNCHANGED <<stream, conn, failures, sTask, pending, position, flushing, app, target>>
      /\ UNCHANGED <<bTask, bResult, bBuffer, bSrcresult, dFlushing, dSegment, out, dEos>>
      /\ UNCHANGED <<cache, readOffset, instantSeek, hasSrcpad, skip>>
    BY DEF PBEos
<1>5. /\ bAt' = bAt \/ (bAt = "asleep" /\ bAt' = "woken")
      /\ SegmentInHand' <=> SegmentInHand
      /\ EosInHand' <=> EosInHand
  <2>1. bAt' = bAt \/ (bAt = "asleep" /\ bAt' = "woken")
    BY DEF PBEos, SignalAdd
  <2> QED
    BY <2>1, <1>4 DEF SegmentInHand, EosInHand
<1>6. /\ segment'.start = segment.start /\ segment'.position = segment.position /\ eosStatus'
      /\ segment.position = Size /\ segment.stop = Size => segment'.stop = Size
  <2>1. segment \in [start : Nat, position : Nat, stop : Nat]
    BY DEF DownloadInv, DownloadTypes
  <2>2. CASE eosStatus
    BY <2>2 DEF PBEos
  <2>3. CASE ~eosStatus
    <3>1. segment' = [segment EXCEPT !.stop = IF segment.position < @ THEN segment.position ELSE @] /\ eosStatus'
      BY <2>3 DEF PBEos
    <3> QED
      BY <2>1, <3>1
  <2> QED
    BY <2>2, <2>3
<1>7. /\ pendingSrc' = pendingSrc \/ pendingSrc' = NoEvent
      /\ Good' \/ mishaps' = {} => pendingSrc' = pendingSrc
      /\ mishaps' = {} => mishaps = {}
  <2>1. \/ pendingSrc' = pendingSrc /\ mishaps' = mishaps
        \/ pendingSrc' = NoEvent /\ mishaps' = mishaps \union (IF pendingSrc # NoEvent THEN {"event dropped"} ELSE {})
    BY DEF PBEos
  <2>2. Good' \/ mishaps' = {} => "event dropped" \notin mishaps'
    BY DEF Good, NothingMisplaced, NothingHappened
  <2> QED
    BY <2>1, <2>2
<1>8. /\ SegmentWaits' => SegmentWaits
      /\ EosWaits' => EosWaits
      /\ pendingSrc' = pendingSrc => (SegmentWaits' <=> SegmentWaits) /\ (EosWaits' <=> EosWaits)
      /\ NothingHappened' => Good' /\ mishaps' = {}
    BY <1>7 DEF SegmentWaits, EosWaits, NothingHappened, Good
<1>9. UNCHANGED <<Full, CacheToEnd>>
    BY <1>1, <1>4 DEF Full, CacheToEnd
<1>10. ReaderTypes'
    BY <1>1, <1>3, <1>4, <1>5, <1>6, <1>7, <1>8, <1>9 DEF DeliveryInv, ReaderInv, ReaderTypes, ReaderPlaces,
           EventTypes
<1>11. HandTypes'
    BY <1>1, <1>3, <1>4, <1>5, <1>6, <1>7, <1>8, <1>9 DEF DeliveryInv, ReaderInv, HandTypes, SegmentInHand,
           SegmentWaits, EventTypes
<1>12. FlushKnown'
    BY <1>1, <1>3, <1>4, <1>5, <1>6, <1>7, <1>8, <1>9 DEF DeliveryInv, ReaderInv, FlushKnown, Seeking, Closed,
           Closing, LockedPlaces
<1>13. ReaderRests'
    BY <1>1, <1>3, <1>4, <1>5, <1>6, <1>7, <1>8, <1>9 DEF DeliveryInv, ReaderInv, ReaderRests, LockedPlaces
<1>14. ResultKnown'
    BY <1>1, <1>3, <1>4, <1>5, <1>6, <1>7, <1>8, <1>9 DEF DeliveryInv, ReaderInv, ResultKnown, EosInHand
<1>15. NoReaderYet'
    BY <1>1, <1>3, <1>4, <1>5, <1>6, <1>7, <1>8, <1>9 DEF DeliveryInv, ReaderInv, NoReaderYet, Seeking,
           LockedPlaces
<1>16. SourceKnown'
    BY <1>1, <1>3, <1>4, <1>5, <1>6, <1>7, <1>8, <1>9 DEF DeliveryInv, ReaderInv, SourceKnown, Closing
<1>17. GivenPlaced'
    BY <1>1, <1>2, <1>3, <1>4, <1>5, <1>6, <1>7, <1>8, <1>9 DEF DeliveryInv, OrderInv, GivenPlaced
<1>18. InHandIsNext'
    BY <1>1, <1>2, <1>3, <1>4, <1>5, <1>6, <1>7, <1>8, <1>9 DEF DeliveryInv, OrderInv, InHandIsNext
<1>19. SegmentIsNext'
    BY <1>1, <1>2, <1>3, <1>4, <1>5, <1>6, <1>7, <1>8, <1>9 DEF DeliveryInv, OrderInv, SegmentIsNext,
           SegmentWaits, SegmentInHand, LockedPlaces, Closing
<1>20. CacheIsNext'
    BY <1>1, <1>2, <1>3, <1>4, <1>5, <1>6, <1>7, <1>8, <1>9 DEF DeliveryInv, OrderInv, CacheIsNext,
           SegmentWaits
<1>21. SoughtIsTarget'
    BY <1>1, <1>2, <1>3, <1>4, <1>5, <1>6, <1>7, <1>8, <1>9 DEF DeliveryInv, SoughtIsTarget, SegmentWaits,
           SegmentInHand
<1>22. CacheGrows'
    BY <1>1, <1>2, <1>3, <1>4, <1>6, <1>9, <1>7 DEF DeliveryInv, EndInv, CacheGrows
<1>23. StopsAtEnd'
  <2> SUFFICES ASSUME NothingHappened' PROVE segment'.stop = Size
    BY <1>1 DEF StopsAtEnd
  <2>1. segment.position = Size
    BY <1>2, <1>3 DEF DeliveryInv, EndInv, CacheGrows
  <2>2. segment.stop = Size
    BY <1>2, <1>3 DEF DeliveryInv, EndInv, StopsAtEnd
  <2> QED
    BY <2>1, <2>2, <1>6
<1>24. EosIsLast'
    BY <1>1, <1>2, <1>3, <1>4, <1>5, <1>6, <1>7, <1>8, <1>9 DEF DeliveryInv, EndInv, EosIsLast, EosWaits,
           EosInHand, Closing
<1> QED
    BY <1>10, <1>11, <1>12, <1>13, <1>14, <1>15, <1>16, <1>17, <1>18, <1>19, <1>20, <1>21, <1>22, <1>23, <1>24
           DEF DeliveryInv, ReaderInv, OrderInv, EndInv

\* The first chunk creates the source pad and starts the reader, which begins with the SEGMENT.
LEMMA DeliveryPBCreateSourcepad ==
    ASSUME stream \in Streams, ~stream.hls, DownloadInv, DownloadInv', DeliveryInv,
           PBCreateSourcepad
    PROVE  DeliveryInv'
<1> USE DEF connVars, loopVars, appVars, bufferVars, readerVars, downVars, hlsVars, ringVars, sourceVars, pbVars, fillVars, flagVars
<1>1. /\ Size \in Nat \ {0} /\ stream.sizes[1] = Size /\ stream' = stream /\ Size' = Size
      /\ conn.read \in Nat /\ conn.read <= Size /\ conn.file = 1
      /\ readOffset \in Nat /\ cache.read \in Nat /\ Len(cache.data) \in Nat
      /\ Len(out) \in Nat /\ (out = <<>> <=> Len(out) = 0)
      /\ segment.start \in Nat /\ segment.position \in Nat /\ segment.stop \in Nat /\ failures \in Nat
      /\ sAt \in DownloadSourcePlaces /\ app \in DownloadAppPlaces /\ pending \in Events
    BY DeliveryFacts DEF PBCreateSourcepad, Size
<1>2. (NothingHappened' => NothingHappened) /\ (Good' => Good)
    BY GoodSame DEF PBCreateSourcepad
<1>3. /\ sAt = "pb pad" /\ pending = "UNKNOWN" /\ hasSrcpad' /\ bSrcresult' = "OK" /\ ~eosStatus' /\ bTask' = "started"
      /\ sAt' \in {"eos", "merge"}
    BY DEF DownloadInv, DownloadPlaces, PBCreateSourcepad, BufferPushed, Ends
<1>4. /\ UNCHANGED <<stream, conn, failures, sTask, position, flushing, app, target>>
      /\ UNCHANGED <<bAt, bResult, bBuffer, dFlushing, dSegment, out, dEos, mishaps>>
      /\ UNCHANGED <<cache, readOffset, segment, pendingSrc, instantSeek, skip>>
    BY DEF PBCreateSourcepad
<1>5. /\ sResult = "EOS" => pending' = "EOS"
      /\ sResult # "EOS" => pending' = pending /\ sAt' = "merge"
    BY DEF PBCreateSourcepad, BufferPushed, Ends
<1>6. /\ ~hasSrcpad /\ ~Seeking /\ app # "pb start" /\ bAt = "idle" /\ ~skip
      /\ bSrcresult # "EOS" /\ out = <<>> /\ ~dEos
    BY <1>3 DEF DeliveryInv, ReaderInv, NoReaderYet, ResultKnown
<1>7. ~dFlushing => bSrcresult = "OK" /\ ~Closing /\ (Good /\ instantSeek => SegmentWaits)
    BY <1>6 DEF DeliveryInv, ReaderInv, ReaderTypes, ResultKnown, FlushKnown, Closed, OrderInv, SegmentIsNext
<1>8. /\ UNCHANGED <<SegmentWaits, EosWaits, Full, Come, CacheToEnd>>
      /\ ~SegmentInHand' /\ ~EosInHand' /\ ~SegmentInHand /\ ~EosInHand
    BY <1>1, <1>4, <1>6, <1>3 DEF SegmentWaits, EosWaits, Full, Come, CacheToEnd, SegmentInHand, EosInHand
<1>9. ReaderTypes'
    BY <1>1, <1>3, <1>4, <1>5, <1>6, <1>7, <1>8 DEF DeliveryInv, ReaderInv, ReaderTypes, ReaderPlaces,
           EventTypes
<1>10. HandTypes'
    BY <1>1, <1>3, <1>4, <1>5, <1>6, <1>7, <1>8 DEF DeliveryInv, ReaderInv, HandTypes, SegmentInHand,
           SegmentWaits, EventTypes
<1>11. FlushKnown'
    BY <1>1, <1>3, <1>4, <1>5, <1>6, <1>7, <1>8 DEF DeliveryInv, ReaderInv, FlushKnown, Seeking, Closed,
           Closing, LockedPlaces
<1>12. ReaderRests'
    BY <1>6, <1>4 DEF ReaderRests, Seeking
<1>13. ResultKnown'
    BY <1>1, <1>3, <1>4, <1>5, <1>6, <1>7, <1>8 DEF DeliveryInv, ReaderInv, ResultKnown, EosInHand
<1>14. NoReaderYet'
    BY <1>1, <1>3, <1>4, <1>5, <1>6, <1>7, <1>8 DEF DeliveryInv, ReaderInv, NoReaderYet, Seeking, LockedPlaces
<1>15. SourceKnown'
    BY <1>1, <1>3, <1>4, <1>5, <1>6, <1>7, <1>8 DEF DeliveryInv, ReaderInv, SourceKnown, Closing
<1>16. GivenPlaced'
    BY <1>6, <1>4 DEF GivenPlaced
<1>17. InHandIsNext'
    BY <1>6, <1>4 DEF InHandIsNext
<1>18. SegmentIsNext'
    BY <1>2, <1>6, <1>4, <1>8, <1>3 DEF DeliveryInv, OrderInv, SegmentIsNext, Seeking
<1>19. CacheIsNext'
    BY <1>2, <1>4, <1>8, <1>7 DEF CacheIsNext
<1>20. SoughtIsTarget'
    BY <1>1, <1>2, <1>3, <1>4, <1>5, <1>6, <1>7, <1>8 DEF DeliveryInv, SoughtIsTarget, SegmentWaits,
           SegmentInHand
<1>21. CacheGrows'
    BY <1>1, <1>2, <1>3, <1>4, <1>5, <1>8 DEF DeliveryInv, EndInv, CacheGrows, NothingHappened
<1>22. StopsAtEnd'
    BY <1>1, <1>2, <1>3, <1>4, <1>5, <1>6, <1>7, <1>8 DEF DeliveryInv, EndInv, StopsAtEnd, Closing
<1>23. EosIsLast'
    BY <1>1, <1>2, <1>4, <1>6, <1>8, <1>7 DEF DeliveryInv, EndInv, EosIsLast, Closing
<1> QED
    BY <1>9, <1>10, <1>11, <1>12, <1>13, <1>14, <1>15, <1>16, <1>17, <1>18, <1>19, <1>20, <1>21, <1>22, <1>23
           DEF DeliveryInv, ReaderInv, OrderInv, EndInv

-----------------------------------------------------------------------------
(* The steps of the reader. *)

\* The steps of the reader that hand nothing on.
LEMMA DeliveryReaderStep ==
    ASSUME stream \in Streams, ~stream.hls, DownloadInv, DownloadInv', DeliveryInv,
           PBWait \/ PBStopped \/ PBPause \/ PBStore \/ (SpuriousWakeUp /\ UNCHANGED pbVars)
    PROVE  DeliveryInv'
<1> DEFINE result == bSrcresult' = bSrcresult /\ bResult' = bResult /\ mishaps' = mishaps
<1> USE DEF connVars, loopVars, appVars, bufferVars, readerVars, downVars, hlsVars, ringVars, sourceVars, pbVars, fillVars, flagVars
<1>1. /\ UNCHANGED <<stream, conn, failures, sTask, sAt, sResult, pending, position, flushing, app, target, bBuffer>>
      /\ UNCHANGED <<dFlushing, dSegment, out, dEos, cache, readOffset, segment, eosStatus, pendingSrc, instantSeek, hasSrcpad>>
      /\ mishaps \subseteq mishaps' /\ (bAt # "idle" \/ bTask = "started")
      /\ \/ bAt \in {"idle", "woken", "next"} /\ bSrcresult = "OK" /\ bAt' = "asleep" /\ bTask' = bTask /\ result /\ skip' = skip
         \/ bAt \in {"idle", "woken", "next"} /\ bSrcresult # "OK" /\ bAt' = (IF skip THEN "idle" ELSE "pause")
            /\ bTask' = bTask /\ result /\ ~skip'
         \/ bAt = "asleep" /\ bAt' = "woken" /\ bTask' = bTask /\ result /\ skip' = skip
         \/ bAt = "pause" /\ bAt' = "idle" /\ result /\ skip' = skip /\ bTask' = (IF bTask = "stopped" THEN bTask ELSE "paused")
         \/ bAt = "merge" /\ bAt' = (IF bResult = "OK" THEN "idle" ELSE "pause") /\ bTask' = bTask
            /\ bSrcresult' = bResult /\ bResult' = "OK" /\ skip' = skip
  <2>1. CASE PBWait
    BY <2>1 DEF PBWait, PBRuns, ReaderRuns
  <2>2. CASE PBStopped
    BY <2>2 DEF PBStopped, PBRuns, ReaderRuns
  <2>3. CASE SpuriousWakeUp /\ UNCHANGED pbVars
    BY <2>3 DEF SpuriousWakeUp
  <2>4. CASE PBPause
    BY <2>4 DEF PBPause
  <2>5. CASE PBStore
    BY <2>5 DEF PBStore
  <2> QED
    BY <2>1, <2>2, <2>3, <2>4, <2>5
<1>2. /\ Size \in Nat \ {0} /\ stream.sizes[1] = Size /\ stream' = stream /\ Size' = Size
      /\ conn.read \in Nat /\ conn.read <= Size /\ conn.file = 1
      /\ readOffset \in Nat /\ cache.read \in Nat /\ Len(cache.data) \in Nat
      /\ Len(out) \in Nat /\ (out = <<>> <=> Len(out) = 0)
      /\ segment.start \in Nat /\ segment.position \in Nat /\ segment.stop \in Nat /\ failures \in Nat
      /\ sAt \in DownloadSourcePlaces /\ app \in DownloadAppPlaces /\ pending \in Events
    BY <1>1, DeliveryFacts DEF Size
<1>3. (NothingHappened' => NothingHappened) /\ (Good' => Good)
    BY <1>1, GoodSame
<1>4. ReaderTypes'
    BY <1>1, <1>2 DEF DeliveryInv, ReaderInv, ReaderTypes, ReaderPlaces, EventTypes
<1>5. HandTypes'
    BY <1>1, <1>2 DEF DeliveryInv, ReaderInv, HandTypes, SegmentInHand, SegmentWaits, EventTypes
<1>6. FlushKnown'
    BY <1>1, <1>2 DEF DeliveryInv, ReaderInv, FlushKnown, Seeking, Closed, Closing, LockedPlaces
<1>7. ReaderRests'
    BY <1>1, <1>2 DEF DeliveryInv, ReaderInv, ReaderRests, LockedPlaces
<1>8. ResultKnown'
    BY <1>1, <1>2 DEF DeliveryInv, ReaderInv, ResultKnown, EosInHand
<1>9. NoReaderYet'
    BY <1>1, <1>2 DEF DeliveryInv, ReaderInv, NoReaderYet, Seeking, LockedPlaces
<1>10. SourceKnown'
    BY <1>1, <1>2 DEF DeliveryInv, ReaderInv, SourceKnown, Closing
<1>11. OrderInv'
  <2>1. bAt' = bAt \/ (bAt \notin {"push", "event"} /\ bAt' \notin {"push", "event"})
    BY <1>1
  <2>2. ~dFlushing /\ bAt = "merge" => bSrcresult = "OK"
    BY DEF DeliveryInv, ReaderInv, ResultKnown
  <2>3. skip => bAt \in {"next", "asleep", "woken"}
    BY DEF DeliveryInv, ReaderInv, ResultKnown
  <2>4. ~dFlushing /\ bSrcresult' = "OK" /\ ~skip' => bSrcresult = "OK" /\ ~skip
    BY <1>1, <2>2, <2>3
  <2>5. Closing' <=> Closing
    BY <1>1 DEF Closing
  <2> QED
    BY <1>1, <1>2, <1>3, <2>1, <2>4, <2>5, OrderFrame DEF DeliveryInv
<1>12. SoughtIsTarget'
    BY <1>1, <1>2, <1>3 DEF DeliveryInv, SoughtIsTarget, SegmentWaits, SegmentInHand
<1>13. CacheGrows'
    BY <1>1, <1>2, <1>3 DEF DeliveryInv, EndInv, CacheGrows, Full, Come, CacheToEnd
<1>14. StopsAtEnd'
    BY <1>1, <1>2, <1>3 DEF DeliveryInv, EndInv, StopsAtEnd, Closing
<1>15. EosIsLast'
  <2>1. /\ ~dFlushing /\ bAt = "merge" => bSrcresult = "OK"
        /\ EosInHand' <=> EosInHand
    BY <1>1 DEF DeliveryInv, ReaderInv, ResultKnown, EosInHand
  <2>2. NothingHappened' => NothingHappened /\ ~skip
    BY <1>3 DEF DeliveryInv, EndInv, EosIsLast
  <2>3. ~dFlushing /\ bSrcresult' = "OK" => bSrcresult = "OK" \/ skip
    BY <1>1, <2>1
  <2>4. (EosWaits' <=> EosWaits) /\ (Closing' <=> Closing) /\ (skip' => skip)
    BY <1>1 DEF EosWaits, Closing
  <2> QED
    BY <1>1, <1>2, <2>1, <2>2, <2>3, <2>4 DEF DeliveryInv, EndInv, EosIsLast
<1> QED
    BY <1>4, <1>5, <1>6, <1>7, <1>8, <1>9, <1>10, <1>11, <1>12, <1>13, <1>14, <1>15 DEF DeliveryInv,
           ReaderInv, EndInv

\* The reader takes the event that waits.
LEMMA DeliveryPBEvent ==
    ASSUME stream \in Streams, ~stream.hls, DownloadInv, DownloadInv', DeliveryInv,
           PBEvent
    PROVE  DeliveryInv'
<1> USE DEF connVars, loopVars, appVars, bufferVars, readerVars, downVars, hlsVars, ringVars, sourceVars, pbVars, fillVars, flagVars
<1>1. /\ Size \in Nat \ {0} /\ stream.sizes[1] = Size /\ stream' = stream /\ Size' = Size
      /\ conn.read \in Nat /\ conn.read <= Size /\ conn.file = 1
      /\ readOffset \in Nat /\ cache.read \in Nat /\ Len(cache.data) \in Nat
      /\ Len(out) \in Nat /\ (out = <<>> <=> Len(out) = 0)
      /\ segment.start \in Nat /\ segment.position \in Nat /\ segment.stop \in Nat /\ failures \in Nat
      /\ sAt \in DownloadSourcePlaces /\ app \in DownloadAppPlaces /\ pending \in Events
    BY DeliveryFacts DEF PBEvent, Size
<1>2. (NothingHappened' => NothingHappened) /\ (Good' => Good)
    BY GoodSame DEF PBEvent
<1>3. /\ pendingSrc \in EventTypes /\ bBuffer' = pendingSrc /\ ~SegmentWaits' /\ ~EosWaits' /\ pendingSrc' = NoEvent
      /\ bAt \in {"idle", "woken", "next"} /\ bAt' = "event" /\ bSrcresult = "OK"
      /\ SegmentWaits <=> SegmentInHand'
      /\ EosWaits <=> EosInHand'
      /\ (EosWaits => bSrcresult' = "EOS") /\ (~EosWaits => bSrcresult' = "OK")
  <2>1. pendingSrc \in EventTypes /\ bBuffer' = pendingSrc /\ pendingSrc' = NoEvent /\ bAt' = "event" /\ pendingSrc # NoEvent
    BY DEF DeliveryInv, ReaderInv, ReaderTypes, PBEvent
  <2>2. ~SegmentWaits' /\ ~EosWaits' /\ (SegmentWaits <=> SegmentInHand') /\ (EosWaits <=> EosInHand')
    BY <2>1 DEF SegmentWaits, EosWaits, SegmentInHand, EosInHand
  <2>3. bAt \in {"idle", "woken", "next"} /\ bSrcresult = "OK" /\ (EosWaits => bSrcresult' = "EOS") /\ (~EosWaits => bSrcresult' = "OK")
    BY <2>1 DEF PBEvent, PBRuns, ReaderRuns, EosWaits
  <2> QED
    BY <2>1, <2>2, <2>3
<1>4. /\ UNCHANGED <<stream, conn, failures, sTask, sAt, sResult, pending, position, flushing, app, target>>
      /\ UNCHANGED <<bTask, bResult, dFlushing, dSegment, out, dEos, mishaps>>
      /\ UNCHANGED <<cache, readOffset, segment, eosStatus, instantSeek, hasSrcpad>> /\ ~skip'
    BY DEF PBEvent
<1>5. bTask = "started" \/ bAt # "idle"
    BY DEF PBEvent, PBRuns, ReaderRuns
<1>6. UNCHANGED <<Full, Come, CacheToEnd>>
    BY <1>1, <1>4 DEF Full, CacheToEnd, Come
<1>7. ReaderTypes'
    BY <1>1, <1>3, <1>4, <1>5, <1>6 DEF DeliveryInv, ReaderInv, ReaderTypes, ReaderPlaces, EventTypes
<1>8. HandTypes'
    BY <1>1, <1>3, <1>4, <1>5, <1>6 DEF DeliveryInv, ReaderInv, HandTypes, SegmentInHand, SegmentWaits,
           EventTypes
<1>9. FlushKnown'
    BY <1>1, <1>3, <1>4, <1>5, <1>6 DEF DeliveryInv, ReaderInv, FlushKnown, Seeking, Closed, Closing,
           LockedPlaces
<1>10. ReaderRests'
    BY <1>1, <1>3, <1>4, <1>5, <1>6 DEF DeliveryInv, ReaderInv, ReaderRests, LockedPlaces
<1>11. ResultKnown'
    BY <1>1, <1>3, <1>4, <1>5, <1>6 DEF DeliveryInv, ReaderInv, ResultKnown, EosInHand
<1>12. NoReaderYet'
    BY <1>1, <1>3, <1>4, <1>5, <1>6 DEF DeliveryInv, ReaderInv, NoReaderYet, Seeking, LockedPlaces
<1>13. SourceKnown'
    BY <1>1, <1>3, <1>4, <1>5, <1>6 DEF DeliveryInv, ReaderInv, SourceKnown, Closing
<1>14. GivenPlaced'
    BY <1>1, <1>2, <1>3, <1>4, <1>5, <1>6 DEF DeliveryInv, OrderInv, GivenPlaced
<1>15. InHandIsNext'
    BY <1>1, <1>2, <1>3, <1>4, <1>5, <1>6 DEF DeliveryInv, OrderInv, InHandIsNext
<1>16. SegmentIsNext'
    BY <1>1, <1>2, <1>3, <1>4, <1>5, <1>6 DEF DeliveryInv, OrderInv, SegmentIsNext, SegmentWaits,
           SegmentInHand, LockedPlaces, Closing, ReaderInv, NoReaderYet, ReaderRests
<1>17. CacheIsNext'
    BY <1>1, <1>2, <1>3, <1>4, <1>5, <1>6 DEF DeliveryInv, OrderInv, CacheIsNext, SegmentWaits
<1>18. SoughtIsTarget'
    BY <1>1, <1>2, <1>3, <1>4, <1>5, <1>6 DEF DeliveryInv, SoughtIsTarget, SegmentWaits, SegmentInHand
<1>19. CacheGrows'
    BY <1>1, <1>2, <1>3, <1>4, <1>5, <1>6 DEF DeliveryInv, EndInv, CacheGrows
<1>20. StopsAtEnd'
    BY <1>1, <1>2, <1>3, <1>4, <1>5, <1>6 DEF DeliveryInv, EndInv, StopsAtEnd, Closing
<1>21. EosIsLast'
  <2>1. hasSrcpad /\ (EosInHand' => EosWaits /\ ~SegmentWaits) /\ (~dFlushing => ~Closing)
    BY <1>5, <1>3 DEF DeliveryInv, ReaderInv, NoReaderYet, FlushKnown, Closed, EosWaits, SegmentWaits
  <2>2. ASSUME NothingHappened', EosInHand', ~dFlushing
        PROVE  dSegment # NoPosition /\ dSegment + Len(out) = Size
    <3>1. EosWaits /\ ~SegmentWaits /\ instantSeek /\ Good /\ ~skip /\ readOffset + cache.read = Size
      BY <2>1, <2>2, <1>2 DEF DeliveryInv, EndInv, EosIsLast, Good
    <3>2. /\ dSegment # NoPosition
          /\ readOffset + cache.read = dSegment + Len(out) + (IF bAt = "push" THEN 1 ELSE 0)
      BY <3>1, <2>1, <2>2, <1>3 DEF DeliveryInv, OrderInv, CacheIsNext
    <3>3. readOffset + cache.read = dSegment + Len(out) + 0
      BY <3>2, <1>3
    <3>4. dSegment \in Int /\ Len(out) \in Nat
      BY <1>1 DEF DeliveryInv, ReaderInv, ReaderTypes
    <3>5. dSegment + Len(out) + 0 = dSegment + Len(out)
      BY ONLY <3>4
    <3> QED
      BY <3>1, <3>2, <3>3, <3>5
  <2>3. EosWaits => instantSeek
    BY DEF DeliveryInv, EndInv, EosIsLast
  <2>4. NothingHappened /\ instantSeek /\ bSrcresult = "OK" /\ ~EosWaits /\ ~dFlushing => readOffset + cache.read < Size
    BY DEF DeliveryInv, EndInv, EosIsLast
  <2>5. NothingHappened /\ dEos /\ dSegment # NoPosition => dSegment + Len(out) = Size
    BY DEF DeliveryInv, EndInv, EosIsLast
  <2> QED
    BY <1>1, <1>2, <1>3, <1>4, <2>2, <2>4, <2>5 DEF EosIsLast
<1> QED
    BY <1>7, <1>8, <1>9, <1>10, <1>11, <1>12, <1>13, <1>14, <1>15, <1>16, <1>17, <1>18, <1>19, <1>20, <1>21 DEF
           DeliveryInv, ReaderInv, OrderInv, EndInv

\* The reader pushes the event: SEGMENT or EOS.
LEMMA DeliveryPBPushEvent ==
    ASSUME stream \in Streams, ~stream.hls, DownloadInv, DownloadInv', DeliveryInv,
           PBPushEvent
    PROVE  DeliveryInv'
<1> USE DEF connVars, loopVars, appVars, bufferVars, readerVars, downVars, hlsVars, ringVars, sourceVars, pbVars, fillVars, flagVars
<1>1. /\ Size \in Nat \ {0} /\ stream.sizes[1] = Size /\ stream' = stream /\ Size' = Size
      /\ conn.read \in Nat /\ conn.read <= Size /\ conn.file = 1
      /\ readOffset \in Nat /\ cache.read \in Nat /\ Len(cache.data) \in Nat
      /\ Len(out) \in Nat /\ (out = <<>> <=> Len(out) = 0)
      /\ segment.start \in Nat /\ segment.position \in Nat /\ segment.stop \in Nat /\ failures \in Nat
      /\ sAt \in DownloadSourcePlaces /\ app \in DownloadAppPlaces /\ pending \in Events
    BY DeliveryFacts DEF PBPushEvent, Size
<1>2. (NothingHappened' => NothingHappened) /\ (Good' => Good)
    BY GoodSame DEF PBPushEvent
<1>3. /\ bAt = "event" /\ bBuffer \in EventTypes /\ hasSrcpad
      /\ \/ EosInHand /\ ~SegmentInHand /\ bAt' = "pause"
         \/ SegmentInHand /\ ~EosInHand /\ bAt' = "idle"
  <2>1. bAt = "event" /\ bBuffer \in EventTypes /\ hasSrcpad
    BY DEF DeliveryInv, ReaderInv, HandTypes, NoReaderYet, PBPushEvent
  <2> QED
    BY <2>1 DEF EosInHand, SegmentInHand, EventTypes, PBPushEvent
<1>4. /\ dFlushing => UNCHANGED <<dSegment, out>> /\ (dEos' => dEos)
      /\ ~dFlushing /\ EosInHand => UNCHANGED <<dSegment, out>>
      /\ ~dFlushing /\ SegmentInHand => dSegment' = bBuffer.at /\ out' = <<>> /\ (dEos' => dEos)
    BY <1>3 DEF PBPushEvent, PushEosDown, PushSegmentDown, EosInHand, SegmentInHand
<1>5. /\ UNCHANGED <<stream, conn, failures, sTask, sAt, sResult, pending, position, flushing, app, target>>
      /\ UNCHANGED <<bTask, bResult, dFlushing, bSrcresult, mishaps>> /\ bBuffer' = NoBuffer
      /\ UNCHANGED <<cache, readOffset, segment, eosStatus, pendingSrc, instantSeek, hasSrcpad, skip>>
    BY DEF PBPushEvent, PushEosDown, PushSegmentDown
<1>6. UNCHANGED <<Full, Come, CacheToEnd>>
    BY <1>1, <1>5 DEF Full, CacheToEnd, Come
<1>7. UNCHANGED out \/ (out' = <<>> /\ Len(out') = 0 /\ out' \in Seq(Nat \X Nat))
    BY <1>4, <1>3, NothingGiven
<1>8. SegmentInHand => bBuffer.at \in 0..(Size - 1) /\ bBuffer.at \in Int /\ bBuffer.at # NoPosition
  <2> SUFFICES ASSUME SegmentInHand PROVE bBuffer.at \in Int /\ bBuffer.at # NoPosition /\ bBuffer.at \in 0..(Size - 1)
    OBVIOUS
  <2>1. bBuffer.at \in 0..(Size - 1)
    BY DEF DeliveryInv, ReaderInv, HandTypes
  <2> QED
    BY <1>1, <2>1 DEF NoPosition
<1>9. ReaderTypes'
    BY <1>1, <1>3, <1>4, <1>5, <1>6, <1>7, <1>8 DEF DeliveryInv, ReaderInv, ReaderTypes, ReaderPlaces,
           EventTypes
<1>10. HandTypes'
    BY <1>1, <1>3, <1>4, <1>5, <1>6, <1>7, <1>8 DEF DeliveryInv, ReaderInv, HandTypes, SegmentInHand,
           SegmentWaits, EventTypes
<1>11. FlushKnown'
    BY <1>1, <1>3, <1>4, <1>5, <1>6, <1>7, <1>8 DEF DeliveryInv, ReaderInv, FlushKnown, Seeking, Closed,
           Closing, LockedPlaces
<1>12. ReaderRests'
    BY <1>1, <1>3, <1>4, <1>5, <1>6, <1>7, <1>8 DEF DeliveryInv, ReaderInv, ReaderRests, LockedPlaces
<1>13. ResultKnown'
    BY <1>1, <1>3, <1>4, <1>5, <1>6, <1>7, <1>8 DEF DeliveryInv, ReaderInv, ResultKnown, EosInHand
<1>14. NoReaderYet'
    BY <1>1, <1>3, <1>4, <1>5, <1>6, <1>7, <1>8 DEF DeliveryInv, ReaderInv, NoReaderYet, Seeking, LockedPlaces
<1>15. SourceKnown'
    BY <1>1, <1>3, <1>4, <1>5, <1>6, <1>7, <1>8 DEF DeliveryInv, ReaderInv, SourceKnown, Closing
<1>16. GivenPlaced'
    BY <1>1, <1>2, <1>3, <1>4, <1>5, <1>6, <1>7, <1>8 DEF DeliveryInv, OrderInv, GivenPlaced
<1>17. InHandIsNext'
    BY <1>1, <1>2, <1>3, <1>4, <1>5, <1>6, <1>7, <1>8 DEF DeliveryInv, OrderInv, InHandIsNext
<1>18. SegmentIsNext'
    BY <1>1, <1>2, <1>3, <1>4, <1>5, <1>6, <1>7, <1>8 DEF DeliveryInv, OrderInv, SegmentIsNext, SegmentWaits,
           SegmentInHand, LockedPlaces, Closing
<1>19. CacheIsNext'
  <2> SUFFICES ASSUME Good', ~SegmentWaits', instantSeek', bSrcresult' = "OK", ~skip', ~dFlushing'
               PROVE  dSegment' # NoPosition /\ readOffset' + cache.read' = dSegment' + Len(out') + (IF bAt' = "push" THEN 1 ELSE 0)
    BY DEF CacheIsNext
  <2>1. SegmentInHand /\ ~dFlushing /\ ~SegmentWaits /\ Good /\ instantSeek
    BY <1>2, <1>3, <1>5 DEF DeliveryInv, ReaderInv, ResultKnown, SegmentWaits
  <2>2. bBuffer.at = readOffset + cache.read
    BY <2>1 DEF DeliveryInv, OrderInv, SegmentIsNext
  <2>3. dSegment' = bBuffer.at /\ Len(out') = 0
    BY <2>1, <1>4, NothingGiven
  <2> QED
    BY <1>1, <1>5, <1>8, <1>3, <2>1, <2>2, <2>3
<1>20. SoughtIsTarget'
    BY <1>1, <1>2, <1>3, <1>4, <1>5, <1>6, <1>7, <1>8 DEF DeliveryInv, SoughtIsTarget, SegmentWaits,
           SegmentInHand
<1>21. CacheGrows'
    BY <1>1, <1>2, <1>3, <1>4, <1>5, <1>6, <1>7, <1>8 DEF DeliveryInv, EndInv, CacheGrows
<1>22. StopsAtEnd'
    BY <1>1, <1>2, <1>3, <1>4, <1>5, <1>6, <1>7, <1>8 DEF DeliveryInv, EndInv, StopsAtEnd, Closing
<1>23. EosIsLast'
  <2>1. ASSUME NothingHappened', dEos', dSegment' # NoPosition
        PROVE  dSegment' + Len(out') = Size
    <3>1. (dFlushing \/ SegmentInHand) /\ dEos' => dEos
      BY <1>4
    <3>2. ~dFlushing /\ SegmentInHand => ~dEos
      BY DEF DeliveryInv, ReaderInv, ResultKnown, SegmentInHand
    <3>3. CASE dFlushing
      BY <1>2, <1>4, <2>1, <3>1, <3>3 DEF DeliveryInv, EndInv, EosIsLast
    <3>4. CASE ~dFlushing
      <4>1. EosInHand
        BY <1>3, <2>1, <3>1, <3>2, <3>4
      <4> QED
        BY <1>2, <1>4, <2>1, <4>1, <3>4 DEF DeliveryInv, EndInv, EosIsLast
    <3> QED
      BY <3>3, <3>4
  <2>2. /\ NothingHappened => ~skip
        /\ EosWaits => instantSeek
        /\ NothingHappened /\ ~Closing /\ EosWaits => readOffset + cache.read = Size
        /\ NothingHappened /\ instantSeek /\ bSrcresult = "OK" /\ ~EosWaits /\ ~dFlushing => readOffset + cache.read < Size
    BY DEF DeliveryInv, EndInv, EosIsLast
  <2>3. ~EosInHand'
    BY <1>3 DEF EosInHand
  <2> QED
    BY <1>1, <1>2, <1>5, <2>1, <2>2, <2>3 DEF EosIsLast, EosWaits, Closing
<1> QED
    BY <1>9, <1>10, <1>11, <1>12, <1>13, <1>14, <1>15, <1>16, <1>17, <1>18, <1>19, <1>20, <1>21, <1>22, <1>23
           DEF DeliveryInv, ReaderInv, OrderInv, EndInv

\* The reader takes the next chunk from the cache, and makes EOS follow the last.
LEMMA DeliveryPBRead ==
    ASSUME stream \in Streams, ~stream.hls, DownloadInv, DownloadInv', DeliveryInv,
           PBRead
    PROVE  DeliveryInv'
<1> USE DEF connVars, loopVars, appVars, bufferVars, readerVars, downVars, hlsVars, ringVars, sourceVars, pbVars, fillVars, flagVars
<1>1. /\ Size \in Nat \ {0} /\ stream.sizes[1] = Size /\ stream' = stream /\ Size' = Size
      /\ conn.read \in Nat /\ conn.read <= Size /\ conn.file = 1
      /\ readOffset \in Nat /\ cache.read \in Nat /\ Len(cache.data) \in Nat
      /\ Len(out) \in Nat /\ (out = <<>> <=> Len(out) = 0)
      /\ segment.start \in Nat /\ segment.position \in Nat /\ segment.stop \in Nat /\ failures \in Nat
      /\ sAt \in DownloadSourcePlaces /\ app \in DownloadAppPlaces /\ pending \in Events
    BY DeliveryFacts DEF PBRead, Size
<1>2. (NothingHappened' => NothingHappened) /\ (Good' => Good)
    BY GoodSame DEF PBRead
<1>3. /\ bAt \in {"idle", "woken", "next"} /\ bSrcresult = "OK" /\ instantSeek /\ pendingSrc = NoEvent
      /\ ~SegmentWaits /\ ~EosWaits /\ ~SegmentInHand /\ ~EosInHand
      /\ bAt' \in {"next", "push"} /\ ~SegmentInHand' /\ ~EosInHand' /\ ~SegmentWaits'
      /\ pendingSrc' \in EventTypes \union {NoEvent}
    BY EventFacts DEF PBRead, PBRuns, ReaderRuns, PBReadable, SegmentWaits, EosWaits, SegmentInHand, EosInHand
<1>4. bTask = "started" \/ bAt # "idle"
    BY DEF PBRead, PBRuns, ReaderRuns
<1>5. /\ UNCHANGED <<stream, conn, failures, sTask, sAt, sResult, pending, position, flushing, app, target>>
      /\ UNCHANGED <<bTask, bResult, bSrcresult, dFlushing, dSegment, out, dEos, mishaps>>
      /\ UNCHANGED <<readOffset, segment, eosStatus, instantSeek, hasSrcpad, skip>>
    BY DEF PBRead
<1>6. /\ cache'.data = cache.data /\ cache'.read = cache.read + 1
      /\ cache.read < Len(cache.data) /\ cache.read + 1 \in 1..Len(cache.data)
      /\ cache' \in [data : Seq(Nat \X Nat), read : Nat]
  <2>1. cache \in [data : Seq(Nat \X Nat), read : Nat] /\ cache' \in [data : Seq(Nat \X Nat), read : Nat]
    BY DEF DownloadInv, DownloadTypes
  <2>2. cache' = [cache EXCEPT !.read = @ + 1] /\ cache.read < Len(cache.data)
    BY DEF PBRead, cache_read_buffer, PBReadable, cache_has_enough_data
  <2>3. cache'.data = cache.data /\ cache'.read = cache.read + 1
    BY <2>1, <2>2
  <2>4. cache.read \in Nat /\ Len(cache.data) \in Nat
    BY <1>1
  <2>5. cache.read + 1 \in 1..Len(cache.data)
    BY ONLY <2>2, <2>4
  <2> QED
    BY <2>1, <2>2, <2>3, <2>5
<1>7. EosWaits' <=> readOffset + cache.read + 1 = segment.stop
  <2>1. pendingSrc' = IF readOffset + cache'.read = segment.stop THEN EosEvent ELSE NoEvent
    BY DEF PBRead, AtStop
  <2>2. readOffset + cache'.read = readOffset + cache.read + 1
    BY <1>1, <1>6
  <2> QED
    BY <2>1, <2>2, EventFacts DEF EosWaits
<1>8. /\ (skip => bAt' = "next") /\ (~skip => bAt' = "push" /\ bBuffer' = cache.data[cache.read + 1])
      /\ cache.data[cache.read + 1] \in {1} \X (1..Size)
  <2>1. cache.data \in Seq({1} \X (1..Size))
    BY DEF DeliveryInv, ReaderInv, ReaderTypes
  <2> QED
    BY <2>1, <1>6 DEF PBRead, NextRead
<1>9. hasSrcpad /\ app \notin LockedPlaces \union {"pb start"} /\ (~dFlushing => ~Closing)
    BY <1>4 DEF DeliveryInv, ReaderInv, NoReaderYet, ReaderRests, FlushKnown, Closed
<1>10. Good /\ ~skip /\ ~dFlushing =>
          /\ dSegment # NoPosition /\ dSegment \in Int /\ readOffset + cache.read = dSegment + Len(out)
  <2>1. dSegment \in Int
    BY DEF DeliveryInv, ReaderInv, ReaderTypes
  <2> SUFFICES ASSUME Good, ~skip, ~dFlushing
               PROVE  dSegment # NoPosition /\ dSegment \in Int /\ readOffset + cache.read = dSegment + Len(out)
    OBVIOUS
  <2>2. /\ dSegment # NoPosition
        /\ readOffset + cache.read = dSegment + Len(out) + (IF bAt = "push" THEN 1 ELSE 0)
    BY <1>3, <1>9 DEF DeliveryInv, OrderInv, CacheIsNext
  <2>3. readOffset + cache.read = dSegment + Len(out) + 0
    BY <2>2, <1>3
  <2>4. Len(out) \in Nat
    BY <1>1
  <2>5. dSegment + Len(out) + 0 = dSegment + Len(out)
    BY ONLY <2>1, <2>4
  <2> QED
    BY <2>1, <2>2, <2>3, <2>5
<1>11. NothingHappened /\ ~dFlushing => readOffset + cache.read < Size
    BY <1>3 DEF DeliveryInv, EndInv, EosIsLast
<1>12. NothingHappened /\ ~Closing => segment.stop = Size
    BY <1>3 DEF DeliveryInv, EndInv, StopsAtEnd
<1>13. UNCHANGED <<Full, Come, CacheToEnd>>
    BY <1>1, <1>5, <1>6 DEF Full, CacheToEnd, Come
<1>14. ReaderTypes'
    BY <1>3, <1>5, <1>6 DEF DeliveryInv, ReaderInv, ReaderTypes, ReaderPlaces, Size
<1>15. HandTypes'
    BY <1>1, <1>3, <1>5, <1>8 DEF DeliveryInv, ReaderInv, HandTypes
<1>16. FlushKnown'
    BY <1>5 DEF DeliveryInv, ReaderInv, FlushKnown, Seeking, Closed, Closing
<1>17. ReaderRests'
    BY <1>5, <1>9 DEF ReaderRests
<1>18. ResultKnown'
    BY <1>5, <1>3, <1>8 DEF DeliveryInv, ReaderInv, ResultKnown
<1>19. NoReaderYet'
    BY <1>5, <1>9 DEF DeliveryInv, ReaderInv, NoReaderYet
<1>20. SourceKnown'
    BY <1>5 DEF DeliveryInv, ReaderInv, SourceKnown, Closing
<1>21. GivenPlaced'
    BY <1>2, <1>5, <1>1 DEF DeliveryInv, OrderInv, GivenPlaced, Placed
<1>22. InHandIsNext'
  <2> SUFFICES ASSUME Good', bAt' = "push", ~dFlushing'
               PROVE  dSegment' # NoPosition /\ bBuffer' = <<1, dSegment' + Len(out') + 1>>
    BY DEF InHandIsNext
  <2>1. Good /\ ~skip /\ ~dFlushing
    BY <1>2, <1>5, <1>8
  <2>2. dSegment # NoPosition /\ dSegment \in Int /\ readOffset + cache.read = dSegment + Len(out)
    BY <2>1, <1>10
  <2>3. cache.data[cache.read + 1] = <<1, readOffset + (cache.read + 1)>>
    <3>1. CASE NothingMisplaced
      BY <3>1, <1>6 DEF NothingMisplaced, DownloadInv, CachePlaced
    <3>2. CASE NothingHappened
      <4>1. readOffset + (cache.read + 1) <= Size
        BY <1>1, <2>1, <3>2, <1>11
      <4> QED
        BY <3>2, <4>1, <1>6 DEF DeliveryInv, EndInv, CacheGrows, CacheToEnd
    <3> QED
      BY <2>1, <3>1, <3>2 DEF Good
  <2>4. readOffset + (cache.read + 1) = dSegment + Len(out) + 1
    <3>1. readOffset \in Nat /\ cache.read \in Nat /\ Len(out) \in Nat
      BY <1>1
    <3> QED
      BY ONLY <3>1, <2>2
  <2> QED
    BY <2>1, <2>2, <2>3, <2>4, <1>5, <1>8
<1>23. SegmentIsNext'
    BY <1>5, <1>3, <1>9 DEF SegmentIsNext
<1>24. CacheIsNext'
  <2> SUFFICES ASSUME Good', ~skip', ~dFlushing'
               PROVE  /\ dSegment' # NoPosition
                      /\ readOffset' + cache'.read = dSegment' + Len(out') + (IF bAt' = "push" THEN 1 ELSE 0)
    BY DEF CacheIsNext
  <2>1. Good /\ ~skip /\ ~dFlushing /\ bAt' = "push"
    BY <1>2, <1>5, <1>8
  <2>2. dSegment # NoPosition /\ dSegment \in Int /\ readOffset + cache.read = dSegment + Len(out)
    BY <2>1, <1>10
  <2>3. readOffset + (cache.read + 1) = dSegment + Len(out) + 1
    <3>1. readOffset \in Nat /\ cache.read \in Nat /\ Len(out) \in Nat
      BY <1>1
    <3> QED
      BY ONLY <3>1, <2>2
  <2> QED
    BY <2>1, <2>2, <2>3, <1>5, <1>6
<1>25. SoughtIsTarget'
    BY <1>5, <1>3 DEF DeliveryInv, SoughtIsTarget
<1>26. CacheGrows'
    BY <1>1, <1>2, <1>3, <1>4, <1>5, <1>6, <1>7, <1>8, <1>9, <1>10, <1>11, <1>12, <1>13 DEF DeliveryInv,
           EndInv, CacheGrows
<1>27. StopsAtEnd'
    BY <1>1, <1>2, <1>5 DEF DeliveryInv, EndInv, StopsAtEnd, Closing
<1>28. EosIsLast'
  <2>1. /\ NothingHappened => ~skip
        /\ NothingHappened /\ dEos /\ dSegment # NoPosition => dSegment + Len(out) = Size
    BY DEF DeliveryInv, EndInv, EosIsLast
  <2>2. NothingHappened /\ ~Closing /\ EosWaits' => readOffset + cache.read + 1 = Size
    BY <1>7, <1>12
  <2>3. NothingHappened /\ ~EosWaits' /\ ~dFlushing => readOffset + cache.read + 1 < Size
    <3> SUFFICES ASSUME NothingHappened, ~EosWaits', ~dFlushing PROVE readOffset + cache.read + 1 < Size
      OBVIOUS
    <3>1. readOffset + cache.read + 1 # Size
      BY <1>7, <1>12, <1>9
    <3>2. readOffset + cache.read < Size
      BY <1>11
    <3>3. readOffset \in Nat /\ cache.read \in Nat /\ Size \in Nat
      BY <1>1
    <3> QED
      BY ONLY <3>1, <3>2, <3>3
  <2>4. readOffset + cache.read + 1 = readOffset' + cache'.read
    BY <1>1, <1>6, <1>5
  <2> QED
    BY <1>1, <1>2, <1>5, <1>3, <2>1, <2>2, <2>3, <2>4 DEF EosIsLast, Closing
<1> QED
    BY <1>14, <1>15, <1>16, <1>17, <1>18, <1>19, <1>20, <1>21, <1>22, <1>23, <1>24, <1>25, <1>26, <1>27, <1>28
           DEF DeliveryInv, ReaderInv, OrderInv, EndInv

\* The reader pushes the chunk: the demuxer has it, or it is flushing, or it has had enough, which
\* is a failure.
LEMMA DeliveryPBPush ==
    ASSUME stream \in Streams, ~stream.hls, DownloadInv, DownloadInv', DeliveryInv,
           PBPush
    PROVE  DeliveryInv'
<1> USE DEF connVars, loopVars, appVars, bufferVars, readerVars, downVars, hlsVars, ringVars, sourceVars, pbVars, fillVars, flagVars
<1>1. /\ Size \in Nat \ {0} /\ stream.sizes[1] = Size /\ stream' = stream /\ Size' = Size
      /\ conn.read \in Nat /\ conn.read <= Size /\ conn.file = 1
      /\ readOffset \in Nat /\ cache.read \in Nat /\ Len(cache.data) \in Nat
      /\ Len(out) \in Nat /\ (out = <<>> <=> Len(out) = 0)
      /\ segment.start \in Nat /\ segment.position \in Nat /\ segment.stop \in Nat /\ failures \in Nat
      /\ sAt \in DownloadSourcePlaces /\ app \in DownloadAppPlaces /\ pending \in Events
    BY DeliveryFacts DEF PBPush, Size
<1>2. (NothingHappened' => NothingHappened) /\ (Good' => Good)
  <2>1. conn' = conn /\ mishaps' = mishaps /\ (failures' = failures \/ failures' = failures + 1)
    BY DEF PBPush
  <2>2. failures \in Nat
    BY <1>1
  <2>3. failures' \in Nat /\ failures' >= failures
    BY ONLY <2>1, <2>2
  <2> QED
    BY <2>1, <2>2, <2>3, GoodFrame
<1>3. /\ bAt = "push" /\ bBuffer \in {1} \X (1..Size) /\ bSrcresult # "EOS" /\ bAt' \in {"merge", "next"}
      /\ (bAt' = "merge" => ~skip' /\ failures' = failures)
      /\ (bAt' = "next" => skip' /\ failures' = failures + 1)
      /\ ~SegmentInHand /\ ~EosInHand /\ ~SegmentInHand' /\ ~EosInHand' 
  <2>1. bAt = "push" /\ bAt' \in {"merge", "next"} /\ (bAt' = "next" => skip' /\ failures' = failures + 1)
    BY DEF PBPush
  <2>2. bBuffer \in {1} \X (1..Size) /\ bSrcresult # "EOS" /\ ~skip
    BY <2>1 DEF DeliveryInv, ReaderInv, HandTypes, ResultKnown
  <2>3. bAt' = "merge" => ~skip' /\ failures' = failures
    BY <2>2 DEF PBPush
  <2> QED
    BY <2>1, <2>2, <2>3 DEF SegmentInHand, EosInHand
<1>4. /\ dFlushing => UNCHANGED <<dSegment, out, dEos>> /\ bAt' = "merge" /\ bResult' = "FLUSHING"
      /\ ~dFlushing /\ bAt' = "merge" => UNCHANGED <<dSegment, dEos>> /\ out' = Append(out, bBuffer) /\ bResult' = "OK"
      /\ ~dFlushing /\ bAt' = "next" => UNCHANGED <<dSegment, out, dEos>> /\ bResult' = bResult
    BY DEF PBPush, PushBufferDown
<1>5. /\ UNCHANGED <<stream, conn, sTask, sAt, sResult, pending, position, flushing, app, target>>
      /\ UNCHANGED <<bTask, bSrcresult, mishaps, dFlushing>>
      /\ UNCHANGED <<cache, readOffset, segment, eosStatus, instantSeek, pendingSrc, hasSrcpad>>
    BY DEF PBPush, PushBufferDown
<1>6. UNCHANGED <<SegmentWaits, EosWaits>>
    BY <1>5 DEF SegmentWaits, EosWaits
<1>7. failures' \in Nat /\ failures' >= failures /\ (bAt' = "next" => failures' > 0 /\ failures' # 0)
  <2>1. failures \in Nat
    BY <1>1
  <2>2. failures + 1 \in Nat /\ failures + 1 > 0 /\ failures + 1 # 0 /\ failures + 1 >= failures
    BY ONLY <2>1
  <2> QED
    BY <2>1, <2>2, <1>3
<1>8. NothingHappened' => bAt' = "merge" /\ ~skip'
    BY <1>3, <1>7 DEF NothingHappened
<1>9. /\ out \in Seq(Nat \X Nat) /\ Append(out, bBuffer) \in Seq(Nat \X Nat)
      /\ Len(Append(out, bBuffer)) = Len(out) + 1 /\ Append(out, bBuffer) # <<>>
      /\ \A i \in 1..Len(out) : Append(out, bBuffer)[i] = out[i]
      /\ Append(out, bBuffer)[Len(out) + 1] = bBuffer
  <2>1. out \in Seq(Nat \X Nat) /\ bBuffer \in Nat \X Nat /\ Len(out) \in Nat
    BY <1>1, <1>3 DEF DeliveryInv, ReaderInv, ReaderTypes
  <2>2. /\ Append(out, bBuffer) \in Seq(Nat \X Nat) /\ Len(Append(out, bBuffer)) = Len(out) + 1
        /\ \A i \in 1..Len(out) : Append(out, bBuffer)[i] = out[i]
        /\ Append(out, bBuffer)[Len(out) + 1] = bBuffer
    BY <2>1, AppendProperties
  <2>3. Len(out) + 1 # 0
    BY ONLY <2>1
  <2> QED
    BY <2>1, <2>2, <2>3, EmptySeq
<1>10. UNCHANGED <<Full, Come, CacheToEnd>>
    BY <1>1, <1>5 DEF Full, CacheToEnd, Come
<1>11. ReaderTypes'
  <2>1. out' \in Seq(Nat \X Nat) /\ dSegment' = dSegment
    BY <1>3, <1>4, <1>9
  <2>2. bResult' \in {"OK", "FLUSHING"}
    BY <1>3, <1>4 DEF DeliveryInv, ReaderInv, ReaderTypes
  <2> QED
    BY <2>1, <2>2, <1>1, <1>3, <1>5, <1>7 DEF DeliveryInv, ReaderInv, ReaderTypes, ReaderPlaces
<1>12. HandTypes'
  <2>1. dSegment' = dSegment
    BY <1>3, <1>4
  <2> QED
    BY <2>1, <1>1, <1>3, <1>5, <1>6 DEF DeliveryInv, ReaderInv, HandTypes
<1>13. FlushKnown'
    BY <1>5 DEF DeliveryInv, ReaderInv, FlushKnown, Seeking, Closed, Closing
<1>14. ReaderRests'
    BY <1>5, <1>3 DEF DeliveryInv, ReaderInv, ReaderRests
<1>15. ResultKnown'
  <2>1. ~skip => ~skip' \/ bAt' = "next"
    BY <1>3
  <2>2. dEos' = dEos
    BY <1>4, <1>3
  <2>3. ~dFlushing /\ bAt' = "merge" => bSrcresult = "OK" /\ bResult' = "OK"
    BY <1>4, <1>3 DEF DeliveryInv, ReaderInv, ResultKnown, ReaderTypes
  <2> QED
    BY <2>1, <2>2, <2>3, <1>5, <1>3 DEF DeliveryInv, ReaderInv, ResultKnown
<1>16. NoReaderYet'
    BY <1>5, <1>3 DEF DeliveryInv, ReaderInv, NoReaderYet
<1>17. SourceKnown'
  <2>1. app \in {"flush stop refused", "start refused", "refused"} => failures > 0
    BY DEF DeliveryInv, ReaderInv, SourceKnown
  <2>2. failures \in Nat
    BY <1>1
  <2>3. app \in {"flush stop refused", "start refused", "refused"} => failures' > 0
    <3>1. failures' \in Nat /\ failures' >= failures
      BY <1>7
    <3>2. failures > 0 => failures' > 0
      BY ONLY <2>2, <3>1
    <3> QED
      BY <2>1, <3>2
  <2> QED
    BY <2>3, <1>5 DEF DeliveryInv, ReaderInv, SourceKnown, Closing
<1>18. GivenPlaced'
  <2> SUFFICES ASSUME Good', out' # <<>>
               PROVE  dSegment' # NoPosition /\ dSegment' + Len(out') <= Size /\ Placed(dSegment, out')
    BY <1>1, <1>4, <1>3 DEF GivenPlaced, Placed
  <2>1. CASE out' = out
    BY <1>2, <2>1, <1>4, <1>3 DEF DeliveryInv, OrderInv, GivenPlaced
  <2>2. CASE ~dFlushing /\ out' = Append(out, bBuffer) /\ dSegment' = dSegment
    <3>1. dSegment # NoPosition /\ bBuffer = <<1, dSegment + Len(out) + 1>>
      BY <1>2, <2>2, <1>3 DEF DeliveryInv, OrderInv, InHandIsNext
    <3>2. dSegment \in Int /\ Len(out) \in Nat
      BY <1>1 DEF DeliveryInv, ReaderInv, ReaderTypes
    <3>3. dSegment + Len(out) + 1 \in 1..Size
      BY <3>1, <1>3
    <3>4. Len(out') = Len(out) + 1 /\ dSegment' + Len(out') <= Size
      <4>1. Len(out') = Len(out) + 1 /\ dSegment' = dSegment /\ Size \in Nat
        BY <2>2, <1>9, <1>1
      <4> QED
        BY ONLY <4>1, <3>2, <3>3
    <3>5. out # <<>> => Placed(dSegment, out)
      BY <1>2 DEF DeliveryInv, OrderInv, GivenPlaced
    <3>6. ASSUME NEW i \in 1..Len(out') PROVE out'[i] = <<1, dSegment + i>>
      <4>1. i \in 1..Len(out) \/ i = Len(out) + 1
        BY ONLY <3>2, <3>4, <3>6
      <4>2. CASE i \in 1..Len(out)
        <5>1. out # <<>>
          BY <1>1, <4>2
        <5> QED
          BY <5>1, <3>5, <4>2, <2>2, <1>9 DEF Placed
      <4>3. CASE i = Len(out) + 1
        <5>1. dSegment + i = dSegment + Len(out) + 1
          BY ONLY <3>2, <4>3
        <5> QED
          BY <5>1, <4>3, <3>1, <2>2, <1>9
      <4> QED
        BY <4>1, <4>2, <4>3
    <3> QED
      BY <3>1, <3>4, <3>6, <2>2 DEF Placed
  <2> QED
    BY <2>1, <2>2, <1>4, <1>3
<1>19. InHandIsNext'
    BY <1>3 DEF InHandIsNext
<1>20. SegmentIsNext'
    BY <1>2, <1>5, <1>3, <1>6 DEF DeliveryInv, OrderInv, SegmentIsNext, Closing
<1>21. CacheIsNext'
  <2> SUFFICES ASSUME Good', ~SegmentWaits', instantSeek', bSrcresult' = "OK", ~skip', ~dFlushing', hasSrcpad'
               PROVE  /\ dSegment' # NoPosition
                      /\ readOffset' + cache'.read = dSegment' + Len(out') + (IF bAt' = "push" THEN 1 ELSE 0)
    BY DEF CacheIsNext
  <2>1. bAt' = "merge" /\ ~skip
    BY <1>3 DEF DeliveryInv, ReaderInv, ResultKnown
  <2>2. dSegment # NoPosition /\ readOffset + cache.read = dSegment + Len(out) + 1
    BY <2>1, <1>2, <1>5, <1>3, <1>6 DEF DeliveryInv, OrderInv, CacheIsNext
  <2>3. dSegment' = dSegment /\ Len(out') = Len(out) + 1
    BY <2>1, <1>4, <1>5, <1>9
  <2>4. dSegment \in Int /\ Len(out) \in Nat
    BY <1>1 DEF DeliveryInv, ReaderInv, ReaderTypes
  <2>5. dSegment + Len(out) + 1 = dSegment + (Len(out) + 1) + 0
    BY ONLY <2>4
  <2> QED
    BY <2>1, <2>2, <2>3, <2>5, <1>5
<1>22. SoughtIsTarget'
  <2>1. dSegment' = dSegment
    BY <1>3, <1>4
  <2> QED
    BY <2>1, <1>5, <1>3, <1>6 DEF DeliveryInv, SoughtIsTarget
<1>23. CacheGrows'
    BY <1>1, <1>2, <1>5, <1>10 DEF DeliveryInv, EndInv, CacheGrows
<1>24. StopsAtEnd'
    BY <1>1, <1>2, <1>5 DEF DeliveryInv, EndInv, StopsAtEnd, Closing
<1>25. EosIsLast'
  <2>1. dSegment' = dSegment /\ dEos' = dEos /\ (NothingHappened' => NothingHappened)
    BY <1>4, <1>3, <1>2
  <2>2. dEos => dFlushing
    BY <1>3 DEF DeliveryInv, ReaderInv, ResultKnown
  <2>3. dFlushing => out' = out
    BY <1>4
  <2>4. NothingHappened' => ~skip'
    BY <1>8
  <2> QED
    BY <1>1, <2>1, <2>2, <2>3, <2>4, <1>5, <1>3, <1>6 DEF DeliveryInv, EndInv, EosIsLast, Closing
<1> QED
    BY <1>11, <1>12, <1>13, <1>14, <1>15, <1>16, <1>17, <1>18, <1>19, <1>20, <1>21, <1>22, <1>23, <1>24, <1>25
           DEF DeliveryInv, ReaderInv, OrderInv, EndInv

-----------------------------------------------------------------------------
(* The steps of the application. *)

\* The steps of a seek and of closing that only tell the threads what to do.
LEMMA DeliveryAppStep ==
    ASSUME stream \in Streams, ~stream.hls, DownloadInv, DownloadInv', DeliveryInv,
           \/ /\ PushFlushStart \/ MarkFlushing \/ StartSource \/ StopSource \/ JoinSource
              /\ UNCHANGED <<bufferVars, hlsVars, pbVars>>
           \/ PBMark \/ PBAsk \/ PBStart \/ PBJoin \/ PBClose
    PROVE  DeliveryInv'
<1> DEFINE task == sTask' = sTask
<1> DEFINE pads == flushing' = flushing
<1> DEFINE reader == bTask' = bTask /\ bAt' = bAt /\ bSrcresult' = bSrcresult
<1> DEFINE demuxer == dFlushing' = dFlushing
<1> DEFINE woken == bAt' = bAt \/ (bAt = "asleep" /\ bAt' = "woken")
<1> USE DEF connVars, loopVars, appVars, bufferVars, readerVars, downVars, hlsVars, ringVars, sourceVars, pbVars, fillVars, flagVars
<1>1. /\ UNCHANGED <<stream, conn, failures, sAt, sResult, pending, position, target, bResult, bBuffer, dSegment>>
      /\ UNCHANGED <<out, dEos, mishaps, cache, readOffset, segment, eosStatus, pendingSrc, instantSeek, hasSrcpad>>
      /\ skip' = skip
      /\ \/ app = "flush start" /\ app' = "mark" /\ flushing' # {} /\ task /\ reader /\ demuxer
         \/ app = "mark" /\ app' = "seek data" /\ pads /\ task /\ reader /\ demuxer
         \/ app = "start" /\ app' = "sought" /\ pads /\ reader /\ demuxer
         \/ app = "start refused" /\ app' = "refused" /\ pads /\ reader /\ demuxer
         \/ app = "stop source" /\ app' = "join source" /\ flushing' # {} /\ sTask' = "stopped" /\ reader /\ demuxer
         \/ app = "join source" /\ app' = "closed" /\ pads /\ task /\ reader /\ demuxer
         \/ app = "pb mark" /\ app' = "pb lock" /\ pads /\ task /\ bTask' = bTask /\ woken /\ bSrcresult' = "FLUSHING" /\ demuxer
         \/ app = "pb ask" /\ app' = (IF instantSeek THEN "pb stop" ELSE "flush start") /\ pads /\ task /\ reader /\ demuxer
         \/ app = "pb start" /\ app' = "idle" /\ pads /\ task /\ bAt' = bAt /\ bSrcresult' = bSrcresult /\ demuxer
         \/ app = "pb join" /\ app' = "pb sink" /\ flushing' # {} /\ task /\ reader /\ demuxer /\ bTask # "started" /\ bAt = "idle"
         \/ app = "idle" /\ app' = "pb join" /\ pads /\ task /\ dFlushing' /\ woken
            /\ (IF hasSrcpad THEN bSrcresult' = "FLUSHING" /\ bTask' = "stopped" ELSE reader)
  <2>1. CASE PushFlushStart /\ UNCHANGED <<bufferVars, hlsVars, pbVars>>
    BY <2>1 DEF PushFlushStart
  <2>2. CASE MarkFlushing /\ UNCHANGED <<bufferVars, hlsVars, pbVars>>
    BY <2>2 DEF MarkFlushing
  <2>3. CASE StartSource /\ UNCHANGED <<bufferVars, hlsVars, pbVars>>
    BY <2>3 DEF StartSource
  <2>4. CASE StopSource /\ UNCHANGED <<bufferVars, hlsVars, pbVars>>
    BY <2>4 DEF StopSource
  <2>5. CASE JoinSource /\ UNCHANGED <<bufferVars, hlsVars, pbVars>>
    BY <2>5 DEF JoinSource
  <2>6. CASE PBMark
    BY <2>6 DEF PBMark, SignalAdd
  <2>7. CASE PBAsk
    BY <2>7 DEF PBAsk
  <2>8. CASE PBStart
    BY <2>8 DEF PBStart
  <2>9. CASE PBJoin
    BY <2>9 DEF PBJoin, ReaderIdle
  <2>10. CASE PBClose
    BY <2>10 DEF PBClose, SignalAdd
  <2> QED
    BY <2>1, <2>2, <2>3, <2>4, <2>5, <2>6, <2>7, <2>8, <2>9, <2>10
<1>2. /\ Size \in Nat \ {0} /\ stream.sizes[1] = Size /\ stream' = stream /\ Size' = Size
      /\ conn.read \in Nat /\ conn.read <= Size /\ conn.file = 1
      /\ readOffset \in Nat /\ cache.read \in Nat /\ Len(cache.data) \in Nat
      /\ Len(out) \in Nat /\ (out = <<>> <=> Len(out) = 0)
      /\ segment.start \in Nat /\ segment.position \in Nat /\ segment.stop \in Nat /\ failures \in Nat
      /\ sAt \in DownloadSourcePlaces /\ app \in DownloadAppPlaces /\ pending \in Events
    BY <1>1, DeliveryFacts DEF Size
<1>3. (NothingHappened' => NothingHappened) /\ (Good' => Good)
    BY <1>1, GoodSame
<1>4. ReaderTypes'
    BY <1>1, <1>2 DEF DeliveryInv, ReaderInv, ReaderTypes, ReaderPlaces, EventTypes
<1>5. HandTypes'
    BY <1>1, <1>2 DEF DeliveryInv, ReaderInv, HandTypes, SegmentInHand, SegmentWaits, EventTypes
<1>6. FlushKnown'
  <2>1. ~dFlushing' => ~dFlushing /\ app \notin {"pb mark", "mark", "stop source", "join source", "pb ask", "pb join"}
    BY <1>1 DEF DeliveryInv, ReaderInv, FlushKnown, Seeking, Closed, Closing, LockedPlaces
  <2>2. dFlushing' => Seeking' \/ Closed'
    BY <1>1 DEF DeliveryInv, ReaderInv, FlushKnown, Seeking, Closed, Closing, LockedPlaces
  <2>3. ~dFlushing' => ~Seeking' /\ ~Closed'
    BY <1>1, <2>1 DEF DeliveryInv, ReaderInv, FlushKnown, Seeking, Closed, Closing, LockedPlaces
  <2> QED
    BY <2>2, <2>3 DEF FlushKnown
<1>7. ReaderRests'
    BY <1>1, <1>2 DEF DeliveryInv, ReaderInv, ReaderRests, LockedPlaces
<1>8. ResultKnown'
    BY <1>1, <1>2 DEF DeliveryInv, ReaderInv, ResultKnown, EosInHand, FlushKnown, Seeking, Closed, Closing,
           LockedPlaces
<1>9. NoReaderYet'
    BY <1>1, <1>2 DEF DeliveryInv, ReaderInv, NoReaderYet, Seeking, LockedPlaces
<1>10. SourceKnown'
    BY <1>1, <1>2 DEF DeliveryInv, ReaderInv, SourceKnown, Closing
<1>11. OrderInv'
  <2>1. bAt' = bAt \/ (bAt \notin {"push", "event"} /\ bAt' \notin {"push", "event"})
    BY <1>1
  <2>2. app' \in LockedPlaces => app \in LockedPlaces
    BY <1>1 DEF LockedPlaces, DeliveryInv, ReaderInv, FlushKnown, Seeking, Closed, Closing
  <2>3. ~dFlushing => app # "pb mark"
    BY DEF DeliveryInv, ReaderInv, FlushKnown, Seeking
  <2>4. ~dFlushing' => ~dFlushing /\ bSrcresult' = bSrcresult
    <3>1. dFlushing' \/ (demuxer /\ (app = "pb mark" \/ bSrcresult' = bSrcresult))
      BY <1>1
    <3> QED
      BY <2>3, <3>1
  <2>5. Closing => Closing'
    BY <1>1 DEF Closing
  <2> QED
    BY <1>1, <1>2, <1>3, <2>1, <2>2, <2>4, <2>5, OrderFrame DEF DeliveryInv
<1>12. SoughtIsTarget'
    BY <1>1, <1>2, <1>3 DEF DeliveryInv, SoughtIsTarget, SegmentWaits, SegmentInHand
<1>13. CacheGrows'
    BY <1>1, <1>2, <1>3 DEF DeliveryInv, EndInv, CacheGrows, Full, Come, CacheToEnd
<1>14. StopsAtEnd'
    BY <1>1, <1>2, <1>3 DEF DeliveryInv, EndInv, StopsAtEnd, Closing
<1>15. EosIsLast'
    BY <1>1, <1>2, <1>3 DEF DeliveryInv, EndInv, EosIsLast, EosWaits, EosInHand, Closing, FlushKnown,
           Seeking, Closed, LockedPlaces, ReaderInv
<1> QED
    BY <1>4, <1>5, <1>6, <1>7, <1>8, <1>9, <1>10, <1>11, <1>12, <1>13, <1>14, <1>15 DEF DeliveryInv,
           ReaderInv, EndInv

\* SEEK_DATA: the connection goes on elsewhere, and a SEGMENT is to be sent; or it refuses.
LEMMA DeliverySeekData ==
    ASSUME stream \in Streams, ~stream.hls, DownloadInv, DownloadInv', DeliveryInv,
           SeekData, UNCHANGED <<bufferVars, hlsVars, pbVars>>
    PROVE  DeliveryInv'
<1> USE DEF connVars, loopVars, appVars, bufferVars, readerVars, downVars, hlsVars, ringVars, sourceVars, pbVars, fillVars, flagVars
<1>1. /\ Size \in Nat \ {0} /\ stream.sizes[1] = Size /\ stream' = stream /\ Size' = Size
      /\ conn.read \in Nat /\ conn.read <= Size /\ conn.file = 1
      /\ readOffset \in Nat /\ cache.read \in Nat /\ Len(cache.data) \in Nat
      /\ Len(out) \in Nat /\ (out = <<>> <=> Len(out) = 0)
      /\ segment.start \in Nat /\ segment.position \in Nat /\ segment.stop \in Nat /\ failures \in Nat
      /\ sAt \in DownloadSourcePlaces /\ app \in DownloadAppPlaces /\ pending \in Events
    BY DeliveryFacts DEF SeekData, Size
<1>2. (NothingHappened' => NothingHappened) /\ (Good' => Good)
  <2>1. conn \in [next : Nat, file : {1}, read : Nat, lost : BOOLEAN]
    BY DEF DownloadInv, DownloadTypes
  <2>2. conn'.lost = conn.lost /\ (failures' = failures \/ failures' = failures + 1)
    BY <2>1 DEF SeekData, Sought
  <2>3. failures \in Nat /\ failures' \in Nat /\ failures' >= failures
    BY <2>2, DeliveryFacts
  <2> QED
    BY <2>2, <2>3, GoodFrame
<1>3. \/ /\ pending' = "SEGMENT" /\ app' = "flush stop"
         /\ position' = target /\ failures' = failures
      \/ /\ failures' = failures + 1 /\ app' = "flush stop refused" /\ pending' = pending
         /\ position' = position
    BY DEF SeekData
<1>4. UNCHANGED <<stream, sAt, sTask, flushing, target, segment>> /\ app = "seek data" /\ sAt = "idle" /\ sTask # "started"
    BY DEF SeekData, SourceIdle
<1>5. failures' \in Nat /\ (app' = "flush stop refused" => failures' > 0 /\ failures' # 0)
  <2>1. failures \in Nat
    BY DeliveryFacts
  <2>2. failures + 1 \in Nat /\ failures + 1 > 0 /\ failures + 1 # 0
    BY ONLY <2>1
  <2> QED
    BY <1>3, <2>1, <2>2
<1>6. NothingHappened' => pending' = "SEGMENT" /\ app' = "flush stop"
    BY <1>5, <1>3 DEF NothingHappened
<1>7. ReaderTypes'
    BY <1>1, <1>3, <1>4, <1>5, <1>6 DEF DeliveryInv, ReaderInv, ReaderTypes, ReaderPlaces, EventTypes
<1>8. HandTypes'
    BY <1>1, <1>3, <1>4, <1>5, <1>6 DEF DeliveryInv, ReaderInv, HandTypes, SegmentInHand, SegmentWaits,
           EventTypes
<1>9. FlushKnown'
    BY <1>1, <1>3, <1>4, <1>5, <1>6 DEF DeliveryInv, ReaderInv, FlushKnown, Seeking, Closed, Closing,
           LockedPlaces
<1>10. ReaderRests'
    BY <1>1, <1>3, <1>4, <1>5, <1>6 DEF DeliveryInv, ReaderInv, ReaderRests, LockedPlaces
<1>11. ResultKnown'
    BY <1>1, <1>3, <1>4, <1>5, <1>6 DEF DeliveryInv, ReaderInv, ResultKnown, EosInHand
<1>12. NoReaderYet'
    BY <1>1, <1>3, <1>4, <1>5, <1>6 DEF DeliveryInv, ReaderInv, NoReaderYet, Seeking, LockedPlaces
<1>13. SourceKnown'
    BY <1>1, <1>3, <1>4, <1>5, <1>6 DEF DeliveryInv, ReaderInv, SourceKnown, Closing
<1>14. OrderInv'
    BY <1>1, <1>2, <1>3, <1>4, OrderFrame DEF DeliveryInv, Closing, LockedPlaces
<1>15. SoughtIsTarget'
    BY <1>1, <1>2, <1>3, <1>4, <1>5, <1>6 DEF DeliveryInv, SoughtIsTarget, SegmentWaits, SegmentInHand
<1>16. CacheGrows'
    BY <1>1, <1>2, <1>3, <1>4, <1>5, <1>6 DEF DeliveryInv, EndInv, CacheGrows, Full, Come, CacheToEnd
<1>17. StopsAtEnd'
    BY <1>1, <1>2, <1>3, <1>4, <1>5, <1>6 DEF DeliveryInv, EndInv, StopsAtEnd, Closing, ReaderInv, NoReaderYet,
           Seeking, LockedPlaces
<1>18. EosIsLast'
    BY <1>1, <1>2, <1>3, <1>4, <1>5, <1>6 DEF DeliveryInv, EndInv, EosIsLast, EosWaits, EosInHand, Closing
<1> QED
    BY <1>7, <1>8, <1>9, <1>10, <1>11, <1>12, <1>13, <1>14, <1>15, <1>16, <1>17, <1>18 DEF DeliveryInv,
           ReaderInv, EndInv

\* FLUSH_STOP of a seek: after a successful one a SEGMENT is to come.
LEMMA DeliveryPushFlushStop ==
    ASSUME stream \in Streams, ~stream.hls, DownloadInv, DownloadInv', DeliveryInv,
           PushFlushStop, UNCHANGED <<bufferVars, hlsVars, pbVars>>
    PROVE  DeliveryInv'
<1> USE DEF connVars, loopVars, appVars, bufferVars, readerVars, downVars, hlsVars, ringVars, sourceVars, pbVars, fillVars, flagVars
<1>1. /\ Size \in Nat \ {0} /\ stream.sizes[1] = Size /\ stream' = stream /\ Size' = Size
      /\ conn.read \in Nat /\ conn.read <= Size /\ conn.file = 1
      /\ readOffset \in Nat /\ cache.read \in Nat /\ Len(cache.data) \in Nat
      /\ Len(out) \in Nat /\ (out = <<>> <=> Len(out) = 0)
      /\ segment.start \in Nat /\ segment.position \in Nat /\ segment.stop \in Nat /\ failures \in Nat
      /\ sAt \in DownloadSourcePlaces /\ app \in DownloadAppPlaces /\ pending \in Events
    BY DeliveryFacts DEF PushFlushStop, Size
<1>2. (NothingHappened' => NothingHappened) /\ (Good' => Good)
    BY GoodSame DEF PushFlushStop
<1>3. NothingHappened => pending = "SEGMENT" /\ sAt = "idle"
  <2>1. CASE app = "flush stop"
    BY <2>1 DEF DeliveryInv, ReaderInv, SourceKnown
  <2>2. CASE app = "flush stop refused"
    <3>1. failures > 0
      BY <2>2 DEF DeliveryInv, ReaderInv, SourceKnown
    <3> QED
      BY <3>1, DeliveryFacts DEF NothingHappened
  <2> QED
    BY <2>1, <2>2 DEF PushFlushStop
<1>4. UNCHANGED <<Full, CacheToEnd>>
    BY <1>1 DEF Full, CacheToEnd, PushFlushStop
<1>5. ReaderTypes'
    BY <1>1, <1>3, <1>4 DEF DeliveryInv, ReaderInv, ReaderTypes, ReaderPlaces, EventTypes, PushFlushStop
<1>6. HandTypes'
    BY <1>1, <1>3, <1>4 DEF DeliveryInv, ReaderInv, HandTypes, SegmentInHand, SegmentWaits, EventTypes,
           PushFlushStop
<1>7. FlushKnown'
    BY <1>1, <1>3, <1>4 DEF DeliveryInv, ReaderInv, FlushKnown, Seeking, Closed, Closing, LockedPlaces,
           PushFlushStop
<1>8. ReaderRests'
    BY <1>1, <1>3, <1>4 DEF DeliveryInv, ReaderInv, ReaderRests, LockedPlaces, PushFlushStop
<1>9. ResultKnown'
    BY <1>1, <1>3, <1>4 DEF DeliveryInv, ReaderInv, ResultKnown, EosInHand, PushFlushStop
<1>10. NoReaderYet'
    BY <1>1, <1>3, <1>4 DEF DeliveryInv, ReaderInv, NoReaderYet, Seeking, LockedPlaces, PushFlushStop
<1>11. SourceKnown'
    BY <1>1, <1>3, <1>4 DEF DeliveryInv, ReaderInv, SourceKnown, Closing, PushFlushStop
<1>12. OrderInv'
    BY <1>1, <1>2, OrderFrame DEF DeliveryInv, Closing, LockedPlaces, PushFlushStop
<1>13. SoughtIsTarget'
    BY <1>1, <1>2, <1>3, <1>4 DEF DeliveryInv, SoughtIsTarget, SegmentWaits, SegmentInHand, PushFlushStop
<1>14. CacheGrows'
    BY <1>1, <1>2, <1>3, <1>4 DEF DeliveryInv, EndInv, CacheGrows, PushFlushStop
<1>15. StopsAtEnd'
    BY <1>1, <1>2, <1>3, <1>4 DEF DeliveryInv, EndInv, StopsAtEnd, Closing, PushFlushStop
<1>16. EosIsLast'
    BY <1>1, <1>2, <1>3, <1>4 DEF DeliveryInv, EndInv, EosIsLast, EosWaits, EosInHand, Closing, PushFlushStop
<1> QED
    BY <1>5, <1>6, <1>7, <1>8, <1>9, <1>10, <1>11, <1>12, <1>13, <1>14, <1>15, <1>16 DEF DeliveryInv,
           ReaderInv, EndInv

\* With the reader's lock: the seek is instant, or the source will be asked.
LEMMA DeliveryPBLocked ==
    ASSUME stream \in Streams, ~stream.hls, DownloadInv, DownloadInv', DeliveryInv,
           PBLocked
    PROVE  DeliveryInv'
<1> USE DEF connVars, loopVars, appVars, bufferVars, readerVars, downVars, hlsVars, ringVars, sourceVars, pbVars, fillVars, flagVars
<1>1. /\ Size \in Nat \ {0} /\ stream.sizes[1] = Size /\ stream' = stream /\ Size' = Size
      /\ conn.read \in Nat /\ conn.read <= Size /\ conn.file = 1
      /\ readOffset \in Nat /\ cache.read \in Nat /\ Len(cache.data) \in Nat
      /\ Len(out) \in Nat /\ (out = <<>> <=> Len(out) = 0)
      /\ segment.start \in Nat /\ segment.position \in Nat /\ segment.stop \in Nat /\ failures \in Nat
      /\ sAt \in DownloadSourcePlaces /\ app \in DownloadAppPlaces /\ pending \in Events
    BY DeliveryFacts DEF PBLocked, Size
<1>2. (NothingHappened' => NothingHappened) /\ (Good' => Good)
    BY GoodSame DEF PBLocked
<1>3. app = "pb lock" /\ bAt = "idle" /\ bTask # "started"
    BY DEF PBLocked, ReaderIdle
<1>4. target \in 0..(Size - 1) /\ target \in Int /\ target < Size
    BY DeliveryFacts
<1>5. segment.start = readOffset
    BY <1>3 DEF DeliveryInv, ReaderInv, SourceKnown, Closing
<1>6. hasSrcpad /\ dFlushing /\ ~skip
    BY <1>3 DEF DeliveryInv, ReaderInv, NoReaderYet, FlushKnown, ResultKnown, Seeking
<1>7. cache'.data = cache.data /\ cache' \in [data : Seq(Nat \X Nat), read : Nat]
  <2>1. cache \in [data : Seq(Nat \X Nat), read : Nat] /\ cache' \in [data : Seq(Nat \X Nat), read : Nat]
    BY DEF DownloadInv, DownloadTypes
  <2> QED
    BY <2>1 DEF PBLocked, SeekCache
<1>8. \/ /\ SegmentWaits' /\ ~EosWaits' /\ pendingSrc'.at = target /\ pendingSrc' \in EventTypes
         /\ instantSeek' = TRUE /\ app' = "pb stop" /\ (eosStatus' => eosStatus)
         /\ pendingSrc'.at = readOffset + cache'.read
      \/ /\ pendingSrc' = NoEvent /\ ~SegmentWaits' /\ ~EosWaits' /\ instantSeek' = FALSE
         /\ app' = "pb ask" /\ cache' = cache /\ (eosStatus' => eosStatus)
  <2>1. CASE target >= segment.start /\ cache' = SeekCache /\ pendingSrc' = SegmentEvent(target) /\ instantSeek' = TRUE
             /\ app' = "pb stop" /\ (eosStatus' => eosStatus)
    <3>1. cache \in [data : Seq(Nat \X Nat), read : Nat]
      BY DEF DownloadInv, DownloadTypes
    <3>2. cache'.read = target - readOffset
      BY <1>1, <1>4, <1>5, <2>1, <3>1 DEF SeekCache
    <3>3. SegmentWaits' /\ ~EosWaits' /\ pendingSrc'.at = target /\ pendingSrc' \in EventTypes
      BY <1>4, <2>1, EventFacts DEF SegmentWaits, EosWaits
    <3>4. pendingSrc'.at = readOffset + cache'.read
      BY <1>1, <1>4, <3>2, <3>3
    <3> QED
      BY <2>1, <3>3, <3>4
  <2>2. CASE pendingSrc' = NoEvent /\ instantSeek' = FALSE /\ app' = "pb ask" /\ cache' = cache /\ eosStatus' = FALSE
    BY <2>2 DEF SegmentWaits, EosWaits
  <2> QED
    BY <2>1, <2>2 DEF PBLocked
<1>9. /\ UNCHANGED <<position, target, sAt, sTask, sResult, flushing, pending, conn, failures, mishaps, dSegment, out, dFlushing, dEos>>
      /\ UNCHANGED <<bTask, bAt, bResult, bBuffer, readOffset, segment, hasSrcpad, skip>> /\ bSrcresult' = "OK"
    BY DEF PBLocked
<1>10. UNCHANGED <<Full, Come, CacheToEnd>>
    BY <1>1, <1>7, <1>9 DEF Full, CacheToEnd, Come
<1>11. ReaderTypes'
    BY <1>1, <1>3, <1>4, <1>5, <1>6, <1>7, <1>8, <1>9, <1>10 DEF DeliveryInv, ReaderInv, ReaderTypes,
           ReaderPlaces, EventTypes
<1>12. HandTypes'
    BY <1>1, <1>3, <1>4, <1>5, <1>6, <1>7, <1>8, <1>9, <1>10 DEF DeliveryInv, ReaderInv, HandTypes,
           SegmentInHand, SegmentWaits, EventTypes
<1>13. FlushKnown'
    BY <1>1, <1>3, <1>4, <1>5, <1>6, <1>7, <1>8, <1>9, <1>10 DEF DeliveryInv, ReaderInv, FlushKnown, Seeking,
           Closed, Closing, LockedPlaces
<1>14. ReaderRests'
    BY <1>1, <1>3, <1>4, <1>5, <1>6, <1>7, <1>8, <1>9, <1>10 DEF DeliveryInv, ReaderInv, ReaderRests,
           LockedPlaces
<1>15. ResultKnown'
    BY <1>1, <1>3, <1>4, <1>5, <1>6, <1>7, <1>8, <1>9, <1>10 DEF DeliveryInv, ReaderInv, ResultKnown, EosInHand
<1>16. NoReaderYet'
    BY <1>1, <1>3, <1>4, <1>5, <1>6, <1>7, <1>8, <1>9, <1>10 DEF DeliveryInv, ReaderInv, NoReaderYet, Seeking,
           LockedPlaces
<1>17. SourceKnown'
    BY <1>1, <1>3, <1>4, <1>5, <1>6, <1>7, <1>8, <1>9, <1>10 DEF DeliveryInv, ReaderInv, SourceKnown, Closing
<1>18. GivenPlaced'
    BY <1>1, <1>2, <1>3, <1>4, <1>5, <1>6, <1>7, <1>8, <1>9, <1>10 DEF DeliveryInv, OrderInv, GivenPlaced
<1>19. InHandIsNext'
    BY <1>1, <1>2, <1>3, <1>4, <1>5, <1>6, <1>7, <1>8, <1>9, <1>10 DEF DeliveryInv, OrderInv, InHandIsNext
<1>20. SegmentIsNext'
    BY <1>1, <1>2, <1>3, <1>4, <1>5, <1>6, <1>7, <1>8, <1>9, <1>10 DEF DeliveryInv, OrderInv, SegmentIsNext,
           SegmentWaits, SegmentInHand, LockedPlaces, Closing
<1>21. CacheIsNext'
    BY <1>1, <1>2, <1>3, <1>4, <1>5, <1>6, <1>7, <1>8, <1>9, <1>10 DEF DeliveryInv, OrderInv, CacheIsNext,
           SegmentWaits
<1>22. SoughtIsTarget'
    BY <1>1, <1>2, <1>3, <1>4, <1>5, <1>6, <1>7, <1>8, <1>9, <1>10 DEF DeliveryInv, SoughtIsTarget,
           SegmentWaits, SegmentInHand
<1>23. CacheGrows'
    BY <1>1, <1>2, <1>3, <1>4, <1>5, <1>6, <1>7, <1>8, <1>9, <1>10 DEF DeliveryInv, EndInv, CacheGrows
<1>24. StopsAtEnd'
    BY <1>1, <1>2, <1>3, <1>4, <1>5, <1>6, <1>7, <1>8, <1>9, <1>10 DEF DeliveryInv, EndInv, StopsAtEnd, Closing
<1>25. EosIsLast'
    BY <1>1, <1>2, <1>3, <1>4, <1>5, <1>6, <1>7, <1>8, <1>9, <1>10 DEF DeliveryInv, EndInv, EosIsLast,
           EosWaits, EosInHand, Closing
<1> QED
    BY <1>11, <1>12, <1>13, <1>14, <1>15, <1>16, <1>17, <1>18, <1>19, <1>20, <1>21, <1>22, <1>23, <1>24, <1>25
           DEF DeliveryInv, ReaderInv, OrderInv, EndInv

\* The source has sought, or refused; then the reader has to do with the cache.
LEMMA DeliveryPBSought ==
    ASSUME stream \in Streams, ~stream.hls, DownloadInv, DownloadInv', DeliveryInv,
           PBSought
    PROVE  DeliveryInv'
<1> USE DEF connVars, loopVars, appVars, bufferVars, readerVars, downVars, hlsVars, ringVars, sourceVars, pbVars, fillVars, flagVars
<1>1. /\ Size \in Nat \ {0} /\ stream.sizes[1] = Size /\ stream' = stream /\ Size' = Size
      /\ conn.read \in Nat /\ conn.read <= Size /\ conn.file = 1
      /\ readOffset \in Nat /\ cache.read \in Nat /\ Len(cache.data) \in Nat
      /\ Len(out) \in Nat /\ (out = <<>> <=> Len(out) = 0)
      /\ segment.start \in Nat /\ segment.position \in Nat /\ segment.stop \in Nat /\ failures \in Nat
      /\ sAt \in DownloadSourcePlaces /\ app \in DownloadAppPlaces /\ pending \in Events
    BY DeliveryFacts DEF PBSought, Size
<1>2. (NothingHappened' => NothingHappened) /\ (Good' => Good)
    BY GoodSame DEF PBSought
<1>3. app \in {"sought", "refused"} /\ app' = "pb stop" /\ app \in LockedPlaces
    BY DEF PBSought, LockedPlaces
<1>4. target \in 0..(Size - 1) /\ target \in Int /\ target < Size
    BY DeliveryFacts
<1>5. hasSrcpad /\ dFlushing /\ ~skip /\ bAt = "idle" /\ bTask # "started" /\ bSrcresult = "OK"
    BY <1>3 DEF DeliveryInv, ReaderInv, NoReaderYet, FlushKnown, ResultKnown, ReaderRests, Seeking
<1>6. cache'.data = cache.data /\ cache' \in [data : Seq(Nat \X Nat), read : Nat]
  <2>1. cache \in [data : Seq(Nat \X Nat), read : Nat] /\ cache' \in [data : Seq(Nat \X Nat), read : Nat]
    BY DEF DownloadInv, DownloadTypes
  <2> QED
    BY <2>1 DEF PBSought, SeekCache
<1>7. app = "refused" =>
         /\ SegmentWaits' /\ ~EosWaits' /\ pendingSrc'.at = target /\ pendingSrc' \in EventTypes
         /\ instantSeek' /\ ~NothingHappened'
         /\ Good' => pendingSrc'.at = readOffset + cache'.read
  <2> SUFFICES ASSUME app = "refused"
               PROVE  /\ SegmentWaits' /\ ~EosWaits' /\ pendingSrc'.at = target /\ pendingSrc' \in EventTypes
                      /\ instantSeek' /\ ~NothingHappened'
                      /\ Good' => pendingSrc'.at = readOffset + cache'.read
    OBVIOUS
  <2>1. cache \in [data : Seq(Nat \X Nat), read : Nat]
    BY DEF DownloadInv, DownloadTypes
  <2>2. instantSeek' /\ cache' = SeekCache /\ pendingSrc' = SegmentEvent(target) /\ failures' = failures
    BY DEF PBSought
  <2>3. SegmentWaits' /\ ~EosWaits' /\ pendingSrc'.at = target /\ pendingSrc' \in EventTypes
    BY <1>4, <2>2, EventFacts DEF SegmentWaits, EosWaits
  <2>4. failures > 0
    BY DEF DeliveryInv, ReaderInv, SourceKnown
  <2>5. ~NothingHappened'
    BY <2>2, <2>4, DeliveryFacts DEF NothingHappened
  <2>6. ASSUME Good' PROVE pendingSrc'.at = readOffset + cache'.read
    <3>1. "cannot go back" \notin mishaps'
      BY <2>5, <2>6 DEF Good, NothingMisplaced
    <3>2. ~(target < readOffset)
      BY <3>1 DEF PBSought
    <3>3. cache'.read = target - readOffset
      BY <1>1, <1>4, <2>1, <2>2, <3>2 DEF SeekCache
    <3> QED
      BY <1>1, <1>4, <2>3, <3>3
  <2> QED
    BY <2>2, <2>3, <2>5, <2>6
<1>8. app = "sought" => pendingSrc' = pendingSrc /\ cache' = cache /\ (instantSeek' <=> instantSeek)
    BY DEF PBSought
<1>9. /\ UNCHANGED <<position, target, sAt, sTask, sResult, flushing, pending, conn, failures, dSegment, out, dEos>>
      /\ UNCHANGED <<bResult, bBuffer, readOffset, segment, eosStatus>>
      /\ bAt' = "idle" /\ bTask' = bTask /\ bSrcresult' = "OK" /\ dFlushing' /\ hasSrcpad' /\ ~skip'
    BY <1>5 DEF PBSought
<1>10. mishaps' = {} => mishaps = {}
    BY DEF PBSought
<1>11. UNCHANGED <<Full, Come, CacheToEnd>>
    BY <1>1, <1>6, <1>9 DEF Full, CacheToEnd, Come
<1>12. ReaderTypes'
    BY <1>1, <1>3, <1>4, <1>5, <1>6, <1>7, <1>8, <1>9, <1>10, <1>11 DEF DeliveryInv, ReaderInv, ReaderTypes,
           ReaderPlaces, EventTypes
<1>13. HandTypes'
    BY <1>1, <1>3, <1>4, <1>5, <1>6, <1>7, <1>8, <1>9, <1>10, <1>11 DEF DeliveryInv, ReaderInv, HandTypes,
           SegmentInHand, SegmentWaits, EventTypes
<1>14. FlushKnown'
    BY <1>1, <1>3, <1>4, <1>5, <1>6, <1>7, <1>8, <1>9, <1>10, <1>11 DEF DeliveryInv, ReaderInv, FlushKnown,
           Seeking, Closed, Closing, LockedPlaces
<1>15. ReaderRests'
    BY <1>1, <1>3, <1>4, <1>5, <1>6, <1>7, <1>8, <1>9, <1>10, <1>11 DEF DeliveryInv, ReaderInv, ReaderRests,
           LockedPlaces
<1>16. ResultKnown'
    BY <1>1, <1>3, <1>4, <1>5, <1>6, <1>7, <1>8, <1>9, <1>10, <1>11 DEF DeliveryInv, ReaderInv, ResultKnown,
           EosInHand
<1>17. NoReaderYet'
    BY <1>1, <1>3, <1>4, <1>5, <1>6, <1>7, <1>8, <1>9, <1>10, <1>11 DEF DeliveryInv, ReaderInv, NoReaderYet,
           Seeking, LockedPlaces
<1>18. SourceKnown'
    BY <1>1, <1>3, <1>4, <1>5, <1>6, <1>7, <1>8, <1>9, <1>10, <1>11 DEF DeliveryInv, ReaderInv, SourceKnown,
           Closing
<1>19. GivenPlaced'
    BY <1>1, <1>2, <1>3, <1>4, <1>5, <1>6, <1>7, <1>8, <1>9, <1>10, <1>11 DEF DeliveryInv, OrderInv,
           GivenPlaced
<1>20. InHandIsNext'
    BY <1>1, <1>2, <1>3, <1>4, <1>5, <1>6, <1>7, <1>8, <1>9, <1>10, <1>11 DEF DeliveryInv, OrderInv,
           InHandIsNext
<1>21. SegmentIsNext'
    BY <1>1, <1>2, <1>3, <1>4, <1>5, <1>6, <1>7, <1>8, <1>9, <1>10, <1>11 DEF DeliveryInv, OrderInv,
           SegmentIsNext, SegmentWaits, SegmentInHand, LockedPlaces, Closing
<1>22. CacheIsNext'
    BY <1>1, <1>2, <1>3, <1>4, <1>5, <1>6, <1>7, <1>8, <1>9, <1>10, <1>11 DEF DeliveryInv, OrderInv,
           CacheIsNext, SegmentWaits
<1>23. SoughtIsTarget'
    BY <1>1, <1>2, <1>3, <1>4, <1>5, <1>6, <1>7, <1>8, <1>9, <1>10, <1>11 DEF DeliveryInv, SoughtIsTarget,
           SegmentWaits, SegmentInHand, ReaderInv, SourceKnown, NothingHappened
<1>24. CacheGrows'
    BY <1>1, <1>2, <1>3, <1>4, <1>5, <1>6, <1>7, <1>8, <1>9, <1>10, <1>11 DEF DeliveryInv, EndInv, CacheGrows
<1>25. StopsAtEnd'
    BY <1>1, <1>2, <1>3, <1>4, <1>5, <1>6, <1>7, <1>8, <1>9, <1>10, <1>11 DEF DeliveryInv, EndInv, StopsAtEnd,
           Closing
<1>26. EosIsLast'
    BY <1>1, <1>2, <1>3, <1>4, <1>5, <1>6, <1>7, <1>8, <1>9, <1>10, <1>11 DEF DeliveryInv, EndInv, EosIsLast,
           EosWaits, EosInHand, Closing
<1> QED
    BY <1>12, <1>13, <1>14, <1>15, <1>16, <1>17, <1>18, <1>19, <1>20, <1>21, <1>22, <1>23, <1>24, <1>25, <1>26
           DEF DeliveryInv, ReaderInv, OrderInv, EndInv

\* FLUSH_STOP goes downstream; the reader is still at rest.
LEMMA DeliveryPBFlushStop ==
    ASSUME stream \in Streams, ~stream.hls, DownloadInv, DownloadInv', DeliveryInv,
           PBFlushStop
    PROVE  DeliveryInv'
<1> USE DEF connVars, loopVars, appVars, bufferVars, readerVars, downVars, hlsVars, ringVars, sourceVars, pbVars, fillVars, flagVars
<1>1. /\ Size \in Nat \ {0} /\ stream.sizes[1] = Size /\ stream' = stream /\ Size' = Size
      /\ conn.read \in Nat /\ conn.read <= Size /\ conn.file = 1
      /\ readOffset \in Nat /\ cache.read \in Nat /\ Len(cache.data) \in Nat
      /\ Len(out) \in Nat /\ (out = <<>> <=> Len(out) = 0)
      /\ segment.start \in Nat /\ segment.position \in Nat /\ segment.stop \in Nat /\ failures \in Nat
      /\ sAt \in DownloadSourcePlaces /\ app \in DownloadAppPlaces /\ pending \in Events
    BY DeliveryFacts DEF PBFlushStop, Size
<1>2. (NothingHappened' => NothingHappened) /\ (Good' => Good)
    BY GoodSame DEF PBFlushStop
<1>3. app = "pb stop" /\ app \in LockedPlaces /\ app' = "pb start"
    BY DEF PBFlushStop, LockedPlaces
<1>4. hasSrcpad /\ ~skip /\ bAt = "idle" /\ bTask # "started" /\ bSrcresult = "OK"
    BY <1>3 DEF DeliveryInv, ReaderInv, NoReaderYet, ResultKnown, ReaderRests, Seeking
<1>5. out' = <<>> /\ out' \in Seq(Nat \X Nat) /\ Len(out') = 0
    BY NothingGiven DEF PBFlushStop, FlushStopDown
<1>6. NoPosition = -1 /\ NoPosition \in Int
    BY DEF NoPosition
<1>7. dSegment' = NoPosition /\ ~dFlushing' /\ ~dEos'
    BY DEF PBFlushStop, FlushStopDown
<1>8. /\ Good' /\ instantSeek => SegmentWaits /\ pendingSrc.at = readOffset + cache.read /\ pendingSrc.at < Size
  <2>1. ASSUME SegmentWaits PROVE pendingSrc.at < Size
    <3>1. pendingSrc.at \in 0..(Size - 1)
      BY <2>1 DEF DeliveryInv, ReaderInv, HandTypes
    <3> QED
      BY <1>1, <3>1
  <2> QED
    BY <1>2, <1>3, <2>1 DEF DeliveryInv, OrderInv, SegmentIsNext
<1>9. /\ UNCHANGED <<position, target, sAt, sTask, sResult, flushing, pending, conn, failures, mishaps>>
      /\ UNCHANGED <<bTask, bAt, bResult, bBuffer, bSrcresult, pendingSrc, cache, readOffset, segment, eosStatus, instantSeek, hasSrcpad, skip>>
    BY DEF PBFlushStop
<1>10. ReaderTypes'
    BY <1>1, <1>3, <1>4, <1>5, <1>6, <1>7, <1>8, <1>9 DEF DeliveryInv, ReaderInv, ReaderTypes, ReaderPlaces,
           EventTypes
<1>11. HandTypes'
    BY <1>1, <1>3, <1>4, <1>5, <1>6, <1>7, <1>8, <1>9 DEF DeliveryInv, ReaderInv, HandTypes, SegmentInHand,
           SegmentWaits, EventTypes
<1>12. FlushKnown'
    BY <1>1, <1>3, <1>4, <1>5, <1>6, <1>7, <1>8, <1>9 DEF DeliveryInv, ReaderInv, FlushKnown, Seeking, Closed,
           Closing, LockedPlaces
<1>13. ReaderRests'
    BY <1>1, <1>3, <1>4, <1>5, <1>6, <1>7, <1>8, <1>9 DEF DeliveryInv, ReaderInv, ReaderRests, LockedPlaces
<1>14. ResultKnown'
    BY <1>1, <1>3, <1>4, <1>5, <1>6, <1>7, <1>8, <1>9 DEF DeliveryInv, ReaderInv, ResultKnown, EosInHand
<1>15. NoReaderYet'
    BY <1>1, <1>3, <1>4, <1>5, <1>6, <1>7, <1>8, <1>9 DEF DeliveryInv, ReaderInv, NoReaderYet, Seeking,
           LockedPlaces
<1>16. SourceKnown'
    BY <1>1, <1>3, <1>4, <1>5, <1>6, <1>7, <1>8, <1>9 DEF DeliveryInv, ReaderInv, SourceKnown, Closing
<1>17. GivenPlaced'
    BY <1>1, <1>2, <1>3, <1>4, <1>5, <1>6, <1>7, <1>8, <1>9 DEF DeliveryInv, OrderInv, GivenPlaced
<1>18. InHandIsNext'
    BY <1>1, <1>2, <1>3, <1>4, <1>5, <1>6, <1>7, <1>8, <1>9 DEF DeliveryInv, OrderInv, InHandIsNext
<1>19. SegmentIsNext'
    BY <1>1, <1>2, <1>3, <1>4, <1>5, <1>6, <1>7, <1>8, <1>9 DEF DeliveryInv, OrderInv, SegmentIsNext,
           SegmentWaits, SegmentInHand, LockedPlaces, Closing
<1>20. CacheIsNext'
    BY <1>1, <1>2, <1>3, <1>4, <1>5, <1>6, <1>7, <1>8, <1>9 DEF DeliveryInv, OrderInv, CacheIsNext,
           SegmentWaits
<1>21. SoughtIsTarget'
    BY <1>1, <1>2, <1>3, <1>4, <1>5, <1>6, <1>7, <1>8, <1>9 DEF DeliveryInv, SoughtIsTarget, SegmentWaits,
           SegmentInHand
<1>22. CacheGrows'
    BY <1>1, <1>2, <1>3, <1>4, <1>5, <1>6, <1>7, <1>8, <1>9 DEF DeliveryInv, EndInv, CacheGrows, Full, Come,
           CacheToEnd
<1>23. StopsAtEnd'
    BY <1>1, <1>2, <1>3, <1>4, <1>5, <1>6, <1>7, <1>8, <1>9 DEF DeliveryInv, EndInv, StopsAtEnd, Closing
<1>24. EosIsLast'
    BY <1>1, <1>2, <1>3, <1>4, <1>5, <1>6, <1>7, <1>8, <1>9 DEF DeliveryInv, EndInv, EosIsLast, EosWaits,
           EosInHand, Closing, Good, SegmentWaits
<1> QED
    BY <1>10, <1>11, <1>12, <1>13, <1>14, <1>15, <1>16, <1>17, <1>18, <1>19, <1>20, <1>21, <1>22, <1>23, <1>24
           DEF DeliveryInv, ReaderInv, OrderInv, EndInv

\* The sink pad is deactivated and the state reset.
LEMMA DeliveryPBSinkJoin ==
    ASSUME stream \in Streams, ~stream.hls, DownloadInv, DownloadInv', DeliveryInv,
           PBSinkJoin
    PROVE  DeliveryInv'
<1> USE DEF connVars, loopVars, appVars, bufferVars, readerVars, downVars, hlsVars, ringVars, sourceVars, pbVars, fillVars, flagVars
<1>1. /\ Size \in Nat \ {0} /\ stream.sizes[1] = Size /\ stream' = stream /\ Size' = Size
      /\ conn.read \in Nat /\ conn.read <= Size /\ conn.file = 1
      /\ readOffset \in Nat /\ cache.read \in Nat /\ Len(cache.data) \in Nat
      /\ Len(out) \in Nat /\ (out = <<>> <=> Len(out) = 0)
      /\ segment.start \in Nat /\ segment.position \in Nat /\ segment.stop \in Nat /\ failures \in Nat
      /\ sAt \in DownloadSourcePlaces /\ app \in DownloadAppPlaces /\ pending \in Events
    BY DeliveryFacts DEF PBSinkJoin, Size
<1>2. (NothingHappened' => NothingHappened) /\ (Good' => Good)
    BY GoodSame DEF PBSinkJoin
<1>3. ReaderTypes'
    BY <1>1 DEF DeliveryInv, ReaderInv, ReaderTypes, ReaderPlaces, EventTypes, PBSinkJoin, SignalAdd
<1>4. HandTypes'
    BY <1>1 DEF DeliveryInv, ReaderInv, HandTypes, SegmentInHand, SegmentWaits, EventTypes, PBSinkJoin,
           SignalAdd
<1>5. FlushKnown'
    BY <1>1 DEF DeliveryInv, ReaderInv, FlushKnown, Seeking, Closed, Closing, LockedPlaces, PBSinkJoin,
           SignalAdd
<1>6. ReaderRests'
    BY <1>1 DEF DeliveryInv, ReaderInv, ReaderRests, LockedPlaces, PBSinkJoin, SignalAdd
<1>7. ResultKnown'
    BY <1>1 DEF DeliveryInv, ReaderInv, ResultKnown, EosInHand, FlushKnown, Seeking, Closed, Closing,
           LockedPlaces, PBSinkJoin, SignalAdd
<1>8. NoReaderYet'
    BY <1>1 DEF DeliveryInv, ReaderInv, NoReaderYet, Seeking, LockedPlaces, PBSinkJoin, SignalAdd
<1>9. SourceKnown'
    BY <1>1 DEF DeliveryInv, ReaderInv, SourceKnown, Closing, PBSinkJoin, SignalAdd
<1>10. GivenPlaced'
    BY <1>1, <1>2 DEF DeliveryInv, OrderInv, GivenPlaced, PBSinkJoin, SignalAdd
<1>11. InHandIsNext'
    BY <1>1, <1>2 DEF DeliveryInv, OrderInv, InHandIsNext, PBSinkJoin, SignalAdd
<1>12. SegmentIsNext'
    BY <1>1, <1>2 DEF DeliveryInv, OrderInv, SegmentIsNext, SegmentWaits, SegmentInHand, LockedPlaces, Closing,
           FlushKnown, Seeking, Closed, ReaderInv, PBSinkJoin, SignalAdd
<1>13. CacheIsNext'
    BY <1>1, <1>2 DEF DeliveryInv, OrderInv, CacheIsNext, SegmentWaits, PBSinkJoin, SignalAdd
<1>14. SoughtIsTarget'
    BY <1>1, <1>2 DEF DeliveryInv, SoughtIsTarget, SegmentWaits, SegmentInHand, PBSinkJoin, SignalAdd
<1>15. CacheGrows'
    BY <1>1, <1>2 DEF DeliveryInv, EndInv, CacheGrows, Full, Come, CacheToEnd, DownloadInv, DownloadPlaces,
           Closing, PBSinkJoin, SignalAdd
<1>16. StopsAtEnd'
    BY <1>1, <1>2 DEF DeliveryInv, EndInv, StopsAtEnd, Closing, PBSinkJoin, SignalAdd
<1>17. EosIsLast'
    BY <1>1, <1>2 DEF DeliveryInv, EndInv, EosIsLast, EosWaits, EosInHand, Closing, FlushKnown, Seeking,
           Closed, LockedPlaces, ReaderInv, PBSinkJoin, SignalAdd
<1> QED
    BY <1>3, <1>4, <1>5, <1>6, <1>7, <1>8, <1>9, <1>10, <1>11, <1>12, <1>13, <1>14, <1>15, <1>16, <1>17 DEF
           DeliveryInv, ReaderInv, OrderInv, EndInv

\* A seek begins: FLUSH_START goes downstream.
LEMMA DeliveryPBSeek ==
    ASSUME stream \in Streams, ~stream.hls, DownloadInv, DownloadInv', DeliveryInv,
           NEW to \in Positions, PBSeek(to)
    PROVE  DeliveryInv'
<1> USE DEF connVars, loopVars, appVars, bufferVars, readerVars, downVars, hlsVars, ringVars, sourceVars, pbVars, fillVars, flagVars
<1>1. /\ Size \in Nat \ {0} /\ stream.sizes[1] = Size /\ stream' = stream /\ Size' = Size
      /\ conn.read \in Nat /\ conn.read <= Size /\ conn.file = 1
      /\ readOffset \in Nat /\ cache.read \in Nat /\ Len(cache.data) \in Nat
      /\ Len(out) \in Nat /\ (out = <<>> <=> Len(out) = 0)
      /\ segment.start \in Nat /\ segment.position \in Nat /\ segment.stop \in Nat /\ failures \in Nat
      /\ sAt \in DownloadSourcePlaces /\ app \in DownloadAppPlaces /\ pending \in Events
    BY DeliveryFacts DEF PBSeek, Size
<1>2. (NothingHappened' => NothingHappened) /\ (Good' => Good)
    BY GoodSame DEF PBSeek
<1>3. target' \in 0..(Size - 1) /\ target' = to /\ hasSrcpad
    BY <1>1 DEF Positions, PBSeek
<1>4. /\ app = "idle" /\ app' = "pb mark" /\ dFlushing'
      /\ UNCHANGED <<stream, conn, failures, sTask, sAt, sResult, pending, position, flushing>>
      /\ UNCHANGED <<bTask, bAt, bResult, bBuffer, bSrcresult, dSegment, out, dEos, mishaps>>
      /\ UNCHANGED <<cache, readOffset, segment, eosStatus, pendingSrc, instantSeek, hasSrcpad, skip>>
    BY DEF PBSeek, FlushStartDown
<1>5. ReaderTypes'
    BY <1>1, <1>3, <1>4 DEF DeliveryInv, ReaderInv, ReaderTypes, ReaderPlaces, EventTypes
<1>6. HandTypes'
    BY <1>1, <1>3, <1>4 DEF DeliveryInv, ReaderInv, HandTypes, SegmentInHand, SegmentWaits, EventTypes
<1>7. FlushKnown'
    BY <1>1, <1>3, <1>4 DEF DeliveryInv, ReaderInv, FlushKnown, Seeking, Closed, Closing, LockedPlaces
<1>8. ReaderRests'
    BY <1>1, <1>3, <1>4 DEF DeliveryInv, ReaderInv, ReaderRests, LockedPlaces
<1>9. ResultKnown'
    BY <1>1, <1>3, <1>4 DEF DeliveryInv, ReaderInv, ResultKnown, EosInHand
<1>10. NoReaderYet'
    BY <1>1, <1>3, <1>4 DEF DeliveryInv, ReaderInv, NoReaderYet, Seeking, LockedPlaces
<1>11. SourceKnown'
    BY <1>1, <1>3, <1>4 DEF DeliveryInv, ReaderInv, SourceKnown, Closing
<1>12. OrderInv'
    BY <1>1, <1>2, OrderFrame, <1>4 DEF DeliveryInv, Closing, LockedPlaces, PBSeek, FlushStartDown
<1>13. SoughtIsTarget'
    BY <1>1, <1>2, <1>3, <1>4 DEF DeliveryInv, SoughtIsTarget, SegmentWaits, SegmentInHand
<1>14. CacheGrows'
    BY <1>1, <1>2, <1>3, <1>4 DEF DeliveryInv, EndInv, CacheGrows, Full, Come, CacheToEnd
<1>15. StopsAtEnd'
    BY <1>1, <1>2, <1>3, <1>4 DEF DeliveryInv, EndInv, StopsAtEnd, Closing
<1>16. EosIsLast'
    BY <1>1, <1>2, <1>3, <1>4 DEF DeliveryInv, EndInv, EosIsLast, EosWaits, EosInHand, Closing
<1> QED
    BY <1>5, <1>6, <1>7, <1>8, <1>9, <1>10, <1>11, <1>12, <1>13, <1>14, <1>15, <1>16 DEF DeliveryInv,
           ReaderInv, EndInv

-----------------------------------------------------------------------------
(* All steps, and what the invariant of the delivery implies. *)

\* Every step of a progressive download keeps what is delivered in order.
LEMMA DeliveryStep ==
    ASSUME stream \in Streams, ~stream.hls, DownloadInv, DownloadInv', DeliveryInv, [Next]_vars
    PROVE  DeliveryInv'
<1>1. DownloadPlaces
    BY DEF DownloadInv
<1>2. CASE SourceThread
  <2>1. CASE SourceSteps /\ UNCHANGED <<bufferVars, hlsVars, pbVars>>
    BY <2>1, DeliverySourceStep
  <2>2. CASE PBSourceSteps
    BY <2>2, DeliverySegmentLost, DeliverySegmentTaken, DeliveryPBChain, DeliveryPBCreateSourcepad, DeliveryPBEos
       DEF PBSourceSteps
  <2> QED
    BY <1>1, <1>2, <2>1, <2>2, NoRing DEF SourceThread
<1>3. CASE ReaderThread
  <2>1. PBReaderSteps
    BY <1>1, <1>3, NoRing DEF ReaderThread
  <2> QED
    BY <2>1, DeliveryReaderStep, DeliveryPBEvent, DeliveryPBPushEvent, DeliveryPBRead, DeliveryPBPush
       DEF PBReaderSteps
<1>4. CASE AppThread
  <2>1. CASE SeekSteps /\ UNCHANGED <<bufferVars, hlsVars, pbVars>>
    BY <2>1, DeliveryAppStep, DeliverySeekData, DeliveryPushFlushStop DEF SeekSteps
  <2>2. CASE PBAppSteps
    BY <2>2, DeliveryAppStep, DeliveryPBLocked, DeliveryPBSought, DeliveryPBFlushStop, DeliveryPBSinkJoin DEF PBAppSteps
  <2> QED
    BY <1>1, <1>4, <2>1, <2>2, NoRing DEF AppThread
<1>5. CASE Requests \/ Spurious
  <2>1. PBClose \/ (\E to \in Positions : PBSeek(to)) \/ (SpuriousWakeUp /\ UNCHANGED pbVars)
    BY <1>1, <1>5, NoRing DEF Requests, Spurious
  <2> QED
    BY <2>1, DeliveryAppStep, DeliveryPBSeek, DeliveryReaderStep
<1>6. CASE UNCHANGED vars
  <2> USE DEF vars, connVars, loopVars, appVars, bufferVars, readerVars, downVars, hlsVars, ringVars, sourceVars, pbVars, fillVars, flagVars
  <2>1. /\ UNCHANGED <<Size, Seeking, Closed, Closing, SegmentWaits, EosWaits, SegmentInHand, EosInHand>>
        /\ UNCHANGED <<Good, NothingHappened, Full, Come, CacheToEnd>>
    BY <1>6 DEF Size, Seeking, Closed, Closing, SegmentWaits, EosWaits, SegmentInHand, EosInHand, Good, NothingMisplaced,
           NothingHappened, Full, Come, CacheToEnd
  <2>2. ReaderTypes' /\ HandTypes'
    BY <1>6, <2>1 DEF DeliveryInv, ReaderInv, ReaderTypes, HandTypes
  <2>3. FlushKnown' /\ ReaderRests'
    BY <1>6, <2>1 DEF DeliveryInv, ReaderInv, FlushKnown, ReaderRests
  <2>4. ResultKnown' /\ NoReaderYet' /\ SourceKnown'
    BY <1>6, <2>1, ZenonT(30) DEF DeliveryInv, ReaderInv, ResultKnown, NoReaderYet, SourceKnown
  <2>5. OrderInv'
    BY <1>6, <2>1 DEF DeliveryInv, OrderInv, GivenPlaced, InHandIsNext, SegmentIsNext, CacheIsNext, Placed
  <2>6. SoughtIsTarget'
    BY <1>6, <2>1 DEF DeliveryInv, SoughtIsTarget
  <2>7. CacheGrows' /\ StopsAtEnd'
    BY <1>6, <2>1 DEF DeliveryInv, EndInv, CacheGrows, StopsAtEnd
  <2>8. EosIsLast'
    BY <1>6, <2>1 DEF DeliveryInv, EndInv, EosIsLast
  <2> QED
    BY <2>2, <2>3, <2>4, <2>5, <2>6, <2>7, <2>8 DEF DeliveryInv, ReaderInv, EndInv
<1> QED
    BY <1>2, <1>3, <1>4, <1>5, <1>6 DEF Next

\* Nothing was delivered at the start.
LEMMA DeliveryInit ==
    ASSUME Init, ~stream.hls
    PROVE  DeliveryInv
<1> USE DEF Init, JavaSourceInit, MediaBufferInit, PBInit
<1>1. Size \in Nat \ {0} /\ 0 \in 0..(Size - 1) /\ 0 < Size /\ 0 + 0 = 0
  <2>1. stream.sizes[1] \in Nat \ {0}
    BY SizesFacts
  <2> QED
    BY ONLY <2>1 DEF Size
<1>2. ~Closing /\ ~Seeking /\ ~Closed /\ ~SegmentWaits /\ ~EosWaits /\ ~SegmentInHand /\ ~EosInHand
    BY DEF Closing, Seeking, LockedPlaces, Closed, SegmentWaits, EosWaits, SegmentInHand, EosInHand
<1>3. EmptyCache.data = <<>> /\ EmptyCache.read = 0
    BY DEF EmptyCache
<1>4. ReaderTypes /\ HandTypes
    BY <1>1, <1>2, <1>3 DEF ReaderTypes, HandTypes, ReaderPlaces, NoPosition
<1>5. FlushKnown /\ ReaderRests /\ ResultKnown /\ NoReaderYet /\ SourceKnown
    BY <1>2 DEF FlushKnown, ReaderRests, ResultKnown, NoReaderYet, SourceKnown, LockedPlaces
<1>6. OrderInv
    BY <1>2 DEF OrderInv, GivenPlaced, InHandIsNext, SegmentIsNext, CacheIsNext
<1>7. SoughtIsTarget
    BY <1>2 DEF SoughtIsTarget
<1>8. EndInv
    BY <1>2, <1>3 DEF EndInv, CacheGrows, CacheToEnd, StopsAtEnd, EosIsLast
<1> QED
    BY <1>4, <1>5, <1>6, <1>7, <1>8 DEF DeliveryInv, ReaderInv

\* A progressive download is one file.
LEMMA OneFile ==
    ASSUME stream \in Streams, ~stream.hls
    PROVE  NumFiles = 1 /\ Size \in Nat \ {0} /\ stream.sizes[1] = Size
    BY StreamsAssumption, SizesFacts DEF NumFiles, Size

\* Chunks that are placed from a position of the medium on are the medium from there on.
LEMMA PlacedIsMedium ==
    ASSUME stream \in Streams, ~stream.hls, NEW at \in Nat, NEW chunks \in Seq(Nat \X Nat),
           at + Len(chunks) <= Size, Placed(at, chunks)
    PROVE  MediumFrom(at, chunks)
<1>1. NumFiles = 1 /\ Size \in Nat \ {0} /\ stream.sizes[1] = Size
    BY OneFile
<1> DEFINE len == Len(chunks)
<1>2. len \in Nat /\ at + len <= Size /\ (chunks # <<>> <=> len # 0)
    BY LenProperties, EmptySeq
<1>3. \A i \in 1..len : chunks[i] = <<1, at + i>> /\ at + i \in 1..Size
  <2>1. \A i \in 1..len : at + i \in 1..Size
    <3> HIDE DEF len
    <3> QED
      BY ONLY <1>1, <1>2, at \in Nat
  <2> QED
    BY <2>1 DEF Placed
<1>4. ASSUME NEW i \in 1..len PROVE InMedium(chunks[i])
    BY <1>1, <1>3 DEF InMedium
<1>5. ASSUME chunks # <<>> PROVE chunks[1] = FirstChunk(at)
  <2>1. 1 \in 1..len
    <3> HIDE DEF len
    <3> QED
      BY <1>2, <1>5
  <2> QED
    BY <2>1, <1>3 DEF FirstChunk
<1>6. ASSUME NEW i \in 1..(len - 1) PROVE chunks[i + 1] = NextChunk(chunks[i])
  <2>1. i \in 1..len /\ i + 1 \in 1..len /\ at + i < Size /\ at + (i + 1) = at + i + 1
    <3> HIDE DEF len
    <3> QED
      BY ONLY <1>1, <1>2, <1>6, at \in Nat
  <2>2. chunks[i] = <<1, at + i>> /\ chunks[i + 1] = <<1, at + i + 1>>
    BY <1>3, <2>1
  <2>3. NextChunk(<<1, at + i>>) = <<1, at + i + 1>>
    BY ONLY <1>1, <2>1 DEF NextChunk
  <2> QED
    BY <2>2, <2>3
<1> QED
    BY <1>4, <1>5, <1>6 DEF MediumFrom

\* What the invariant of the delivery implies.
LEMMA DeliveryImplies ==
    ASSUME stream \in Streams, ~stream.hls, DownloadInv, DeliveryInv
    PROVE  InOrder /\ EosIsEnd
<1>1. NumFiles = 1 /\ Size \in Nat \ {0} /\ stream.sizes[1] = Size
    BY OneFile
<1>2. out \in Seq(Nat \X Nat) /\ Len(out) \in Nat /\ (out = <<>> <=> Len(out) = 0)
    BY DeliveryFacts DEF DeliveryInv, ReaderInv, ReaderTypes
<1>3. ASSUME dSegment # NoPosition PROVE dSegment \in Nat /\ dSegment < Size
    BY <1>1, <1>3 DEF DeliveryInv, ReaderInv, HandTypes
<1>4. ASSUME Good, out # <<>> PROVE dSegment # NoPosition /\ Placed(dSegment, out) /\ MediumFrom(dSegment, out)
  <2>1. dSegment # NoPosition /\ dSegment + Len(out) <= Size /\ Placed(dSegment, out)
    BY <1>4 DEF DeliveryInv, OrderInv, GivenPlaced
  <2> QED
    BY <1>2, <1>3, <2>1, PlacedIsMedium
<1>5. InOrder
  <2> SUFFICES ASSUME out # <<>>, ~conn.lost, mishaps \intersect {"event dropped", "cannot go back"} = {}
               PROVE  dSegment # NoPosition /\ MediumFrom(dSegment, out) /\ (Undisturbed => dSegment = target)
    BY DEF InOrder
  <2>1. Good
    BY DEF Good, NothingMisplaced
  <2>2. Undisturbed => dSegment \in {NoPosition, target}
    BY DEF Undisturbed, DeliveryInv, SoughtIsTarget
  <2> QED
    BY <1>4, <2>1, <2>2
<1>6. EosIsEnd
  <2> SUFFICES ASSUME dEos, mishaps = {}, failures = 0, dSegment # NoPosition
               PROVE  MediumFrom(dSegment, out) /\ out # <<>> /\ out[Len(out)] = LastChunk
    BY DEF EosIsEnd
  <2>1. Good /\ NothingHappened
    BY DEF Good, NothingHappened
  <2>2. dSegment + Len(out) = Size
    BY <2>1 DEF DeliveryInv, EndInv, EosIsLast
  <2>3. Len(out) # 0 /\ Len(out) \in 1..Len(out)
    <3> DEFINE len == Len(out)
    <3>1. len \in Nat /\ dSegment \in Nat /\ dSegment < Size /\ dSegment + len = Size /\ Size \in Nat
      BY <1>1, <1>2, <1>3, <2>2
    <3> HIDE DEF len
    <3>2. len # 0 /\ len \in 1..len
      BY ONLY <3>1
    <3> QED
      BY <3>2 DEF len
  <2>4. Placed(dSegment, out) /\ MediumFrom(dSegment, out)
    BY <1>2, <1>4, <2>1, <2>3
  <2>5. out[Len(out)] = <<1, Size>>
    BY <2>2, <2>3, <2>4 DEF Placed
  <2> QED
    BY <1>1, <1>2, <2>3, <2>4, <2>5 DEF LastChunk
<1> QED
    BY <1>5, <1>6

-----------------------------------------------------------------------------
(* The invariant and what it implies. *)

\* Each kind of stream keeps its own part.
LEMMA InvInductive == Inv /\ [Next]_vars => Inv'
<1> SUFFICES ASSUME Inv, [Next]_vars PROVE Inv'
    OBVIOUS
<1>1. CASE stream.hls
  <2>1. RingInv' /\ stream' = stream
    BY <1>1, HLSStep DEF Inv
  <2> QED
    BY <1>1, <2>1 DEF Inv
<1>2. CASE ~stream.hls
  <2>1. DownloadInv' /\ stream' = stream
    BY <1>2, DownloadStep DEF Inv
  <2> QED
    BY <1>2, <2>1 DEF Inv
<1> QED
    BY <1>1, <1>2

\* What the write slot holds is less than the file at hand, and so less than the slot's size.
LEMMA InvImpliesSlotsValid == Inv => SlotsValid
<1> SUFFICES ASSUME Inv, sAt = "hls write", MayWrite
             PROVE  /\ writeIndex \in Slots
                    /\ ~writeReady[writeIndex]
                    /\ Len(caches[writeIndex].data) < cacheSize[writeIndex]
    BY DEF SlotsValid
<1>1. stream.hls /\ RingInv /\ bSrcresult = "OK" /\ InFile /\ Arrived = conn.read - 1
    BY DEF Inv, RingInv, PlacesOK, MayWrite, InFile, Arrived, DownloadInv, DownloadPlaces, DownloadSourcePlaces
<1>2. /\ writeIndex \in Slots /\ cacheSize[writeIndex] = stream.sizes[conn.file]
      /\ Len(caches[writeIndex].data) <= conn.read - 1
      /\ writeReady[writeIndex] => caches[writeIndex].read = cacheSize[writeIndex]
    BY <1>1 DEF RingInv, SlotHeld
<1>3. /\ caches[writeIndex].read \in Nat /\ Len(caches[writeIndex].data) \in Nat
      /\ caches[writeIndex].read <= Len(caches[writeIndex].data)
    BY <1>1, <1>2, LenProperties DEF RingInv, RingOK, CacheFile
<1>4. conn.read \in Nat /\ conn.read <= stream.sizes[conn.file] /\ stream.sizes[conn.file] \in Nat
    BY <1>1, SizesFacts DEF Inv, RingInv, ConnOK
<1> DEFINE written == Len(caches[writeIndex].data)
<1> DEFINE read == caches[writeIndex].read
<1> DEFINE got == conn.read
<1> DEFINE size == stream.sizes[conn.file]
<1>5. /\ written \in Nat /\ read \in Nat /\ size \in Nat /\ got \in Nat
      /\ read <= written /\ written <= got - 1 /\ got <= size
    BY <1>2, <1>3, <1>4
<1> HIDE DEF written, read, got, size
<1>6. written < size /\ read # size
    BY ONLY <1>5
<1> QED
    BY <1>2, <1>6 DEF written, read, size

-----------------------------------------------------------------------------
(* What an HLS stream gives to the demuxer: facts about the ring. *)

\* A step of an HLS stream, whose other buffer does not move.
RingNext ==
    \/ (SourceSteps \/ SeekSteps) /\ UNCHANGED <<bufferVars, hlsVars>>
    \/ HLSSourceSteps \/ HLSReaderSteps \/ HLSAppSteps
    \/ HLSClose \/ HLSSpurious \/ (\E to \in Positions : HLSSeek(to))
    \/ SpuriousWakeUp /\ UNCHANGED hlsVars
    \/ UNCHANGED <<sourceVars, bufferVars, hlsVars>>

\* Nothing can be read from an empty ring.
LEMMA NothingToRead ==
    ASSUME RingOK, \A i \in Slots : caches[i].data = <<>>
    PROVE  ~cache_has_enough_data(caches[readIndex])
<1>1. caches[readIndex] \in CacheFile /\ caches[readIndex].data = <<>>
    BY DEF RingOK
<1> QED
    BY <1>1 DEF CacheFile, cache_has_enough_data

\* Where the demuxer flushes no more and the ring is empty still, nothing is read.
LEMMA NoReadWhenFlushed ==
    ASSUME RingOK, SegmentSent, RingFlushed, Flushed \/ (Flowing /\ sendNewSegment)
    PROVE  ~HLSRead
    BY NothingToRead DEF SegmentSent, RingFlushed, HLSRead

\* An empty cache file has no data.
LEMMA EmptyFacts == EmptyCache \in CacheFile /\ EmptyCache.data = <<>> /\ EmptyCache.read = 0 /\ Len(EmptyCache.data) = 0
    BY CacheFacts DEF EmptyCache

\* One slot is prepared for the file at hand.
LEMMA PrepareFacts ==
    ASSUME RingOK, NEW k \in Slots, Prepare(k)
    PROVE  /\ caches'[k] = EmptyCache /\ ~writeReady'[k] /\ cacheSize'[k] = stream.sizes[conn.file]
           /\ \A i \in Slots : i # k =>
                 caches'[i] = caches[i] /\ writeReady'[i] = writeReady[i] /\ cacheSize'[i] = cacheSize[i]
    BY DEF RingOK, Prepare

-----------------------------------------------------------------------------
(* The ring as a queue of files. *)

\* The slots follow one another in a circle.
LEMMA AfterFacts ==
    ASSUME NEW i \in Slots
    PROVE  After(i) = IF i + 1 = NumCached THEN 0 ELSE i + 1
<1>1. NumCached \in Nat \ {0} /\ i \in 0..(NumCached - 1)
    BY NumCachedAssumption DEF Slots
<1>2. CASE i + 1 = NumCached
  <2>1. NumCached % NumCached = 0
    BY <1>1
  <2> QED
    BY <1>2, <2>1 DEF After
<1>3. CASE i + 1 # NumCached
  <2>1. i + 1 \in 0..(NumCached - 1)
    BY <1>1, <1>3
  <2>2. (i + 1) % NumCached = i + 1
    BY <1>1, <2>1
  <2> QED
    BY <1>3, <2>2 DEF After
<1> QED
    BY <1>2, <1>3

\* How far slots are from one of them, and from the next one.
LEMMA GapFacts ==
    ASSUME NEW r \in Slots
    PROVE  /\ \A i \in Slots : Gap(r, i) \in 0..(NumCached - 1) /\ (Gap(r, i) = 0 <=> i = r)
           /\ \A i, j \in Slots : Gap(r, i) = Gap(r, j) => i = j
           /\ \A i \in Slots : (Gap(r, i) + 1 < NumCached => Gap(r, After(i)) = Gap(r, i) + 1)
                               /\ (Gap(r, i) + 1 >= NumCached => After(i) = r)
           /\ \A i \in Slots : i # r => Gap(After(r), i) = Gap(r, i) - 1
           /\ Gap(After(r), r) = NumCached - 1
<1>1. NumCached \in Nat \ {0} /\ Slots = 0..(NumCached - 1) /\ r \in 0..(NumCached - 1)
    BY NumCachedAssumption DEF Slots
<1>2. \A i \in Slots : Gap(r, i) \in 0..(NumCached - 1) /\ (Gap(r, i) = 0 <=> i = r)
    BY <1>1 DEF Gap
<1>3. \A i, j \in Slots : Gap(r, i) = Gap(r, j) => i = j
    BY <1>1 DEF Gap
<1>4. ASSUME NEW i \in Slots
      PROVE  /\ Gap(r, i) + 1 < NumCached => Gap(r, After(i)) = Gap(r, i) + 1
             /\ Gap(r, i) + 1 >= NumCached => After(i) = r
  <2>1. After(i) = IF i + 1 = NumCached THEN 0 ELSE i + 1
    BY AfterFacts
  <2> QED
    BY <1>1, <2>1 DEF Gap
<1>5. After(r) = IF r + 1 = NumCached THEN 0 ELSE r + 1
    BY AfterFacts
<1>6. ASSUME NEW i \in Slots, i # r PROVE Gap(After(r), i) = Gap(r, i) - 1
    BY <1>1, <1>5, <1>6 DEF Gap
<1>7. Gap(After(r), r) = NumCached - 1
    BY <1>1, <1>5 DEF Gap
<1> QED
    BY <1>2, <1>3, <1>4, <1>6, <1>7

\* The same for the slot that is read.
LEMMA DistFacts ==
    ASSUME readIndex \in Slots
    PROVE  /\ \A i \in Slots : Dist(i) \in 0..(NumCached - 1) /\ (Dist(i) = 0 <=> i = readIndex)
           /\ \A i, j \in Slots : Dist(i) = Dist(j) => i = j
           /\ \A i \in Slots : (Dist(i) + 1 < NumCached => Dist(After(i)) = Dist(i) + 1)
                               /\ (Dist(i) + 1 >= NumCached => After(i) = readIndex)
    BY GapFacts DEF Dist

\* The reader goes on to the next slot.
LEMMA DistMoves ==
    ASSUME readIndex \in Slots, readIndex' = After(readIndex)
    PROVE  \A i \in Slots : Dist(i)' = IF i = readIndex THEN NumCached - 1 ELSE Dist(i) - 1
    BY GapFacts DEF Dist

\* Files in a ring that nobody touches stay there.
LEMMA RingSame ==
    ASSUME UNCHANGED <<stream, ringVars>>, sAt' \in WaitPlaces <=> sAt \in WaitPlaces,
           NEW first, NEW n, RingHolds(first, n)
    PROVE  RingHolds(first, n)'
    BY DEF RingHolds, Holds, Dist, NextSlot, WaitPlaces, NumFiles, ringVars

\* So does the place of the reader in the medium.
LEMMA ReaderSame ==
    ASSUME UNCHANGED <<stream, caches, readIndex, position, out, bBuffer>>, sendNewSegment' <=> sendNewSegment,
           bAt' = "push" <=> bAt = "push",
           NEW first, NEW n, ReaderGoesOn(first, n)
    PROVE  ReaderGoesOn(first, n)'
<1>1. UNCHANGED <<NumFiles, ReadNext(first, n), GiveNext(first, n), InMedium(bBuffer), NextChunk(bBuffer)>>
    BY DEF InMedium, NextChunk, ReadNext, GiveNext, NumFiles
<1>2. UNCHANGED NextChunk(out[Len(out)])
    BY DEF NextChunk
<1> QED
    BY <1>1, <1>2, ZenonT(30) DEF ReaderGoesOn

\* And that of the source.
LEMMA SourceSame ==
    ASSUME UNCHANGED <<stream, caches, cacheSize, readIndex, conn, failures>>, sendNewSegment' <=> sendNewSegment,
           UNCHANGED <<pending, sAt, sSrcresult, sResult>>, flushing # {} => flushing' # {},
           NEW next, NEW n, SourceGoesOn(next, n)
    PROVE  SourceGoesOn(next, n)'
    BY DEF SourceGoesOn, Dist, Halted, Arrived, EndPosition, NumFiles

\* A reader that waits for ever still does.
LEMMA StuckSame ==
    ASSUME Stuck, UNCHANGED <<ringVars, out>>, mishaps \subseteq mishaps', bAt' = "push" => bAt = "push",
           pending' = "UNKNOWN" /\ (flushing' = {} \/ sAt' = "hls write") =>
               pending = "UNKNOWN" /\ (flushing = {} \/ sAt = "hls write")
    PROVE  Stuck'
    BY DEF Stuck, ringVars

\* A step that leaves the ring and the reader alone leaves it to the source where it goes on.
LEMMA SourceMoves ==
    ASSUME stream \in Streams, RingGoes, Flowing' => Flowing,
           UNCHANGED <<stream, position, ringVars, out, bBuffer>>, sendNewSegment' <=> sendNewSegment,
           mishaps \subseteq mishaps',
           bAt' = "push" <=> bAt = "push", sAt' \in WaitPlaces <=> sAt \in WaitPlaces,
           Flowing /\ position <= NumFiles /\ pending' = "UNKNOWN" /\ (flushing' = {} \/ sAt' = "hls write") =>
               pending = "UNKNOWN" /\ (flushing = {} \/ sAt = "hls write"),
           \A first \in 1..EndPosition, n \in 0..NumCached :
               Flowing /\ position <= NumFiles /\ first + n <= EndPosition /\ Goes(first, n) =>
                   SourceGoesOn(first + n, n)'
    PROVE  RingGoes'
<1> SUFFICES ASSUME Flowing', position' <= NumFiles'
             PROVE  (Stuck \/ \E first \in 1..EndPosition, n \in 0..NumCached :
                        first + n <= EndPosition /\ Goes(first, n))'
    BY DEF RingGoes
<1>1. Flowing /\ position <= NumFiles /\ EndPosition' = EndPosition
    BY DEF NumFiles, EndPosition
<1>2. CASE Stuck
    BY <1>1, <1>2, StuckSame
<1>3. CASE \E first \in 1..EndPosition, n \in 0..NumCached : first + n <= EndPosition /\ Goes(first, n)
  <2>1. PICK first \in 1..EndPosition, n \in 0..NumCached : first + n <= EndPosition /\ Goes(first, n)
    BY <1>3
  <2>2. RingHolds(first, n)'
    BY <2>1, RingSame DEF Goes
  <2>3. SourceGoesOn(first + n, n)'
    BY <1>1, <2>1
  <2>4. ReaderGoesOn(first, n)'
    BY <2>1, ReaderSame DEF Goes, ringVars
  <2> QED
    BY <1>1, <2>1, <2>2, <2>3, <2>4 DEF Goes
<1> QED
    BY <1>1, <1>2, <1>3 DEF RingGoes

\* Steps that leave the source alone as well.
LEMMA RestMoves ==
    ASSUME stream \in Streams, RingGoes, Flowing' => Flowing,
           UNCHANGED <<stream, position, ringVars, out, bBuffer>>, sendNewSegment' <=> sendNewSegment,
           mishaps \subseteq mishaps',
           bAt' = "push" <=> bAt = "push",
           UNCHANGED <<conn, failures, pending, sAt, sSrcresult, sResult>>, flushing # {} => flushing' # {}
    PROVE  RingGoes'
<1>1. ASSUME NEW first \in 1..EndPosition, NEW n \in 0..NumCached, Goes(first, n)
      PROVE  SourceGoesOn(first + n, n)'
    BY <1>1, SourceSame DEF Goes, ringVars
<1>2. UNCHANGED <<WaitPlaces>> /\ (sAt' \in WaitPlaces <=> sAt \in WaitPlaces)
    BY DEF WaitPlaces
<1> QED
    BY <1>1, <1>2, SourceMoves

\* What is known while files are in the ring.
LEMMA GoesFacts ==
    ASSUME stream \in Streams, RingOK, NEW first \in 1..EndPosition, NEW n \in 0..NumCached, first + n <= EndPosition
    PROVE  /\ NumFiles \in Nat /\ EndPosition = NumFiles + 1 /\ EndPosition \in Nat
           /\ NumCached \in Nat \ {0} /\ first \in Nat \ {0} /\ n \in Nat /\ n <= NumCached
           /\ \A i \in Slots : /\ caches[i] \in CacheFile /\ caches[i].data \in Seq(Nat \X Nat)
                               /\ Len(caches[i].data) \in Nat /\ caches[i].read \in Nat
                               /\ caches[i].read <= Len(caches[i].data)
                               /\ Dist(i) \in Nat /\ Dist(i) < NumCached /\ (Dist(i) = 0 <=> i = readIndex)
<1>1. NumFiles \in Nat /\ EndPosition = NumFiles + 1 /\ EndPosition \in Nat
    BY SizesFacts
<1>2. NumCached \in Nat \ {0} /\ first \in Nat \ {0} /\ n \in Nat /\ n <= NumCached
    BY <1>1, NumCachedAssumption
<1>3. ASSUME NEW i \in Slots
      PROVE  /\ caches[i] \in CacheFile /\ caches[i].data \in Seq(Nat \X Nat)
             /\ Len(caches[i].data) \in Nat /\ caches[i].read \in Nat /\ caches[i].read <= Len(caches[i].data)
  <2>1. caches[i] \in CacheFile /\ caches[i].data \in Seq(Nat \X Nat)
    BY DEF RingOK, CacheFile
  <2> QED
    BY <2>1, LenProperties DEF CacheFile
<1>4. ASSUME NEW i \in Slots PROVE Dist(i) \in Nat /\ Dist(i) < NumCached /\ (Dist(i) = 0 <=> i = readIndex)
  <2>1. Dist(i) \in 0..(NumCached - 1) /\ (Dist(i) = 0 <=> i = readIndex)
    BY DistFacts DEF RingOK
  <2> QED
    BY <1>2, <2>1
<1> QED
    BY <1>1, <1>2, <1>3, <1>4

\* A slot of the ring that has a file is not free; the next slot is free only if the ring has
\* room for another file.
LEMMA NextSlotFree ==
    ASSUME stream \in Streams, RingOK, NEW first \in 1..EndPosition, NEW n \in 0..NumCached, first + n <= EndPosition,
           RingHolds(first, n), writeReady[NextSlot]
    PROVE  n < NumCached /\ NextSlot \in Slots /\ Dist(NextSlot) = n
<1>1. NextSlot \in Slots /\ (IF n < NumCached THEN Dist(NextSlot) = n ELSE NextSlot = readIndex)
    BY DEF RingHolds
<1>2. CASE n < NumCached
    BY <1>1, <1>2
<1>3. CASE n >= NumCached
  <2>1. readIndex \in Slots /\ Dist(readIndex) = 0 /\ 0 < n /\ ~(n < NumCached)
    BY <1>3, GoesFacts DEF RingOK
  <2>2. ~writeReady[readIndex]
    BY <2>1 DEF RingHolds, Holds
  <2> QED
    BY <1>1, <2>1, <2>2
<1> QED
    BY <1>2, <1>3, GoesFacts

\* The next slot is claimed and prepared for the next file.
LEMMA SlotClaimed ==
    ASSUME stream \in Streams, RingOK, ConnOK, SendsPending, NEW first \in 1..EndPosition, NEW n \in 0..NumCached,
           first + n <= EndPosition, Goes(first, n),
           sAt \in {"hls claim", "hls woken"}, ~sendNewSegment, writeReady[NextSlot], Prepare(NextSlot),
           writeIndex' = NextSlot, sAt' = "merge", sResult' = "OK", pending' = "UNKNOWN",
           UNCHANGED <<stream, conn, failures, position, readIndex, out, bBuffer>>, sendNewSegment' <=> sendNewSegment,
           bAt' = "push" <=> bAt = "push"
    PROVE  n + 1 \in 0..NumCached /\ first + (n + 1) <= EndPosition /\ Goes(first, n + 1)'
<1> DEFINE k == NextSlot
<1>1. k \in Slots /\ n < NumCached /\ Dist(k) = n
    BY NextSlotFree DEF Goes
<1>2. /\ pending = "SEGMENT" /\ conn.file = first + n /\ conn.read = 0 /\ conn.next = first + n + 1
      /\ \A i \in Slots : Dist(i) = n - 1 => Len(caches[i].data) = cacheSize[i]
    BY DEF SendsPending, Goes, SourceGoesOn, OpenPlaces, WaitPlaces
<1>3. /\ caches'[k] = EmptyCache /\ ~writeReady'[k] /\ cacheSize'[k] = stream.sizes[conn.file]
      /\ \A i \in Slots : i # k =>
            caches'[i] = caches[i] /\ writeReady'[i] = writeReady[i] /\ cacheSize'[i] = cacheSize[i]
    BY <1>1, PrepareFacts
<1>4. /\ NumFiles \in Nat /\ EndPosition = NumFiles + 1 /\ EndPosition \in Nat
      /\ NumCached \in Nat \ {0} /\ first \in Nat \ {0} /\ n \in Nat /\ n <= NumCached
      /\ \A i \in Slots : Dist(i) \in Nat /\ Dist(i) < NumCached /\ (Dist(i) = 0 <=> i = readIndex)
      /\ conn.file \in 1..NumFiles /\ stream.sizes[conn.file] \in Nat \ {0}
    BY GoesFacts, SizesFacts DEF ConnOK
<1> HIDE DEF k
<1>5. /\ n + 1 \in 0..NumCached /\ first + (n + 1) <= EndPosition
      /\ first + n <= NumFiles /\ first + (n + 1) - 1 = first + n /\ first + (n + 1) = first + n + 1
    BY ONLY <1>1, <1>2, <1>4
<1>6. /\ NumFiles' = NumFiles /\ EndPosition' = EndPosition /\ stream' = stream
      /\ \A i \in Slots : Dist(i)' = Dist(i) /\ (Dist(i) = n <=> i = k)
  <2>1. readIndex \in Slots
    BY DEF RingOK
  <2>2. \A i, j \in Slots : Dist(i) = Dist(j) => i = j
    BY <2>1, DistFacts
  <2> QED
    BY <1>1, <2>2 DEF Dist, NumFiles, EndPosition
<1>7. RingHolds(first, n + 1)'
  <2>1. ASSUME NEW i \in Slots, Dist(i) < n + 1
        PROVE  Holds(i, first + Dist(i))' /\ (Dist(i) > 0 => caches'[i].read = 0)
    <3>1. CASE i = k
      <4>1. ~writeReady'[i] /\ first + Dist(i) <= NumFiles /\ cacheSize'[i] = stream.sizes[first + Dist(i)]
        BY <1>1, <1>2, <1>3, <1>5, <3>1
      <4>2. caches'[i].data = <<>> /\ caches'[i].read = 0 /\ Len(caches'[i].data) = 0
        BY <1>3, <3>1, EmptyFacts
      <4>3. cacheSize'[i] \in Nat \ {0}
        BY <1>3, <1>4, <3>1
      <4>4. caches'[i].read < cacheSize'[i] /\ Len(caches'[i].data) <= cacheSize'[i]
        BY ONLY <4>2, <4>3
      <4>5. \A b \in 1..Len(caches'[i].data) : FALSE
        BY ONLY <4>2
      <4>6. Dist(i)' = Dist(i) /\ stream' = stream /\ NumFiles' = NumFiles
        BY <1>6
      <4> QED
        BY ONLY <4>1, <4>2, <4>4, <4>5, <4>6 DEF Holds
    <3>2. CASE i # k
      <4>1. Dist(i) < n
        <5>1. Dist(i) \in Nat /\ n \in Nat /\ Dist(i) < n + 1 /\ Dist(i) # n
          BY <1>4, <1>6, <2>1, <3>2
        <5> QED
          BY ONLY <5>1
      <4>2. Holds(i, first + Dist(i)) /\ (Dist(i) > 0 => caches[i].read = 0)
        BY <4>1 DEF Goes, RingHolds
      <4> QED
        BY <1>3, <1>6, <3>2, <4>2 DEF Holds
    <3> QED
      BY <3>1, <3>2
  <2>2. ASSUME NEW i \in Slots, Dist(i) < (n + 1) - 1 PROVE Len(caches'[i].data) = cacheSize'[i]
    <3>1. i # k /\ (Dist(i) < n - 1 \/ Dist(i) = n - 1)
      <4>1. Dist(i) \in Nat /\ n \in Nat /\ Dist(i) < (n + 1) - 1
        BY <1>4, <2>2
      <4>2. Dist(i) # n /\ (Dist(i) < n - 1 \/ Dist(i) = n - 1)
        BY ONLY <4>1
      <4> QED
        BY <1>6, <4>2
    <3> QED
      BY <1>2, <1>3, <3>1 DEF Goes, RingHolds
  <2>3. ASSUME NEW i \in Slots, Dist(i) >= n + 1
        PROVE  writeReady'[i] /\ caches'[i].read = Len(caches'[i].data)
    <3>1. i # k /\ Dist(i) >= n
      <4>1. Dist(i) \in Nat /\ n \in Nat /\ Dist(i) >= n + 1
        BY <1>4, <2>3
      <4>2. Dist(i) # n /\ Dist(i) >= n
        BY ONLY <4>1
      <4> QED
        BY <1>6, <4>2
    <3> QED
      BY <1>3, <3>1 DEF Goes, RingHolds
  <2>4. NextSlot' = After(k)
    BY DEF NextSlot, WaitPlaces, k
  <2>5. /\ After(k) \in Slots
        /\ IF n + 1 < NumCached THEN Dist(After(k)) = n + 1 ELSE After(k) = readIndex
    <3>1. After(k) \in Slots
      BY <1>1, AfterIsSlot
    <3>2. /\ Dist(k) + 1 < NumCached => Dist(After(k)) = Dist(k) + 1
          /\ Dist(k) + 1 >= NumCached => After(k) = readIndex
      BY <1>1, DistFacts DEF RingOK
    <3>3. Dist(k) = n /\ n \in Nat /\ NumCached \in Nat
      BY <1>1, <1>4
    <3> QED
      BY ONLY <3>1, <3>2, <3>3
  <2>6. /\ NextSlot' \in Slots
        /\ IF n + 1 < NumCached THEN Gap(readIndex', NextSlot') = n + 1 ELSE NextSlot' = readIndex'
    BY <2>4, <2>5 DEF Dist
  <2> QED
    BY <1>6, <2>1, <2>2, <2>3, <2>6 DEF RingHolds, Dist
<1>8. SourceGoesOn(first + (n + 1), n + 1)'
  <2>1. /\ Arrived' = 0 /\ pending' = "UNKNOWN" /\ sAt' = "merge" /\ UNCHANGED <<conn, failures>>
    BY <1>2 DEF Arrived
  <2>3. n + 1 # 0 /\ n + 1 - 1 = n
    BY ONLY n \in 0..NumCached
  <2>2. \A i \in Slots : Dist(i)' = n => Len(caches'[i].data) = 0
    BY <1>3, <1>6, EmptyFacts
  <2> QED
    <3>1. conn'.file = first + (n + 1) - 1 /\ conn'.next = first + (n + 1)
      BY <1>2, <1>5, <2>1
    <3>2. \A i \in Slots : Dist(i)' = n + 1 - 1 => Len(caches'[i].data) = Arrived'
      BY <2>1, <2>2, <2>3
    <3> QED
      BY ONLY <2>1, <2>3, <3>1, <3>2 DEF SourceGoesOn, OpenPlaces, WaitPlaces
<1>9. ReaderGoesOn(first, n + 1)'
  <2>1. ReadNext(first, n + 1)' = ReadNext(first, n)
    <3>1. CASE n = 0
      <4>1. readIndex = k /\ caches'[readIndex].read = 0
        BY <1>1, <1>3, <1>4, <3>1, EmptyFacts
      <4>2. readIndex' = readIndex
        OBVIOUS
      <4> QED
        BY ONLY <3>1, <4>1, <4>2 DEF ReadNext
    <3>2. CASE n # 0
      <4>1. readIndex \in Slots /\ readIndex # k /\ n + 1 # 0
        <5>1. readIndex \in Slots /\ n \in Nat
          BY <1>4 DEF RingOK
        <5>2. Dist(readIndex) = 0 /\ Dist(k) # 0
          BY <1>1, <1>4, <3>2, <5>1
        <5>3. n + 1 # 0
          BY ONLY <5>1
        <5> QED
          BY <5>1, <5>2, <5>3
      <4>2. caches'[readIndex] = caches[readIndex]
        BY <1>3, <4>1
      <4> QED
        BY <3>2, <4>1, <4>2 DEF ReadNext
    <3> QED
      BY <3>1, <3>2
  <2>2. /\ GiveNext(first, n + 1)' = GiveNext(first, n)
        /\ UNCHANGED <<NumFiles, InMedium(bBuffer), NextChunk(bBuffer), NextChunk(out[Len(out)])>>
    BY <2>1 DEF GiveNext, InMedium, NextChunk, NumFiles
  <2>3. ReaderGoesOn(first, n)
    BY DEF Goes
  <2>4. ~sendNewSegment /\ ~sendNewSegment' /\ (bAt' = "push" <=> bAt = "push") /\ UNCHANGED <<stream, position, out, bBuffer>>
    OBVIOUS
  <2> QED
    BY ONLY <2>1, <2>2, <2>3, <2>4, ZenonT(30) DEF ReaderGoesOn
<1> QED
    BY <1>5, <1>7, <1>8, <1>9 DEF Goes

\* A chunk is written into the slot that was claimed last.
LEMMA ChunkWritten ==
    ASSUME stream \in Streams, RingInv, NEW first \in 1..EndPosition, NEW n \in 0..NumCached,
           first + n <= EndPosition, Goes(first, n),
           sAt = "hls write", bSrcresult = "OK",
           caches' = [caches EXCEPT ![writeIndex] = cache_write_buffer(@, Chunk)],
           sAt' = "merge", sResult' = "OK",
           UNCHANGED <<stream, conn, failures, pending, position, out, bBuffer>>,
           UNCHANGED <<cacheSize, writeReady, writeIndex, readIndex>>, sendNewSegment' <=> sendNewSegment,
           bAt' = "push" <=> bAt = "push"
    PROVE  Goes(first, n)'
<1> DEFINE w == writeIndex
<1> DEFINE len == Len(caches[w].data)
<1> DEFINE size == stream.sizes[conn.file]
<1> DEFINE got == conn.read
<1>1. /\ pending = "UNKNOWN" /\ ~Halted /\ Arrived = got - 1
      /\ conn.file = first + n - 1 /\ conn.next = first + n
      /\ \A i \in Slots : Dist(i) = n - 1 => Len(caches[i].data) = Arrived
      /\ n = 0 => Arrived = size
  <2>1. pending = "UNKNOWN" /\ ~Halted /\ Arrived = got - 1
    BY DEF RingInv, SendsPending, Halted, Arrived
  <2>2. SourceGoesOn(first + n, n)
    BY DEF Goes
  <2> QED
    BY ONLY <2>1, <2>2 DEF SourceGoesOn
<1>2. w \in Slots /\ cacheSize[w] = size
  <2>1. InFile
    BY DEF InFile
  <2> QED
    BY <2>1 DEF RingInv, SlotHeld
<1>3. /\ NumFiles \in Nat /\ EndPosition = NumFiles + 1 /\ EndPosition \in Nat
      /\ NumCached \in Nat \ {0} /\ first \in Nat \ {0} /\ n \in Nat /\ n <= NumCached
      /\ conn.file \in 1..NumFiles /\ size \in Nat \ {0} /\ got \in Nat /\ got <= size
      /\ len \in Nat /\ Dist(w) \in Nat /\ Dist(w) < NumCached
  <2>1. conn.file \in 1..NumFiles /\ got \in Nat /\ got <= size
    BY DEF RingInv, ConnOK
  <2> QED
    BY <1>2, <2>1, GoesFacts, SizesFacts DEF RingInv
<1>a. caches[w] \in CacheFile /\ caches[w].data \in Seq(Nat \X Nat)
    BY <1>2, GoesFacts DEF RingInv
<1> HIDE DEF w, len, size, got
<1>4. n # 0
  <2>1. got - 1 # size
    BY ONLY <1>3
  <2> QED
    BY <1>1, <2>1
<1>5. Dist(w) = n - 1
  <2>1. NextSlot = After(w) /\ (IF n < NumCached THEN Dist(After(w)) = n ELSE After(w) = readIndex)
    BY DEF Goes, RingHolds, NextSlot, WaitPlaces, w
  <2>2. readIndex \in Slots /\ After(w) \in Slots
    BY <1>2, AfterIsSlot DEF RingInv, RingOK
  <2>3. /\ Dist(w) + 1 < NumCached => Dist(After(w)) = Dist(w) + 1
        /\ Dist(w) + 1 >= NumCached => After(w) = readIndex
        /\ Dist(After(w)) = 0 <=> After(w) = readIndex
    BY <1>2, <2>2, DistFacts
  <2> QED
    <3>1. Dist(w) \in Nat /\ Dist(w) < NumCached /\ NumCached \in Nat /\ n \in Nat /\ n <= NumCached /\ n # 0
      BY <1>3, <1>4
    <3>2. /\ n < NumCached => Dist(After(w)) = n
          /\ n = NumCached => After(w) = readIndex
      BY ONLY <2>1, <3>1
    <3> QED
      BY ONLY <2>3, <3>1, <3>2
<1>6. /\ len = got - 1 /\ len + 1 = got /\ len + 1 <= size /\ 0 < len + 1
  <2>1. len = got - 1
    BY <1>1, <1>2, <1>5 DEF len
  <2> QED
    BY ONLY <1>3, <2>1
<1>7. /\ <<conn.file, got>> \in Nat \X Nat
      /\ caches'[w].data = Append(caches[w].data, <<conn.file, got>>) /\ Len(caches'[w].data) = len + 1
      /\ caches'[w].read = caches[w].read
      /\ \A i \in Slots : i # w => caches'[i] = caches[i]
  <2>1. Chunk = <<conn.file, got>> /\ Chunk \in Nat \X Nat
    <3>1. conn.file \in Nat /\ got \in Nat
      BY ONLY <1>3
    <3> QED
      BY <3>1 DEF Chunk, got
  <2>2. caches'[w] = cache_write_buffer(caches[w], Chunk) /\ \A i \in Slots : i # w => caches'[i] = caches[i]
    BY <1>2 DEF RingInv, RingOK, w
  <2>3. /\ Len(cache_write_buffer(caches[w], Chunk).data) = len + 1
        /\ cache_write_buffer(caches[w], Chunk).read = caches[w].read
    BY <1>a, <2>1, CacheFacts DEF len
  <2>4. cache_write_buffer(caches[w], Chunk).data = Append(caches[w].data, <<conn.file, got>>)
    BY <1>a, <2>1 DEF cache_write_buffer, CacheFile
  <2> QED
    BY <2>1, <2>2, <2>3, <2>4
<1>8. /\ caches'[w].data[len + 1] = <<conn.file, got>>
      /\ \A b \in 1..len : caches'[w].data[b] = caches[w].data[b]
  <2>1. caches[w].data \in Seq(Nat \X Nat) /\ Len(caches[w].data) = len
    BY <1>a DEF len
  <2> QED
    BY ONLY <1>7, <2>1, AppendProperties, SMTT(30)
<1>9. /\ NumFiles' = NumFiles /\ EndPosition' = EndPosition /\ stream' = stream /\ NextSlot' = NextSlot
      /\ \A i \in Slots : Dist(i)' = Dist(i) /\ (Dist(i) = n - 1 <=> i = w)
  <2>1. \A i, j \in Slots : Dist(i) = Dist(j) => i = j
    BY DistFacts DEF RingInv, RingOK
  <2> QED
    BY <1>2, <1>5, <2>1 DEF Dist, NumFiles, EndPosition, NextSlot, WaitPlaces
<1>10. RingHolds(first, n)'
  <2>1. ASSUME NEW i \in Slots, Dist(i) < n
        PROVE  Holds(i, first + Dist(i))' /\ (Dist(i) > 0 => caches'[i].read = 0)
    <3>1. Holds(i, first + Dist(i)) /\ (Dist(i) > 0 => caches[i].read = 0)
      BY <2>1 DEF Goes, RingHolds
    <3>2. CASE i # w
      BY <1>7, <1>9, <3>1, <3>2 DEF Holds
    <3>3. CASE i = w
      <4>1. first + Dist(w) = conn.file
        BY <1>1, <1>3, <1>5
      <4>2. ASSUME NEW b \in 1..(len + 1) PROVE caches'[w].data[b] = <<conn.file, b>>
        <5>1. b \in 1..len \/ b = len + 1
          BY ONLY <1>3, <4>2
        <5>2. CASE b \in 1..len
          BY <1>8, <3>1, <3>3, <4>1, <5>2 DEF Holds, len
        <5>3. CASE b = len + 1
          BY <1>6, <1>8, <5>3
        <5> QED
          BY <5>1, <5>2, <5>3
      <4>3. Len(caches'[w].data) <= cacheSize[w] /\ caches'[w].read < cacheSize[w]
        BY <1>2, <1>6, <1>7, <3>1, <3>3 DEF Holds
      <4>4. ~writeReady[w] /\ conn.file <= NumFiles /\ cacheSize[w] = stream.sizes[conn.file]
        BY <3>1, <3>3, <4>1 DEF Holds
      <4>5. w' = w /\ UNCHANGED <<conn, writeReady, cacheSize>> /\ Len(caches'[w].data) = len + 1
        BY <1>7 DEF w
      <4>6. Holds(w, conn.file)'
        BY <1>9, <4>2, <4>3, <4>4, <4>5 DEF Holds
      <4>7. Dist(w)' = Dist(w)
        BY <4>5 DEF Dist
      <4> QED
        BY <1>7, <3>1, <3>3, <4>1, <4>5, <4>6, <4>7
    <3> QED
      BY <3>2, <3>3
  <2>2. ASSUME NEW i \in Slots, Dist(i) < n - 1 PROVE Len(caches'[i].data) = cacheSize[i]
    <3>1. i # w
      <4>1. ~(n - 1 < n - 1)
        BY ONLY <1>3
      <4> QED
        BY <1>9, <2>2, <4>1
    <3> QED
      BY <1>7, <2>2, <3>1 DEF Goes, RingHolds
  <2>3. ASSUME NEW i \in Slots, Dist(i) >= n PROVE writeReady[i] /\ caches'[i].read = Len(caches'[i].data)
    <3>1. i # w
      <4>1. ~(n - 1 >= n)
        BY ONLY <1>3
      <4> QED
        BY <1>9, <2>3, <4>1
    <3> QED
      BY <1>7, <2>3, <3>1 DEF Goes, RingHolds
  <2>4. NextSlot \in Slots /\ IF n < NumCached THEN Gap(readIndex, NextSlot) = n ELSE NextSlot = readIndex
    BY DEF Goes, RingHolds, Dist
  <2> QED
    BY <1>9, <2>1, <2>2, <2>3, <2>4 DEF RingHolds, Dist
<1>11. SourceGoesOn(first + n, n)'
  <2>1. Arrived' = got /\ pending' = "UNKNOWN" /\ sAt' = "merge" /\ UNCHANGED <<stream, conn, failures>>
    BY <1>1 DEF Arrived, got
  <2>2. \A i \in Slots : Dist(i)' = n - 1 => Len(caches'[i].data) = got
    BY <1>6, <1>7, <1>9
  <2> QED
    BY ONLY <1>1, <1>4, <2>1, <2>2 DEF SourceGoesOn, OpenPlaces, WaitPlaces
<1>12. ReaderGoesOn(first, n)'
  <2>1. readIndex' = readIndex /\ caches'[readIndex].read = caches[readIndex].read
    BY <1>7 DEF RingInv, RingOK
  <2>4. ReadNext(first, n)' = ReadNext(first, n)
    BY ONLY <2>1 DEF ReadNext
  <2>2. UNCHANGED <<NumFiles, ReadNext(first, n), GiveNext(first, n), InMedium(bBuffer), NextChunk(bBuffer)>>
    BY <2>4 DEF InMedium, NextChunk, GiveNext, NumFiles
  <2>3. UNCHANGED NextChunk(out[Len(out)])
    BY DEF NextChunk
  <2>5. ReaderGoesOn(first, n)
    BY DEF Goes
  <2>6. (sendNewSegment' <=> sendNewSegment) /\ (bAt' = "push" <=> bAt = "push") /\ UNCHANGED <<stream, position, out, bBuffer>>
    OBVIOUS
  <2> QED
    BY ONLY <2>2, <2>3, <2>5, <2>6, ZenonT(30) DEF ReaderGoesOn
<1> QED
    BY <1>10, <1>11, <1>12 DEF Goes

\* What the reader finds in the slot it reads.
LEMMA ReadFacts ==
    ASSUME stream \in Streams, RingOK, NEW first \in 1..EndPosition, NEW n \in 0..NumCached,
           first + n <= EndPosition, Goes(first, n), bAt # "push", cache_has_enough_data(caches[readIndex])
    PROVE  /\ n # 0 /\ ~sendNewSegment /\ readIndex \in Slots /\ first \in 1..NumFiles
           /\ cacheSize[readIndex] = stream.sizes[first] /\ stream.sizes[first] \in Nat \ {0}
           /\ caches[readIndex].read \in Nat /\ caches[readIndex].read + 1 \in 1..stream.sizes[first]
           /\ Len(caches[readIndex].data) \in Nat /\ Len(caches[readIndex].data) <= stream.sizes[first]
           /\ NextRead(caches[readIndex]) = <<first, caches[readIndex].read + 1>>
           /\ GiveNext(first, n) = NextRead(caches[readIndex])
           /\ cache_read_buffer(caches[readIndex]).data = caches[readIndex].data
           /\ cache_read_buffer(caches[readIndex]).read = caches[readIndex].read + 1
<1> DEFINE len == Len(caches[readIndex].data)
<1> DEFINE r == caches[readIndex].read
<1>1. /\ NumFiles \in Nat /\ first \in Nat \ {0} /\ n \in Nat /\ readIndex \in Slots /\ Dist(readIndex) = 0
      /\ len \in Nat /\ r \in Nat /\ r < len /\ caches[readIndex] \in CacheFile
  <2>1. readIndex \in Slots
    BY DEF RingOK
  <2> QED
    BY <2>1, GoesFacts DEF cache_has_enough_data
<1>2. n # 0
  <2> SUFFICES ASSUME n = 0 PROVE FALSE
    OBVIOUS
  <2>1. r = len
    BY <1>1 DEF Goes, RingHolds
  <2>2. r # len
    <3> HIDE DEF r, len
    <3> QED
      BY ONLY <1>1
  <2> QED
    BY <2>1, <2>2
<1>3. ~sendNewSegment
    BY <1>2 DEF Goes, ReaderGoesOn
<1>4. Holds(readIndex, first)
  <2>1. Dist(readIndex) < n /\ first + Dist(readIndex) = first
    BY <1>1, <1>2
  <2> QED
    BY <1>1, <2>1 DEF Goes, RingHolds
<1>5. first \in 1..NumFiles /\ cacheSize[readIndex] = stream.sizes[first] /\ len <= stream.sizes[first]
    BY <1>1, <1>4 DEF Holds
<1>6. stream.sizes[first] \in Nat \ {0}
    BY <1>5, SizesFacts
<1>7. r + 1 \in 1..stream.sizes[first] /\ r + 1 \in 1..len
  <2> DEFINE size == stream.sizes[first]
  <2>1. len <= size /\ size \in Nat
    BY <1>5, <1>6
  <2> HIDE DEF r, len, size
  <2>2. r + 1 \in 1..size /\ r + 1 \in 1..len
    BY ONLY <1>1, <2>1
  <2> QED
    BY <2>2 DEF size
<1>8. NextRead(caches[readIndex]) = <<first, r + 1>>
    BY <1>4, <1>7 DEF NextRead, Holds
<1>9. GiveNext(first, n) = <<first, r + 1>>
    BY <1>2 DEF GiveNext, ReadNext
<1>10. /\ cache_read_buffer(caches[readIndex]).data = caches[readIndex].data
       /\ cache_read_buffer(caches[readIndex]).read = r + 1
    BY <1>1, CacheFacts
<1> QED
    BY <1>1, <1>2, <1>3, <1>5, <1>6, <1>7, <1>8, <1>9, <1>10

\* The reader takes the next chunk into its hand.
LEMMA ReaderTakes ==
    ASSUME NEW first, NEW n, ReaderGoesOn(first, n), ~sendNewSegment, ~sendNewSegment',
           NEW first2, NEW n2, bAt' = "push", bBuffer' = GiveNext(first, n),
           InMedium(bBuffer)', NextChunk(bBuffer)' = ReadNext(first2, n2)', UNCHANGED <<stream, position, out>>
    PROVE  ReaderGoesOn(first2, n2)'
<1>1. GiveNext(first2, n2)' = GiveNext(first, n)
    BY DEF GiveNext
<1>2. UNCHANGED <<NumFiles, NextChunk(out[Len(out)])>>
    BY DEF NextChunk, NumFiles
<1> QED
    BY <1>1, <1>2, ZenonT(30) DEF ReaderGoesOn

\* A chunk is read from a file that has more of them.
LEMMA ChunkRead ==
    ASSUME stream \in Streams, RingOK, NEW first \in 1..EndPosition, NEW n \in 0..NumCached,
           first + n <= EndPosition, Goes(first, n), bAt # "push", cache_has_enough_data(caches[readIndex]),
           ~SlotDone(cache_read_buffer(caches[readIndex])),
           caches' = [caches EXCEPT ![readIndex] = cache_read_buffer(caches[readIndex])],
           bAt' = "push", bBuffer' = NextRead(caches[readIndex]),
           UNCHANGED <<stream, conn, failures, pending, flushing, sAt, sSrcresult, sResult, position, out>>,
           UNCHANGED <<cacheSize, writeReady, writeIndex, readIndex>>, sendNewSegment' <=> sendNewSegment
    PROVE  Goes(first, n)'
<1> DEFINE r == caches[readIndex].read
<1> DEFINE size == stream.sizes[first]
<1>1. /\ n # 0 /\ ~sendNewSegment /\ readIndex \in Slots /\ first \in 1..NumFiles
      /\ cacheSize[readIndex] = size /\ size \in Nat \ {0} /\ r \in Nat /\ r + 1 \in 1..size
      /\ NextRead(caches[readIndex]) = <<first, r + 1>> /\ GiveNext(first, n) = <<first, r + 1>>
      /\ cache_read_buffer(caches[readIndex]).data = caches[readIndex].data
      /\ cache_read_buffer(caches[readIndex]).read = r + 1
    BY ReadFacts
<1>2. /\ caches'[readIndex].read = r + 1 /\ caches'[readIndex].data = caches[readIndex].data
      /\ \A i \in Slots : i # readIndex => caches'[i] = caches[i]
      /\ \A i \in Slots : caches'[i].data = caches[i].data
    BY <1>1 DEF RingOK
<1>3. r + 1 < size
  <2>1. r + 1 # size
    BY <1>1 DEF SlotDone
  <2> HIDE DEF r, size
  <2> QED
    BY ONLY <1>1, <2>1
<1>4. /\ NumFiles' = NumFiles /\ EndPosition' = EndPosition /\ stream' = stream /\ NextSlot' = NextSlot
      /\ \A i \in Slots : Dist(i)' = Dist(i)
      /\ \A i \in Slots : Dist(i) = 0 <=> i = readIndex
      /\ Arrived' = Arrived /\ (Halted' <=> Halted)
    BY <1>1, DistFacts DEF Dist, NumFiles, EndPosition, NextSlot, WaitPlaces, Arrived, Halted
<1>5. RingHolds(first, n)'
  <2>1. ASSUME NEW i \in Slots, Dist(i) < n
        PROVE  Holds(i, first + Dist(i))' /\ (Dist(i) > 0 => caches'[i].read = 0)
    <3>1. Holds(i, first + Dist(i)) /\ (Dist(i) > 0 => caches[i].read = 0)
      BY <2>1 DEF Goes, RingHolds
    <3>2. CASE i # readIndex
      BY <1>2, <1>4, <3>1, <3>2 DEF Holds
    <3>3. CASE i = readIndex
      <4>1. Dist(i) = 0 /\ Dist(i)' = Dist(i) /\ ~(Dist(i) > 0)
        BY <1>4, <3>3
      <4>2. caches'[i].read < cacheSize'[i] /\ Len(caches'[i].data) <= cacheSize'[i]
        BY <1>1, <1>2, <1>3, <3>1, <3>3 DEF Holds
      <4> QED
        BY <1>2, <1>4, <3>1, <3>3, <4>1, <4>2 DEF Holds
    <3> QED
      BY <3>2, <3>3
  <2>2. ASSUME NEW i \in Slots, Dist(i) < n - 1 PROVE Len(caches'[i].data) = cacheSize[i]
    BY <1>2, <2>2 DEF Goes, RingHolds
  <2>3. ASSUME NEW i \in Slots, Dist(i) >= n PROVE writeReady[i] /\ caches'[i].read = Len(caches'[i].data)
    <3>1. ~(0 >= n)
      BY ONLY <1>1, n \in 0..NumCached
    <3>2. i # readIndex
      BY <1>4, <2>3, <3>1
    <3> QED
      BY <1>2, <2>3, <3>2 DEF Goes, RingHolds
  <2>4. NextSlot \in Slots /\ IF n < NumCached THEN Gap(readIndex, NextSlot) = n ELSE NextSlot = readIndex
    BY DEF Goes, RingHolds, Dist
  <2> QED
    BY <1>4, <2>1, <2>2, <2>3, <2>4 DEF RingHolds, Dist
<1>6. SourceGoesOn(first + n, n)'
    BY <1>1, <1>2, <1>4 DEF Goes, SourceGoesOn
<1>7. ReaderGoesOn(first, n)'
  <2>1. bBuffer' = <<first, r + 1>> /\ ReadNext(first, n)' = <<first, r + 2>> /\ r + 1 + 1 = r + 2
    BY <1>1, <1>2 DEF ReadNext
  <2>2. InMedium(bBuffer)' /\ NextChunk(bBuffer)' = ReadNext(first, n)'
    BY <1>1, <1>3, <1>4, <2>1 DEF InMedium, NextChunk
  <2> QED
    BY <1>1, <2>1, <2>2, ReaderTakes DEF Goes
<1> QED
    BY <1>5, <1>6, <1>7 DEF Goes

\* The last chunk of a file is read: its slot is free, and the reader is at the next file.
LEMMA SlotRead ==
    ASSUME stream \in Streams, RingOK, NEW first \in 1..EndPosition, NEW n \in 0..NumCached,
           first + n <= EndPosition, Goes(first, n), bAt # "push", cache_has_enough_data(caches[readIndex]),
           SlotDone(cache_read_buffer(caches[readIndex])),
           caches' = [caches EXCEPT ![readIndex] = cache_read_buffer(caches[readIndex])],
           writeReady' = [writeReady EXCEPT ![readIndex] = TRUE], readIndex' = After(readIndex), SignalDel,
           bAt' = "push", bBuffer' = NextRead(caches[readIndex]),
           UNCHANGED <<stream, conn, failures, pending, flushing, sSrcresult, sResult, position, out>>,
           UNCHANGED <<cacheSize, writeIndex>>, sendNewSegment' <=> sendNewSegment
    PROVE  /\ n - 1 \in 0..NumCached /\ first + 1 \in 1..EndPosition /\ (first + 1) + (n - 1) <= EndPosition
           /\ Goes(first + 1, n - 1)'
<1> DEFINE r == caches[readIndex].read
<1> DEFINE len == Len(caches[readIndex].data)
<1> DEFINE size == stream.sizes[first]
<1>1. /\ n # 0 /\ ~sendNewSegment /\ readIndex \in Slots /\ first \in 1..NumFiles
      /\ cacheSize[readIndex] = size /\ size \in Nat \ {0} /\ r \in Nat /\ r + 1 \in 1..size
      /\ len \in Nat /\ len <= size
      /\ NextRead(caches[readIndex]) = <<first, r + 1>> /\ GiveNext(first, n) = <<first, r + 1>>
      /\ cache_read_buffer(caches[readIndex]).data = caches[readIndex].data
      /\ cache_read_buffer(caches[readIndex]).read = r + 1
    BY ReadFacts
<1>2. /\ caches'[readIndex].read = r + 1 /\ caches'[readIndex].data = caches[readIndex].data
      /\ \A i \in Slots : i # readIndex => caches'[i] = caches[i] /\ writeReady'[i] = writeReady[i]
      /\ \A i \in Slots : caches'[i].data = caches[i].data
      /\ writeReady'[readIndex]
    BY <1>1 DEF RingOK
<1>3. r + 1 = size /\ r + 1 = len
  <2>1. r + 1 = size
    BY <1>1 DEF SlotDone
  <2>2. r < len
    BY DEF cache_has_enough_data
  <2> HIDE DEF r, size, len
  <2> QED
    BY ONLY <1>1, <2>1, <2>2
<1>4. /\ NumFiles \in Nat /\ EndPosition = NumFiles + 1 /\ NumCached \in Nat \ {0}
      /\ first \in Nat \ {0} /\ n \in Nat /\ n <= NumCached /\ n # 0 /\ first + n <= EndPosition /\ first <= NumFiles
    BY <1>1, GoesFacts
<1>5. /\ n - 1 \in 0..NumCached /\ first + 1 \in 1..EndPosition /\ (first + 1) + (n - 1) <= EndPosition
      /\ (first + 1) + (n - 1) = first + n /\ n - 1 < NumCached /\ n - 1 - 1 = n - 2
    BY ONLY <1>4
<1>6. /\ NumFiles' = NumFiles /\ EndPosition' = EndPosition /\ stream' = stream /\ cacheSize' = cacheSize
      /\ NextSlot' = NextSlot /\ Arrived' = Arrived /\ (Halted' <=> Halted)
      /\ (sAt' \in OpenPlaces <=> sAt \in OpenPlaces) /\ (sAt' = "none" <=> sAt = "none")
    BY DEF NumFiles, EndPosition, SignalDel, NextSlot, WaitPlaces, OpenPlaces, Arrived, Halted
<1>7. /\ \A i \in Slots : Dist(i) \in Nat /\ Dist(i) < NumCached /\ (Dist(i) = 0 <=> i = readIndex)
      /\ \A i \in Slots : i # readIndex => Dist(i)' = Dist(i) - 1
      /\ \A i \in Slots : i = readIndex => Dist(i)' = NumCached - 1
    BY <1>1, GoesFacts, DistMoves
<1>8. ASSUME NEW i \in Slots, i # readIndex
      PROVE  /\ Dist(i)' < n - 1 <=> Dist(i) < n
             /\ Dist(i)' < n - 1 - 1 <=> Dist(i) < n - 1
             /\ Dist(i)' >= n - 1 <=> Dist(i) >= n
             /\ Dist(i)' = n - 1 - 1 <=> Dist(i) = n - 1
             /\ Dist(i)' = n - 1 <=> Dist(i) = n
             /\ Dist(i) > 0 /\ (first + 1) + Dist(i)' = first + Dist(i)
  <2>1. Dist(i) \in Nat /\ Dist(i) # 0 /\ Dist(i)' = Dist(i) - 1
    BY <1>7, <1>8
  <2> QED
    BY ONLY <1>4, <2>1
<1>9. \A i \in Slots : i = readIndex =>
          ~(Dist(i)' < n - 1) /\ ~(Dist(i)' < n - 1 - 1) /\ Dist(i)' # n - 1 - 1 /\ (n = NumCached => Dist(i)' = n - 1)
  <2>1. ~(NumCached - 1 < n - 1) /\ ~(NumCached - 1 < n - 1 - 1) /\ NumCached - 1 # n - 1 - 1
    BY ONLY <1>4
  <2> QED
    BY <1>7, <2>1
<1>10. RingHolds(first + 1, n - 1)'
  <2>1. ASSUME NEW i \in Slots, Dist(i)' < n - 1
        PROVE  Holds(i, (first + 1) + Dist(i))' /\ (Dist(i)' > 0 => caches'[i].read = 0)
    <3>1. i # readIndex /\ Dist(i) < n /\ Dist(i) > 0 /\ (first + 1) + Dist(i)' = first + Dist(i)
      BY <1>8, <1>9, <2>1
    <3>2. Holds(i, first + Dist(i)) /\ caches[i].read = 0
      BY <3>1 DEF Goes, RingHolds
    <3>3. caches'[i] = caches[i] /\ writeReady'[i] = writeReady[i]
      BY <1>2, <3>1
    <3>4. Holds(i, (first + 1) + Dist(i))'
      BY ONLY <1>6, <3>1, <3>2, <3>3 DEF Holds
    <3> QED
      BY <3>2, <3>3, <3>4
  <2>2. ASSUME NEW i \in Slots, Dist(i)' < (n - 1) - 1 PROVE Len(caches'[i].data) = cacheSize'[i]
    <3>1. i # readIndex /\ Dist(i) < n - 1
      BY <1>8, <1>9, <2>2
    <3> QED
      BY <1>2, <1>6, <3>1 DEF Goes, RingHolds
  <2>3. ASSUME NEW i \in Slots, Dist(i)' >= n - 1 PROVE writeReady'[i] /\ caches'[i].read = Len(caches'[i].data)
    <3>1. CASE i = readIndex
      BY <1>2, <1>3, <3>1
    <3>2. CASE i # readIndex
      <4>1. Dist(i) >= n
        BY <1>8, <2>3, <3>2
      <4> QED
        BY <1>2, <3>2, <4>1 DEF Goes, RingHolds
    <3> QED
      BY <3>1, <3>2
  <2>4. NextSlot \in Slots /\ Gap(readIndex', NextSlot) = n - 1
    <3>1. NextSlot \in Slots /\ (n < NumCached => Dist(NextSlot) = n) /\ (~(n < NumCached) => NextSlot = readIndex)
      BY DEF Goes, RingHolds
    <3>2. CASE n < NumCached
      <4>1. Dist(NextSlot) # 0
        BY <1>1, <3>1, <3>2
      <4>2. NextSlot # readIndex
        BY <1>7, <3>1, <4>1
      <4>3. Gap(readIndex, NextSlot) = n
        BY <3>1, <3>2 DEF Dist
      <4>4. Gap(After(readIndex), NextSlot) = Gap(readIndex, NextSlot) - 1
        BY <1>1, <3>1, <4>2, GapFacts
      <4> QED
        BY <3>1, <4>3, <4>4
    <3>3. CASE ~(n < NumCached)
      <4>1. n = NumCached
        BY ONLY <1>4, <3>3
      <4>2. Gap(After(readIndex), readIndex) = NumCached - 1
        BY <1>1, GapFacts
      <4> QED
        BY <3>1, <3>3, <4>1, <4>2
    <3> QED
      BY <3>2, <3>3
  <2> QED
    BY <1>5, <1>6, <2>1, <2>2, <2>3, <2>4 DEF RingHolds, Dist
<1>11. SourceGoesOn((first + 1) + (n - 1), n - 1)'
  <2>1. SourceGoesOn(first + n, n)
    BY DEF Goes
  <2>2. \A i \in Slots : Dist(i)' = n - 1 - 1 => Dist(i) = n - 1
    BY <1>8, <1>9
  <2>3. ASSUME n - 1 = 0, pending = "UNKNOWN", ~(Halted /\ flushing # {}) PROVE Arrived = stream.sizes[conn.file]
    <3>1. Dist(readIndex) = n - 1
      BY <1>1, <1>7, <2>3
    <3>2. conn.file = first + n - 1 /\ len = Arrived
      BY <1>1, <2>1, <2>3, <3>1 DEF SourceGoesOn
    <3>3. first + n - 1 = first
      BY ONLY <1>4, <2>3
    <3> QED
      BY <1>3, <3>2, <3>3
  <2>4. UNCHANGED <<pending, conn, failures, flushing>> /\ (sendNewSegment' <=> sendNewSegment)
    OBVIOUS
  <2> QED
    BY ONLY <1>2, <1>5, <1>6, <2>1, <2>2, <2>3, <2>4 DEF SourceGoesOn
<1>12. ReaderGoesOn(first + 1, n - 1)'
  <2>1. bBuffer' = <<first, r + 1>>
    BY <1>1
  <2>2. ReadNext(first + 1, n - 1)' = <<first + 1, 1>>
    <3>1. CASE n - 1 = 0
      BY <3>1 DEF ReadNext
    <3>2. CASE n - 1 # 0
      <4>1. 0 + 1 < NumCached /\ 1 < n /\ 1 > 0
        BY ONLY <1>4, <3>2
      <4>2. After(readIndex) \in Slots /\ Dist(After(readIndex)) = 0 + 1
        BY <1>1, <1>7, <4>1, DistFacts, AfterIsSlot
      <4>3. After(readIndex) # readIndex /\ caches[After(readIndex)].read = 0
        BY <1>7, <4>1, <4>2 DEF Goes, RingHolds
      <4>4. caches'[readIndex'].read = 0
        BY <1>2, <4>2, <4>3
      <4> QED
        BY <3>2, <4>4 DEF ReadNext
    <3> QED
      BY <3>1, <3>2
  <2>3. InMedium(bBuffer)' /\ NextChunk(bBuffer)' = <<first + 1, 1>>
    <3>1. ~(r + 1 < size)
      BY ONLY <1>1, <1>3
    <3>2. InMedium(<<first, r + 1>>) /\ NextChunk(<<first, r + 1>>) = <<first + 1, 1>>
      BY <1>1, <3>1 DEF InMedium, NextChunk
    <3> QED
      BY <1>6, <2>1, <3>2 DEF InMedium, NextChunk
  <2> QED
    BY <1>1, <2>1, <2>2, <2>3, ReaderTakes DEF Goes
<1> QED
    BY <1>5, <1>10, <1>11, <1>12 DEF Goes

\* What comes before the next chunk is that chunk and what comes before it.
LEMMA BeforeNext ==
    ASSUME stream \in Streams, NEW g \in Nat \X Nat, InMedium(g), NEW f \in 1..NumFiles, NEW b \in 1..stream.sizes[f]
    PROVE  Before(<<f, b>>, NextChunk(g)) <=> (Before(<<f, b>>, g) \/ <<f, b>> = g)
<1> DEFINE gf == g[1]
<1> DEFINE gb == g[2]
<1>1. g = <<gf, gb>> /\ gf \in Nat /\ gb \in Nat /\ gf \in 1..NumFiles /\ gb \in 1..stream.sizes[gf]
    BY DEF InMedium
<1>2. /\ NumFiles \in Nat /\ f \in Nat /\ stream.sizes[gf] \in Nat /\ stream.sizes[f] \in Nat /\ b \in Nat /\ b >= 1
      /\ f = gf => b <= stream.sizes[gf]
  <2>1. \A h \in 1..NumFiles : stream.sizes[h] \in Nat
    BY SizesFacts
  <2> QED
    BY <1>1, <2>1, SizesFacts
<1>3. NextChunk(g) = IF gb < stream.sizes[gf] THEN <<gf, gb + 1>> ELSE <<gf + 1, 1>>
    BY DEF NextChunk
<1>4. Before(<<f, b>>, g) <=> f < gf \/ (f = gf /\ b < gb)
    BY DEF Before
<1>5. <<f, b>> = g <=> f = gf /\ b = gb
    BY <1>1
<1> DEFINE size == stream.sizes[gf]
<1>6. gb <= size /\ size \in Nat /\ (f = gf => b <= size)
    BY <1>1, <1>2
<1> HIDE DEF gf, gb, size
<1>7. CASE gb < size
  <2>1. Before(<<f, b>>, NextChunk(g)) <=> f < gf \/ (f = gf /\ b < gb + 1)
    BY <1>3, <1>7 DEF Before, size
  <2>2. b < gb + 1 <=> b < gb \/ b = gb
    BY ONLY <1>1, <1>2
  <2> QED
    BY <1>4, <1>5, <2>1, <2>2
<1>8. CASE ~(gb < size)
  <2>1. Before(<<f, b>>, NextChunk(g)) <=> f < gf + 1 \/ (f = gf + 1 /\ b < 1)
    BY <1>3, <1>8 DEF Before, size
  <2>2. (f < gf + 1 <=> f < gf \/ f = gf) /\ ~(b < 1) /\ (f = gf => b < gb \/ b = gb)
    BY ONLY <1>1, <1>2, <1>6, <1>8
  <2> QED
    BY <1>4, <1>5, <2>1, <2>2
<1> QED
    BY <1>7, <1>8

\* A chunk after which another comes is not before the first one.
LEMMA NextIsLater ==
    ASSUME stream \in Streams, NEW c \in Nat \X Nat, InMedium(c)
    PROVE  NextChunk(c) \in Nat \X Nat /\ c[1] <= NextChunk(c)[1] /\ NextChunk(c) \in (1..EndPosition) \X Nat
<1>1. /\ c[1] \in 1..NumFiles /\ c[2] \in Nat /\ NumFiles \in Nat /\ EndPosition = NumFiles + 1
      /\ c[1] + 1 \in 1..EndPosition /\ c[1] \in 1..EndPosition /\ c[2] + 1 \in Nat /\ c[1] <= c[1] + 1 /\ c[1] <= c[1]
  <2>1. c[1] \in 1..NumFiles /\ c[2] \in Nat /\ NumFiles \in Nat /\ EndPosition = NumFiles + 1
    BY SizesFacts DEF InMedium
  <2> QED
    BY <2>1
<1>2. NextChunk(c) \in {<<c[1], c[2] + 1>>, <<c[1] + 1, 1>>}
    BY DEF NextChunk
<1>3. 1..EndPosition \subseteq Nat
    OBVIOUS
<1> QED
    BY <1>1, <1>2, <1>3

\* The demuxer takes a chunk.
LEMMA ChunkGiven ==
    ASSUME stream \in Streams, NEW first \in 1..EndPosition, NEW n \in 0..NumCached,
           first + n <= EndPosition, Goes(first, n), ~sendNewSegment, ~sendNewSegment',
           bAt = "push", bAt' # "push", bBuffer \in Nat \X Nat, out \in Seq(Nat \X Nat), position \in 1..NumFiles,
           MediumFrom(position, out), \A i, j \in 1..Len(out) : out[i] = out[j] => i = j,
           stream.hls, out' = Append(out, bBuffer),
           UNCHANGED <<stream, position, caches, readIndex>>
    PROVE  /\ ReaderGoesOn(first, n)'
           /\ MediumFrom(position, out)' /\ (\A i, j \in 1..Len(out) : out[i] = out[j] => i = j)'
<1> DEFINE len == Len(out)
<1>1. /\ len \in Nat /\ Len(out') = len + 1 /\ out'[len + 1] = bBuffer /\ \A i \in 1..len : out'[i] = out[i]
      /\ out = <<>> <=> len = 0
      /\ out' # <<>>
    BY AppendProperties, LenProperties, EmptySeq, SMTT(30)
<1>2. /\ InMedium(bBuffer) /\ NextChunk(bBuffer) = ReadNext(first, n)
      /\ out = <<>> => bBuffer = <<position, 1>>
      /\ out # <<>> => NextChunk(out[len]) = bBuffer
      /\ \A f \in 1..NumFiles : \A b \in 1..stream.sizes[f] :
            (\E i \in 1..len : out[i] = <<f, b>>) <=> position <= f /\ Before(<<f, b>>, bBuffer)
    BY DEF Goes, ReaderGoesOn, GiveNext
<1> HIDE DEF len
<1>3. /\ len + 1 \in 1..(len + 1) /\ 1 \in 1..(len + 1)
      /\ \A i \in 1..(len + 1) : i \in 1..len \/ i = len + 1
      /\ \A i \in 1..len : i \in 1..(len + 1)
      /\ len # 0 => len \in 1..len /\ 1 \in 1..len
      /\ (len + 1) - 1 = len
    BY ONLY <1>1
<1>4. UNCHANGED <<NumFiles, ReadNext(first, n)>> /\ stream' = stream /\ position' = position /\ stream.hls
    BY DEF ReadNext, NumFiles
<1>5. /\ \A i \in 1..len : InMedium(out[i])
      /\ len # 0 => out[1] = <<position, 1>>
      /\ \A i \in 1..(len - 1) : out[i + 1] = NextChunk(out[i])
    BY <1>1 DEF MediumFrom, FirstChunk, len
<1>6. bBuffer[1] \in 1..NumFiles /\ bBuffer[2] \in 1..stream.sizes[bBuffer[1]] /\ bBuffer = <<bBuffer[1], bBuffer[2]>>
    BY <1>2 DEF InMedium
<1>7. position <= bBuffer[1]
  <2>1. CASE len = 0
    BY <1>1, <1>2, <2>1
  <2>2. CASE len # 0
    <3> DEFINE c == out[len]
    <3>1. c \in Nat \X Nat /\ InMedium(c) /\ NextChunk(c) = bBuffer
      <4>1. len \in 1..Len(out)
        BY <1>3, <2>2 DEF len
      <4>2. c \in Nat \X Nat
        BY <4>1, ElementOfSeq
      <4> QED
        BY <1>1, <1>2, <1>3, <1>5, <2>2, <4>2
    <3>2. position <= c[1]
      <4>1. c = <<c[1], c[2]>> /\ c[1] \in 1..NumFiles /\ c[2] \in 1..stream.sizes[c[1]]
        BY <3>1, SMTT(30) DEF InMedium
      <4>2. \E i \in 1..len : out[i] = <<c[1], c[2]>>
        BY <1>3, <2>2, <4>1
      <4> QED
        BY <1>2, <4>1, <4>2
    <3>3. c[1] <= bBuffer[1]
      BY <3>1, NextIsLater
    <3> QED
      <4>1. c[1] \in Nat /\ bBuffer[1] \in Nat /\ position \in Nat
        BY <3>1, SizesFacts, SMTT(30)
      <4> HIDE DEF c
      <4> QED
        BY ONLY <3>2, <3>3, <4>1
  <2> QED
    BY <2>1, <2>2
<1>8. ~Before(bBuffer, bBuffer)
  <2>1. bBuffer[1] \in Nat /\ bBuffer[2] \in Nat
    OBVIOUS
  <2> QED
    BY <2>1 DEF Before
<1>9. ReaderGoesOn(first, n)'
  <2>1. GiveNext(first, n)' = NextChunk(bBuffer)
    BY <1>2, <1>4 DEF GiveNext
  <2>2. NextChunk(out[Len(out)])' = NextChunk(bBuffer)
    BY <1>1, <1>4 DEF NextChunk
  <2>3. ASSUME NEW f \in 1..NumFiles, NEW b \in 1..stream.sizes[f]
        PROVE  (\E i \in 1..(len + 1) : out'[i] = <<f, b>>) <=> position <= f /\ Before(<<f, b>>, NextChunk(bBuffer))
    <3>1. (\E i \in 1..(len + 1) : out'[i] = <<f, b>>) <=> (\E i \in 1..len : out[i] = <<f, b>>) \/ <<f, b>> = bBuffer
      BY <1>1, <1>3
    <3>2. (\E i \in 1..len : out[i] = <<f, b>>) <=> position <= f /\ Before(<<f, b>>, bBuffer)
      BY <1>2
    <3>3. Before(<<f, b>>, NextChunk(bBuffer)) <=> (Before(<<f, b>>, bBuffer) \/ <<f, b>> = bBuffer)
      BY <1>2, BeforeNext
    <3>4. <<f, b>> = bBuffer => position <= f
      BY <1>7
    <3> QED
      BY ONLY <3>1, <3>2, <3>3, <3>4
  <2>4. ASSUME NEW f \in 1..NumFiles', NEW b \in 1..stream'.sizes[f]
        PROVE  ((\E i \in 1..Len(out) : out[i] = <<f, b>>) <=> position <= f /\ Before(<<f, b>>, GiveNext(first, n)))'
    <3>1. f \in 1..NumFiles /\ b \in 1..stream.sizes[f]
      BY <1>4
    <3>2. Before(<<f, b>>, GiveNext(first, n))' <=> Before(<<f, b>>, NextChunk(bBuffer))
      BY <2>1 DEF Before
    <3>3. (\E i \in 1..Len(out) : out[i] = <<f, b>>)' <=> \E i \in 1..(len + 1) : out'[i] = <<f, b>>
      BY ONLY <1>1
    <3>4. (\E i \in 1..(len + 1) : out'[i] = <<f, b>>) <=> position <= f /\ Before(<<f, b>>, NextChunk(bBuffer))
      BY <2>3, <3>1
    <3> QED
      BY ONLY <1>4, <3>2, <3>3, <3>4
  <2> QED
    BY <1>1, <2>1, <2>2, <2>4 DEF ReaderGoesOn
<1>10. MediumFrom(position, out)'
  <2>1. ASSUME NEW i \in 1..(len + 1) PROVE InMedium(out'[i])
    BY <1>1, <1>2, <1>3, <1>5
  <2>2. out'[1] = <<position, 1>>
    BY <1>1, <1>2, <1>3, <1>5
  <2>3. ASSUME NEW i \in 1..len PROVE out'[i + 1] = NextChunk(out'[i])
    <3>1. i \in 1..(len - 1) \/ i = len
      BY ONLY <1>1, <2>3
    <3>2. CASE i \in 1..(len - 1)
      <4>1. i + 1 \in 1..len
        BY ONLY <1>1, <3>2
      <4> QED
        BY <1>1, <1>5, <2>3, <3>2, <4>1
    <3>3. CASE i = len
      <4>1. out # <<>>
        BY <1>1, <2>3, <3>3
      <4> QED
        BY <1>1, <1>2, <2>3, <3>3, <4>1
    <3> QED
      BY <3>1, <3>2, <3>3
  <2> QED
    BY ONLY <1>1, <1>3, <1>4, <2>1, <2>2, <2>3 DEF MediumFrom, InMedium, NextChunk, FirstChunk
<1>11. ASSUME NEW i \in 1..(len + 1), NEW j \in 1..(len + 1), out'[i] = out'[j] PROVE i = j
  <2>1. ASSUME NEW k \in 1..len, out[k] = bBuffer PROVE FALSE
    <3>1. \E l \in 1..len : out[l] = <<bBuffer[1], bBuffer[2]>>
      BY <1>6, <2>1
    <3>2. Before(<<bBuffer[1], bBuffer[2]>>, bBuffer)
      BY <1>2, <1>6, <3>1
    <3> QED
      BY <1>6, <1>8, <3>2
  <2>2. \A k, l \in 1..len : out[k] = out[l] => k = l
    BY DEF len
  <2> QED
    BY ONLY <1>1, <1>3, <1>11, <2>1, <2>2, i \in 1..(len + 1), j \in 1..(len + 1)
<1> QED
    BY <1>1, <1>9, <1>10, <1>11

\* Where the reader and the source are after a step is enough to know that they go on.
LEMMA GoesOn ==
    ASSUME stream' = stream, NEW first \in 1..EndPosition, NEW n \in 0..NumCached, first + n <= EndPosition,
           Goes(first, n)'
    PROVE  RingGoes'
<1>1. EndPosition' = EndPosition
    BY DEF EndPosition, NumFiles
<1> QED
    BY <1>1 DEF RingGoes

\* After a seek the source starts in an empty ring, at the position, unless a slot was claimed
\* that nobody will fill.
LEMMA StartsOver ==
    ASSUME stream \in Streams, stream.hls, RingOK, ConnOK, HLSTypes,
           readIndex = 0, \A i \in Slots : caches[i].data = <<>>,
           (writeIndex = -1 /\ \A i \in Slots : writeReady[i]) \/ (~writeReady[0] /\ mishaps # {}),
           sAt = "idle", pending \in {"STREAM_START", "SEGMENT"}, sendNewSegment, out = <<>>, bAt # "push",
           conn.next = position, position <= NumFiles
    PROVE  Stuck \/ (0 \in 0..NumCached /\ position + 0 <= EndPosition /\ Goes(position, 0))
<1>1. CASE ~writeReady[0] /\ mishaps # {}
  <2>1. caches[0].data = <<>>
    BY FirstSlot
  <2> QED
    BY <1>1, <2>1 DEF Stuck
<1>2. CASE writeIndex = -1 /\ \A i \in Slots : writeReady[i]
  <2>1. /\ position \in 1..EndPosition /\ NumFiles \in Nat /\ EndPosition = NumFiles + 1 /\ NumCached \in Nat \ {0}
    BY SizesFacts, NumCachedAssumption DEF HLSTypes
  <2>2. /\ 0 \in 0..NumCached /\ position + 0 <= EndPosition /\ position + 0 = position /\ 0 < NumCached
        /\ position \in 1..EndPosition /\ 0 - 1 = -1
    BY ONLY <2>1
  <2>3. \A i \in Slots : /\ Dist(i) \in Nat /\ Dist(i) < NumCached /\ (Dist(i) = 0 <=> i = readIndex)
                         /\ Len(caches[i].data) = 0 /\ caches[i].read = 0
    <3>1. ASSUME NEW i \in Slots
          PROVE  /\ Dist(i) \in Nat /\ Dist(i) < NumCached /\ (Dist(i) = 0 <=> i = readIndex)
                 /\ caches[i].read \in Nat /\ caches[i].read <= Len(caches[i].data)
      BY <2>2, GoesFacts
    <3> QED
      BY <3>1
  <2>4. RingHolds(position, 0)
    <3>1. \A i \in Slots : ~(Dist(i) < 0) /\ ~(Dist(i) < 0 - 1)
      BY <2>3
    <3>2. NextSlot = 0 /\ NextSlot \in Slots /\ Dist(NextSlot) = 0
      <4>1. After(-1) = 0
        BY NumCachedAssumption DEF After
      <4>2. NextSlot = 0
        BY <1>2, <4>1 DEF NextSlot, WaitPlaces
      <4> QED
        BY <2>3, <4>2, FirstSlot
    <3> QED
      BY <1>2, <2>2, <2>3, <3>1, <3>2 DEF RingHolds
  <2>5. SourceGoesOn(position + 0, 0)
    <3>1. \A i \in Slots : Dist(i) # 0 - 1
      BY <2>3
    <3> QED
      BY <2>2, <3>1 DEF SourceGoesOn, OpenPlaces, WaitPlaces
  <2>6. ReaderGoesOn(position, 0)
    BY DEF ReaderGoesOn, GiveNext, ReadNext
  <2> QED
    BY <2>2, <2>4, <2>5, <2>6 DEF Goes
<1> QED
    BY <1>1, <1>2

\* The SEGMENT is sent to the demuxer, which has no data of this position yet.
LEMMA SegmentGiven ==
    ASSUME stream \in Streams, RingInv, HLSTypes, SegmentSent, RingGoes, Flowing' => Flowing,
           sendNewSegment, ~sendNewSegment',
           sAt = "hls segment", sAt' = "hls claim", out' = <<>>,
           UNCHANGED <<stream, position, ringVars, bBuffer, bAt, conn, failures>>,
           UNCHANGED <<pending, mishaps, flushing, sSrcresult, sResult>>
    PROVE  RingGoes'
<1> SUFFICES ASSUME Flowing', position' <= NumFiles' PROVE RingGoes'
    BY DEF RingGoes
<1>1. /\ Flowing /\ position <= NumFiles /\ out = <<>> /\ bAt # "push" /\ pending = "SEGMENT"
      /\ Len(out) = 0 /\ out' = <<>> /\ NumFiles' = NumFiles /\ position' = position /\ stream' = stream
    BY EmptySeq DEF SegmentSent, NumFiles, RingInv, SendsPending
<1>2. CASE Stuck
    BY <1>1, <1>2, StuckSame DEF RingGoes
<1>3. CASE \E first \in 1..EndPosition, n \in 0..NumCached : first + n <= EndPosition /\ Goes(first, n)
  <2>1. PICK first \in 1..EndPosition, n \in 0..NumCached : first + n <= EndPosition /\ Goes(first, n)
    BY <1>3
  <2>2. RingHolds(first, n)'
    BY <2>1, RingSame DEF Goes, WaitPlaces
  <2>3. SourceGoesOn(first + n, n)'
    <3>1. SourceGoesOn(first + n, n)
      BY <2>1 DEF Goes
    <3>2. \A i \in Slots : Dist(i)' = Dist(i)
      BY DEF Dist, ringVars
    <3>3. UNCHANGED <<caches, cacheSize, conn, failures, pending>>
      BY DEF ringVars
    <3> QED
      BY ONLY <1>1, <3>1, <3>2, <3>3, sAt = "hls segment", sAt' = "hls claim"
         DEF SourceGoesOn, OpenPlaces, WaitPlaces, EndPosition, NumFiles
  <2>4. ReaderGoesOn(first, n)'
    <3>1. n = 0 /\ GiveNext(first, n) = <<position, 1>>
      BY <1>1, <2>1 DEF Goes, ReaderGoesOn
    <3>2. GiveNext(first, n)' = <<position, 1>>
      BY <1>1, <3>1 DEF GiveNext, ReadNext
    <3>3. ASSUME NEW f \in 1..NumFiles, NEW b \in 1..stream.sizes[f]
          PROVE  ~(position <= f /\ Before(<<f, b>>, <<position, 1>>))
      <4>1. NumFiles \in Nat /\ EndPosition = NumFiles + 1 /\ stream.sizes[f] \in Nat
        BY SizesFacts
      <4>2. position \in 1..EndPosition
        BY DEF HLSTypes
      <4>3. f \in Nat /\ position \in Nat /\ b \in Nat /\ b >= 1
        BY ONLY <4>1, <4>2, f \in 1..NumFiles, b \in 1..stream.sizes[f]
      <4>4. Before(<<f, b>>, <<position, 1>>) <=> f < position \/ (f = position /\ b < 1)
        BY ONLY DEF Before
      <4>5. f < position \/ (f = position /\ b < 1) => ~(position <= f)
        BY ONLY <4>3
      <4> QED
        BY ONLY <4>4, <4>5
    <3>5. \A i \in 1..Len(out') : FALSE
      <4>1. Len(out') = 0
        BY <1>1, EmptySeq
      <4>2. \A i \in Nat : ~(1 <= i /\ i <= 0)
        BY ONLY 0 \in Nat
      <4> QED
        BY ONLY <4>1, <4>2
    <3>6. ASSUME NEW f \in 1..NumFiles', NEW b \in 1..stream'.sizes[f]
          PROVE  ((\E i \in 1..Len(out) : out[i] = <<f, b>>) <=> position <= f /\ Before(<<f, b>>, GiveNext(first, n)))'
      <4>1. f \in 1..NumFiles /\ b \in 1..stream.sizes[f]
        BY <1>1
      <4>2. ~(position <= f /\ Before(<<f, b>>, GiveNext(first, n)))'
        BY <1>1, <3>2, <3>3, <4>1 DEF Before
      <4> QED
        BY <3>5, <4>2
    <3> QED
      BY <1>1, <3>2, <3>6 DEF ReaderGoesOn
  <2> QED
    BY <2>1, <2>2, <2>3, <2>4, GoesOn DEF Goes
<1> QED
    BY <1>1, <1>2, <1>3 DEF RingGoes

\* The source waits for the next slot, which is as far from the reader as it was.
LEMMA WaitGoesOn ==
    ASSUME stream \in Streams, RingGoes, Flowing' => Flowing,
           sAt \in {"hls claim", "hls woken"}, sAt' = "hls full", writeIndex' = NextSlot, pending' = "SEGMENT",
           UNCHANGED <<stream, position, caches, cacheSize, writeReady, readIndex, out, bBuffer>>,
           UNCHANGED <<conn, failures, pending>>, sendNewSegment' <=> sendNewSegment,
           mishaps \subseteq mishaps', bAt' = "push" <=> bAt = "push"
    PROVE  RingGoes'
<1> SUFFICES ASSUME Flowing', position' <= NumFiles' PROVE RingGoes'
    BY DEF RingGoes
<1>1. Flowing /\ position <= NumFiles
    BY DEF NumFiles
<1>2. CASE Stuck
    BY <1>2 DEF Stuck, RingGoes
<1>3. CASE \E first \in 1..EndPosition, n \in 0..NumCached : first + n <= EndPosition /\ Goes(first, n)
  <2>1. PICK first \in 1..EndPosition, n \in 0..NumCached : first + n <= EndPosition /\ Goes(first, n)
    BY <1>3
  <2>2. RingHolds(first, n)'
    <3>1. NextSlot' = NextSlot
      BY DEF NextSlot, WaitPlaces
    <3>2. RingHolds(first, n)
      BY <2>1 DEF Goes
    <3> QED
      BY <3>1, <3>2 DEF RingHolds, Holds, Dist, NumFiles
  <2>3. SourceGoesOn(first + n, n)'
    <3>1. SourceGoesOn(first + n, n)
      BY <2>1 DEF Goes
    <3>2. \A i \in Slots : Dist(i)' = Dist(i)
      BY DEF Dist
    <3>3. EndPosition' = EndPosition /\ sAt \in OpenPlaces /\ sAt' \in OpenPlaces /\ sAt' # "none"
      BY DEF EndPosition, NumFiles, OpenPlaces, WaitPlaces
    <3> QED
      BY <3>1, <3>2, <3>3 DEF SourceGoesOn
  <2>4. ReaderGoesOn(first, n)'
    BY <2>1, ReaderSame DEF Goes
  <2> QED
    BY <2>1, <2>2, <2>3, <2>4, GoesOn DEF Goes
<1> QED
    BY <1>1, <1>2, <1>3 DEF RingGoes

\* The source takes the next slot, unless the reader waits for ever; then it takes another
\* slot than the one the reader waits for.
LEMMA ClaimGoesOn ==
    ASSUME stream \in Streams, RingOK, ConnOK, SendsPending, RingGoes, Flowing' => Flowing,
           sAt \in {"hls claim", "hls woken"}, ~sendNewSegment, NextSlot \in Slots, writeReady[NextSlot],
           Prepare(NextSlot), writeIndex' = NextSlot, sAt' = "merge", sResult' = "OK", pending' = "UNKNOWN",
           UNCHANGED <<stream, conn, failures, position, readIndex, out, bBuffer>>, sendNewSegment' <=> sendNewSegment,
           mishaps \subseteq mishaps', bAt' = "push" <=> bAt = "push"
    PROVE  RingGoes'
<1> SUFFICES ASSUME Flowing', position' <= NumFiles' PROVE RingGoes'
    BY DEF RingGoes
<1>1. Flowing /\ position <= NumFiles
    BY DEF NumFiles
<1>2. CASE Stuck
  <2>1. readIndex \in Slots /\ readIndex # NextSlot
    BY <1>2 DEF Stuck, RingOK
  <2>2. caches'[readIndex] = caches[readIndex] /\ writeReady'[readIndex] = writeReady[readIndex]
    BY <2>1, PrepareFacts
  <2> QED
    BY <1>2, <2>1, <2>2 DEF Stuck, RingGoes
<1>3. CASE \E first \in 1..EndPosition, n \in 0..NumCached : first + n <= EndPosition /\ Goes(first, n)
  <2>1. PICK first \in 1..EndPosition, n \in 0..NumCached : first + n <= EndPosition /\ Goes(first, n)
    BY <1>3
  <2>2. n + 1 \in 0..NumCached /\ first + (n + 1) <= EndPosition /\ Goes(first, n + 1)'
    BY <2>1, SlotClaimed
  <2> QED
    BY <2>2, GoesOn
<1> QED
    BY <1>1, <1>2, <1>3 DEF RingGoes

\* A chunk goes from the ring to the reader, with the last of a file the slot.
LEMMA ReadGoesOn ==
    ASSUME stream \in Streams, RingOK, RingGoes, Flowing' => Flowing, HLSRead
    PROVE  RingGoes'
<1> USE DEF connVars, appVars, downVars
<1> SUFFICES ASSUME Flowing', position' <= NumFiles' PROVE RingGoes'
    BY DEF RingGoes
<1>1. /\ Flowing /\ position <= NumFiles /\ cache_has_enough_data(caches[readIndex]) /\ bAt # "push"
      /\ caches' = [caches EXCEPT ![readIndex] = cache_read_buffer(caches[readIndex])]
      /\ bAt' = "push" /\ bBuffer' = NextRead(caches[readIndex]) /\ stream' = stream
    BY DEF HLSRead, ReaderRuns, NumFiles
<1>2. /\ UNCHANGED <<stream, conn, failures, pending, flushing, sSrcresult, sResult, position, out>>
      /\ UNCHANGED <<cacheSize, writeIndex>> /\ (sendNewSegment' <=> sendNewSegment)
    BY DEF HLSRead
<1>3. ~Stuck
  <2>1. caches[readIndex].read \in Nat /\ caches[readIndex].read < Len(caches[readIndex].data)
    BY <1>1 DEF RingOK, CacheFile, cache_has_enough_data
  <2>2. caches[readIndex].data # <<>>
    <3>1. caches[readIndex].data = <<>> => Len(caches[readIndex].data) = 0
      BY EmptySeq
    <3> QED
      BY ONLY <2>1, <3>1
  <2> QED
    BY <2>2 DEF Stuck
<1>4. PICK first \in 1..EndPosition, n \in 0..NumCached : first + n <= EndPosition /\ Goes(first, n)
    BY <1>1, <1>3 DEF RingGoes
<1>5. CASE SlotDone(cache_read_buffer(caches[readIndex]))
  <2>1. writeReady' = [writeReady EXCEPT ![readIndex] = TRUE] /\ readIndex' = After(readIndex) /\ SignalDel
    BY <1>5 DEF HLSRead
  <2>2. /\ n - 1 \in 0..NumCached /\ first + 1 \in 1..EndPosition /\ (first + 1) + (n - 1) <= EndPosition
        /\ Goes(first + 1, n - 1)'
    BY <1>1, <1>2, <1>4, <1>5, <2>1, SlotRead
  <2> QED
    BY <1>1, <2>2, GoesOn
<1>6. CASE ~SlotDone(cache_read_buffer(caches[readIndex]))
  <2>1. UNCHANGED <<writeReady, readIndex, sAt>>
    BY <1>6 DEF HLSRead
  <2>2. Goes(first, n)'
    BY <1>1, <1>2, <1>4, <1>6, <2>1, ChunkRead
  <2> QED
    BY <1>1, <1>4, <2>2, GoesOn
<1> QED
    BY <1>5, <1>6

\* The demuxer takes the chunk that the reader has, and has it once.
LEMMA PushGoesOn ==
    ASSUME stream \in Streams, stream.hls, HLSTypes, PhasesKnown, SegmentSent, RingGoes, HLSGiven, HLSPush,
           Flowing, position <= NumFiles
    PROVE  /\ RingGoes'
           /\ out' = Append(out, bBuffer) /\ dSegment = position /\ position \in 1..NumFiles
           /\ MediumFrom(position, out)' /\ (\A i, j \in 1..Len(out) : out[i] = out[j] => i = j)'
<1> USE DEF sourceVars, connVars, loopVars, appVars, hlsVars
<1>1. /\ bAt = "push" /\ bAt' # "push" /\ UNCHANGED <<stream, position, ringVars, dSegment, conn, failures>>
      /\ UNCHANGED <<pending, sAt, sSrcresult, sResult, flushing, caches, cacheSize, readIndex>>
      /\ (sendNewSegment' <=> sendNewSegment) /\ ~sendNewSegment /\ ~sendNewSegment'
      /\ out' = Append(out, bBuffer) /\ dSegment = position
    BY DEF HLSPush, PhasesKnown, SegmentSent, PushBufferDown, downVars, ringVars
<1>2. position \in 1..NumFiles /\ bBuffer \in Nat \X Nat /\ out \in Seq(Nat \X Nat)
    BY <1>1, SizesFacts DEF HLSTypes
<1>3. MediumFrom(position, out) /\ \A i, j \in 1..Len(out) : out[i] = out[j] => i = j
    BY <1>1, <1>2 DEF HLSGiven
<1>4. PICK first \in 1..EndPosition, n \in 0..NumCached : first + n <= EndPosition /\ Goes(first, n)
    BY <1>1 DEF RingGoes, Stuck
<1>5. /\ ReaderGoesOn(first, n)'
      /\ MediumFrom(position, out)' /\ (\A i, j \in 1..Len(out) : out[i] = out[j] => i = j)'
    BY <1>1, <1>2, <1>3, <1>4, ChunkGiven
<1>6. RingHolds(first, n)'
    BY <1>1, <1>4, RingSame DEF Goes
<1>7. SourceGoesOn(first + n, n)'
    BY <1>1, <1>4, SourceSame DEF Goes
<1> QED
    BY <1>1, <1>2, <1>4, <1>5, <1>6, <1>7, GoesOn DEF Goes

-----------------------------------------------------------------------------
(* What an HLS stream gives to the demuxer: its steps. *)

\* A chunk is in the hand of the reader while it is pushed.
LEMMA HLSTypesStep ==
    ASSUME stream \in Streams, stream.hls, PlacesOK, RingOK, ConnOK, HLSTypes, RingNext
    PROVE  HLSTypes'
<1> USE DEF connVars, loopVars, appVars, bufferVars, readerVars, downVars, hlsVars, ringVars, sourceVars
<1>1. CASE LoopBegins /\ UNCHANGED <<bufferVars, hlsVars>>
    BY <1>1 DEF HLSTypes, EndPosition, NumFiles, LoopBegins, NextEvent, Ends
<1>2. CASE PushStreamStart /\ UNCHANGED <<bufferVars, hlsVars>>
    BY <1>2 DEF HLSTypes, EndPosition, NumFiles, PushStreamStart, Ends
<1>3. CASE GetStreamSize /\ UNCHANGED <<bufferVars, hlsVars>>
    BY <1>3 DEF HLSTypes, EndPosition, NumFiles, GetStreamSize
<1>4. CASE Sized /\ UNCHANGED <<bufferVars, hlsVars>>
    BY <1>4 DEF HLSTypes, EndPosition, NumFiles, Sized, WrongState, Ends
<1>5. CASE SegmentRefused /\ UNCHANGED <<bufferVars, hlsVars>>
    BY <1>5 DEF HLSTypes, EndPosition, NumFiles, SegmentRefused, SegmentPushed, Ends
<1>6. CASE ReadNextBlock /\ UNCHANGED <<bufferVars, hlsVars>>
    BY <1>6 DEF HLSTypes, EndPosition, NumFiles, ReadNextBlock, NextEvent, Ends
<1>7. CASE BufferRefused /\ UNCHANGED <<bufferVars, hlsVars>>
    BY <1>7 DEF HLSTypes, EndPosition, NumFiles, BufferRefused, BufferPushed, Ends
<1>8. CASE EosRefused /\ UNCHANGED <<bufferVars, hlsVars>>
    BY <1>8 DEF HLSTypes, EndPosition, NumFiles, EosRefused, Ends
<1>9. CASE Merge /\ UNCHANGED <<bufferVars, hlsVars>>
    BY <1>9 DEF HLSTypes, EndPosition, NumFiles, Merge, Merged
<1>10. CASE HLSSegment
    BY <1>10 DEF HLSTypes, EndPosition, NumFiles, HLSSegment, SegmentPushed, Ends
<1>11. CASE HLSRestart
    BY <1>11 DEF HLSTypes, EndPosition, NumFiles, HLSRestart
<1>12. CASE HLSSendSegment
    BY <1>12, NothingGiven DEF HLSTypes, EndPosition, NumFiles, HLSSendSegment, PushSegmentDown
<1>13. CASE HLSClaim
    BY <1>13 DEF HLSTypes, EndPosition, NumFiles, HLSClaim, MustWait, Prepare, SegmentPushed, Ends
<1>14. CASE HLSFull
    BY <1>14 DEF HLSTypes, EndPosition, NumFiles, HLSFull
<1>15. CASE HLSWoken
    BY <1>15 DEF HLSTypes, EndPosition, NumFiles, HLSWoken, MustWait, Prepare, SegmentPushed, Ends
<1>16. CASE HLSChain
    BY <1>16 DEF HLSTypes, EndPosition, NumFiles, HLSChain, BufferPushed, Ends
<1>17. CASE HLSWrite
    BY <1>17 DEF HLSTypes, EndPosition, NumFiles, HLSWrite, MayWrite, BufferPushed, Ends, SignalAdd
<1>18. CASE HLSEos
    BY <1>18 DEF HLSTypes, EndPosition, NumFiles, HLSEos, SignalAdd, Ends
<1>19. CASE HLSRead
  <2>1. caches[readIndex] \in CacheFile
    BY DEF RingOK
  <2>2. NextRead(caches[readIndex]) \in Nat \X Nat
    <3>1. /\ caches[readIndex].data \in Seq(Nat \X Nat) /\ caches[readIndex].read \in Nat
          /\ caches[readIndex].read < Len(caches[readIndex].data)
      BY <1>19, <2>1 DEF HLSRead, cache_has_enough_data, CacheFile
    <3> QED
      BY <3>1, LenProperties, ElementOfSeq DEF NextRead
  <2> QED
    BY <1>19, <2>2 DEF HLSTypes, EndPosition, NumFiles, HLSRead
<1>20. CASE HLSNothing
    BY <1>20 DEF HLSTypes, EndPosition, NumFiles, HLSNothing, ReaderRuns, PushEosDown
<1>21. CASE HLSStopped
    BY <1>21 DEF HLSTypes, EndPosition, NumFiles, HLSStopped, ReaderRuns
<1>22. CASE HLSPush
  <2>1. bBuffer \in Nat \X Nat /\ Append(out, bBuffer) \in Seq(Nat \X Nat)
    BY <1>22, AppendProperties DEF HLSTypes, HLSPush
  <2> QED
    BY <1>22, <2>1 DEF HLSTypes, EndPosition, NumFiles, HLSPush, PushBufferDown
<1>23. CASE HLSMerge
    BY <1>23 DEF HLSTypes, EndPosition, NumFiles, HLSMerge, Merged
<1>24. CASE HLSFailed
    BY <1>24 DEF HLSTypes, EndPosition, NumFiles, HLSFailed
<1>25. CASE HLSPause
    BY <1>25 DEF HLSTypes, EndPosition, NumFiles, HLSPause
<1>26. CASE PushFlushStart /\ UNCHANGED <<bufferVars, hlsVars>>
    BY <1>26 DEF HLSTypes, EndPosition, NumFiles, PushFlushStart
<1>27. CASE MarkFlushing /\ UNCHANGED <<bufferVars, hlsVars>>
    BY <1>27 DEF HLSTypes, EndPosition, NumFiles, MarkFlushing
<1>28. CASE SeekData /\ UNCHANGED <<bufferVars, hlsVars>>
  <2>1. target \in 1..EndPosition /\ EndPosition' = EndPosition
    BY <1>28 DEF ConnOK, SeekData, EndPosition, NumFiles
  <2> QED
    BY <1>28, <2>1 DEF HLSTypes, SeekData
<1>29. CASE PushFlushStop /\ UNCHANGED <<bufferVars, hlsVars>>
    BY <1>29 DEF HLSTypes, EndPosition, NumFiles, PushFlushStop
<1>30. CASE StartSource /\ UNCHANGED <<bufferVars, hlsVars>>
    BY <1>30 DEF HLSTypes, EndPosition, NumFiles, StartSource
<1>31. CASE StopSource /\ UNCHANGED <<bufferVars, hlsVars>>
    BY <1>31 DEF HLSTypes, EndPosition, NumFiles, StopSource
<1>32. CASE JoinSource /\ UNCHANGED <<bufferVars, hlsVars>>
    BY <1>32 DEF HLSTypes, EndPosition, NumFiles, JoinSource, SourceIdle
<1>33. CASE HLSFlushFlag
    BY <1>33 DEF HLSTypes, EndPosition, NumFiles, HLSFlushFlag
<1>34. CASE HLSFlushDown
    BY <1>34 DEF HLSTypes, EndPosition, NumFiles, HLSFlushDown, FlushStartDown
<1>35. CASE HLSFlushData
    BY <1>35 DEF HLSTypes, EndPosition, NumFiles, HLSFlushData, FlushData, SignalAdd, SignalDel
<1>36. CASE HLSPauseReader
    BY <1>36 DEF HLSTypes, EndPosition, NumFiles, HLSPauseReader
<1>37. CASE HLSReaderPaused
    BY <1>37 DEF HLSTypes, EndPosition, NumFiles, HLSReaderPaused, ReaderIdle
<1>38. CASE HLSFlushStopDown
    BY <1>38, NothingGiven DEF HLSTypes, EndPosition, NumFiles, HLSFlushStopDown, FlushStopDown
<1>39. CASE HLSFlushStop
    BY <1>39 DEF HLSTypes, EndPosition, NumFiles, HLSFlushStop
<1>40. CASE HLSDeactivate
    BY <1>40 DEF HLSTypes, EndPosition, NumFiles, HLSDeactivate, SignalAdd, SignalDel
<1>41. CASE HLSJoin
    BY <1>41 DEF HLSTypes, EndPosition, NumFiles, HLSJoin, ReaderIdle
<1>42. CASE HLSSinkJoin
    BY <1>42 DEF HLSTypes, EndPosition, NumFiles, HLSSinkJoin, InHandler
<1>43. CASE \E to \in Positions : HLSSeek(to)
    BY <1>43 DEF HLSTypes, EndPosition, NumFiles, HLSSeek
<1>44. CASE HLSClose
    BY <1>44 DEF HLSTypes, EndPosition, NumFiles, HLSClose, FlushData, SignalAdd, SignalDel
<1>45. CASE HLSSpurious
    BY <1>45 DEF HLSTypes, EndPosition, NumFiles, HLSSpurious
<1>46. CASE SpuriousWakeUp /\ UNCHANGED hlsVars
    BY <1>46 DEF HLSTypes, EndPosition, NumFiles, SpuriousWakeUp
<1>47. CASE UNCHANGED <<sourceVars, bufferVars, hlsVars>>
    BY <1>47 DEF HLSTypes, EndPosition, NumFiles
<1> QED
    BY <1>1, <1>2, <1>3, <1>4, <1>5, <1>6, <1>7, <1>8, <1>9, <1>10, <1>11, <1>12, <1>13, <1>14, <1>15, <1>16,
       <1>17, <1>18, <1>19, <1>20, <1>21, <1>22, <1>23, <1>24, <1>25, <1>26, <1>27, <1>28, <1>29, <1>30, <1>31,
       <1>32, <1>33, <1>34, <1>35, <1>36, <1>37, <1>38, <1>39, <1>40, <1>41, <1>42, <1>43, <1>44, <1>45, <1>46,
       <1>47 DEF RingNext, SourceSteps, SeekSteps, HLSSourceSteps, HLSReaderSteps, HLSAppSteps

\* The pads and the demuxer flush and stop flushing as the application gets on with a seek.
LEMMA PhasesKnownStep ==
    ASSUME stream.hls, PlacesOK, stream \in Streams, ConnOK, SoughtWaits, PhasesKnown, RingNext
    PROVE  PhasesKnown'
<1> USE DEF connVars, loopVars, appVars, bufferVars, readerVars, downVars, hlsVars, ringVars, sourceVars
<1>1. CASE LoopBegins /\ UNCHANGED <<bufferVars, hlsVars>>
    BY <1>1 DEF PhasesKnown, PlacesOK, AppPlaces, Flowing, EndPosition, NumFiles, SoughtWaits, LoopBegins,
       NextEvent, Ends
<1>2. CASE PushStreamStart /\ UNCHANGED <<bufferVars, hlsVars>>
    BY <1>2 DEF PhasesKnown, PlacesOK, AppPlaces, Flowing, EndPosition, NumFiles, SoughtWaits, PushStreamStart,
       Ends
<1>3. CASE GetStreamSize /\ UNCHANGED <<bufferVars, hlsVars>>
    BY <1>3 DEF PhasesKnown, PlacesOK, AppPlaces, Flowing, EndPosition, NumFiles, SoughtWaits, GetStreamSize
<1>4. CASE Sized /\ UNCHANGED <<bufferVars, hlsVars>>
    BY <1>4 DEF PhasesKnown, PlacesOK, AppPlaces, Flowing, EndPosition, NumFiles, SoughtWaits, Sized,
       WrongState, Ends
<1>5. CASE SegmentRefused /\ UNCHANGED <<bufferVars, hlsVars>>
    BY <1>5 DEF PhasesKnown, PlacesOK, AppPlaces, Flowing, EndPosition, NumFiles, SoughtWaits, SegmentRefused,
       SegmentPushed, Ends
<1>6. CASE ReadNextBlock /\ UNCHANGED <<bufferVars, hlsVars>>
    BY <1>6 DEF PhasesKnown, PlacesOK, AppPlaces, Flowing, EndPosition, NumFiles, SoughtWaits, ReadNextBlock,
       NextEvent, Ends
<1>7. CASE BufferRefused /\ UNCHANGED <<bufferVars, hlsVars>>
    BY <1>7 DEF PhasesKnown, PlacesOK, AppPlaces, Flowing, EndPosition, NumFiles, SoughtWaits, BufferRefused,
       BufferPushed, Ends
<1>8. CASE EosRefused /\ UNCHANGED <<bufferVars, hlsVars>>
    BY <1>8 DEF PhasesKnown, PlacesOK, AppPlaces, Flowing, EndPosition, NumFiles, SoughtWaits, EosRefused, Ends
<1>9. CASE Merge /\ UNCHANGED <<bufferVars, hlsVars>>
    BY <1>9 DEF PhasesKnown, PlacesOK, AppPlaces, Flowing, EndPosition, NumFiles, SoughtWaits, Merge, Merged
<1>10. CASE HLSSegment
    BY <1>10 DEF PhasesKnown, PlacesOK, AppPlaces, Flowing, EndPosition, NumFiles, SoughtWaits, HLSSegment,
       SegmentPushed, Ends
<1>11. CASE HLSRestart
    BY <1>11 DEF PhasesKnown, PlacesOK, AppPlaces, Flowing, EndPosition, NumFiles, SoughtWaits, HLSRestart
<1>12. CASE HLSSendSegment
    BY <1>12 DEF PhasesKnown, PlacesOK, AppPlaces, Flowing, EndPosition, NumFiles, SoughtWaits, HLSSendSegment,
       PushSegmentDown
<1>13. CASE HLSClaim
    BY <1>13 DEF PhasesKnown, PlacesOK, AppPlaces, Flowing, EndPosition, NumFiles, SoughtWaits, HLSClaim,
       MustWait, Prepare, SegmentPushed, Ends
<1>14. CASE HLSFull
    BY <1>14 DEF PhasesKnown, PlacesOK, AppPlaces, Flowing, EndPosition, NumFiles, SoughtWaits, HLSFull
<1>15. CASE HLSWoken
    BY <1>15 DEF PhasesKnown, PlacesOK, AppPlaces, Flowing, EndPosition, NumFiles, SoughtWaits, HLSWoken,
       MustWait, Prepare, SegmentPushed, Ends
<1>16. CASE HLSChain
    BY <1>16 DEF PhasesKnown, PlacesOK, AppPlaces, Flowing, EndPosition, NumFiles, SoughtWaits, HLSChain,
       BufferPushed, Ends
<1>17. CASE HLSWrite
    BY <1>17 DEF PhasesKnown, PlacesOK, AppPlaces, Flowing, EndPosition, NumFiles, SoughtWaits, HLSWrite,
       MayWrite, BufferPushed, Ends, SignalAdd
<1>18. CASE HLSEos
    BY <1>18 DEF PhasesKnown, PlacesOK, AppPlaces, Flowing, EndPosition, NumFiles, SoughtWaits, HLSEos,
       SignalAdd, Ends
<1>19. CASE HLSRead
    BY <1>19 DEF PhasesKnown, PlacesOK, AppPlaces, Flowing, EndPosition, NumFiles, SoughtWaits, HLSRead,
       ReaderRuns, SignalDel
<1>20. CASE HLSNothing
    BY <1>20 DEF PhasesKnown, PlacesOK, AppPlaces, Flowing, EndPosition, NumFiles, SoughtWaits, HLSNothing,
       ReaderRuns, PushEosDown
<1>21. CASE HLSStopped
    BY <1>21 DEF PhasesKnown, PlacesOK, AppPlaces, Flowing, EndPosition, NumFiles, SoughtWaits, HLSStopped,
       ReaderRuns
<1>22. CASE HLSPush
    BY <1>22 DEF PhasesKnown, PlacesOK, AppPlaces, Flowing, EndPosition, NumFiles, SoughtWaits, HLSPush,
       PushBufferDown
<1>23. CASE HLSMerge
    BY <1>23 DEF PhasesKnown, PlacesOK, AppPlaces, Flowing, EndPosition, NumFiles, SoughtWaits, HLSMerge,
       Merged
<1>24. CASE HLSFailed
    BY <1>24 DEF PhasesKnown, PlacesOK, AppPlaces, Flowing, EndPosition, NumFiles, SoughtWaits, HLSFailed
<1>25. CASE HLSPause
    BY <1>25 DEF PhasesKnown, PlacesOK, AppPlaces, Flowing, EndPosition, NumFiles, SoughtWaits, HLSPause
<1>26. CASE PushFlushStart /\ UNCHANGED <<bufferVars, hlsVars>>
    BY <1>26 DEF PhasesKnown, PlacesOK, AppPlaces, Flowing, EndPosition, NumFiles, SoughtWaits, PushFlushStart
<1>27. CASE MarkFlushing /\ UNCHANGED <<bufferVars, hlsVars>>
    BY <1>27 DEF PhasesKnown, PlacesOK, AppPlaces, Flowing, EndPosition, NumFiles, SoughtWaits, MarkFlushing
<1>28. CASE SeekData /\ UNCHANGED <<bufferVars, hlsVars>>
  <2>1. app = "seek data" /\ app' = "flush stop" /\ position' = target /\ target' = target /\ flushing' = flushing
    BY <1>28 DEF SeekData
  <2>2. conn' = Sought(target) /\ NumFiles' = NumFiles /\ (target <= NumFiles => target # EndPosition)
    <3>1. target \in Int /\ NumFiles \in Nat /\ EndPosition = NumFiles + 1
      BY SizesFacts DEF ConnOK
    <3>2. target <= NumFiles => target # EndPosition
      BY ONLY <3>1
    <3> QED
      BY <1>28, <2>1, <3>2 DEF SeekData, NumFiles
  <2>3. target <= NumFiles => conn'.next = target
    BY <2>2 DEF Sought
  <2> QED
    BY <1>28, <2>1, <2>2, <2>3 DEF PhasesKnown, Flowing
<1>29. CASE PushFlushStop /\ UNCHANGED <<bufferVars, hlsVars>>
    BY <1>29 DEF PhasesKnown, PlacesOK, AppPlaces, Flowing, EndPosition, NumFiles, SoughtWaits, PushFlushStop
<1>30. CASE StartSource /\ UNCHANGED <<bufferVars, hlsVars>>
    BY <1>30 DEF PhasesKnown, PlacesOK, AppPlaces, Flowing, EndPosition, NumFiles, SoughtWaits, StartSource
<1>31. CASE StopSource /\ UNCHANGED <<bufferVars, hlsVars>>
    BY <1>31 DEF PhasesKnown, PlacesOK, AppPlaces, Flowing, EndPosition, NumFiles, SoughtWaits, StopSource
<1>32. CASE JoinSource /\ UNCHANGED <<bufferVars, hlsVars>>
    BY <1>32 DEF PhasesKnown, PlacesOK, AppPlaces, Flowing, EndPosition, NumFiles, SoughtWaits, JoinSource,
       SourceIdle
<1>33. CASE HLSFlushFlag
    BY <1>33 DEF PhasesKnown, PlacesOK, AppPlaces, Flowing, EndPosition, NumFiles, SoughtWaits, HLSFlushFlag
<1>34. CASE HLSFlushDown
    BY <1>34 DEF PhasesKnown, PlacesOK, AppPlaces, Flowing, EndPosition, NumFiles, SoughtWaits, HLSFlushDown,
       FlushStartDown
<1>35. CASE HLSFlushData
    BY <1>35 DEF PhasesKnown, PlacesOK, AppPlaces, Flowing, EndPosition, NumFiles, SoughtWaits, HLSFlushData,
       FlushData, SignalAdd, SignalDel
<1>36. CASE HLSPauseReader
    BY <1>36 DEF PhasesKnown, PlacesOK, AppPlaces, Flowing, EndPosition, NumFiles, SoughtWaits, HLSPauseReader
<1>37. CASE HLSReaderPaused
    BY <1>37 DEF PhasesKnown, PlacesOK, AppPlaces, Flowing, EndPosition, NumFiles, SoughtWaits,
       HLSReaderPaused, ReaderIdle
<1>38. CASE HLSFlushStopDown
    BY <1>38 DEF PhasesKnown, PlacesOK, AppPlaces, Flowing, EndPosition, NumFiles, SoughtWaits,
       HLSFlushStopDown, FlushStopDown
<1>39. CASE HLSFlushStop
    BY <1>39 DEF PhasesKnown, PlacesOK, AppPlaces, Flowing, EndPosition, NumFiles, SoughtWaits, HLSFlushStop
<1>40. CASE HLSDeactivate
    BY <1>40 DEF PhasesKnown, PlacesOK, AppPlaces, Flowing, EndPosition, NumFiles, SoughtWaits, HLSDeactivate,
       SignalAdd, SignalDel
<1>41. CASE HLSJoin
    BY <1>41 DEF PhasesKnown, PlacesOK, AppPlaces, Flowing, EndPosition, NumFiles, SoughtWaits, HLSJoin,
       ReaderIdle
<1>42. CASE HLSSinkJoin
    BY <1>42 DEF PhasesKnown, PlacesOK, AppPlaces, Flowing, EndPosition, NumFiles, SoughtWaits, HLSSinkJoin,
       InHandler
<1>43. CASE \E to \in Positions : HLSSeek(to)
  <2>1. PICK to \in Positions : HLSSeek(to)
    BY <1>43
  <2> QED
    BY <2>1 DEF PhasesKnown, PlacesOK, AppPlaces, Flowing, EndPosition, NumFiles, SoughtWaits, HLSSeek
<1>44. CASE HLSClose
    BY <1>44 DEF PhasesKnown, PlacesOK, AppPlaces, Flowing, EndPosition, NumFiles, SoughtWaits, HLSClose,
       FlushData, SignalAdd, SignalDel
<1>45. CASE HLSSpurious
    BY <1>45 DEF PhasesKnown, PlacesOK, AppPlaces, Flowing, EndPosition, NumFiles, SoughtWaits, HLSSpurious
<1>46. CASE SpuriousWakeUp /\ UNCHANGED hlsVars
    BY <1>46 DEF PhasesKnown, PlacesOK, AppPlaces, Flowing, EndPosition, NumFiles, SoughtWaits, SpuriousWakeUp
<1>47. CASE UNCHANGED <<sourceVars, bufferVars, hlsVars>>
    BY <1>47 DEF PhasesKnown, PlacesOK, AppPlaces, Flowing, EndPosition, NumFiles, SoughtWaits
<1> QED
    BY <1>1, <1>2, <1>3, <1>4, <1>5, <1>6, <1>7, <1>8, <1>9, <1>10, <1>11, <1>12, <1>13, <1>14, <1>15, <1>16,
       <1>17, <1>18, <1>19, <1>20, <1>21, <1>22, <1>23, <1>24, <1>25, <1>26, <1>27, <1>28, <1>29, <1>30, <1>31,
       <1>32, <1>33, <1>34, <1>35, <1>36, <1>37, <1>38, <1>39, <1>40, <1>41, <1>42, <1>43, <1>44, <1>45, <1>46,
       <1>47 DEF RingNext, SourceSteps, SeekSteps, HLSSourceSteps, HLSReaderSteps, HLSAppSteps

\* What stops a thread is known.
LEMMA StopsKnownStep ==
    ASSUME stream.hls, PlacesOK, RingOK, SendsPending, SoughtWaits, PhasesKnown, SegmentSent, RingFlushed, StopsKnown,
           RingNext
    PROVE  StopsKnown'
<1> USE DEF connVars, loopVars, appVars, bufferVars, readerVars, downVars, hlsVars, ringVars, sourceVars
<1>1. CASE LoopBegins /\ UNCHANGED <<bufferVars, hlsVars>>
    BY <1>1 DEF StopsKnown, PlacesOK, AppPlaces, Events, Flowing, RestPlaces, WaitPlaces, SendsPending,
       SoughtWaits, PhasesKnown, SegmentSent, LoopBegins, NextEvent, Ends
<1>2. CASE PushStreamStart /\ UNCHANGED <<bufferVars, hlsVars>>
    BY <1>2 DEF StopsKnown, PlacesOK, AppPlaces, Events, Flowing, RestPlaces, WaitPlaces, SendsPending,
       SoughtWaits, PhasesKnown, SegmentSent, PushStreamStart, Ends
<1>3. CASE GetStreamSize /\ UNCHANGED <<bufferVars, hlsVars>>
    BY <1>3 DEF StopsKnown, PlacesOK, AppPlaces, Events, Flowing, RestPlaces, WaitPlaces, SendsPending,
       SoughtWaits, PhasesKnown, SegmentSent, GetStreamSize
<1>4. CASE Sized /\ UNCHANGED <<bufferVars, hlsVars>>
    BY <1>4 DEF StopsKnown, PlacesOK, AppPlaces, Events, Flowing, RestPlaces, WaitPlaces, SendsPending,
       SoughtWaits, PhasesKnown, SegmentSent, Sized, WrongState, Ends
<1>5. CASE SegmentRefused /\ UNCHANGED <<bufferVars, hlsVars>>
    BY <1>5 DEF StopsKnown, PlacesOK, AppPlaces, Events, Flowing, RestPlaces, WaitPlaces, SendsPending,
       SoughtWaits, PhasesKnown, SegmentSent, SegmentRefused, SegmentPushed, Ends
<1>6. CASE ReadNextBlock /\ UNCHANGED <<bufferVars, hlsVars>>
    BY <1>6 DEF StopsKnown, PlacesOK, AppPlaces, Events, Flowing, RestPlaces, WaitPlaces, SendsPending,
       SoughtWaits, PhasesKnown, SegmentSent, ReadNextBlock, NextEvent, Ends
<1>7. CASE BufferRefused /\ UNCHANGED <<bufferVars, hlsVars>>
    BY <1>7 DEF StopsKnown, PlacesOK, AppPlaces, Events, Flowing, RestPlaces, WaitPlaces, SendsPending,
       SoughtWaits, PhasesKnown, SegmentSent, BufferRefused, BufferPushed, Ends
<1>8. CASE EosRefused /\ UNCHANGED <<bufferVars, hlsVars>>
    BY <1>8 DEF StopsKnown, PlacesOK, AppPlaces, Events, Flowing, RestPlaces, WaitPlaces, SendsPending,
       SoughtWaits, PhasesKnown, SegmentSent, EosRefused, Ends
<1>9. CASE Merge /\ UNCHANGED <<bufferVars, hlsVars>>
    BY <1>9 DEF StopsKnown, PlacesOK, AppPlaces, Events, Flowing, RestPlaces, WaitPlaces, SendsPending,
       SoughtWaits, PhasesKnown, SegmentSent, Merge, Merged
<1>10. CASE HLSSegment
    BY <1>10 DEF StopsKnown, PlacesOK, AppPlaces, Events, Flowing, RestPlaces, WaitPlaces, SendsPending,
       SoughtWaits, PhasesKnown, SegmentSent, HLSSegment, SegmentPushed, Ends
<1>11. CASE HLSRestart
    BY <1>11 DEF StopsKnown, PlacesOK, AppPlaces, Events, Flowing, RestPlaces, WaitPlaces, SendsPending,
       SoughtWaits, PhasesKnown, SegmentSent, HLSRestart
<1>12. CASE HLSSendSegment
    BY <1>12 DEF StopsKnown, PlacesOK, AppPlaces, Events, Flowing, RestPlaces, WaitPlaces, SendsPending,
       SoughtWaits, PhasesKnown, SegmentSent, HLSSendSegment, PushSegmentDown
<1>13. CASE HLSClaim
    BY <1>13 DEF StopsKnown, PlacesOK, AppPlaces, Events, Flowing, RestPlaces, WaitPlaces, SendsPending,
       SoughtWaits, PhasesKnown, SegmentSent, HLSClaim, MustWait, Prepare, SegmentPushed, Ends
<1>14. CASE HLSFull
    BY <1>14 DEF StopsKnown, PlacesOK, AppPlaces, Events, Flowing, RestPlaces, WaitPlaces, SendsPending,
       SoughtWaits, PhasesKnown, SegmentSent, HLSFull
<1>15. CASE HLSWoken
    BY <1>15 DEF StopsKnown, PlacesOK, AppPlaces, Events, Flowing, RestPlaces, WaitPlaces, SendsPending,
       SoughtWaits, PhasesKnown, SegmentSent, HLSWoken, MustWait, Prepare, SegmentPushed, Ends
<1>16. CASE HLSChain
    BY <1>16 DEF StopsKnown, PlacesOK, AppPlaces, Events, Flowing, RestPlaces, WaitPlaces, SendsPending,
       SoughtWaits, PhasesKnown, SegmentSent, HLSChain, BufferPushed, Ends
<1>17. CASE HLSWrite
    BY <1>17 DEF StopsKnown, PlacesOK, AppPlaces, Events, Flowing, RestPlaces, WaitPlaces, SendsPending,
       SoughtWaits, PhasesKnown, SegmentSent, HLSWrite, MayWrite, BufferPushed, Ends, SignalAdd
<1>18. CASE HLSEos
    BY <1>18 DEF StopsKnown, PlacesOK, AppPlaces, Events, Flowing, RestPlaces, WaitPlaces, SendsPending,
       SoughtWaits, PhasesKnown, SegmentSent, HLSEos, SignalAdd, Ends
<1>19. CASE HLSRead
    BY <1>19, NoReadWhenFlushed DEF StopsKnown, PlacesOK, AppPlaces, Events, Flowing, RestPlaces, WaitPlaces,
       SendsPending, SoughtWaits, PhasesKnown, SegmentSent, HLSRead, ReaderRuns, SignalDel, Flushed
<1>20. CASE HLSNothing
    BY <1>20 DEF StopsKnown, PlacesOK, AppPlaces, Events, Flowing, RestPlaces, WaitPlaces, SendsPending,
       SoughtWaits, PhasesKnown, SegmentSent, HLSNothing, ReaderRuns, PushEosDown
<1>21. CASE HLSStopped
    BY <1>21 DEF StopsKnown, PlacesOK, AppPlaces, Events, Flowing, RestPlaces, WaitPlaces, SendsPending,
       SoughtWaits, PhasesKnown, SegmentSent, HLSStopped, ReaderRuns
<1>22. CASE HLSPush
    BY <1>22 DEF StopsKnown, PlacesOK, AppPlaces, Events, Flowing, RestPlaces, WaitPlaces, SendsPending,
       SoughtWaits, PhasesKnown, SegmentSent, HLSPush, PushBufferDown
<1>23. CASE HLSMerge
    BY <1>23 DEF StopsKnown, PlacesOK, AppPlaces, Events, Flowing, RestPlaces, WaitPlaces, SendsPending,
       SoughtWaits, PhasesKnown, SegmentSent, HLSMerge, Merged
<1>24. CASE HLSFailed
    BY <1>24 DEF StopsKnown, PlacesOK, AppPlaces, Events, Flowing, RestPlaces, WaitPlaces, SendsPending,
       SoughtWaits, PhasesKnown, SegmentSent, HLSFailed
<1>25. CASE HLSPause
    BY <1>25 DEF StopsKnown, PlacesOK, AppPlaces, Events, Flowing, RestPlaces, WaitPlaces, SendsPending,
       SoughtWaits, PhasesKnown, SegmentSent, HLSPause
<1>26. CASE PushFlushStart /\ UNCHANGED <<bufferVars, hlsVars>>
    BY <1>26 DEF StopsKnown, PlacesOK, AppPlaces, Events, Flowing, RestPlaces, WaitPlaces, SendsPending,
       SoughtWaits, PhasesKnown, SegmentSent, PushFlushStart
<1>27. CASE MarkFlushing /\ UNCHANGED <<bufferVars, hlsVars>>
    BY <1>27 DEF StopsKnown, PlacesOK, AppPlaces, Events, Flowing, RestPlaces, WaitPlaces, SendsPending,
       SoughtWaits, PhasesKnown, SegmentSent, MarkFlushing
<1>28. CASE SeekData /\ UNCHANGED <<bufferVars, hlsVars>>
    BY <1>28 DEF StopsKnown, PlacesOK, AppPlaces, Events, Flowing, RestPlaces, WaitPlaces, SendsPending,
       SoughtWaits, PhasesKnown, SegmentSent, SeekData, SourceIdle, Sought
<1>29. CASE PushFlushStop /\ UNCHANGED <<bufferVars, hlsVars>>
    BY <1>29 DEF StopsKnown, PlacesOK, AppPlaces, Events, Flowing, RestPlaces, WaitPlaces, SendsPending,
       SoughtWaits, PhasesKnown, SegmentSent, PushFlushStop
<1>30. CASE StartSource /\ UNCHANGED <<bufferVars, hlsVars>>
    BY <1>30 DEF StopsKnown, PlacesOK, AppPlaces, Events, Flowing, RestPlaces, WaitPlaces, SendsPending,
       SoughtWaits, PhasesKnown, SegmentSent, StartSource
<1>31. CASE StopSource /\ UNCHANGED <<bufferVars, hlsVars>>
    BY <1>31 DEF StopsKnown, PlacesOK, AppPlaces, Events, Flowing, RestPlaces, WaitPlaces, SendsPending,
       SoughtWaits, PhasesKnown, SegmentSent, StopSource
<1>32. CASE JoinSource /\ UNCHANGED <<bufferVars, hlsVars>>
    BY <1>32 DEF StopsKnown, PlacesOK, AppPlaces, Events, Flowing, RestPlaces, WaitPlaces, SendsPending,
       SoughtWaits, PhasesKnown, SegmentSent, JoinSource, SourceIdle
<1>33. CASE HLSFlushFlag
    BY <1>33 DEF StopsKnown, PlacesOK, AppPlaces, Events, Flowing, RestPlaces, WaitPlaces, SendsPending,
       SoughtWaits, PhasesKnown, SegmentSent, HLSFlushFlag
<1>34. CASE HLSFlushDown
    BY <1>34 DEF StopsKnown, PlacesOK, AppPlaces, Events, Flowing, RestPlaces, WaitPlaces, SendsPending,
       SoughtWaits, PhasesKnown, SegmentSent, HLSFlushDown, FlushStartDown
<1>35. CASE HLSFlushData
    BY <1>35 DEF StopsKnown, PlacesOK, AppPlaces, Events, Flowing, RestPlaces, WaitPlaces, SendsPending,
       SoughtWaits, PhasesKnown, SegmentSent, HLSFlushData, FlushData, SignalAdd, SignalDel
<1>36. CASE HLSPauseReader
    BY <1>36 DEF StopsKnown, PlacesOK, AppPlaces, Events, Flowing, RestPlaces, WaitPlaces, SendsPending,
       SoughtWaits, PhasesKnown, SegmentSent, HLSPauseReader
<1>37. CASE HLSReaderPaused
    BY <1>37 DEF StopsKnown, PlacesOK, AppPlaces, Events, Flowing, RestPlaces, WaitPlaces, SendsPending,
       SoughtWaits, PhasesKnown, SegmentSent, HLSReaderPaused, ReaderIdle
<1>38. CASE HLSFlushStopDown
    BY <1>38 DEF StopsKnown, PlacesOK, AppPlaces, Events, Flowing, RestPlaces, WaitPlaces, SendsPending,
       SoughtWaits, PhasesKnown, SegmentSent, HLSFlushStopDown, FlushStopDown
<1>39. CASE HLSFlushStop
    BY <1>39 DEF StopsKnown, PlacesOK, AppPlaces, Events, Flowing, RestPlaces, WaitPlaces, SendsPending,
       SoughtWaits, PhasesKnown, SegmentSent, HLSFlushStop
<1>40. CASE HLSDeactivate
    BY <1>40 DEF StopsKnown, PlacesOK, AppPlaces, Events, Flowing, RestPlaces, WaitPlaces, SendsPending,
       SoughtWaits, PhasesKnown, SegmentSent, HLSDeactivate, SignalAdd, SignalDel
<1>41. CASE HLSJoin
    BY <1>41 DEF StopsKnown, PlacesOK, AppPlaces, Events, Flowing, RestPlaces, WaitPlaces, SendsPending,
       SoughtWaits, PhasesKnown, SegmentSent, HLSJoin, ReaderIdle
<1>42. CASE HLSSinkJoin
    BY <1>42 DEF StopsKnown, PlacesOK, AppPlaces, Events, Flowing, RestPlaces, WaitPlaces, SendsPending,
       SoughtWaits, PhasesKnown, SegmentSent, HLSSinkJoin, InHandler
<1>43. CASE \E to \in Positions : HLSSeek(to)
  <2>1. PICK to \in Positions : HLSSeek(to)
    BY <1>43
  <2> QED
    BY <2>1 DEF StopsKnown, PlacesOK, AppPlaces, Events, Flowing, RestPlaces, WaitPlaces, SendsPending,
       SoughtWaits, PhasesKnown, SegmentSent, HLSSeek
<1>44. CASE HLSClose
    BY <1>44 DEF StopsKnown, PlacesOK, AppPlaces, Events, Flowing, RestPlaces, WaitPlaces, SendsPending,
       SoughtWaits, PhasesKnown, SegmentSent, HLSClose, FlushData, SignalAdd, SignalDel
<1>45. CASE HLSSpurious
    BY <1>45 DEF StopsKnown, PlacesOK, AppPlaces, Events, Flowing, RestPlaces, WaitPlaces, SendsPending,
       SoughtWaits, PhasesKnown, SegmentSent, HLSSpurious
<1>46. CASE SpuriousWakeUp /\ UNCHANGED hlsVars
    BY <1>46 DEF StopsKnown, PlacesOK, AppPlaces, Events, Flowing, RestPlaces, WaitPlaces, SendsPending,
       SoughtWaits, PhasesKnown, SegmentSent, SpuriousWakeUp
<1>47. CASE UNCHANGED <<sourceVars, bufferVars, hlsVars>>
    BY <1>47 DEF StopsKnown, PlacesOK, AppPlaces, Events, Flowing, RestPlaces, WaitPlaces, SendsPending,
       SoughtWaits, PhasesKnown, SegmentSent
<1> QED
    BY <1>1, <1>2, <1>3, <1>4, <1>5, <1>6, <1>7, <1>8, <1>9, <1>10, <1>11, <1>12, <1>13, <1>14, <1>15, <1>16,
       <1>17, <1>18, <1>19, <1>20, <1>21, <1>22, <1>23, <1>24, <1>25, <1>26, <1>27, <1>28, <1>29, <1>30, <1>31,
       <1>32, <1>33, <1>34, <1>35, <1>36, <1>37, <1>38, <1>39, <1>40, <1>41, <1>42, <1>43, <1>44, <1>45, <1>46,
       <1>47 DEF RingNext, SourceSteps, SeekSteps, HLSSourceSteps, HLSReaderSteps, HLSAppSteps

\* One SEGMENT is sent after a flush.
LEMMA SegmentSentStep ==
    ASSUME stream.hls, PlacesOK, RingOK, SendsPending, SoughtWaits, PhasesKnown, StopsKnown, RingFlushed, SegmentSent,
           RingNext
    PROVE  SegmentSent'
<1> USE DEF connVars, loopVars, appVars, bufferVars, readerVars, downVars, hlsVars, ringVars, sourceVars
<1>1. CASE LoopBegins /\ UNCHANGED <<bufferVars, hlsVars>>
    BY <1>1 DEF PlacesOK, AppPlaces, Events, Flowing, WaitPlaces, SegmentSent, SendsPending, SoughtWaits,
       PhasesKnown, StopsKnown, RestPlaces, LoopBegins, NextEvent, Ends
<1>2. CASE PushStreamStart /\ UNCHANGED <<bufferVars, hlsVars>>
    BY <1>2 DEF PlacesOK, AppPlaces, Events, Flowing, WaitPlaces, SegmentSent, SendsPending, SoughtWaits,
       PhasesKnown, StopsKnown, RestPlaces, PushStreamStart, Ends
<1>3. CASE GetStreamSize /\ UNCHANGED <<bufferVars, hlsVars>>
    BY <1>3 DEF PlacesOK, AppPlaces, Events, Flowing, WaitPlaces, SegmentSent, SendsPending, SoughtWaits,
       PhasesKnown, StopsKnown, RestPlaces, GetStreamSize
<1>4. CASE Sized /\ UNCHANGED <<bufferVars, hlsVars>>
    BY <1>4 DEF PlacesOK, AppPlaces, Events, Flowing, WaitPlaces, SegmentSent, SendsPending, SoughtWaits,
       PhasesKnown, StopsKnown, RestPlaces, Sized, WrongState, Ends
<1>5. CASE SegmentRefused /\ UNCHANGED <<bufferVars, hlsVars>>
    BY <1>5 DEF PlacesOK, AppPlaces, Events, Flowing, WaitPlaces, SegmentSent, SendsPending, SoughtWaits,
       PhasesKnown, StopsKnown, RestPlaces, SegmentRefused, SegmentPushed, Ends
<1>6. CASE ReadNextBlock /\ UNCHANGED <<bufferVars, hlsVars>>
    BY <1>6 DEF PlacesOK, AppPlaces, Events, Flowing, WaitPlaces, SegmentSent, SendsPending, SoughtWaits,
       PhasesKnown, StopsKnown, RestPlaces, ReadNextBlock, NextEvent, Ends
<1>7. CASE BufferRefused /\ UNCHANGED <<bufferVars, hlsVars>>
    BY <1>7 DEF PlacesOK, AppPlaces, Events, Flowing, WaitPlaces, SegmentSent, SendsPending, SoughtWaits,
       PhasesKnown, StopsKnown, RestPlaces, BufferRefused, BufferPushed, Ends
<1>8. CASE EosRefused /\ UNCHANGED <<bufferVars, hlsVars>>
    BY <1>8 DEF PlacesOK, AppPlaces, Events, Flowing, WaitPlaces, SegmentSent, SendsPending, SoughtWaits,
       PhasesKnown, StopsKnown, RestPlaces, EosRefused, Ends
<1>9. CASE Merge /\ UNCHANGED <<bufferVars, hlsVars>>
    BY <1>9 DEF PlacesOK, AppPlaces, Events, Flowing, WaitPlaces, SegmentSent, SendsPending, SoughtWaits,
       PhasesKnown, StopsKnown, RestPlaces, Merge, Merged
<1>10. CASE HLSSegment
    BY <1>10 DEF PlacesOK, AppPlaces, Events, Flowing, WaitPlaces, SegmentSent, SendsPending, SoughtWaits,
       PhasesKnown, StopsKnown, RestPlaces, HLSSegment, SegmentPushed, Ends
<1>11. CASE HLSRestart
    BY <1>11 DEF PlacesOK, AppPlaces, Events, Flowing, WaitPlaces, SegmentSent, SendsPending, SoughtWaits,
       PhasesKnown, StopsKnown, RestPlaces, HLSRestart
<1>12. CASE HLSSendSegment
    BY <1>12 DEF PlacesOK, AppPlaces, Events, Flowing, WaitPlaces, SegmentSent, SendsPending, SoughtWaits,
       PhasesKnown, StopsKnown, RestPlaces, HLSSendSegment, PushSegmentDown
<1>13. CASE HLSClaim
    BY <1>13 DEF PlacesOK, AppPlaces, Events, Flowing, WaitPlaces, SegmentSent, SendsPending, SoughtWaits,
       PhasesKnown, StopsKnown, RestPlaces, HLSClaim, MustWait, Prepare, SegmentPushed, Ends
<1>14. CASE HLSFull
    BY <1>14 DEF PlacesOK, AppPlaces, Events, Flowing, WaitPlaces, SegmentSent, SendsPending, SoughtWaits,
       PhasesKnown, StopsKnown, RestPlaces, HLSFull
<1>15. CASE HLSWoken
    BY <1>15 DEF PlacesOK, AppPlaces, Events, Flowing, WaitPlaces, SegmentSent, SendsPending, SoughtWaits,
       PhasesKnown, StopsKnown, RestPlaces, HLSWoken, MustWait, Prepare, SegmentPushed, Ends
<1>16. CASE HLSChain
    BY <1>16 DEF PlacesOK, AppPlaces, Events, Flowing, WaitPlaces, SegmentSent, SendsPending, SoughtWaits,
       PhasesKnown, StopsKnown, RestPlaces, HLSChain, BufferPushed, Ends
<1>17. CASE HLSWrite
    BY <1>17 DEF PlacesOK, AppPlaces, Events, Flowing, WaitPlaces, SegmentSent, SendsPending, SoughtWaits,
       PhasesKnown, StopsKnown, RestPlaces, HLSWrite, MayWrite, BufferPushed, Ends, SignalAdd
<1>18. CASE HLSEos
    BY <1>18 DEF PlacesOK, AppPlaces, Events, Flowing, WaitPlaces, SegmentSent, SendsPending, SoughtWaits,
       PhasesKnown, StopsKnown, RestPlaces, HLSEos, SignalAdd, Ends
<1>19. CASE HLSRead
    BY <1>19, NoReadWhenFlushed DEF PlacesOK, AppPlaces, Events, Flowing, WaitPlaces, SegmentSent,
       SendsPending, SoughtWaits, PhasesKnown, StopsKnown, RestPlaces, HLSRead, ReaderRuns, SignalDel, Flushed
<1>20. CASE HLSNothing
    BY <1>20 DEF PlacesOK, AppPlaces, Events, Flowing, WaitPlaces, SegmentSent, SendsPending, SoughtWaits,
       PhasesKnown, StopsKnown, RestPlaces, HLSNothing, ReaderRuns, PushEosDown
<1>21. CASE HLSStopped
    BY <1>21 DEF PlacesOK, AppPlaces, Events, Flowing, WaitPlaces, SegmentSent, SendsPending, SoughtWaits,
       PhasesKnown, StopsKnown, RestPlaces, HLSStopped, ReaderRuns
<1>22. CASE HLSPush
    BY <1>22 DEF PlacesOK, AppPlaces, Events, Flowing, WaitPlaces, SegmentSent, SendsPending, SoughtWaits,
       PhasesKnown, StopsKnown, RestPlaces, HLSPush, PushBufferDown
<1>23. CASE HLSMerge
    BY <1>23 DEF PlacesOK, AppPlaces, Events, Flowing, WaitPlaces, SegmentSent, SendsPending, SoughtWaits,
       PhasesKnown, StopsKnown, RestPlaces, HLSMerge, Merged
<1>24. CASE HLSFailed
    BY <1>24 DEF PlacesOK, AppPlaces, Events, Flowing, WaitPlaces, SegmentSent, SendsPending, SoughtWaits,
       PhasesKnown, StopsKnown, RestPlaces, HLSFailed
<1>25. CASE HLSPause
    BY <1>25 DEF PlacesOK, AppPlaces, Events, Flowing, WaitPlaces, SegmentSent, SendsPending, SoughtWaits,
       PhasesKnown, StopsKnown, RestPlaces, HLSPause
<1>26. CASE PushFlushStart /\ UNCHANGED <<bufferVars, hlsVars>>
    BY <1>26 DEF PlacesOK, AppPlaces, Events, Flowing, WaitPlaces, SegmentSent, SendsPending, SoughtWaits,
       PhasesKnown, StopsKnown, RestPlaces, PushFlushStart
<1>27. CASE MarkFlushing /\ UNCHANGED <<bufferVars, hlsVars>>
    BY <1>27 DEF PlacesOK, AppPlaces, Events, Flowing, WaitPlaces, SegmentSent, SendsPending, SoughtWaits,
       PhasesKnown, StopsKnown, RestPlaces, MarkFlushing
<1>28. CASE SeekData /\ UNCHANGED <<bufferVars, hlsVars>>
    BY <1>28 DEF PlacesOK, AppPlaces, Events, Flowing, WaitPlaces, SegmentSent, SendsPending, SoughtWaits,
       PhasesKnown, StopsKnown, RestPlaces, SeekData, SourceIdle, Sought
<1>29. CASE PushFlushStop /\ UNCHANGED <<bufferVars, hlsVars>>
    BY <1>29 DEF PlacesOK, AppPlaces, Events, Flowing, WaitPlaces, SegmentSent, SendsPending, SoughtWaits,
       PhasesKnown, StopsKnown, RestPlaces, PushFlushStop
<1>30. CASE StartSource /\ UNCHANGED <<bufferVars, hlsVars>>
    BY <1>30 DEF PlacesOK, AppPlaces, Events, Flowing, WaitPlaces, SegmentSent, SendsPending, SoughtWaits,
       PhasesKnown, StopsKnown, RestPlaces, StartSource, RingFlushed, Flushed
<1>31. CASE StopSource /\ UNCHANGED <<bufferVars, hlsVars>>
    BY <1>31 DEF PlacesOK, AppPlaces, Events, Flowing, WaitPlaces, SegmentSent, SendsPending, SoughtWaits,
       PhasesKnown, StopsKnown, RestPlaces, StopSource
<1>32. CASE JoinSource /\ UNCHANGED <<bufferVars, hlsVars>>
    BY <1>32 DEF PlacesOK, AppPlaces, Events, Flowing, WaitPlaces, SegmentSent, SendsPending, SoughtWaits,
       PhasesKnown, StopsKnown, RestPlaces, JoinSource, SourceIdle
<1>33. CASE HLSFlushFlag
    BY <1>33 DEF PlacesOK, AppPlaces, Events, Flowing, WaitPlaces, SegmentSent, SendsPending, SoughtWaits,
       PhasesKnown, StopsKnown, RestPlaces, HLSFlushFlag
<1>34. CASE HLSFlushDown
    BY <1>34 DEF PlacesOK, AppPlaces, Events, Flowing, WaitPlaces, SegmentSent, SendsPending, SoughtWaits,
       PhasesKnown, StopsKnown, RestPlaces, HLSFlushDown, FlushStartDown
<1>35. CASE HLSFlushData
    BY <1>35 DEF PlacesOK, AppPlaces, Events, Flowing, WaitPlaces, SegmentSent, SendsPending, SoughtWaits,
       PhasesKnown, StopsKnown, RestPlaces, HLSFlushData, FlushData, SignalAdd, SignalDel
<1>36. CASE HLSPauseReader
    BY <1>36 DEF PlacesOK, AppPlaces, Events, Flowing, WaitPlaces, SegmentSent, SendsPending, SoughtWaits,
       PhasesKnown, StopsKnown, RestPlaces, HLSPauseReader
<1>37. CASE HLSReaderPaused
    BY <1>37 DEF PlacesOK, AppPlaces, Events, Flowing, WaitPlaces, SegmentSent, SendsPending, SoughtWaits,
       PhasesKnown, StopsKnown, RestPlaces, HLSReaderPaused, ReaderIdle
<1>38. CASE HLSFlushStopDown
    BY <1>38 DEF PlacesOK, AppPlaces, Events, Flowing, WaitPlaces, SegmentSent, SendsPending, SoughtWaits,
       PhasesKnown, StopsKnown, RestPlaces, HLSFlushStopDown, FlushStopDown
<1>39. CASE HLSFlushStop
    BY <1>39 DEF PlacesOK, AppPlaces, Events, Flowing, WaitPlaces, SegmentSent, SendsPending, SoughtWaits,
       PhasesKnown, StopsKnown, RestPlaces, HLSFlushStop
<1>40. CASE HLSDeactivate
    BY <1>40 DEF PlacesOK, AppPlaces, Events, Flowing, WaitPlaces, SegmentSent, SendsPending, SoughtWaits,
       PhasesKnown, StopsKnown, RestPlaces, HLSDeactivate, SignalAdd, SignalDel
<1>41. CASE HLSJoin
    BY <1>41 DEF PlacesOK, AppPlaces, Events, Flowing, WaitPlaces, SegmentSent, SendsPending, SoughtWaits,
       PhasesKnown, StopsKnown, RestPlaces, HLSJoin, ReaderIdle
<1>42. CASE HLSSinkJoin
    BY <1>42 DEF PlacesOK, AppPlaces, Events, Flowing, WaitPlaces, SegmentSent, SendsPending, SoughtWaits,
       PhasesKnown, StopsKnown, RestPlaces, HLSSinkJoin, InHandler
<1>43. CASE \E to \in Positions : HLSSeek(to)
  <2>1. PICK to \in Positions : HLSSeek(to)
    BY <1>43
  <2> QED
    BY <2>1 DEF PlacesOK, AppPlaces, Events, Flowing, WaitPlaces, SegmentSent, SendsPending, SoughtWaits,
       PhasesKnown, StopsKnown, RestPlaces, HLSSeek
<1>44. CASE HLSClose
    BY <1>44 DEF PlacesOK, AppPlaces, Events, Flowing, WaitPlaces, SegmentSent, SendsPending, SoughtWaits,
       PhasesKnown, StopsKnown, RestPlaces, HLSClose, FlushData, SignalAdd, SignalDel
<1>45. CASE HLSSpurious
    BY <1>45 DEF PlacesOK, AppPlaces, Events, Flowing, WaitPlaces, SegmentSent, SendsPending, SoughtWaits,
       PhasesKnown, StopsKnown, RestPlaces, HLSSpurious
<1>46. CASE SpuriousWakeUp /\ UNCHANGED hlsVars
    BY <1>46 DEF PlacesOK, AppPlaces, Events, Flowing, WaitPlaces, SegmentSent, SendsPending, SoughtWaits,
       PhasesKnown, StopsKnown, RestPlaces, SpuriousWakeUp
<1>47. CASE UNCHANGED <<sourceVars, bufferVars, hlsVars>>
    BY <1>47 DEF PlacesOK, AppPlaces, Events, Flowing, WaitPlaces, SegmentSent, SendsPending, SoughtWaits,
       PhasesKnown, StopsKnown, RestPlaces
<1> QED
    BY <1>1, <1>2, <1>3, <1>4, <1>5, <1>6, <1>7, <1>8, <1>9, <1>10, <1>11, <1>12, <1>13, <1>14, <1>15, <1>16,
       <1>17, <1>18, <1>19, <1>20, <1>21, <1>22, <1>23, <1>24, <1>25, <1>26, <1>27, <1>28, <1>29, <1>30, <1>31,
       <1>32, <1>33, <1>34, <1>35, <1>36, <1>37, <1>38, <1>39, <1>40, <1>41, <1>42, <1>43, <1>44, <1>45, <1>46,
       <1>47 DEF RingNext, SourceSteps, SeekSteps, HLSSourceSteps, HLSReaderSteps, HLSAppSteps

\* What a flush leaves of the ring.
LEMMA RingFlushedStep ==
    ASSUME stream.hls, PlacesOK, RingOK, SendsPending, SoughtWaits, ClaimKnown, PhasesKnown, SegmentSent, RingFlushed,
           RingNext
    PROVE  RingFlushed'
<1> USE DEF connVars, loopVars, appVars, bufferVars, readerVars, downVars, hlsVars, ringVars, sourceVars
<1>1. CASE LoopBegins /\ UNCHANGED <<bufferVars, hlsVars>>
    BY <1>1 DEF PlacesOK, Flushed, RestPlaces, RingFlushed, LoopBegins, NextEvent, Ends, SendsPending, Events
<1>2. CASE PushStreamStart /\ UNCHANGED <<bufferVars, hlsVars>>
    BY <1>2 DEF PlacesOK, Flushed, RestPlaces, RingFlushed, PushStreamStart, Ends
<1>3. CASE GetStreamSize /\ UNCHANGED <<bufferVars, hlsVars>>
    BY <1>3 DEF PlacesOK, Flushed, RestPlaces, RingFlushed, GetStreamSize
<1>4. CASE Sized /\ UNCHANGED <<bufferVars, hlsVars>>
    BY <1>4 DEF PlacesOK, Flushed, RestPlaces, RingFlushed, Sized, WrongState, Ends
<1>5. CASE SegmentRefused /\ UNCHANGED <<bufferVars, hlsVars>>
    BY <1>5 DEF PlacesOK, Flushed, RestPlaces, RingFlushed, SegmentRefused, SegmentPushed, Ends
<1>6. CASE ReadNextBlock /\ UNCHANGED <<bufferVars, hlsVars>>
    BY <1>6 DEF PlacesOK, Flushed, RestPlaces, RingFlushed, ReadNextBlock, NextEvent, Ends
<1>7. CASE BufferRefused /\ UNCHANGED <<bufferVars, hlsVars>>
    BY <1>7 DEF PlacesOK, Flushed, RestPlaces, RingFlushed, BufferRefused, BufferPushed, Ends
<1>8. CASE EosRefused /\ UNCHANGED <<bufferVars, hlsVars>>
    BY <1>8 DEF PlacesOK, Flushed, RestPlaces, RingFlushed, EosRefused, Ends
<1>9. CASE Merge /\ UNCHANGED <<bufferVars, hlsVars>>
    BY <1>9 DEF PlacesOK, Flushed, RestPlaces, RingFlushed, Merge, Merged
<1>10. CASE HLSSegment
    BY <1>10 DEF PlacesOK, Flushed, RestPlaces, RingFlushed, HLSSegment, SegmentPushed, Ends
<1>11. CASE HLSRestart
    BY <1>11 DEF PlacesOK, Flushed, RestPlaces, RingFlushed, HLSRestart
<1>12. CASE HLSSendSegment
    BY <1>12 DEF PlacesOK, Flushed, RestPlaces, RingFlushed, HLSSendSegment, PushSegmentDown
<1>13. CASE HLSClaim
  <2> SUFFICES ASSUME Flushed PROVE RingFlushed'
    BY <1>13 DEF HLSClaim, Flushed, RestPlaces, RingFlushed
  <2>1. app # "start"
    BY <1>13 DEF HLSClaim, SoughtWaits
  <2>2. /\ readIndex' = readIndex /\ readIndex = 0 /\ bSrcresult' = bSrcresult /\ app' = app
        /\ sAt' # "hls write" /\ \A i \in Slots : caches[i].data = <<>>
        /\ bSrcresult = "OK" => mishaps # {}
    BY <1>13, <2>1 DEF HLSClaim, RingFlushed, SegmentPushed, Ends
  <2>3. \A i \in Slots : caches'[i].data = <<>>
    <3>1. After(writeIndex) \in Slots /\ (UNCHANGED caches \/ Prepare(After(writeIndex)))
      BY <1>13, AfterIsSlot DEF HLSClaim, RingOK
    <3> QED
      BY <2>2, <3>1, PrepareFacts, EmptyFacts
  <2>4. mishaps' # {}
    BY <1>13, <2>2 DEF HLSClaim
  <2>5. ~writeReady'[0]
    <3>1. CASE ~writeReady[0]
      BY <1>13, <3>1, FirstSlot DEF HLSClaim, Prepare, RingOK
    <3>2. CASE writeReady[0]
      <4>1. writeIndex = -1 /\ \A i \in Slots : writeReady[i]
        BY <3>2 DEF RingFlushed
      <4>2. After(writeIndex) = 0
        BY <4>1, NumCachedAssumption DEF After
      <4> QED
        BY <1>13, <4>1, <4>2, FirstSlot DEF HLSClaim, MustWait, Prepare, RingOK
    <3> QED
      BY <3>1, <3>2
  <2> QED
    BY <2>1, <2>2, <2>3, <2>4, <2>5 DEF RingFlushed
<1>14. CASE HLSFull
    BY <1>14 DEF PlacesOK, Flushed, RestPlaces, RingFlushed, HLSFull
<1>15. CASE HLSWoken
  <2> SUFFICES ASSUME Flushed PROVE RingFlushed'
    BY <1>15 DEF HLSWoken, Flushed, RestPlaces, RingFlushed
  <2>1. /\ readIndex' = readIndex /\ readIndex = 0 /\ bSrcresult' = bSrcresult /\ app' = app
        /\ mishaps' = mishaps /\ writeIndex' = writeIndex
        /\ sAt' # "hls write" /\ \A i \in Slots : caches[i].data = <<>>
        /\ bSrcresult = "OK" => app = "start" \/ mishaps # {}
    BY <1>15 DEF HLSWoken, RingFlushed, SegmentPushed, Ends
  <2>2. \A i \in Slots : caches'[i].data = <<>>
    <3>1. UNCHANGED caches \/ (bSrcresult = "OK" /\ sAt = "hls woken" /\ Prepare(writeIndex))
      BY <1>15 DEF HLSWoken
    <3> QED
      BY <2>1, <3>1, PrepareFacts, EmptyFacts DEF ClaimKnown
  <2>3. \A i \in Slots : ~writeReady[i] => ~writeReady'[i]
    BY <1>15 DEF HLSWoken, Prepare, RingOK
  <2>4. CASE UNCHANGED writeReady
    BY <2>1, <2>2, <2>4 DEF RingFlushed
  <2>5. CASE bSrcresult = "OK"
    <3>1. writeIndex \in Slots
      BY <1>15, <2>5 DEF HLSWoken, ClaimKnown
    <3>2. writeIndex # -1
      BY <3>1, NumCachedAssumption DEF Slots
    <3> QED
      BY <2>1, <2>2, <2>3, <3>2, FirstSlot DEF RingFlushed
  <2> QED
    BY <1>15, <2>4, <2>5 DEF HLSWoken
<1>16. CASE HLSChain
    BY <1>16 DEF PlacesOK, Flushed, RestPlaces, RingFlushed, HLSChain, BufferPushed, Ends, SoughtWaits,
       PhasesKnown, AppPlaces
<1>17. CASE HLSWrite
    BY <1>17 DEF PlacesOK, Flushed, RestPlaces, RingFlushed, HLSWrite, MayWrite, BufferPushed, Ends, SignalAdd
<1>18. CASE HLSEos
    BY <1>18 DEF PlacesOK, Flushed, RestPlaces, RingFlushed, HLSEos, SignalAdd, Ends
<1>19. CASE HLSRead
    BY <1>19, NoReadWhenFlushed DEF PlacesOK, Flushed, RestPlaces, RingFlushed, HLSRead, ReaderRuns, SignalDel
<1>20. CASE HLSNothing
    BY <1>20 DEF PlacesOK, Flushed, RestPlaces, RingFlushed, HLSNothing, ReaderRuns, PushEosDown
<1>21. CASE HLSStopped
    BY <1>21 DEF PlacesOK, Flushed, RestPlaces, RingFlushed, HLSStopped, ReaderRuns
<1>22. CASE HLSPush
    BY <1>22 DEF PlacesOK, Flushed, RestPlaces, RingFlushed, HLSPush, PushBufferDown
<1>23. CASE HLSMerge
    BY <1>23 DEF PlacesOK, Flushed, RestPlaces, RingFlushed, HLSMerge, Merged
<1>24. CASE HLSFailed
    BY <1>24 DEF PlacesOK, Flushed, RestPlaces, RingFlushed, HLSFailed
<1>25. CASE HLSPause
    BY <1>25 DEF PlacesOK, Flushed, RestPlaces, RingFlushed, HLSPause
<1>26. CASE PushFlushStart /\ UNCHANGED <<bufferVars, hlsVars>>
    BY <1>26 DEF PlacesOK, Flushed, RestPlaces, RingFlushed, PushFlushStart
<1>27. CASE MarkFlushing /\ UNCHANGED <<bufferVars, hlsVars>>
    BY <1>27 DEF PlacesOK, Flushed, RestPlaces, RingFlushed, MarkFlushing
<1>28. CASE SeekData /\ UNCHANGED <<bufferVars, hlsVars>>
    BY <1>28 DEF PlacesOK, Flushed, RestPlaces, RingFlushed, SeekData, SourceIdle, Sought
<1>29. CASE PushFlushStop /\ UNCHANGED <<bufferVars, hlsVars>>
    BY <1>29 DEF PlacesOK, Flushed, RestPlaces, RingFlushed, PushFlushStop, AppPlaces
<1>30. CASE StartSource /\ UNCHANGED <<bufferVars, hlsVars>>
    BY <1>30 DEF PlacesOK, Flushed, RestPlaces, RingFlushed, StartSource
<1>31. CASE StopSource /\ UNCHANGED <<bufferVars, hlsVars>>
    BY <1>31 DEF PlacesOK, Flushed, RestPlaces, RingFlushed, StopSource
<1>32. CASE JoinSource /\ UNCHANGED <<bufferVars, hlsVars>>
    BY <1>32 DEF PlacesOK, Flushed, RestPlaces, RingFlushed, JoinSource, SourceIdle
<1>33. CASE HLSFlushFlag
    BY <1>33 DEF PlacesOK, Flushed, RestPlaces, RingFlushed, HLSFlushFlag
<1>34. CASE HLSFlushDown
    BY <1>34 DEF PlacesOK, Flushed, RestPlaces, RingFlushed, HLSFlushDown, FlushStartDown
<1>35. CASE HLSFlushData
    BY <1>35, FirstSlot DEF PlacesOK, Flushed, RestPlaces, RingFlushed, HLSFlushData, FlushData, SignalAdd,
       SignalDel, EmptyCache
<1>36. CASE HLSPauseReader
    BY <1>36 DEF PlacesOK, Flushed, RestPlaces, RingFlushed, HLSPauseReader
<1>37. CASE HLSReaderPaused
    BY <1>37 DEF PlacesOK, Flushed, RestPlaces, RingFlushed, HLSReaderPaused, ReaderIdle
<1>38. CASE HLSFlushStopDown
    BY <1>38 DEF PlacesOK, Flushed, RestPlaces, RingFlushed, HLSFlushStopDown, FlushStopDown
<1>39. CASE HLSFlushStop
    BY <1>39 DEF PlacesOK, Flushed, RestPlaces, RingFlushed, HLSFlushStop, SoughtWaits
<1>40. CASE HLSDeactivate
    BY <1>40 DEF PlacesOK, Flushed, RestPlaces, RingFlushed, HLSDeactivate, SignalAdd, SignalDel
<1>41. CASE HLSJoin
    BY <1>41 DEF PlacesOK, Flushed, RestPlaces, RingFlushed, HLSJoin, ReaderIdle
<1>42. CASE HLSSinkJoin
    BY <1>42 DEF PlacesOK, Flushed, RestPlaces, RingFlushed, HLSSinkJoin, InHandler
<1>43. CASE \E to \in Positions : HLSSeek(to)
  <2>1. PICK to \in Positions : HLSSeek(to)
    BY <1>43
  <2> QED
    BY <2>1 DEF PlacesOK, Flushed, RestPlaces, RingFlushed, HLSSeek
<1>44. CASE HLSClose
    BY <1>44 DEF PlacesOK, Flushed, RestPlaces, RingFlushed, HLSClose, FlushData, SignalAdd, SignalDel
<1>45. CASE HLSSpurious
    BY <1>45 DEF PlacesOK, Flushed, RestPlaces, RingFlushed, HLSSpurious
<1>46. CASE SpuriousWakeUp /\ UNCHANGED hlsVars
    BY <1>46 DEF PlacesOK, Flushed, RestPlaces, RingFlushed, SpuriousWakeUp
<1>47. CASE UNCHANGED <<sourceVars, bufferVars, hlsVars>>
    BY <1>47 DEF PlacesOK, Flushed, RestPlaces, RingFlushed
<1> QED
    BY <1>1, <1>2, <1>3, <1>4, <1>5, <1>6, <1>7, <1>8, <1>9, <1>10, <1>11, <1>12, <1>13, <1>14, <1>15, <1>16,
       <1>17, <1>18, <1>19, <1>20, <1>21, <1>22, <1>23, <1>24, <1>25, <1>26, <1>27, <1>28, <1>29, <1>30, <1>31,
       <1>32, <1>33, <1>34, <1>35, <1>36, <1>37, <1>38, <1>39, <1>40, <1>41, <1>42, <1>43, <1>44, <1>45, <1>46,
       <1>47 DEF RingNext, SourceSteps, SeekSteps, HLSSourceSteps, HLSReaderSteps, HLSAppSteps

\* What the demuxer has stays what it is.
LEMMA GivenSame ==
    ASSUME UNCHANGED <<stream, dSegment, out>>, dEos' => dEos, mishaps \subseteq mishaps',
           failures' = 0 => failures = 0, HLSGiven
    PROVE  HLSGiven'
    BY DEF HLSGiven, MediumFrom, InMedium, FirstChunk, NextChunk, LastChunk, NumFiles, EndPosition

\* The reader sees the end when it has given the last chunk of the medium.
LEMMA EndSeen ==
    ASSUME stream \in Streams, stream.hls, RingInv, HLSTypes, StopsKnown, SegmentSent, RingGoes, HLSGiven,
           Flowing, ReaderRuns, bSrcresult = "OK", ~cache_has_enough_data(caches[readIndex]), isEos,
           dSegment \in 1..NumFiles, mishaps = {}, failures = 0
    PROVE  out # <<>> /\ out[Len(out)] = LastChunk
<1>1. /\ bAt # "push" /\ pending = "EOS" /\ ~sendNewSegment /\ position = dSegment /\ position <= NumFiles
      /\ sAt \notin OpenPlaces /\ ~Stuck
  <2>1. bAt # "push" /\ pending = "EOS"
    BY DEF ReaderRuns, StopsKnown
  <2>2. ~sendNewSegment /\ position = dSegment
    <3>1. dSegment # NoPosition
      BY SizesFacts DEF NoPosition
    <3> QED
      BY <3>1 DEF SegmentSent
  <2>3. NumFiles \in Nat /\ position <= NumFiles
    BY <2>2, SizesFacts
  <2> QED
    BY <2>1, <2>2, <2>3 DEF RingInv, SendsPending, OpenPlaces, WaitPlaces, Stuck
<1>2. PICK first \in 1..EndPosition, n \in 0..NumCached : first + n <= EndPosition /\ Goes(first, n)
    BY <1>1 DEF RingGoes
<1>3. first + n = EndPosition
    BY <1>1, <1>2 DEF Goes, SourceGoesOn
<1>4. /\ NumFiles \in Nat /\ EndPosition = NumFiles + 1 /\ first \in Nat /\ n \in Nat /\ readIndex \in Slots
      /\ caches[readIndex].read \in Nat /\ Len(caches[readIndex].data) \in Nat /\ Dist(readIndex) = 0
      /\ caches[readIndex].read <= Len(caches[readIndex].data)
    BY <1>2, GoesFacts DEF RingInv, RingOK
<1>5. n = 0
  <2> SUFFICES ASSUME n # 0 PROVE FALSE
    OBVIOUS
  <2>1. 0 < n /\ (0 < n - 1 \/ 0 = n - 1)
    BY ONLY <1>4, n # 0
  <2>2. Len(caches[readIndex].data) = cacheSize[readIndex]
    BY <1>1, <1>2, <1>4, <2>1 DEF Goes, RingHolds, SourceGoesOn
  <2>3. caches[readIndex].read < cacheSize[readIndex]
    BY <1>2, <1>4, <2>1 DEF Goes, RingHolds, Holds
  <2> QED
    BY <2>2, <2>3 DEF cache_has_enough_data
<1>6. GiveNext(first, n) = <<EndPosition, 1>>
  <2>1. first = EndPosition
    BY ONLY <1>3, <1>4, <1>5
  <2> QED
    BY <1>1, <1>5, <2>1 DEF GiveNext, ReadNext
<1>7. out # <<>> /\ NextChunk(out[Len(out)]) = <<EndPosition, 1>>
  <2>1. position \in Nat /\ position # EndPosition
    <3>1. position \in 1..NumFiles
      BY <1>1
    <3> QED
      BY ONLY <1>4, <3>1
  <2>2. out # <<>>
    <3>1. out = <<>> => <<EndPosition, 1>> = <<position, 1>>
      BY <1>2, <1>6 DEF Goes, ReaderGoesOn
    <3> QED
      BY <2>1, <3>1
  <2> QED
    BY <1>2, <1>6, <2>2 DEF Goes, ReaderGoesOn
<1> DEFINE last == out[Len(out)]
<1>8. last \in Nat \X Nat /\ InMedium(last)
  <2>1. out \in Seq(Nat \X Nat) /\ Len(out) \in Nat /\ Len(out) # 0
    BY <1>7, EmptySeq, LenProperties DEF HLSTypes
  <2>2. Len(out) \in 1..Len(out)
    BY ONLY <2>1
  <2>3. MediumFrom(dSegment, out)
    BY DEF HLSGiven
  <2> QED
    BY <2>1, <2>2, <2>3, ElementOfSeq DEF MediumFrom
<1> HIDE DEF last
<1>9. last[1] = NumFiles /\ last[2] = stream.sizes[NumFiles]
  <2>1. last[1] \in 1..NumFiles /\ last[2] \in 1..stream.sizes[last[1]] /\ stream.sizes[last[1]] \in Nat
    BY <1>8, SizesFacts DEF InMedium
  <2>2. /\ last[2] < stream.sizes[last[1]] => last[1] = EndPosition
        /\ ~(last[2] < stream.sizes[last[1]]) => last[1] + 1 = EndPosition
    BY <1>7 DEF NextChunk, last
  <2>3. last[1] = NumFiles /\ ~(last[2] < stream.sizes[last[1]])
    BY ONLY <1>4, <2>1, <2>2
  <2>4. last[2] = stream.sizes[last[1]]
    BY ONLY <2>1, <2>3
  <2> QED
    BY <2>3, <2>4
<1>10. last = LastChunk
    BY <1>8, <1>9 DEF LastChunk
<1> QED
    BY <1>7, <1>10 DEF last

\* The reader and the source go on where they are in the medium.
LEMMA RingGoesStep ==
    ASSUME stream \in Streams, stream.hls, RingInv, HLSTypes, PhasesKnown, StopsKnown, SegmentSent, RingFlushed, RingGoes, HLSGiven,
           RingNext
    PROVE  RingGoes'
<1> USE DEF connVars, loopVars, appVars, bufferVars, readerVars, downVars, hlsVars, ringVars, sourceVars
<1>1. CASE LoopBegins /\ UNCHANGED <<bufferVars, hlsVars>>
  <2>1. ASSUME NEW first \in 1..EndPosition, NEW n \in 0..NumCached, Flowing, position <= NumFiles,
               first + n <= EndPosition, Goes(first, n)
        PROVE  SourceGoesOn(first + n, n)'
    BY <1>1, <2>1 DEF Goes, SourceGoesOn, Dist, Halted, Arrived, EndPosition, NumFiles, OpenPlaces, WaitPlaces,
       RingInv, PlacesOK, SendsPending, Events, ConnOK, SoughtWaits, PhasesKnown, StopsKnown, SegmentSent,
       Flowing, LoopBegins, NextEvent, Ends
  <2> QED
    BY <1>1, <2>1, SourceMoves DEF RingInv, PlacesOK, SendsPending, Events, ConnOK, SoughtWaits, PhasesKnown,
       StopsKnown, SegmentSent, Flowing, WaitPlaces, LoopBegins, NextEvent, Ends
<1>2. CASE PushStreamStart /\ UNCHANGED <<bufferVars, hlsVars>>
  <2>1. ASSUME NEW first \in 1..EndPosition, NEW n \in 0..NumCached, Flowing, position <= NumFiles,
               first + n <= EndPosition, Goes(first, n)
        PROVE  SourceGoesOn(first + n, n)'
    BY <1>2, <2>1 DEF Goes, SourceGoesOn, Dist, Halted, Arrived, EndPosition, NumFiles, OpenPlaces, WaitPlaces,
       RingInv, PlacesOK, SendsPending, Events, ConnOK, SoughtWaits, PhasesKnown, StopsKnown, SegmentSent,
       Flowing, PushStreamStart, Ends
  <2> QED
    BY <1>2, <2>1, SourceMoves DEF RingInv, PlacesOK, SendsPending, Events, ConnOK, SoughtWaits, PhasesKnown,
       StopsKnown, SegmentSent, Flowing, WaitPlaces, PushStreamStart, Ends
<1>3. CASE GetStreamSize /\ UNCHANGED <<bufferVars, hlsVars>>
  <2>1. ASSUME NEW first \in 1..EndPosition, NEW n \in 0..NumCached, Flowing, position <= NumFiles,
               first + n <= EndPosition, Goes(first, n)
        PROVE  SourceGoesOn(first + n, n)'
    <3>1. /\ conn.next = first + n /\ sAt = "size" /\ pending = "SEGMENT" /\ pending' = "SEGMENT"
          /\ ~sendNewSegment => conn.file = first + n - 1 /\ conn.read = stream.sizes[conn.file]
          /\ \A i \in Slots : Dist(i) = n - 1 => Len(caches[i].data) = cacheSize[i]
          /\ \A i \in Slots : Dist(i)' = Dist(i)
      BY <1>3, <2>1 DEF Goes, SourceGoesOn, OpenPlaces, GetStreamSize, RingInv, SendsPending, Dist, WaitPlaces
    <3>2. UNCHANGED <<stream, caches, cacheSize, sendNewSegment, EndPosition>>
      BY <1>3 DEF GetStreamSize, EndPosition, NumFiles
    <3>3. CASE sAt' = "sized"
      <4>1. conn'.file = first + n /\ conn'.read = 0 /\ conn'.next = first + n + 1
        BY <1>3, <3>1, <3>3 DEF GetStreamSize, RingInv, ConnOK
      <4> QED
        BY <3>1, <3>2, <3>3, <4>1 DEF SourceGoesOn, OpenPlaces
    <3>4. CASE sAt' = "none"
      <4>1. conn'.file = conn.file /\ conn'.read = conn.read
        BY <1>3, <3>4 DEF GetStreamSize, RingInv, ConnOK
      <4>2. failures' = 0 => first + n = EndPosition
        <5>1. /\ conn.next \in 1..EndPosition /\ EndPosition = NumFiles + 1 /\ NumFiles \in Nat
              /\ failures \in Nat /\ failures + 1 # 0
          BY SizesFacts DEF RingInv, ConnOK, HLSTypes
        <5>2. failures' = 0 => conn.next > NumFiles
          BY <1>3, <3>4, <5>1 DEF GetStreamSize
        <5> QED
          BY <3>1, <5>1, <5>2
      <4> QED
        BY <3>1, <3>2, <3>4, <4>1, <4>2 DEF SourceGoesOn, OpenPlaces, WaitPlaces
    <3> QED
      BY <1>3, <3>3, <3>4 DEF GetStreamSize
  <2> QED
    BY <1>3, <2>1, SourceMoves DEF RingInv, PlacesOK, SendsPending, Events, ConnOK, SoughtWaits, PhasesKnown,
       StopsKnown, SegmentSent, Flowing, WaitPlaces, GetStreamSize
<1>4. CASE Sized /\ UNCHANGED <<bufferVars, hlsVars>>
  <2>1. ASSUME NEW first \in 1..EndPosition, NEW n \in 0..NumCached, Flowing, position <= NumFiles,
               first + n <= EndPosition, Goes(first, n)
        PROVE  SourceGoesOn(first + n, n)'
    BY <1>4, <2>1 DEF Goes, SourceGoesOn, Dist, Halted, Arrived, EndPosition, NumFiles, OpenPlaces, WaitPlaces,
       RingInv, PlacesOK, SendsPending, Events, ConnOK, SoughtWaits, PhasesKnown, StopsKnown, SegmentSent,
       Flowing, Sized, WrongState, Ends
  <2> QED
    BY <1>4, <2>1, SourceMoves DEF RingInv, PlacesOK, SendsPending, Events, ConnOK, SoughtWaits, PhasesKnown,
       StopsKnown, SegmentSent, Flowing, WaitPlaces, Sized, WrongState, Ends
<1>5. CASE SegmentRefused /\ UNCHANGED <<bufferVars, hlsVars>>
  <2>1. ASSUME NEW first \in 1..EndPosition, NEW n \in 0..NumCached, Flowing, position <= NumFiles,
               first + n <= EndPosition, Goes(first, n)
        PROVE  SourceGoesOn(first + n, n)'
    BY <1>5, <2>1 DEF Goes, SourceGoesOn, Dist, Halted, Arrived, EndPosition, NumFiles, OpenPlaces, WaitPlaces,
       RingInv, PlacesOK, SendsPending, Events, ConnOK, SoughtWaits, PhasesKnown, StopsKnown, SegmentSent,
       Flowing, SegmentRefused, SegmentPushed, Ends
  <2> QED
    BY <1>5, <2>1, SourceMoves DEF RingInv, PlacesOK, SendsPending, Events, ConnOK, SoughtWaits, PhasesKnown,
       StopsKnown, SegmentSent, Flowing, WaitPlaces, SegmentRefused, SegmentPushed, Ends
<1>6. CASE ReadNextBlock /\ UNCHANGED <<bufferVars, hlsVars>>
  <2>1. ASSUME NEW first \in 1..EndPosition, NEW n \in 0..NumCached, Flowing, position <= NumFiles,
               first + n <= EndPosition, Goes(first, n)
        PROVE  SourceGoesOn(first + n, n)'
    <3>1. /\ sAt = "read" /\ pending = "UNKNOWN" /\ ~Halted /\ Arrived = conn.read
          /\ conn.file = first + n - 1 /\ conn.next = first + n
          /\ \A i \in Slots : Dist(i) = n - 1 => Len(caches[i].data) = conn.read
          /\ n = 0 => conn.read = stream.sizes[conn.file]
          /\ \A i \in Slots : Dist(i)' = Dist(i)
      <4>1. sAt = "read" /\ pending = "UNKNOWN" /\ ~Halted /\ Arrived = conn.read
        BY <1>6 DEF ReadNextBlock, RingInv, SendsPending, Halted, Arrived
      <4> QED
        BY <1>6, <2>1, <4>1 DEF Goes, SourceGoesOn, ReadNextBlock, Dist
    <3>2. UNCHANGED <<stream, caches, cacheSize, sendNewSegment, EndPosition>>
      BY <1>6 DEF ReadNextBlock, EndPosition, NumFiles
    <3>3. conn \in [next : 1..EndPosition, file : 1..NumFiles, read : Nat, lost : BOOLEAN] /\ conn.read \in Nat
      BY DEF RingInv, ConnOK
    <3>4. CASE sAt' = "buffer"
      <4>1. /\ conn'.file = conn.file /\ conn'.next = conn.next /\ conn'.read = conn.read + 1
            /\ pending' = "UNKNOWN" /\ Arrived' = conn.read
        BY <1>6, <3>1, <3>3, <3>4 DEF ReadNextBlock, NextEvent, Ends, Arrived
      <4> QED
        BY <3>1, <3>2, <3>4, <4>1 DEF SourceGoesOn, OpenPlaces, WaitPlaces
    <3>5. CASE sAt' = "size"
      <4>1. conn' = conn /\ pending' = "SEGMENT" /\ conn.read = stream.sizes[conn.file]
        BY <1>6, <3>1, <3>5 DEF ReadNextBlock, Ends
      <4>2. ASSUME NEW i \in Slots, Dist(i) = n - 1 PROVE Len(caches[i].data) = cacheSize[i]
        <5>1. Dist(i) < n /\ first + Dist(i) = first + n - 1
          BY <4>2
        <5>2. cacheSize[i] = stream.sizes[first + Dist(i)]
          BY <2>1, <5>1 DEF Goes, RingHolds, Holds
        <5> QED
          BY <3>1, <4>1, <4>2, <5>1, <5>2
      <4> QED
        BY <3>1, <3>2, <3>5, <4>1, <4>2 DEF SourceGoesOn, OpenPlaces, WaitPlaces
    <3>6. CASE sAt' = "merge"
      <4>1. conn' = conn /\ pending' = "UNKNOWN" /\ Arrived' = conn.read
        BY <1>6, <3>1, <3>6 DEF ReadNextBlock, NextEvent, Arrived
      <4> QED
        BY <3>1, <3>2, <3>6, <4>1 DEF SourceGoesOn, OpenPlaces, WaitPlaces
    <3> QED
      BY <1>6, <3>4, <3>5, <3>6 DEF ReadNextBlock, NextEvent, Ends
  <2> QED
    BY <1>6, <2>1, SourceMoves DEF RingInv, PlacesOK, SendsPending, Events, ConnOK, SoughtWaits, PhasesKnown,
       StopsKnown, SegmentSent, Flowing, WaitPlaces, ReadNextBlock, NextEvent, Ends
<1>7. CASE BufferRefused /\ UNCHANGED <<bufferVars, hlsVars>>
  <2>1. ASSUME NEW first \in 1..EndPosition, NEW n \in 0..NumCached, Flowing, position <= NumFiles,
               first + n <= EndPosition, Goes(first, n)
        PROVE  SourceGoesOn(first + n, n)'
    BY <1>7, <2>1 DEF Goes, SourceGoesOn, Dist, Halted, Arrived, EndPosition, NumFiles, OpenPlaces, WaitPlaces,
       RingInv, PlacesOK, SendsPending, Events, ConnOK, SoughtWaits, PhasesKnown, StopsKnown, SegmentSent,
       Flowing, BufferRefused, BufferPushed, Ends
  <2> QED
    BY <1>7, <2>1, SourceMoves DEF RingInv, PlacesOK, SendsPending, Events, ConnOK, SoughtWaits, PhasesKnown,
       StopsKnown, SegmentSent, Flowing, WaitPlaces, BufferRefused, BufferPushed, Ends
<1>8. CASE EosRefused /\ UNCHANGED <<bufferVars, hlsVars>>
  <2>1. ASSUME NEW first \in 1..EndPosition, NEW n \in 0..NumCached, Flowing, position <= NumFiles,
               first + n <= EndPosition, Goes(first, n)
        PROVE  SourceGoesOn(first + n, n)'
    BY <1>8, <2>1 DEF Goes, SourceGoesOn, Dist, Halted, Arrived, EndPosition, NumFiles, OpenPlaces, WaitPlaces,
       RingInv, PlacesOK, SendsPending, Events, ConnOK, SoughtWaits, PhasesKnown, StopsKnown, SegmentSent,
       Flowing, EosRefused, Ends
  <2> QED
    BY <1>8, <2>1, SourceMoves DEF RingInv, PlacesOK, SendsPending, Events, ConnOK, SoughtWaits, PhasesKnown,
       StopsKnown, SegmentSent, Flowing, WaitPlaces, EosRefused, Ends
<1>9. CASE Merge /\ UNCHANGED <<bufferVars, hlsVars>>
  <2>1. ASSUME NEW first \in 1..EndPosition, NEW n \in 0..NumCached, Flowing, position <= NumFiles,
               first + n <= EndPosition, Goes(first, n)
        PROVE  SourceGoesOn(first + n, n)'
    BY <1>9, <2>1 DEF Goes, SourceGoesOn, Dist, Halted, Arrived, EndPosition, NumFiles, OpenPlaces, WaitPlaces,
       RingInv, PlacesOK, SendsPending, Events, ConnOK, SoughtWaits, PhasesKnown, StopsKnown, SegmentSent,
       Flowing, Merge, Merged
  <2> QED
    BY <1>9, <2>1, SourceMoves DEF RingInv, PlacesOK, SendsPending, Events, ConnOK, SoughtWaits, PhasesKnown,
       StopsKnown, SegmentSent, Flowing, WaitPlaces, Merge, Merged
<1>10. CASE HLSSegment
  <2>1. ASSUME NEW first \in 1..EndPosition, NEW n \in 0..NumCached, Flowing, position <= NumFiles,
               first + n <= EndPosition, Goes(first, n)
        PROVE  SourceGoesOn(first + n, n)'
    BY <1>10, <2>1 DEF Goes, SourceGoesOn, Dist, Halted, Arrived, EndPosition, NumFiles, OpenPlaces, WaitPlaces,
       RingInv, PlacesOK, SendsPending, Events, ConnOK, SoughtWaits, PhasesKnown, StopsKnown, SegmentSent,
       Flowing, HLSSegment, SegmentPushed, Ends
  <2> QED
    BY <1>10, <2>1, SourceMoves DEF RingInv, PlacesOK, SendsPending, Events, ConnOK, SoughtWaits, PhasesKnown,
       StopsKnown, SegmentSent, Flowing, WaitPlaces, HLSSegment, SegmentPushed, Ends
<1>11. CASE HLSRestart
  <2>1. ASSUME NEW first \in 1..EndPosition, NEW n \in 0..NumCached, Flowing, position <= NumFiles,
               first + n <= EndPosition, Goes(first, n)
        PROVE  SourceGoesOn(first + n, n)'
    BY <1>11, <2>1 DEF Goes, SourceGoesOn, Dist, Halted, Arrived, EndPosition, NumFiles, OpenPlaces, WaitPlaces,
       RingInv, PlacesOK, SendsPending, Events, ConnOK, SoughtWaits, PhasesKnown, StopsKnown, SegmentSent,
       Flowing, HLSRestart
  <2> QED
    BY <1>11, <2>1, SourceMoves DEF RingInv, PlacesOK, SendsPending, Events, ConnOK, SoughtWaits, PhasesKnown,
       StopsKnown, SegmentSent, Flowing, WaitPlaces, HLSRestart
<1>12. CASE HLSSendSegment
  <2> SUFFICES ASSUME Flowing', position' <= NumFiles' PROVE RingGoes'
    BY DEF RingGoes
  <2>1. /\ Flowing /\ sAt = "hls segment" /\ sAt' = "hls claim" /\ ~sendNewSegment' /\ ~dFlushing
        /\ UNCHANGED <<stream, position, ringVars, bBuffer, bAt, conn, failures>>
        /\ UNCHANGED <<pending, mishaps, flushing, sSrcresult, sResult>>
    BY <1>12 DEF HLSSendSegment, Flowing, PhasesKnown
  <2>2. CASE sendNewSegment
    <3>1. out' = <<>>
      BY <1>12, <2>1, <2>2 DEF HLSSendSegment, PushSegmentDown
    <3> QED
      BY <2>1, <2>2, <3>1, SegmentGiven
  <2>3. CASE ~sendNewSegment
    <3>1. out' = out /\ (sendNewSegment' <=> sendNewSegment)
      BY <1>12, <2>1, <2>3 DEF HLSSendSegment
    <3>2. ASSUME NEW first \in 1..EndPosition, NEW n \in 0..NumCached, Goes(first, n)
          PROVE  SourceGoesOn(first + n, n)'
      BY <2>1, <2>3, <3>1, <3>2 DEF Goes, SourceGoesOn, Dist, EndPosition, NumFiles, OpenPlaces, WaitPlaces, RingInv, SendsPending
    <3> QED
      BY <2>1, <3>1, <3>2, SourceMoves DEF WaitPlaces
  <2> QED
    BY <2>2, <2>3
<1>13. CASE HLSClaim
  <2> SUFFICES ASSUME Flowing', position' <= NumFiles' PROVE RingGoes'
    BY DEF RingGoes
  <2>1. /\ Flowing /\ sAt = "hls claim" /\ pending = "SEGMENT" /\ bSrcresult = "OK" /\ ~sendNewSegment
        /\ writeIndex' = NextSlot /\ NextSlot \in Slots /\ mishaps' = mishaps
        /\ UNCHANGED <<stream, conn, failures, position, readIndex, out, bBuffer, bAt>>
        /\ sendNewSegment' <=> sendNewSegment
    <3>1. Flowing /\ sAt = "hls claim" /\ pending = "SEGMENT"
      BY <1>13 DEF HLSClaim, Flowing, RingInv, SendsPending
    <3>2. bSrcresult = "OK" /\ ~sendNewSegment
      BY <3>1 DEF StopsKnown, SegmentSent, WaitPlaces
    <3>3. NextSlot = After(writeIndex) /\ After(writeIndex) \in Slots
      BY <3>1, AfterIsSlot DEF NextSlot, WaitPlaces, RingInv, RingOK
    <3> QED
      BY <1>13, <3>1, <3>2, <3>3 DEF HLSClaim
  <2>2. NextSlot = After(writeIndex)
    BY <2>1 DEF NextSlot, WaitPlaces
  <2>3. CASE MustWait(NextSlot) /\ sAt' = "hls full"
    <3>1. UNCHANGED <<caches, cacheSize, writeReady, pending>>
      BY <1>13, <2>1, <2>3, <2>2 DEF HLSClaim, SegmentPushed, Ends
    <3> QED
      BY <2>1, <2>3, <3>1, WaitGoesOn
  <2>4. CASE ~MustWait(NextSlot)
    <3>1. Prepare(NextSlot) /\ sAt' = "merge" /\ sResult' = "OK" /\ pending' = "UNKNOWN" /\ writeReady[NextSlot]
      BY <1>13, <2>1, <2>2, <2>4 DEF HLSClaim, SegmentPushed, Ends, MustWait
    <3> QED
      BY <2>1, <3>1, ClaimGoesOn DEF RingInv
  <2> QED
    BY <1>13, <2>1, <2>3, <2>2, <2>4 DEF HLSClaim
<1>14. CASE HLSFull
  <2>1. ASSUME NEW first \in 1..EndPosition, NEW n \in 0..NumCached, Flowing, position <= NumFiles,
               first + n <= EndPosition, Goes(first, n)
        PROVE  SourceGoesOn(first + n, n)'
    BY <1>14, <2>1 DEF Goes, SourceGoesOn, Dist, Halted, Arrived, EndPosition, NumFiles, OpenPlaces, WaitPlaces,
       RingInv, PlacesOK, SendsPending, Events, ConnOK, SoughtWaits, PhasesKnown, StopsKnown, SegmentSent,
       Flowing, HLSFull
  <2> QED
    BY <1>14, <2>1, SourceMoves DEF RingInv, PlacesOK, SendsPending, Events, ConnOK, SoughtWaits, PhasesKnown,
       StopsKnown, SegmentSent, Flowing, WaitPlaces, HLSFull
<1>15. CASE HLSWoken
  <2> SUFFICES ASSUME Flowing', position' <= NumFiles' PROVE RingGoes'
    BY DEF RingGoes
  <2>1. /\ Flowing /\ sAt = "hls woken" /\ pending = "SEGMENT" /\ bSrcresult = "OK" /\ ~sendNewSegment
        /\ writeIndex' = NextSlot /\ NextSlot \in Slots /\ mishaps' = mishaps
        /\ UNCHANGED <<stream, conn, failures, position, readIndex, out, bBuffer, bAt>>
        /\ sendNewSegment' <=> sendNewSegment
    <3>1. Flowing /\ sAt = "hls woken" /\ pending = "SEGMENT"
      BY <1>15 DEF HLSWoken, Flowing, RingInv, SendsPending
    <3>2. bSrcresult = "OK" /\ ~sendNewSegment
      BY <3>1 DEF StopsKnown, SegmentSent, WaitPlaces
    <3>3. NextSlot = writeIndex /\ writeIndex \in Slots
      BY <3>1, <3>2 DEF NextSlot, WaitPlaces, RingInv, ClaimKnown
    <3> QED
      BY <1>15, <3>1, <3>2, <3>3 DEF HLSWoken
  <2>2. NextSlot = writeIndex
    BY <2>1 DEF NextSlot, WaitPlaces
  <2>3. CASE MustWait(NextSlot) /\ sAt' = "hls full"
    <3>1. UNCHANGED <<caches, cacheSize, writeReady, pending>>
      BY <1>15, <2>1, <2>3, <2>2 DEF HLSWoken, SegmentPushed, Ends
    <3> QED
      BY <2>1, <2>3, <3>1, WaitGoesOn
  <2>4. CASE ~MustWait(NextSlot)
    <3>1. Prepare(NextSlot) /\ sAt' = "merge" /\ sResult' = "OK" /\ pending' = "UNKNOWN" /\ writeReady[NextSlot]
      BY <1>15, <2>1, <2>2, <2>4 DEF HLSWoken, SegmentPushed, Ends, MustWait
    <3> QED
      BY <2>1, <3>1, ClaimGoesOn DEF RingInv
  <2> QED
    BY <1>15, <2>1, <2>3, <2>2, <2>4 DEF HLSWoken
<1>16. CASE HLSChain
  <2>1. ASSUME NEW first \in 1..EndPosition, NEW n \in 0..NumCached, Flowing, position <= NumFiles,
               first + n <= EndPosition, Goes(first, n)
        PROVE  SourceGoesOn(first + n, n)'
    BY <1>16, <2>1 DEF Goes, SourceGoesOn, Dist, Halted, Arrived, EndPosition, NumFiles, OpenPlaces, WaitPlaces,
       RingInv, PlacesOK, SendsPending, Events, ConnOK, SoughtWaits, PhasesKnown, StopsKnown, SegmentSent,
       Flowing, HLSChain, BufferPushed, Ends
  <2> QED
    BY <1>16, <2>1, SourceMoves DEF RingInv, PlacesOK, SendsPending, Events, ConnOK, SoughtWaits, PhasesKnown,
       StopsKnown, SegmentSent, Flowing, WaitPlaces, HLSChain, BufferPushed, Ends
<1>17. CASE HLSWrite
  <2> SUFFICES ASSUME Flowing', position' <= NumFiles' PROVE RingGoes'
    BY DEF RingGoes
  <2>1. /\ Flowing /\ position <= NumFiles /\ sAt = "hls write" /\ pending = "UNKNOWN" /\ bSrcresult = "OK"
    <3>1. Flowing /\ position <= NumFiles /\ sAt = "hls write" /\ pending = "UNKNOWN"
      BY <1>17 DEF HLSWrite, Flowing, NumFiles, RingInv, SendsPending
    <3> QED
      BY <3>1 DEF StopsKnown
  <2>2. /\ caches' = [caches EXCEPT ![writeIndex] = cache_write_buffer(@, Chunk)]
        /\ sAt' = "merge" /\ sResult' = "OK"
        /\ UNCHANGED <<stream, conn, failures, pending, position, out, bBuffer>>
        /\ UNCHANGED <<cacheSize, writeReady, writeIndex, readIndex>> /\ (sendNewSegment' <=> sendNewSegment)
        /\ bAt' = "push" <=> bAt = "push"
        /\ mishaps' = mishaps
    BY <1>17, <2>1 DEF HLSWrite, MayWrite, SignalAdd, BufferPushed, Ends
  <2>3. CASE Stuck
    <3>1. writeIndex # readIndex
      BY <2>1, <2>3 DEF Stuck
    <3>2. caches'[readIndex] = caches[readIndex]
      BY <2>2, <3>1 DEF RingInv, RingOK
    <3> QED
      BY <2>2, <2>3, <3>1, <3>2 DEF Stuck, RingGoes
  <2>4. CASE \E first \in 1..EndPosition, n \in 0..NumCached : first + n <= EndPosition /\ Goes(first, n)
    <3>1. PICK first \in 1..EndPosition, n \in 0..NumCached : first + n <= EndPosition /\ Goes(first, n)
      BY <2>4
    <3>2. Goes(first, n)'
      BY <2>1, <2>2, <3>1, ChunkWritten
    <3> QED
      BY <2>2, <3>1, <3>2, GoesOn
  <2> QED
    BY <2>1, <2>3, <2>4 DEF RingGoes
<1>18. CASE HLSEos
  <2>1. ASSUME NEW first \in 1..EndPosition, NEW n \in 0..NumCached, Flowing, position <= NumFiles,
               first + n <= EndPosition, Goes(first, n)
        PROVE  SourceGoesOn(first + n, n)'
    BY <1>18, <2>1 DEF Goes, SourceGoesOn, Dist, Halted, Arrived, EndPosition, NumFiles, OpenPlaces, WaitPlaces,
       RingInv, PlacesOK, SendsPending, Events, ConnOK, SoughtWaits, PhasesKnown, StopsKnown, SegmentSent,
       Flowing, HLSEos, SignalAdd, Ends
  <2> QED
    BY <1>18, <2>1, SourceMoves DEF RingInv, PlacesOK, SendsPending, Events, ConnOK, SoughtWaits, PhasesKnown,
       StopsKnown, SegmentSent, Flowing, WaitPlaces, HLSEos, SignalAdd, Ends
<1>19. CASE HLSRead
  <2>1. RingOK /\ (Flowing' => Flowing)
    BY <1>19 DEF HLSRead, RingInv, Flowing
  <2> QED
    BY <1>19, <2>1, ReadGoesOn
<1>20. CASE HLSNothing
    BY <1>20, RestMoves DEF Flowing, PhasesKnown, PushEosDown, HLSNothing, ReaderRuns
<1>21. CASE HLSStopped
    BY <1>21, RestMoves DEF Flowing, PhasesKnown, PushEosDown, HLSStopped, ReaderRuns
<1>22. CASE HLSPush
  <2> SUFFICES ASSUME Flowing', position' <= NumFiles' PROVE RingGoes'
    BY DEF RingGoes
  <2>1. Flowing /\ position <= NumFiles
    BY <1>22 DEF HLSPush, Flowing, NumFiles
  <2> QED
    BY <1>22, <2>1, PushGoesOn
<1>23. CASE HLSMerge
    BY <1>23, RestMoves DEF Flowing, PhasesKnown, PushEosDown, HLSMerge, Merged
<1>24. CASE HLSFailed
    BY <1>24, RestMoves DEF Flowing, PhasesKnown, PushEosDown, HLSFailed
<1>25. CASE HLSPause
    BY <1>25, RestMoves DEF Flowing, PhasesKnown, PushEosDown, HLSPause
<1>26. CASE PushFlushStart /\ UNCHANGED <<bufferVars, hlsVars>>
    BY <1>26, RestMoves DEF Flowing, PhasesKnown, PushEosDown, PushFlushStart
<1>27. CASE MarkFlushing /\ UNCHANGED <<bufferVars, hlsVars>>
    BY <1>27 DEF RingGoes, Flowing, MarkFlushing
<1>28. CASE SeekData /\ UNCHANGED <<bufferVars, hlsVars>>
    BY <1>28 DEF RingGoes, Flowing, SeekData
<1>29. CASE PushFlushStop /\ UNCHANGED <<bufferVars, hlsVars>>
    BY <1>29 DEF RingGoes, Flowing, PushFlushStop
<1>30. CASE StartSource /\ UNCHANGED <<bufferVars, hlsVars>>
  <2>1. CASE ~(app = "start" /\ position <= NumFiles)
    BY <1>30, <2>1 DEF StartSource, RingGoes, Flowing, RingInv, PlacesOK, AppPlaces, NumFiles
  <2>2. CASE app = "start" /\ position <= NumFiles
    <3>1. /\ readIndex = 0 /\ (\A i \in Slots : caches[i].data = <<>>)
          /\ (writeIndex = -1 /\ \A i \in Slots : writeReady[i]) \/ (~writeReady[0] /\ mishaps # {})
      BY <2>2 DEF RingFlushed, Flushed, RestPlaces
    <3>2. /\ sAt = "idle" /\ pending = "SEGMENT" /\ sendNewSegment /\ out = <<>> /\ bAt # "push"
          /\ conn.next = position /\ RingOK /\ ConnOK /\ 0 \in 0..NumCached /\ position \in 1..EndPosition
      BY <2>2, NumCachedAssumption DEF RingInv, SoughtWaits, SegmentSent, PhasesKnown, StopsKnown, RestPlaces, HLSTypes
    <3>3. Stuck \/ (position + 0 <= EndPosition /\ Goes(position, 0))
      BY <2>2, <3>1, <3>2, StartsOver
    <3>4. /\ UNCHANGED <<stream, ringVars, position, out, bBuffer, mishaps, caches, cacheSize, readIndex, conn, failures>>
          /\ UNCHANGED <<pending, sAt, sSrcresult, sResult, flushing, bAt>> /\ (sendNewSegment' <=> sendNewSegment)
      BY <1>30 DEF StartSource
    <3>5. CASE Stuck
      BY <3>2, <3>4, <3>5, StuckSame DEF RingGoes
    <3>6. CASE position + 0 <= EndPosition /\ Goes(position, 0)
      <4> DEFINE at == position
      <4>1. at \in 1..EndPosition /\ at + 0 <= EndPosition /\ Goes(at, 0)
        BY <3>2, <3>6
      <4> HIDE DEF at
      <4>2. PICK first \in 1..EndPosition, n \in 0..NumCached : first + n <= EndPosition /\ Goes(first, n)
        BY <3>2, <4>1
      <4>3. RingHolds(first, n)' /\ ReaderGoesOn(first, n)'
        BY <3>4, <4>2, RingSame, ReaderSame DEF Goes
      <4>4. SourceGoesOn(first + n, n)'
        BY <3>4, <4>2, SourceSame DEF Goes
      <4> QED
        BY <3>4, <4>2, <4>3, <4>4, GoesOn DEF Goes
    <3> QED
      BY <3>3, <3>5, <3>6
  <2> QED
    BY <2>1, <2>2
<1>31. CASE StopSource /\ UNCHANGED <<bufferVars, hlsVars>>
    BY <1>31 DEF RingGoes, Flowing, StopSource
<1>32. CASE JoinSource /\ UNCHANGED <<bufferVars, hlsVars>>
    BY <1>32 DEF RingGoes, Flowing, JoinSource
<1>33. CASE HLSFlushFlag
    BY <1>33, RestMoves DEF Flowing, PhasesKnown, PushEosDown, HLSFlushFlag
<1>34. CASE HLSFlushDown
    BY <1>34 DEF RingGoes, Flowing, HLSFlushDown
<1>35. CASE HLSFlushData
    BY <1>35 DEF RingGoes, Flowing, HLSFlushData
<1>36. CASE HLSPauseReader
    BY <1>36 DEF RingGoes, Flowing, HLSPauseReader
<1>37. CASE HLSReaderPaused
    BY <1>37 DEF RingGoes, Flowing, HLSReaderPaused
<1>38. CASE HLSFlushStopDown
    BY <1>38 DEF RingGoes, Flowing, HLSFlushStopDown
<1>39. CASE HLSFlushStop
    BY <1>39 DEF RingGoes, Flowing, HLSFlushStop
<1>40. CASE HLSDeactivate
    BY <1>40 DEF RingGoes, Flowing, HLSDeactivate
<1>41. CASE HLSJoin
    BY <1>41 DEF RingGoes, Flowing, HLSJoin
<1>42. CASE HLSSinkJoin
    BY <1>42 DEF RingGoes, Flowing, HLSSinkJoin
<1>43. CASE \E to \in Positions : HLSSeek(to)
  <2>1. PICK to \in Positions : HLSSeek(to)
    BY <1>43
  <2> QED
    BY <2>1, RestMoves DEF Flowing, PhasesKnown, HLSSeek
<1>44. CASE HLSClose
    BY <1>44 DEF RingGoes, Flowing, HLSClose
<1>45. CASE HLSSpurious
  <2>1. ASSUME NEW first \in 1..EndPosition, NEW n \in 0..NumCached, Flowing, position <= NumFiles,
               first + n <= EndPosition, Goes(first, n)
        PROVE  SourceGoesOn(first + n, n)'
    BY <1>45, <2>1 DEF Goes, SourceGoesOn, Dist, Halted, Arrived, EndPosition, NumFiles, OpenPlaces, WaitPlaces,
       RingInv, PlacesOK, SendsPending, Events, ConnOK, SoughtWaits, PhasesKnown, StopsKnown, SegmentSent,
       Flowing, HLSSpurious
  <2> QED
    BY <1>45, <2>1, SourceMoves DEF RingInv, PlacesOK, SendsPending, Events, ConnOK, SoughtWaits, PhasesKnown,
       StopsKnown, SegmentSent, Flowing, WaitPlaces, HLSSpurious
<1>46. CASE SpuriousWakeUp /\ UNCHANGED hlsVars
    BY <1>46, RestMoves DEF Flowing, PhasesKnown, PushEosDown, SpuriousWakeUp
<1>47. CASE UNCHANGED <<sourceVars, bufferVars, hlsVars>>
    BY <1>47, RestMoves DEF Flowing, PhasesKnown, PushEosDown
<1> QED
    BY <1>1, <1>2, <1>3, <1>4, <1>5, <1>6, <1>7, <1>8, <1>9, <1>10, <1>11, <1>12, <1>13, <1>14, <1>15, <1>16,
       <1>17, <1>18, <1>19, <1>20, <1>21, <1>22, <1>23, <1>24, <1>25, <1>26, <1>27, <1>28, <1>29, <1>30, <1>31,
       <1>32, <1>33, <1>34, <1>35, <1>36, <1>37, <1>38, <1>39, <1>40, <1>41, <1>42, <1>43, <1>44, <1>45, <1>46,
       <1>47 DEF RingNext, SourceSteps, SeekSteps, HLSSourceSteps, HLSReaderSteps, HLSAppSteps

\* What the demuxer gets is the medium from the position of its SEGMENT on, to the end.
LEMMA HLSGivenStep ==
    ASSUME stream \in Streams, stream.hls, RingInv, HLSTypes, PhasesKnown, StopsKnown, SegmentSent, RingGoes, HLSGiven,
           RingNext
    PROVE  HLSGiven'
<1> USE DEF connVars, loopVars, appVars, bufferVars, readerVars, downVars, hlsVars, ringVars, sourceVars
<1>1. CASE LoopBegins /\ UNCHANGED <<bufferVars, hlsVars>>
    BY <1>1, GivenSame DEF LoopBegins, NextEvent, Ends
<1>2. CASE PushStreamStart /\ UNCHANGED <<bufferVars, hlsVars>>
    BY <1>2, GivenSame DEF PushStreamStart, Ends
<1>3. CASE GetStreamSize /\ UNCHANGED <<bufferVars, hlsVars>>
  <2>1. failures' = 0 => failures = 0
    <3>1. failures \in Nat /\ (failures' = failures \/ failures' = failures + 1)
      BY <1>3 DEF GetStreamSize, HLSTypes
    <3> QED
      BY ONLY <3>1
  <2> QED
    BY <1>3, <2>1, GivenSame DEF GetStreamSize
<1>4. CASE Sized /\ UNCHANGED <<bufferVars, hlsVars>>
    BY <1>4, GivenSame DEF Sized, WrongState, Ends
<1>5. CASE SegmentRefused /\ UNCHANGED <<bufferVars, hlsVars>>
    BY <1>5, GivenSame DEF SegmentRefused, SegmentPushed, Ends
<1>6. CASE ReadNextBlock /\ UNCHANGED <<bufferVars, hlsVars>>
  <2>1. failures' = 0 => failures = 0
    <3>1. failures \in Nat /\ (failures' = failures \/ failures' = failures + 1)
      BY <1>6 DEF ReadNextBlock, HLSTypes
    <3> QED
      BY ONLY <3>1
  <2> QED
    BY <1>6, <2>1, GivenSame DEF ReadNextBlock
<1>7. CASE BufferRefused /\ UNCHANGED <<bufferVars, hlsVars>>
    BY <1>7, GivenSame DEF BufferRefused, BufferPushed, Ends
<1>8. CASE EosRefused /\ UNCHANGED <<bufferVars, hlsVars>>
    BY <1>8, GivenSame DEF EosRefused, Ends
<1>9. CASE Merge /\ UNCHANGED <<bufferVars, hlsVars>>
    BY <1>9, GivenSame DEF Merge, Merged
<1>10. CASE HLSSegment
    BY <1>10, GivenSame DEF HLSSegment, SegmentPushed, Ends
<1>11. CASE HLSRestart
    BY <1>11, GivenSame DEF HLSRestart
<1>12. CASE HLSSendSegment
  <2>1. CASE ~sendNewSegment \/ dFlushing
    BY <1>12, <2>1, GivenSame DEF HLSSendSegment, PushSegmentDown
  <2>2. CASE sendNewSegment /\ ~dFlushing
    <3>1. dSegment' = position /\ out' = <<>> /\ stream' = stream /\ (dEos' <=> dEos) /\ Len(out') = 0
      BY <1>12, <2>2, EmptySeq DEF HLSSendSegment, PushSegmentDown
    <3>2. ~dEos /\ position \in 1..EndPosition /\ position # NoPosition
      <4>1. Flowing /\ pending = "SEGMENT"
        BY <1>12, <2>2 DEF HLSSendSegment, PhasesKnown, RingInv, SendsPending, SoughtWaits
      <4>2. ~dEos /\ position \in 1..EndPosition
        BY <4>1 DEF StopsKnown, HLSTypes
      <4> QED
        BY <4>2, SizesFacts DEF NoPosition
    <3>3. \A i \in 1..0 : FALSE
      BY ONLY 0 \in Nat
    <3>4. \A i \in 1..(0 - 1) : FALSE
      BY ONLY 0 \in Nat
    <3>5. EndPosition' = EndPosition
      BY <3>1 DEF EndPosition, NumFiles
    <3>6. MediumFrom(dSegment, out)'
      BY <3>1, <3>3, <3>4 DEF MediumFrom
    <3> QED
      BY <3>1, <3>2, <3>3, <3>5, <3>6 DEF HLSGiven
  <2> QED
    BY <2>1, <2>2
<1>13. CASE HLSClaim
    BY <1>13, GivenSame DEF HLSClaim, MustWait, Prepare, SegmentPushed, Ends
<1>14. CASE HLSFull
    BY <1>14, GivenSame DEF HLSFull
<1>15. CASE HLSWoken
    BY <1>15, GivenSame DEF HLSWoken, MustWait, Prepare, SegmentPushed, Ends
<1>16. CASE HLSChain
    BY <1>16, GivenSame DEF HLSChain, BufferPushed, Ends
<1>17. CASE HLSWrite
    BY <1>17, GivenSame DEF HLSWrite, MayWrite, BufferPushed, Ends, SignalAdd
<1>18. CASE HLSEos
    BY <1>18, GivenSame DEF HLSEos, SignalAdd, Ends
<1>19. CASE HLSRead
    BY <1>19, GivenSame DEF HLSRead, ReaderRuns, SignalDel
<1>20. CASE HLSNothing
  <2>1. CASE ~isEos \/ dFlushing
    BY <1>20, <2>1, GivenSame DEF HLSNothing, PushEosDown
  <2>2. CASE isEos /\ ~dFlushing
    <3>1. UNCHANGED <<stream, dSegment, out, mishaps, failures>>
      BY <1>20, <2>2 DEF HLSNothing, PushEosDown
    <3>2. /\ NumFiles' = NumFiles /\ EndPosition' = EndPosition /\ LastChunk' = LastChunk
          /\ MediumFrom(dSegment, out) => MediumFrom(dSegment, out)'
      BY <3>1 DEF EndPosition, NumFiles, LastChunk, MediumFrom, InMedium, FirstChunk, NextChunk
    <3>3. dSegment \in 1..NumFiles /\ mishaps = {} /\ failures = 0 => out # <<>> /\ out[Len(out)] = LastChunk
      <4>1. Flowing
        BY <1>20, <2>2 DEF HLSNothing, PhasesKnown, StopsKnown, RestPlaces, ReaderRuns
      <4> QED
        BY <1>20, <2>2, <4>1, EndSeen DEF HLSNothing
    <3> QED
      BY <3>1, <3>2, <3>3 DEF HLSGiven
  <2> QED
    BY <2>1, <2>2
<1>21. CASE HLSStopped
    BY <1>21, GivenSame DEF HLSStopped, ReaderRuns
<1>22. CASE HLSPush
  <2>1. CASE dFlushing
    BY <1>22, <2>1, GivenSame DEF HLSPush, PushBufferDown
  <2>2. CASE ~dFlushing
    <3>1. /\ UNCHANGED <<stream, dSegment>> /\ Flowing /\ ~dEos' /\ dSegment # NoPosition
          /\ NumFiles' = NumFiles /\ EndPosition' = EndPosition
      <4>1. bAt = "push" /\ UNCHANGED <<stream, dSegment>> /\ Flowing /\ (dEos' <=> dEos)
        BY <1>22, <2>2 DEF HLSPush, PushBufferDown, PhasesKnown, StopsKnown, RestPlaces
      <4>2. ~dEos /\ dSegment = position /\ position \in 1..EndPosition
        BY <4>1 DEF StopsKnown, SegmentSent, HLSTypes
      <4> QED
        BY <4>1, <4>2, SizesFacts DEF NoPosition, EndPosition, NumFiles
    <3>2. CASE position <= NumFiles
      <4>1. MediumFrom(position, out)' /\ dSegment = position /\ position' = position
            /\ (\A i, j \in 1..Len(out) : out[i] = out[j] => i = j)'
        BY <1>22, <3>1, <3>2, PushGoesOn DEF HLSPush
      <4> QED
        BY <3>1, <4>1 DEF HLSGiven
    <3>3. CASE ~(position <= NumFiles)
      <4>1. dSegment = position
        BY <1>22, <3>1 DEF SegmentSent, HLSPush
      <4>2. dSegment \notin 1..NumFiles
        BY <3>3, <4>1, SizesFacts
      <4> QED
        BY <3>1, <4>2 DEF HLSGiven
    <3> QED
      BY <3>2, <3>3
  <2> QED
    BY <2>1, <2>2
<1>23. CASE HLSMerge
    BY <1>23, GivenSame DEF HLSMerge, Merged
<1>24. CASE HLSFailed
    BY <1>24, GivenSame DEF HLSFailed
<1>25. CASE HLSPause
    BY <1>25, GivenSame DEF HLSPause
<1>26. CASE PushFlushStart /\ UNCHANGED <<bufferVars, hlsVars>>
    BY <1>26, GivenSame DEF PushFlushStart
<1>27. CASE MarkFlushing /\ UNCHANGED <<bufferVars, hlsVars>>
    BY <1>27, GivenSame DEF MarkFlushing
<1>28. CASE SeekData /\ UNCHANGED <<bufferVars, hlsVars>>
    BY <1>28, GivenSame DEF SeekData, SourceIdle, Sought
<1>29. CASE PushFlushStop /\ UNCHANGED <<bufferVars, hlsVars>>
    BY <1>29, GivenSame DEF PushFlushStop
<1>30. CASE StartSource /\ UNCHANGED <<bufferVars, hlsVars>>
    BY <1>30, GivenSame DEF StartSource
<1>31. CASE StopSource /\ UNCHANGED <<bufferVars, hlsVars>>
    BY <1>31, GivenSame DEF StopSource
<1>32. CASE JoinSource /\ UNCHANGED <<bufferVars, hlsVars>>
    BY <1>32, GivenSame DEF JoinSource, SourceIdle
<1>33. CASE HLSFlushFlag
    BY <1>33, GivenSame DEF HLSFlushFlag
<1>34. CASE HLSFlushDown
    BY <1>34, GivenSame DEF HLSFlushDown, FlushStartDown
<1>35. CASE HLSFlushData
    BY <1>35, GivenSame DEF HLSFlushData, FlushData, SignalAdd, SignalDel
<1>36. CASE HLSPauseReader
    BY <1>36, GivenSame DEF HLSPauseReader
<1>37. CASE HLSReaderPaused
    BY <1>37, GivenSame DEF HLSReaderPaused, ReaderIdle
<1>38. CASE HLSFlushStopDown
  <2>1. dSegment' = NoPosition /\ out' = <<>> /\ stream' = stream
    BY <1>38 DEF HLSFlushStopDown, FlushStopDown
  <2>2. NoPosition \notin 1..NumFiles' /\ NoPosition = -1
    BY DEF NoPosition
  <2> QED
    BY <2>1, <2>2 DEF HLSGiven
<1>39. CASE HLSFlushStop
    BY <1>39, GivenSame DEF HLSFlushStop
<1>40. CASE HLSDeactivate
    BY <1>40, GivenSame DEF HLSDeactivate, SignalAdd, SignalDel
<1>41. CASE HLSJoin
    BY <1>41, GivenSame DEF HLSJoin, ReaderIdle
<1>42. CASE HLSSinkJoin
    BY <1>42, GivenSame DEF HLSSinkJoin, InHandler
<1>43. CASE \E to \in Positions : HLSSeek(to)
  <2>1. PICK to \in Positions : HLSSeek(to)
    BY <1>43
  <2> QED
    BY <2>1, GivenSame DEF HLSSeek
<1>44. CASE HLSClose
    BY <1>44, GivenSame DEF HLSClose, FlushData, SignalAdd, SignalDel
<1>45. CASE HLSSpurious
    BY <1>45, GivenSame DEF HLSSpurious
<1>46. CASE SpuriousWakeUp /\ UNCHANGED hlsVars
    BY <1>46, GivenSame DEF SpuriousWakeUp
<1>47. CASE UNCHANGED <<sourceVars, bufferVars, hlsVars>>
    BY <1>47, GivenSame
<1> QED
    BY <1>1, <1>2, <1>3, <1>4, <1>5, <1>6, <1>7, <1>8, <1>9, <1>10, <1>11, <1>12, <1>13, <1>14, <1>15, <1>16,
       <1>17, <1>18, <1>19, <1>20, <1>21, <1>22, <1>23, <1>24, <1>25, <1>26, <1>27, <1>28, <1>29, <1>30, <1>31,
       <1>32, <1>33, <1>34, <1>35, <1>36, <1>37, <1>38, <1>39, <1>40, <1>41, <1>42, <1>43, <1>44, <1>45, <1>46,
       <1>47 DEF RingNext, SourceSteps, SeekSteps, HLSSourceSteps, HLSReaderSteps, HLSAppSteps

\* At the start the reader and the source are at the first file.
LEMMA RingDeliveryInit ==
    ASSUME Init, stream.hls
    PROVE  RingDeliveryInv
<1> USE DEF Init, JavaSourceInit, MediaBufferInit, HLSInit, RingInit
<1>1. stream \in Streams /\ RingOK /\ ConnOK
    BY InitInv DEF Inv, RingInv
<1>2. /\ NumFiles \in Nat \ {0} /\ EndPosition = NumFiles + 1 /\ position = 1 /\ target = 1
      /\ 1 \in 1..EndPosition /\ 1 <= NumFiles
    BY <1>1, SizesFacts
<1>3. HLSTypes
    BY <1>2, NothingGiven DEF HLSTypes
<1>4. PhasesKnown /\ StopsKnown
    BY DEF PhasesKnown, StopsKnown, Flowing, RestPlaces
<1>5. \A i \in Slots : caches[i].data = <<>>
    BY EmptyFacts
<1>6. SegmentSent /\ RingFlushed
    BY <1>5 DEF SegmentSent, RingFlushed, Flushed, RestPlaces, Flowing, WaitPlaces
<1>7. HLSGiven
  <2>1. NoPosition \notin 1..NumFiles
    BY <1>2 DEF NoPosition
  <2> QED
    BY <2>1 DEF HLSGiven
<1>8. RingGoes
  <2>1. Stuck \/ (0 \in 0..NumCached /\ position + 0 <= EndPosition /\ Goes(position, 0))
    BY <1>1, <1>2, <1>3, <1>5, StartsOver
  <2>2. position \in 1..EndPosition
    BY <1>2
  <2> QED
    BY <2>1, <2>2 DEF RingGoes
<1> QED
    BY <1>3, <1>4, <1>6, <1>7, <1>8 DEF RingDeliveryInv

\* The steps of an HLS stream are those of the source, of the ring and of its seeks.
LEMMA RingOnly ==
    ASSUME stream.hls, PlacesOK, [Next]_vars
    PROVE  RingNext
<1>1. CASE SourceThread
    BY <1>1, NoOtherBuffer DEF SourceThread, RingNext
<1>2. CASE ReaderThread
    BY <1>2, NoOtherBuffer DEF ReaderThread, RingNext
<1>3. CASE AppThread
    BY <1>3, NoOtherBuffer DEF AppThread, RingNext
<1>4. CASE Requests \/ Spurious
    BY <1>4, NoOtherBuffer DEF Requests, Spurious, RingNext
<1>5. CASE UNCHANGED vars
    BY <1>5 DEF vars, RingNext
<1> QED
    BY <1>1, <1>2, <1>3, <1>4, <1>5 DEF Next

\* Every step of an HLS stream keeps the invariant.
LEMMA RingDeliveryStep ==
    ASSUME stream \in Streams, stream.hls, RingInv, RingDeliveryInv, [Next]_vars
    PROVE  RingDeliveryInv'
<1>1. RingNext
    BY RingOnly DEF RingInv
<1> USE DEF RingInv, RingDeliveryInv
<1>2. HLSTypes'
    BY <1>1, HLSTypesStep
<1>3. PhasesKnown'
    BY <1>1, PhasesKnownStep
<1>4. StopsKnown'
    BY <1>1, StopsKnownStep
<1>5. SegmentSent'
    BY <1>1, SegmentSentStep
<1>6. RingFlushed'
    BY <1>1, RingFlushedStep
<1>7. RingGoes'
    BY <1>1, RingGoesStep
<1>8. HLSGiven'
    BY <1>1, HLSGivenStep
<1> QED
    BY <1>2, <1>3, <1>4, <1>5, <1>6, <1>7, <1>8

-----------------------------------------------------------------------------
(* What an HLS stream gives to the demuxer: what follows. *)

\* What the demuxer of an HLS stream has is in order, and ends with the medium.
LEMMA RingDeliveryImplies ==
    ASSUME stream \in Streams, stream.hls, RingDeliveryInv
    PROVE  InOrder /\ EosIsEnd
<1>1. /\ NumFiles \in Nat /\ EndPosition = NumFiles + 1
      /\ dSegment \in {NoPosition} \union 1..EndPosition
    BY SizesFacts DEF RingDeliveryInv, HLSGiven
<1>2. dSegment # NoPosition /\ dSegment # EndPosition => dSegment \in 1..NumFiles
    BY ONLY <1>1
<1>3. Undisturbed /\ dSegment # NoPosition => dSegment = target
  <2>1. app = "idle" /\ dSegment # NoPosition => ~sendNewSegment
    BY DEF RingDeliveryInv, SegmentSent, Flowing
  <2>2. app = "idle" /\ ~sendNewSegment => dSegment = position
    BY DEF RingDeliveryInv, SegmentSent, Flowing
  <2>3. app = "idle" => position = target
    BY DEF RingDeliveryInv, PhasesKnown
  <2> QED
    BY <2>1, <2>2, <2>3 DEF Undisturbed
<1>4. InOrder
  <2> SUFFICES ASSUME out # <<>>, ~BeyondEnd
               PROVE  dSegment # NoPosition /\ MediumFrom(dSegment, out) /\ (Undisturbed => dSegment = target)
    BY DEF InOrder
  <2>1. dSegment \in 1..NumFiles /\ dSegment # NoPosition
    BY <1>2 DEF BeyondEnd, RingDeliveryInv, HLSGiven
  <2> QED
    BY <1>3, <2>1 DEF RingDeliveryInv, HLSGiven
<1>5. EosIsEnd
  <2> SUFFICES ASSUME dEos, mishaps = {}, failures = 0, ~BeyondEnd, dSegment # NoPosition
               PROVE  MediumFrom(dSegment, out) /\ out # <<>> /\ out[Len(out)] = LastChunk
    BY DEF EosIsEnd
  <2>1. dSegment \in 1..NumFiles
    BY <1>2 DEF BeyondEnd
  <2> QED
    BY <2>1 DEF RingDeliveryInv, HLSGiven
<1> QED
    BY <1>4, <1>5

\* There is a slot at each distance from the one that is read.
LEMMA SlotAt ==
    ASSUME readIndex \in Slots, NEW d \in 0..(NumCached - 1)
    PROVE  \E i \in Slots : Dist(i) = d
<1>1. /\ NumCached \in Nat \ {0} /\ readIndex \in 0..(NumCached - 1)
    BY NumCachedAssumption DEF Slots
<1> DEFINE r == readIndex
<1> DEFINE at == IF r + d < NumCached THEN r + d ELSE r + d - NumCached
<1>2. r \in Nat /\ d \in Nat /\ r < NumCached /\ d < NumCached
    BY <1>1
<1> HIDE DEF r
<1>3. at \in 0..(NumCached - 1) /\ (IF at >= r THEN at - r ELSE at + NumCached - r) = d
    BY ONLY <1>1, <1>2
<1> HIDE DEF at
<1>4. at \in Slots /\ Dist(at) = d
    BY <1>3 DEF Slots, Dist, Gap, r
<1> QED
    BY <1>4

\* What is pushed or was given begins at the position; what is read next comes after.
LEMMA GivenIsBefore ==
    ASSUME stream \in Streams, stream.hls, NEW first \in 1..EndPosition, NEW n \in 0..NumCached,
           first + n <= EndPosition, ReaderGoesOn(first, n), ~sendNewSegment, HLSTypes, position \in 1..NumFiles,
           MediumFrom(position, out)
    PROVE  /\ position <= first
           /\ \A f \in 1..NumFiles : \A b \in 1..stream.sizes[f] :
                 /\ (\E i \in 1..Len(out) : out[i] = <<f, b>>) \/ (bAt = "push" /\ bBuffer = <<f, b>>)
                       <=> position <= f /\ Before(<<f, b>>, ReadNext(first, n))
                 /\ ~((\E i \in 1..Len(out) : out[i] = <<f, b>>) /\ (bAt = "push" /\ bBuffer = <<f, b>>))
<1> DEFINE give == GiveNext(first, n)
<1> DEFINE read == ReadNext(first, n)
<1>1. /\ NumFiles \in Nat /\ EndPosition \in Nat /\ first \in Nat /\ position \in Nat /\ position <= EndPosition
      /\ read[1] = first
    BY SizesFacts DEF ReadNext
<1>2. /\ bAt = "push" => bBuffer \in Nat \X Nat /\ InMedium(bBuffer) /\ NextChunk(bBuffer) = read /\ give = bBuffer
      /\ bAt # "push" => give = read
    BY DEF HLSTypes, ReaderGoesOn, GiveNext
<1>3. position <= give[1] /\ give[1] \in Nat
  <2>1. CASE out = <<>>
    <3>1. give = <<position, 1>>
      BY <2>1 DEF ReaderGoesOn
    <3>2. give[1] = position
      BY <3>1
    <3> QED
      BY <1>1, <3>2
  <2>2. CASE out # <<>>
    <3> DEFINE last == out[Len(out)]
    <3>1. Len(out) \in 1..Len(out) /\ last \in Nat \X Nat
      <4>1. out \in Seq(Nat \X Nat) /\ Len(out) \in Nat /\ Len(out) # 0
        BY <2>2, EmptySeq, LenProperties DEF HLSTypes
      <4>2. Len(out) \in 1..Len(out)
        BY ONLY <4>1
      <4> QED
        BY <4>1, <4>2, ElementOfSeq
    <3>2. InMedium(last) /\ NextChunk(last) = give
      BY <2>2, <3>1 DEF MediumFrom, ReaderGoesOn
    <3>3. give \in Nat \X Nat /\ last[1] <= give[1]
      BY <3>1, <3>2, NextIsLater
    <3>4. position <= last[1] /\ last[1] \in Nat
      <4>1. last[1] \in 1..NumFiles /\ last[2] \in 1..stream.sizes[last[1]] /\ last = <<last[1], last[2]>>
        BY <3>1, <3>2 DEF InMedium
      <4>2. \E i \in 1..Len(out) : out[i] = <<last[1], last[2]>>
        BY <3>1, <4>1
      <4> HIDE DEF last
      <4>3. position <= last[1]
        BY <4>1, <4>2 DEF ReaderGoesOn
      <4> QED
        BY <4>1, <4>3
    <3> HIDE DEF last, give
    <3>5. give[1] \in Nat
      BY <3>3
    <3> QED
      BY ONLY <1>1, <3>3, <3>4, <3>5
  <2> QED
    BY <2>1, <2>2
<1> HIDE DEF give, read
<1>4. position <= first
  <2>1. bAt = "push" => bBuffer[1] <= read[1] /\ bBuffer[1] \in Nat
    BY <1>2, NextIsLater
  <2>2. give[1] <= first
    BY <1>1, <1>2, <1>3, <2>1
  <2> QED
    BY ONLY <1>1, <1>3, <2>2
<1>5. ASSUME NEW f \in 1..NumFiles, NEW b \in 1..stream.sizes[f]
      PROVE  /\ (\E i \in 1..Len(out) : out[i] = <<f, b>>) \/ (bAt = "push" /\ bBuffer = <<f, b>>)
                    <=> position <= f /\ Before(<<f, b>>, read)
             /\ ~((\E i \in 1..Len(out) : out[i] = <<f, b>>) /\ (bAt = "push" /\ bBuffer = <<f, b>>))
  <2>1. (\E i \in 1..Len(out) : out[i] = <<f, b>>) <=> position <= f /\ Before(<<f, b>>, give)
    BY DEF ReaderGoesOn, give
  <2>2. CASE bAt # "push"
    BY <1>2, <2>1, <2>2
  <2>3. CASE bAt = "push"
    <3>1. Before(<<f, b>>, read) <=> (Before(<<f, b>>, give) \/ <<f, b>> = give)
      BY <1>2, <2>3, BeforeNext
    <3>2. <<f, b>> = give => position <= f /\ ~Before(<<f, b>>, give)
      <4>1. f \in Nat /\ b \in Nat
        BY <1>1, SizesFacts
      <4>2. ~Before(<<f, b>>, <<f, b>>)
        BY <4>1 DEF Before
      <4> QED
        BY <1>3, <4>2
    <3> QED
      BY <1>2, <2>1, <2>3, <3>1, <3>2
  <2> QED
    BY <2>2, <2>3
<1> QED
    BY <1>4, <1>5 DEF read

\* The places of chunks, and which chunk is where.
LEMMA PlacesAre ==
    /\ \A p : p \in Places <=>
          \/ \E i \in 1..Len(out) : p = <<"out", 0, i>>
          \/ bBuffer # NoBuffer /\ p = <<"reader", 0, 0>>
          \/ \E i \in Slots : \E b \in (caches[i].read + 1)..Len(caches[i].data) : p = <<"ring", i, b>>
          \/ sAt \in {"buffer", "hls write"} /\ p = <<"source", 0, 0>>
    /\ \A i : ChunkAt(<<"out", 0, i>>) = out[i]
    /\ ChunkAt(<<"reader", 0, 0>>) = bBuffer
    /\ \A i, b : ChunkAt(<<"ring", i, b>>) = caches[i].data[b]
    /\ ChunkAt(<<"source", 0, 0>>) = Chunk
<1>1. ASSUME NEW p
      PROVE  p \in Places <=>
                \/ \E i \in 1..Len(out) : p = <<"out", 0, i>>
                \/ bBuffer # NoBuffer /\ p = <<"reader", 0, 0>>
                \/ \E i \in Slots : \E b \in (caches[i].read + 1)..Len(caches[i].data) : p = <<"ring", i, b>>
                \/ sAt \in {"buffer", "hls write"} /\ p = <<"source", 0, 0>>
  <2> DEFINE O == {<<"out", 0, i>> : i \in 1..Len(out)}
  <2> DEFINE R == IF bBuffer = NoBuffer THEN {} ELSE {<<"reader", 0, 0>>}
  <2> DEFINE C(i) == {<<"ring", i, b>> : b \in (caches[i].read + 1)..Len(caches[i].data)}
  <2> DEFINE U == UNION {C(i) : i \in Slots}
  <2> DEFINE S == IF sAt \in {"buffer", "hls write"} THEN {<<"source", 0, 0>>} ELSE {}
  <2>1. p \in O <=> \E i \in 1..Len(out) : p = <<"out", 0, i>>
    OBVIOUS
  <2>2. p \in R <=> bBuffer # NoBuffer /\ p = <<"reader", 0, 0>>
    OBVIOUS
  <2>3. p \in U <=> \E i \in Slots : p \in C(i)
    BY Zenon
  <2>4. \A i : p \in C(i) <=> \E b \in (caches[i].read + 1)..Len(caches[i].data) : p = <<"ring", i, b>>
    BY Zenon
  <2>5. p \in S <=> sAt \in {"buffer", "hls write"} /\ p = <<"source", 0, 0>>
    OBVIOUS
  <2>6. p \in Places <=> p \in O \/ p \in R \/ p \in U \/ p \in S
    BY Zenon DEF Places
  <2> HIDE DEF O, R, U, S, C
  <2> QED
    BY <2>1, <2>2, <2>3, <2>4, <2>5, <2>6, Zenon
<1>2. \A i : ChunkAt(<<"out", 0, i>>) = out[i]
    BY DEF ChunkAt
<1>3. ChunkAt(<<"reader", 0, 0>>) = bBuffer
    BY DEF ChunkAt
<1>4. \A i, b : ChunkAt(<<"ring", i, b>>) = caches[i].data[b]
    BY DEF ChunkAt
<1>5. ChunkAt(<<"source", 0, 0>>) = Chunk
    BY DEF ChunkAt
<1> QED
    BY <1>1, <1>2, <1>3, <1>4, <1>5

\* What was read since the SEGMENT: the files before the one that comes next, as far as they
\* were read.
LEMMA ReadSinceIs ==
    ASSUME stream \in Streams, RingInv, NEW next \in 1..EndPosition, NEW n, SourceGoesOn(next, n), flushing = {},
           ~sendNewSegment, dSegment = position, position \in 1..NumFiles, pending # "STREAM_START",
           NEW f \in 1..NumFiles, NEW b \in 1..stream.sizes[f]
    PROVE  ReadSince(<<f, b>>) <=>
               position <= f /\ (f < next - 1 \/ (f = next - 1 /\ (pending = "UNKNOWN" => b <= conn.read)))
<1>1. /\ NumFiles \in Nat /\ EndPosition \in Nat /\ f \in Nat /\ b \in Nat /\ b >= 1 /\ b <= stream.sizes[f]
      /\ stream.sizes[f] \in Nat /\ position \in Nat /\ next \in Nat
      /\ conn.file \in Nat /\ conn.read \in Nat
    BY SizesFacts DEF RingInv, ConnOK
<1> DEFINE size == stream.sizes[f]
<1> DEFINE file == conn.file
<1> DEFINE got == conn.read
<1>2. ReadSince(<<f, b>>) <=>
         position <= f /\ f <= file /\ 1 <= b /\ (f = file => b <= got) /\ (f # file => b <= size)
  <2>1. f \in position..file <=> position <= f /\ f <= file
    BY <1>1
  <2>2. b \in 1..(IF f = file THEN got ELSE size) <=> 1 <= b /\ (f = file => b <= got) /\ (f # file => b <= size)
    BY <1>1
  <2> HIDE DEF size, file, got
  <2>3. ReadSince(<<f, b>>) <=> f \in position..file /\ b \in 1..(IF f = file THEN got ELSE size)
    BY DEF ReadSince, size, file, got
  <2> QED
    BY ONLY <2>1, <2>2, <2>3
<1>3. CASE sAt \in OpenPlaces
  <2>1. file = next /\ got = 0 /\ pending # "UNKNOWN"
    BY <1>3 DEF SourceGoesOn, OpenPlaces, WaitPlaces, RingInv, SendsPending
  <2> HIDE DEF size, file, got
  <2>2. f <= file /\ (f = file => b <= got) /\ (f # file => b <= size) <=> f <= next - 1
    BY ONLY <1>1, <2>1 DEF size
  <2>3. f <= next - 1 <=> f < next - 1 \/ f = next - 1
    BY ONLY <1>1
  <2> QED
    BY <1>1, <1>2, <2>1, <2>2, <2>3
<1>4. CASE sAt \notin OpenPlaces /\ pending # "UNKNOWN"
  <2>1. file = next - 1 /\ (f = file => got = size)
    BY <1>4 DEF SourceGoesOn, RingInv, SendsPending, Events
  <2> HIDE DEF size, file, got
  <2>2. f <= file /\ (f = file => b <= got) /\ (f # file => b <= size) <=> f < next - 1 \/ f = next - 1
    BY ONLY <1>1, <2>1 DEF size
  <2> QED
    BY <1>1, <1>2, <1>4, <2>2
<1>5. CASE pending = "UNKNOWN"
  <2>1. file = next - 1
    BY <1>5 DEF SourceGoesOn
  <2> HIDE DEF size, file
  <2>2. f <= file /\ (f = file => b <= got) /\ (f # file => b <= size) <=> f < next - 1 \/ (f = next - 1 /\ b <= got)
    BY ONLY <1>1, <2>1 DEF size
  <2> QED
    BY <1>1, <1>2, <1>5, <2>2
<1> QED
    BY <1>3, <1>4, <1>5

\* The chunks in the slots that were not read yet.
LEMMA SlotChunks ==
    ASSUME stream \in Streams, RingOK, NEW first \in 1..EndPosition, NEW n \in 0..NumCached,
           first + n <= EndPosition, RingHolds(first, n), NEW i \in Slots
    PROVE  /\ \A b \in (caches[i].read + 1)..Len(caches[i].data) :
                 /\ Dist(i) < n /\ caches[i].data[b] = <<first + Dist(i), b>>
                 /\ first + Dist(i) \in 1..NumFiles /\ b \in 1..stream.sizes[first + Dist(i)]
                 /\ ~Before(<<first + Dist(i), b>>, ReadNext(first, n))
           /\ \A b \in 1..Len(caches[i].data) :
                 Dist(i) < n /\ ~Before(<<first + Dist(i), b>>, ReadNext(first, n)) =>
                     b \in (caches[i].read + 1)..Len(caches[i].data) /\ caches[i].data[b] = <<first + Dist(i), b>>
<1> DEFINE len == Len(caches[i].data)
<1> DEFINE read == caches[i].read
<1> DEFINE d == Dist(i)
<1>1. /\ NumFiles \in Nat /\ first \in Nat \ {0} /\ n \in Nat /\ len \in Nat /\ read \in Nat /\ read <= len
      /\ d \in Nat /\ (d = 0 <=> i = readIndex)
    BY GoesFacts
<1>2. /\ d < n => /\ first + d <= NumFiles /\ cacheSize[i] = stream.sizes[first + d] /\ len <= cacheSize[i]
                  /\ \A b \in 1..len : caches[i].data[b] = <<first + d, b>>
                  /\ d > 0 => read = 0
      /\ d >= n => read = len
    BY DEF RingHolds, Holds
<1>3. ASSUME NEW b \in 1..len, d < n
      PROVE  Before(<<first + d, b>>, ReadNext(first, n)) <=> d = 0 /\ b < read + 1
  <2>1. b \in Nat /\ n # 0
    BY ONLY <1>1, <1>3
  <2>2. Before(<<first + d, b>>, ReadNext(first, n)) <=>
           first + d < first \/ (first + d = first /\ b < caches[readIndex].read + 1)
    BY <2>1 DEF Before, ReadNext
  <2>3. d = 0 => caches[readIndex].read = read
    BY <1>1
  <2> HIDE DEF d, read, len
  <2>4. ~(first + d < first) /\ (first + d = first <=> d = 0)
    BY ONLY <1>1
  <2> QED
    BY <2>2, <2>3, <2>4
<1> HIDE DEF d, read, len
<1>4. ASSUME NEW b \in (read + 1)..len
      PROVE  /\ d < n /\ caches[i].data[b] = <<first + d, b>>
             /\ first + d \in 1..NumFiles /\ b \in 1..stream.sizes[first + d]
             /\ ~Before(<<first + d, b>>, ReadNext(first, n))
  <2>1. b \in Nat /\ b >= read + 1 /\ b \in 1..len /\ d < n /\ ~(b < read + 1)
    BY ONLY <1>1, <1>2, <1>4
  <2>2. first + d \in 1..NumFiles
    BY <1>1, <1>2, <2>1
  <2>3. stream.sizes[first + d] \in Nat /\ len <= stream.sizes[first + d]
    BY <1>2, <2>1, <2>2, SizesFacts
  <2>4. b \in 1..stream.sizes[first + d]
    BY ONLY <1>1, <2>1, <2>3
  <2> QED
    BY <1>2, <1>3, <2>1, <2>2, <2>4
<1>5. ASSUME NEW b \in 1..len, d < n, ~Before(<<first + d, b>>, ReadNext(first, n))
      PROVE  b \in (read + 1)..len /\ caches[i].data[b] = <<first + d, b>>
  <2>1. ~(d = 0 /\ b < read + 1)
    BY <1>3, <1>5
  <2>2. d > 0 => read = 0
    BY <1>2, <1>5
  <2>3. b \in (read + 1)..len
    BY ONLY <1>1, <2>1, <2>2, b \in 1..len
  <2> QED
    BY <1>2, <1>5, <2>3
<1> QED
    BY <1>4, <1>5 DEF d, read, len

\* How much of the last file is in the ring; the source may have one more chunk.
LEMMA LastFile ==
    ASSUME stream \in Streams, RingInv, NEW first \in 1..EndPosition, NEW n \in 0..NumCached,
           first + n <= EndPosition, Goes(first, n), flushing = {}
    PROVE  /\ \A i \in Slots : Dist(i) < n =>
                 /\ Dist(i) # n - 1 \/ pending # "UNKNOWN" => Len(caches[i].data) = stream.sizes[first + Dist(i)]
                 /\ Dist(i) = n - 1 /\ pending = "UNKNOWN" /\ sAt \in {"buffer", "hls write"} =>
                       Len(caches[i].data) = conn.read - 1
                 /\ Dist(i) = n - 1 /\ pending = "UNKNOWN" /\ sAt \notin {"buffer", "hls write"} =>
                       Len(caches[i].data) = conn.read
           /\ pending = "UNKNOWN" => conn.file = (first + n) - 1
           /\ pending = "UNKNOWN" /\ n = 0 => conn.read = stream.sizes[(first + n) - 1] /\ sAt \notin {"buffer", "hls write"}
           /\ sAt \in {"buffer", "hls write"} => pending = "UNKNOWN"
<1>1. /\ n \in Nat /\ first \in Nat
      /\ \A i \in Slots : Dist(i) \in Nat
    BY GoesFacts DEF RingInv
<1>2. ASSUME NEW i \in Slots, Dist(i) < n
      PROVE  /\ Dist(i) # n - 1 \/ pending # "UNKNOWN" => Len(caches[i].data) = stream.sizes[first + Dist(i)]
             /\ Dist(i) = n - 1 /\ pending = "UNKNOWN" /\ sAt \in {"buffer", "hls write"} =>
                   Len(caches[i].data) = conn.read - 1
             /\ Dist(i) = n - 1 /\ pending = "UNKNOWN" /\ sAt \notin {"buffer", "hls write"} =>
                   Len(caches[i].data) = conn.read
  <2> DEFINE d == Dist(i)
  <2>1. d \in Nat /\ d < n
    BY <1>1, <1>2
  <2>2. cacheSize[i] = stream.sizes[first + d]
    BY <1>2 DEF Goes, RingHolds, Holds
  <2>3. d < n - 1 => Len(caches[i].data) = cacheSize[i]
    BY DEF Goes, RingHolds
  <2>4. d = n - 1 /\ pending # "UNKNOWN" => Len(caches[i].data) = cacheSize[i]
    BY DEF Goes, SourceGoesOn
  <2>5. d = n - 1 /\ pending = "UNKNOWN" => Len(caches[i].data) = Arrived
    BY DEF Goes, SourceGoesOn
  <2> HIDE DEF d
  <2>6. d < n - 1 \/ d = n - 1
    BY ONLY <1>1, <2>1
  <2>7. /\ d # n - 1 \/ pending # "UNKNOWN" => Len(caches[i].data) = cacheSize[i]
        /\ d = n - 1 /\ pending = "UNKNOWN" => Len(caches[i].data) = Arrived
    BY <2>3, <2>4, <2>5, <2>6
  <2>8. Arrived = IF sAt \in {"buffer", "hls write"} THEN conn.read - 1 ELSE conn.read
    BY DEF Arrived
  <2>9. d = Dist(i)
    BY DEF d
  <2> QED
    BY ONLY <2>2, <2>7, <2>8, <2>9
<1>3. pending = "UNKNOWN" => conn.file = (first + n) - 1
    BY DEF Goes, SourceGoesOn
<1>4. ASSUME pending = "UNKNOWN", n = 0
      PROVE  conn.read = stream.sizes[(first + n) - 1] /\ sAt \notin {"buffer", "hls write"}
  <2>1. Arrived = stream.sizes[conn.file] /\ conn.file = (first + n) - 1
    BY <1>3, <1>4 DEF Goes, SourceGoesOn
  <2>2. conn.read \in Nat /\ conn.read <= stream.sizes[conn.file] /\ stream.sizes[conn.file] \in Nat
    BY SizesFacts DEF RingInv, ConnOK
  <2>3. Arrived # conn.read - 1
    BY <2>1, <2>2
  <2> QED
    BY <2>1, <2>3 DEF Arrived
<1> QED
    BY <1>2, <1>3, <1>4 DEF RingInv, SendsPending

\* A chunk of the medium is in the ring if it is of one of its files and was not read yet.
LEMMA InSlot ==
    ASSUME stream \in Streams, RingOK, NEW first \in 1..EndPosition, NEW n \in 0..NumCached,
           first + n <= EndPosition, RingHolds(first, n), NEW f \in 1..NumFiles, NEW b \in 1..stream.sizes[f],
           first <= f, f < first + n, ~Before(<<f, b>>, ReadNext(first, n))
    PROVE  \E i \in Slots : /\ first + Dist(i) = f /\ Dist(i) < n
                            /\ b <= Len(caches[i].data) =>
                                  b \in (caches[i].read + 1)..Len(caches[i].data) /\ caches[i].data[b] = <<f, b>>
<1>1. /\ NumFiles \in Nat /\ f \in Nat /\ b \in Nat /\ b >= 1 /\ first \in Nat /\ n \in Nat /\ n <= NumCached
      /\ NumCached \in Nat /\ f - first \in 0..(NumCached - 1) /\ f - first < n
  <2>1. NumFiles \in Nat /\ first \in Nat /\ n \in Nat /\ n <= NumCached /\ NumCached \in Nat
    BY GoesFacts
  <2>2. f \in Nat /\ b \in Nat /\ b >= 1
    BY <2>1, SizesFacts
  <2> QED
    BY ONLY <2>1, <2>2, first <= f, f < first + n
<1>2. PICK i \in Slots : Dist(i) = f - first
    BY <1>1, SlotAt DEF RingOK
<1>3. first + Dist(i) = f /\ Dist(i) < n
    BY ONLY <1>1, <1>2
<1>4. b <= Len(caches[i].data) => b \in 1..Len(caches[i].data)
    BY <1>1, GoesFacts
<1> QED
    BY <1>2, <1>3, <1>4, SlotChunks

\* A chunk was read since the SEGMENT exactly if it is in a place.
LEMMA ReadIsPlaced ==
    ASSUME stream \in Streams, stream.hls, RingInv, HLSTypes,
           NEW first \in 1..EndPosition, NEW n \in 0..NumCached, first + n <= EndPosition, Goes(first, n),
           flushing = {}, ~sendNewSegment, dSegment = position, position \in 1..NumFiles, pending # "STREAM_START",
           MediumFrom(position, out), NEW f \in 1..NumFiles, NEW b \in 1..stream.sizes[f]
    PROVE  ReadSince(<<f, b>>) <=>
              \/ \E i \in 1..Len(out) : out[i] = <<f, b>>
              \/ bAt = "push" /\ bBuffer = <<f, b>>
              \/ \E i \in Slots : \E k \in (caches[i].read + 1)..Len(caches[i].data) : caches[i].data[k] = <<f, b>>
              \/ sAt \in {"buffer", "hls write"} /\ Chunk = <<f, b>>
<1> DEFINE given == (\E i \in 1..Len(out) : out[i] = <<f, b>>) \/ (bAt = "push" /\ bBuffer = <<f, b>>)
<1> DEFINE inRing == \E i \in Slots : \E k \in (caches[i].read + 1)..Len(caches[i].data) : caches[i].data[k] = <<f, b>>
<1> DEFINE atSource == sAt \in {"buffer", "hls write"} /\ Chunk = <<f, b>>
<1> DEFINE read == caches[readIndex].read
<1> DEFINE last == (first + n) - 1
<1>1. /\ NumFiles \in Nat /\ f \in Nat /\ b \in Nat /\ b >= 1 /\ first \in Nat /\ n \in Nat /\ position \in Nat
      /\ b <= stream.sizes[f] /\ stream.sizes[f] \in Nat /\ conn.read \in Nat
      /\ RingOK /\ RingHolds(first, n) /\ readIndex \in Slots /\ first + n \in 1..EndPosition
  <2>1. NumFiles \in Nat /\ EndPosition \in Nat /\ RingOK /\ RingHolds(first, n) /\ readIndex \in Slots
    BY SizesFacts DEF RingInv, RingOK, Goes
  <2>2. f \in Nat /\ b \in Nat /\ b >= 1 /\ b <= stream.sizes[f] /\ stream.sizes[f] \in Nat
    BY <2>1, SizesFacts
  <2>3. conn.read \in Nat
    BY DEF RingInv, ConnOK
  <2>4. first \in Nat /\ n \in Nat /\ position \in Nat /\ first + n \in 1..EndPosition
    BY ONLY <2>1, NumCachedAssumption, first \in 1..EndPosition, n \in 0..NumCached, first + n <= EndPosition,
            position \in 1..NumFiles
  <2> QED
    BY <2>1, <2>2, <2>3, <2>4
<1>2. ReadSince(<<f, b>>) <=> position <= f /\ (f < last \/ (f = last /\ (pending = "UNKNOWN" => b <= conn.read)))
    BY <1>1, ReadSinceIs DEF Goes
<1>3. position <= first /\ (given <=> position <= f /\ Before(<<f, b>>, ReadNext(first, n)))
    BY GivenIsBefore DEF Goes
<1>4. Before(<<f, b>>, ReadNext(first, n)) <=> f < first \/ (f = first /\ n # 0 /\ b < read + 1)
  <2>1. CASE n = 0
    <3>1. Before(<<f, b>>, ReadNext(first, n)) <=> f < first \/ (f = first /\ b < 1)
      BY <2>1 DEF Before, ReadNext
    <3>2. ~(b < 1)
      BY ONLY <1>1
    <3> QED
      BY <2>1, <3>1, <3>2
  <2>2. CASE n # 0
    BY <2>2 DEF Before, ReadNext
  <2> QED
    BY <2>1, <2>2
<1> HIDE DEF given, inRing, atSource, read, last
<1>5. n # 0 => read \in Nat /\ read <= Len(caches[readIndex].data) /\ Len(caches[readIndex].data) \in Nat
               /\ Dist(readIndex) = 0 /\ Dist(readIndex) < n
    BY <1>1, GoesFacts DEF read
<1>10. ASSUME NEW i \in Slots, Dist(i) < n, Dist(i) = n - 1, pending = "UNKNOWN"
       PROVE  /\ sAt \in {"buffer", "hls write"} => Len(caches[i].data) = conn.read - 1
              /\ sAt \notin {"buffer", "hls write"} => Len(caches[i].data) = conn.read
  <2>1. \A j \in Slots : Dist(j) < n =>
           /\ Dist(j) # n - 1 \/ pending # "UNKNOWN" => Len(caches[j].data) = stream.sizes[first + Dist(j)]
           /\ Dist(j) = n - 1 /\ pending = "UNKNOWN" /\ sAt \in {"buffer", "hls write"} =>
                 Len(caches[j].data) = conn.read - 1
           /\ Dist(j) = n - 1 /\ pending = "UNKNOWN" /\ sAt \notin {"buffer", "hls write"} =>
                 Len(caches[j].data) = conn.read
    BY LastFile
  <2> QED
    BY ONLY <1>10, <2>1, i \in Slots
<1>6. ASSUME given PROVE ReadSince(<<f, b>>)
  <2>1. CASE f < first /\ n # 0
    <3>1. f < last
      BY ONLY <1>1, <2>1 DEF last
    <3> QED
      BY <1>2, <1>3, <1>6, <3>1
  <2>2. CASE f < first /\ n = 0
    <3>1. f < last \/ f = last
      BY ONLY <1>1, <2>2 DEF last
    <3>2. f = last /\ pending = "UNKNOWN" => conn.read = stream.sizes[f]
      BY <2>2, LastFile, ZenonT(30) DEF last
    <3>3. f = last /\ pending = "UNKNOWN" => b <= conn.read
      BY <1>1, <3>2
    <3> QED
      BY <1>2, <1>3, <1>6, <3>1, <3>3
  <2>3. CASE f = first /\ n # 0 /\ b < read + 1
    <3>1. f < last \/ (f = last /\ 0 = n - 1)
      BY ONLY <1>1, <2>3 DEF last
    <3>2. 0 = n - 1 /\ pending = "UNKNOWN" => Len(caches[readIndex].data) = conn.read \/ Len(caches[readIndex].data) = conn.read - 1
      BY <1>1, <1>5, <1>10, <2>3
    <3>3. 0 = n - 1 /\ pending = "UNKNOWN" => b <= conn.read
      BY ONLY <1>1, <1>5, <2>3, <3>2
    <3> QED
      BY <1>2, <1>3, <1>6, <3>1, <3>3
  <2> QED
    BY <1>3, <1>4, <1>6, <2>1, <2>2, <2>3
<1>7. ASSUME inRing PROVE ReadSince(<<f, b>>)
  <2>0. PICK i \in Slots : \E k \in (caches[i].read + 1)..Len(caches[i].data) : caches[i].data[k] = <<f, b>>
    BY <1>7 DEF inRing
  <2>1. PICK k \in (caches[i].read + 1)..Len(caches[i].data) : caches[i].data[k] = <<f, b>>
    BY <2>0
  <2>2. Dist(i) < n /\ caches[i].data[k] = <<first + Dist(i), k>>
    BY <1>1, <2>1, SlotChunks
  <2>3. f = first + Dist(i) /\ b = k
    BY <2>1, <2>2
  <2>4. Dist(i) \in Nat /\ Len(caches[i].data) \in Nat /\ caches[i].read \in Nat
    BY <1>1, GoesFacts
  <2>5. b <= Len(caches[i].data) /\ position <= f /\ (f < last \/ (f = last /\ Dist(i) = n - 1))
    <3>1. b \in (caches[i].read + 1)..Len(caches[i].data)
      BY <2>3
    <3> QED
      BY ONLY <1>1, <1>3, <2>2, <2>3, <2>4, <3>1, SMTT(30) DEF last
  <2>6. Dist(i) = n - 1 /\ pending = "UNKNOWN" => Len(caches[i].data) = conn.read \/ Len(caches[i].data) = conn.read - 1
    BY <1>10, <2>2
  <2>7. Dist(i) = n - 1 /\ pending = "UNKNOWN" => b <= conn.read
    BY ONLY <1>1, <2>4, <2>5, <2>6
  <2> QED
    BY <1>2, <2>5, <2>7
<1>8. ASSUME atSource PROVE ReadSince(<<f, b>>)
  <2>1. pending = "UNKNOWN" /\ n # 0 /\ f = last /\ b = conn.read
    BY <1>8, LastFile DEF atSource, Chunk, last
  <2>2. position <= f /\ b <= conn.read
    BY ONLY <1>1, <1>3, <2>1 DEF last
  <2> QED
    BY <1>2, <2>1, <2>2
<1>9. ASSUME ReadSince(<<f, b>>), ~given PROVE inRing \/ atSource
  <2>1. /\ position <= f /\ (f < last \/ (f = last /\ (pending = "UNKNOWN" => b <= conn.read)))
        /\ ~Before(<<f, b>>, ReadNext(first, n))
    BY <1>2, <1>3, <1>9
  <2>2. first <= f /\ f < first + n /\ n # 0
    <3>1. ~(f < first)
      BY <1>4, <2>1
    <3> QED
      BY ONLY <1>1, <2>1, <3>1 DEF last
  <2>3. PICK i \in Slots : /\ first + Dist(i) = f /\ Dist(i) < n
                           /\ b <= Len(caches[i].data) =>
                                 b \in (caches[i].read + 1)..Len(caches[i].data) /\ caches[i].data[b] = <<f, b>>
    BY <1>1, <2>1, <2>2, InSlot
  <2>4. b <= Len(caches[i].data) => inRing
    BY <2>3 DEF inRing
  <2>5. Dist(i) \in Nat /\ Len(caches[i].data) \in Nat
    BY <1>1, GoesFacts
  <2>6. CASE Dist(i) # n - 1 \/ pending # "UNKNOWN"
    <3>1. Len(caches[i].data) = stream.sizes[f]
      BY <2>3, <2>6, LastFile
    <3> QED
      BY <1>1, <2>4, <3>1
  <2>7. CASE Dist(i) = n - 1 /\ pending = "UNKNOWN"
    <3>1. f = last
      BY ONLY <1>1, <2>3, <2>5, <2>7 DEF last
    <3>2. b <= conn.read
      BY ONLY <1>1, <2>1, <2>7, <3>1
    <3>3. CASE sAt \in {"buffer", "hls write"}
      <4>1. Len(caches[i].data) = conn.read - 1 /\ conn.file = f
        <5>1. Len(caches[i].data) = conn.read - 1
          BY <1>10, <2>3, <2>7, <3>3
        <5>2. conn.file = f
          BY <2>7, <3>1, LastFile DEF last
        <5> QED
          BY <5>1, <5>2
      <4>2. b <= Len(caches[i].data) \/ b = conn.read
        BY ONLY <1>1, <3>2, <4>1
      <4> QED
        BY <2>4, <3>3, <4>1, <4>2 DEF atSource, Chunk
    <3>4. CASE sAt \notin {"buffer", "hls write"}
      <4>1. Len(caches[i].data) = conn.read
        BY <2>3, <2>7, <3>4, LastFile
      <4> QED
        BY <2>4, <3>2, <4>1
    <3> QED
      BY <3>3, <3>4
  <2> QED
    BY <2>6, <2>7
<1> QED
    BY <1>6, <1>7, <1>8, <1>9 DEF given, inRing, atSource

\* No chunk is in two places.
LEMMA PlacedOnce ==
    ASSUME stream \in Streams, stream.hls, RingInv, HLSTypes,
           NEW first \in 1..EndPosition, NEW n \in 0..NumCached, first + n <= EndPosition, Goes(first, n),
           flushing = {}, ~sendNewSegment, position \in 1..NumFiles,
           MediumFrom(position, out), \A i, j \in 1..Len(out) : out[i] = out[j] => i = j,
           NEW p \in Places, NEW q \in Places, ChunkAt(p) = ChunkAt(q)
    PROVE  p = q
<1> DEFINE c == ChunkAt(p)
<1> DEFINE isOut(x) == \E i \in 1..Len(out) : x = <<"out", 0, i>>
<1> DEFINE isReader(x) == x = <<"reader", 0, 0>>
<1> DEFINE isRing(x) == \E i \in Slots : \E b \in (caches[i].read + 1)..Len(caches[i].data) : x = <<"ring", i, b>>
<1> DEFINE isSource(x) == x = <<"source", 0, 0>>
<1> DEFINE early == Before(c, ReadNext(first, n))
<1>1. /\ bBuffer # NoBuffer => bAt = "push"
      /\ RingOK /\ RingHolds(first, n) /\ ReaderGoesOn(first, n) /\ SourceGoesOn(first + n, n)
      /\ first \in Nat /\ n \in Nat /\ NumFiles \in Nat
      /\ \A i \in Slots : Dist(i) \in Nat
    BY GoesFacts DEF HLSTypes, RingInv, Goes
<1>2. /\ \A x \in Places : isOut(x) \/ (bAt = "push" /\ isReader(x)) \/ isRing(x)
                           \/ (sAt \in {"buffer", "hls write"} /\ isSource(x))
      /\ \A i : ChunkAt(<<"out", 0, i>>) = out[i]
      /\ ChunkAt(<<"reader", 0, 0>>) = bBuffer
      /\ \A i, b : ChunkAt(<<"ring", i, b>>) = caches[i].data[b]
      /\ ChunkAt(<<"source", 0, 0>>) = Chunk
    BY <1>1, PlacesAre
<1>3. ASSUME NEW x \in Places, ChunkAt(x) = c
      PROVE  /\ isOut(x) => \E i \in 1..Len(out) : x = <<"out", 0, i>> /\ out[i] = c
             /\ isReader(x) => bBuffer = c
             /\ isRing(x) => \E i \in Slots : \E b \in (caches[i].read + 1)..Len(caches[i].data) :
                                x = <<"ring", i, b>> /\ caches[i].data[b] = c
             /\ isSource(x) => Chunk = c
  <2>1. isOut(x) => \E i \in 1..Len(out) : x = <<"out", 0, i>> /\ out[i] = c
    BY ONLY <1>2, <1>3, Zenon
  <2>2. isReader(x) => bBuffer = c
    BY ONLY <1>2, <1>3, Zenon
  <2>3. isRing(x) => \E i \in Slots : \E b \in (caches[i].read + 1)..Len(caches[i].data) :
                        x = <<"ring", i, b>> /\ caches[i].data[b] = c
    <3> SUFFICES ASSUME isRing(x)
                 PROVE  \E i \in Slots : \E b \in (caches[i].read + 1)..Len(caches[i].data) :
                           x = <<"ring", i, b>> /\ caches[i].data[b] = c
      OBVIOUS
    <3>1. PICK i \in Slots : \E b \in (caches[i].read + 1)..Len(caches[i].data) : x = <<"ring", i, b>>
      OBVIOUS
    <3>2. PICK b \in (caches[i].read + 1)..Len(caches[i].data) : x = <<"ring", i, b>>
      BY <3>1
    <3>3. ChunkAt(<<"ring", i, b>>) = caches[i].data[b]
      BY <1>2
    <3>4. caches[i].data[b] = c
      BY ONLY <1>3, <3>2, <3>3
    <3> QED
      BY <3>2, <3>4
  <2>4. isSource(x) => Chunk = c
    BY ONLY <1>2, <1>3, Zenon
  <2> QED
    BY ONLY <2>1, <2>2, <2>3, <2>4
<1>4. ASSUME bAt = "push" \/ Len(out) # 0,
             (\E i \in 1..Len(out) : out[i] = c) \/ (bAt = "push" /\ bBuffer = c)
      PROVE  /\ early
             /\ ~((\E i \in 1..Len(out) : out[i] = c) /\ (bAt = "push" /\ bBuffer = c))
  <2>1. c \in Nat \X Nat /\ InMedium(c)
    <3>1. CASE \E i \in 1..Len(out) : out[i] = c
      <4>1. PICK i \in 1..Len(out) : out[i] = c
        BY <3>1
      <4>2. out[i] \in Nat \X Nat /\ InMedium(out[i])
        BY ElementOfSeq DEF HLSTypes, MediumFrom
      <4> QED
        BY <4>1, <4>2
    <3>2. CASE bAt = "push" /\ bBuffer = c
      BY <1>1, <3>2 DEF HLSTypes, ReaderGoesOn
    <3> QED
      BY <1>4, <3>1, <3>2
  <2>2. c[1] \in 1..NumFiles /\ c[2] \in 1..stream.sizes[c[1]] /\ c = <<c[1], c[2]>>
    BY <2>1 DEF InMedium
  <2> HIDE DEF c
  <2>3. /\ (\E i \in 1..Len(out) : out[i] = <<c[1], c[2]>>) \/ (bAt = "push" /\ bBuffer = <<c[1], c[2]>>)
              => Before(<<c[1], c[2]>>, ReadNext(first, n))
        /\ ~((\E i \in 1..Len(out) : out[i] = <<c[1], c[2]>>) /\ (bAt = "push" /\ bBuffer = <<c[1], c[2]>>))
    BY <1>1, <2>2, GivenIsBefore
  <2> QED
    BY <1>4, <2>2, <2>3
<1>5. ASSUME NEW i \in Slots, NEW b \in (caches[i].read + 1)..Len(caches[i].data), caches[i].data[b] = c
      PROVE  ~early /\ c = <<first + Dist(i), b>> /\ Dist(i) < n
  <2> HIDE DEF c
  <2>1. /\ Dist(i) < n /\ caches[i].data[b] = <<first + Dist(i), b>>
        /\ ~Before(<<first + Dist(i), b>>, ReadNext(first, n))
    BY <1>1, SlotChunks
  <2> QED
    BY <1>5, <2>1
<1>6. ASSUME sAt \in {"buffer", "hls write"}, Chunk = c
      PROVE  /\ ~early
             /\ \A i \in Slots : \A b \in (caches[i].read + 1)..Len(caches[i].data) : caches[i].data[b] # c
  <2>1. pending = "UNKNOWN" /\ n # 0 /\ conn.file = (first + n) - 1 /\ c = <<conn.file, conn.read>> /\ conn.read \in Nat
    BY <1>6, LastFile DEF Chunk, RingInv, ConnOK
  <2>2. ASSUME NEW i \in Slots, Dist(i) = n - 1
        PROVE  Len(caches[i].data) = conn.read - 1
    <3>1. Dist(i) < n
      BY ONLY <1>1, <2>2, i \in Slots
    <3>2. \A j \in Slots : Dist(j) < n =>
             /\ Dist(j) # n - 1 \/ pending # "UNKNOWN" => Len(caches[j].data) = stream.sizes[first + Dist(j)]
             /\ Dist(j) = n - 1 /\ pending = "UNKNOWN" /\ sAt \in {"buffer", "hls write"} =>
                   Len(caches[j].data) = conn.read - 1
             /\ Dist(j) = n - 1 /\ pending = "UNKNOWN" /\ sAt \notin {"buffer", "hls write"} =>
                   Len(caches[j].data) = conn.read
      BY LastFile
    <3> QED
      BY <1>6, <2>1, <2>2, <3>1, <3>2
  <2>3. ASSUME NEW i \in Slots, NEW b \in (caches[i].read + 1)..Len(caches[i].data), caches[i].data[b] = c
        PROVE  FALSE
    <3>1. c = <<first + Dist(i), b>> /\ Dist(i) < n
      BY <1>5, <2>3
    <3>2. first + Dist(i) = (first + n) - 1 /\ b = conn.read
      BY <2>1, <3>1
    <3>3. Dist(i) \in Nat /\ Dist(i) = n - 1
      BY ONLY <1>1, <3>2, i \in Slots
    <3>4. Len(caches[i].data) = conn.read - 1 /\ caches[i].read \in Nat
      BY <2>2, <3>3, <1>1, GoesFacts
    <3>5. b <= conn.read - 1
      BY <2>1, <3>2, <3>4
    <3> QED
      BY ONLY <2>1, <3>2, <3>5
  <2>4. ~early
    <3> DEFINE read == caches[readIndex].read
    <3>1. early <=> (first + n) - 1 < first \/ ((first + n) - 1 = first /\ conn.read < read + 1)
      BY <2>1 DEF Before, ReadNext
    <3>2. ~((first + n) - 1 < first)
      BY ONLY <1>1, <2>1
    <3>3. (first + n) - 1 = first => conn.read >= read + 1
      <4>1. (first + n) - 1 = first => 0 = n - 1
        BY ONLY <1>1
      <4>2. readIndex \in Slots /\ Dist(readIndex) = 0 /\ read \in Nat /\ read <= Len(caches[readIndex].data)
        BY <1>1, GoesFacts DEF RingOK
      <4>3. 0 = n - 1 => Len(caches[readIndex].data) = conn.read - 1
        BY <2>2, <4>2
      <4> HIDE DEF read
      <4>4. 0 = n - 1 => conn.read >= read + 1
        BY <2>1, <4>2, <4>3
      <4> QED
        BY ONLY <4>1, <4>4
    <3>4. read \in Nat
      BY <1>1, GoesFacts DEF RingOK
    <3> HIDE DEF read
    <3>5. conn.read >= read + 1 => ~(conn.read < read + 1)
      BY ONLY <2>1, <3>4
    <3> QED
      BY ONLY <3>1, <3>2, <3>3, <3>5
  <2> QED
    BY <2>3, <2>4
<1>7. ASSUME isOut(p), isOut(q) PROVE p = q
  <2>1. PICK i \in 1..Len(out) : p = <<"out", 0, i>> /\ out[i] = c
    BY <1>3, <1>7
  <2>2. PICK j \in 1..Len(out) : q = <<"out", 0, j>> /\ out[j] = c
    BY <1>3, <1>7
  <2> QED
    BY <2>1, <2>2
<1>8. ASSUME isRing(p), isRing(q) PROVE p = q
  <2>1. PICK i \in Slots : \E b \in (caches[i].read + 1)..Len(caches[i].data) : p = <<"ring", i, b>> /\ caches[i].data[b] = c
    BY <1>3, <1>8
  <2>2. PICK b \in (caches[i].read + 1)..Len(caches[i].data) : p = <<"ring", i, b>> /\ caches[i].data[b] = c
    BY <2>1
  <2>3. PICK j \in Slots : \E k \in (caches[j].read + 1)..Len(caches[j].data) : q = <<"ring", j, k>> /\ caches[j].data[k] = c
    BY <1>3, <1>8
  <2>4. PICK k \in (caches[j].read + 1)..Len(caches[j].data) : q = <<"ring", j, k>> /\ caches[j].data[k] = c
    BY <2>3
  <2>5. c = <<first + Dist(i), b>> /\ c = <<first + Dist(j), k>>
    BY <1>5, <2>2, <2>4
  <2>6. first + Dist(i) = first + Dist(j) /\ b = k
    BY <2>5
  <2>7. Dist(i) = Dist(j)
    BY ONLY <1>1, <2>6, i \in Slots, j \in Slots
  <2>8. i = j
    BY <1>1, <2>7, DistFacts DEF RingOK
  <2> QED
    BY <2>2, <2>4, <2>6, <2>8
<1> DEFINE hasOut == \E i \in 1..Len(out) : out[i] = c
<1> DEFINE hasReader == bAt = "push" /\ bBuffer = c
<1> DEFINE hasRing == \E i \in Slots : \E b \in (caches[i].read + 1)..Len(caches[i].data) : caches[i].data[b] = c
<1> DEFINE hasSource == sAt \in {"buffer", "hls write"} /\ Chunk = c
<1>9. /\ hasOut => early /\ ~hasReader
      /\ hasReader => early
      /\ hasRing => ~early
      /\ hasSource => ~early /\ ~hasRing
  <2>1. hasOut => Len(out) # 0
    BY LenProperties DEF HLSTypes
  <2> QED
    BY <1>4, <1>5, <1>6, <2>1
<1>10. ASSUME NEW x \in Places, ChunkAt(x) = c
       PROVE  (isOut(x) /\ hasOut) \/ (isReader(x) /\ hasReader) \/ (isRing(x) /\ hasRing) \/ (isSource(x) /\ hasSource)
    BY <1>2, <1>3, <1>10
<1>11. (isReader(p) /\ isReader(q)) \/ (isSource(p) /\ isSource(q)) => p = q
    OBVIOUS
<1> HIDE DEF c, isOut, isReader, isRing, isSource, early, hasOut, hasReader, hasRing, hasSource
<1>12. (isOut(p) /\ hasOut) \/ (isReader(p) /\ hasReader) \/ (isRing(p) /\ hasRing) \/ (isSource(p) /\ hasSource)
    BY <1>10 DEF c
<1>13. (isOut(q) /\ hasOut) \/ (isReader(q) /\ hasReader) \/ (isRing(q) /\ hasRing) \/ (isSource(q) /\ hasSource)
    BY <1>10 DEF c
<1> QED
    BY <1>7, <1>8, <1>9, <1>11, <1>12, <1>13

\* So nothing is lost or doubled in the ring.
LEMMA RingIsConserved ==
    ASSUME stream \in Streams, stream.hls, RingInv, RingDeliveryInv
    PROVE  RingConserved
<1> SUFFICES ASSUME Undisturbed, dSegment \in 1..NumFiles
             PROVE  /\ \A f \in 1..NumFiles : \A b \in 1..stream.sizes[f] :
                          ReadSince(<<f, b>>) <=> \E p \in Places : ChunkAt(p) = <<f, b>>
                    /\ \A p, q \in Places : ChunkAt(p) = ChunkAt(q) => p = q
    BY DEF RingConserved
<1>1. /\ Flowing /\ flushing = {} /\ ~Stuck /\ HLSTypes
      /\ MediumFrom(dSegment, out) /\ \A i, j \in 1..Len(out) : out[i] = out[j] => i = j
    BY DEF Undisturbed, Flowing, Stuck, RingDeliveryInv, PhasesKnown, HLSGiven
<1>2. ~sendNewSegment /\ dSegment = position /\ pending # "STREAM_START"
  <2>1. dSegment # NoPosition
    BY SizesFacts DEF NoPosition
  <2> QED
    BY <1>1, <2>1 DEF RingDeliveryInv, SegmentSent
<1>3. PICK first \in 1..EndPosition, n \in 0..NumCached : first + n <= EndPosition /\ Goes(first, n)
  <2>1. position <= NumFiles
    BY <1>2, SizesFacts
  <2> QED
    BY <1>1, <2>1 DEF RingDeliveryInv, RingGoes
<1>4. ASSUME NEW f \in 1..NumFiles, NEW b \in 1..stream.sizes[f]
      PROVE  ReadSince(<<f, b>>) <=> \E p \in Places : ChunkAt(p) = <<f, b>>
  <2>1. ReadSince(<<f, b>>) <=>
           \/ \E i \in 1..Len(out) : out[i] = <<f, b>>
           \/ bAt = "push" /\ bBuffer = <<f, b>>
           \/ \E i \in Slots : \E k \in (caches[i].read + 1)..Len(caches[i].data) : caches[i].data[k] = <<f, b>>
           \/ sAt \in {"buffer", "hls write"} /\ Chunk = <<f, b>>
    BY <1>1, <1>2, <1>3, ReadIsPlaced
  <2>2. bBuffer # NoBuffer <=> bAt = "push"
    BY <1>1, NoBufferAssumption DEF HLSTypes
  <2>3. (\E p \in Places : ChunkAt(p) = <<f, b>>) <=>
           \/ \E i \in 1..Len(out) : out[i] = <<f, b>>
           \/ bAt = "push" /\ bBuffer = <<f, b>>
           \/ \E i \in Slots : \E k \in (caches[i].read + 1)..Len(caches[i].data) : caches[i].data[k] = <<f, b>>
           \/ sAt \in {"buffer", "hls write"} /\ Chunk = <<f, b>>
    <3> DEFINE isPlace(x) ==
          \/ \E i \in 1..Len(out) : x = <<"out", 0, i>>
          \/ bBuffer # NoBuffer /\ x = <<"reader", 0, 0>>
          \/ \E i \in Slots : \E k \in (caches[i].read + 1)..Len(caches[i].data) : x = <<"ring", i, k>>
          \/ sAt \in {"buffer", "hls write"} /\ x = <<"source", 0, 0>>
    <3>1. \A x : x \in Places <=> isPlace(x)
      BY PlacesAre
    <3>2. /\ \A i : ChunkAt(<<"out", 0, i>>) = out[i]
          /\ ChunkAt(<<"reader", 0, 0>>) = bBuffer
          /\ \A i, k : ChunkAt(<<"ring", i, k>>) = caches[i].data[k]
          /\ ChunkAt(<<"source", 0, 0>>) = Chunk
      BY PlacesAre
    <3>3. ASSUME NEW p, isPlace(p), ChunkAt(p) = <<f, b>>
          PROVE  \/ \E i \in 1..Len(out) : out[i] = <<f, b>>
                 \/ bBuffer # NoBuffer /\ bBuffer = <<f, b>>
                 \/ \E i \in Slots : \E k \in (caches[i].read + 1)..Len(caches[i].data) : caches[i].data[k] = <<f, b>>
                 \/ sAt \in {"buffer", "hls write"} /\ Chunk = <<f, b>>
      <4>1. CASE \E i \in 1..Len(out) : p = <<"out", 0, i>>
        BY ONLY <3>2, <3>3, <4>1, Zenon
      <4>2. CASE bBuffer # NoBuffer /\ p = <<"reader", 0, 0>>
        BY ONLY <3>2, <3>3, <4>2, Zenon
      <4>3. CASE \E i \in Slots : \E k \in (caches[i].read + 1)..Len(caches[i].data) : p = <<"ring", i, k>>
        <5>1. PICK i \in Slots : \E k \in (caches[i].read + 1)..Len(caches[i].data) : p = <<"ring", i, k>>
          BY <4>3
        <5>2. PICK k \in (caches[i].read + 1)..Len(caches[i].data) : p = <<"ring", i, k>>
          BY <5>1
        <5>3. ChunkAt(<<"ring", i, k>>) = caches[i].data[k]
          BY <3>2
        <5>4. caches[i].data[k] = <<f, b>>
          BY ONLY <3>3, <5>2, <5>3
        <5> QED
          BY <5>4
      <4>4. CASE sAt \in {"buffer", "hls write"} /\ p = <<"source", 0, 0>>
        BY ONLY <3>2, <3>3, <4>4, Zenon
      <4> QED
        BY <3>3, <4>1, <4>2, <4>3, <4>4
    <3>4. ASSUME NEW i \in 1..Len(out), out[i] = <<f, b>> PROVE \E p : isPlace(p) /\ ChunkAt(p) = <<f, b>>
      <4>1. isPlace(<<"out", 0, i>>) /\ ChunkAt(<<"out", 0, i>>) = <<f, b>>
        BY ONLY <3>2, <3>4, i \in 1..Len(out), Zenon
      <4> HIDE DEF isPlace
      <4> QED
        BY ONLY <4>1, Zenon
    <3>5. ASSUME bBuffer # NoBuffer, bBuffer = <<f, b>> PROVE \E p : isPlace(p) /\ ChunkAt(p) = <<f, b>>
      <4>1. isPlace(<<"reader", 0, 0>>) /\ ChunkAt(<<"reader", 0, 0>>) = <<f, b>>
        BY ONLY <3>2, <3>5, Zenon
      <4> HIDE DEF isPlace
      <4> QED
        BY ONLY <4>1, Zenon
    <3>6. ASSUME NEW i \in Slots, NEW k \in (caches[i].read + 1)..Len(caches[i].data), caches[i].data[k] = <<f, b>>
          PROVE  \E p : isPlace(p) /\ ChunkAt(p) = <<f, b>>
      <4>1. isPlace(<<"ring", i, k>>) /\ ChunkAt(<<"ring", i, k>>) = <<f, b>>
        BY ONLY <3>2, <3>6, i \in Slots, k \in (caches[i].read + 1)..Len(caches[i].data), Zenon
      <4> HIDE DEF isPlace
      <4> QED
        BY ONLY <4>1, Zenon
    <3>7. ASSUME sAt \in {"buffer", "hls write"}, Chunk = <<f, b>> PROVE \E p : isPlace(p) /\ ChunkAt(p) = <<f, b>>
      <4>1. isPlace(<<"source", 0, 0>>) /\ ChunkAt(<<"source", 0, 0>>) = <<f, b>>
        BY ONLY <3>2, <3>7, Zenon
      <4> HIDE DEF isPlace
      <4> QED
        BY ONLY <4>1, Zenon
    <3> HIDE DEF isPlace
    <3> QED
      BY ONLY <2>2, <3>1, <3>3, <3>4, <3>5, <3>6, <3>7, Zenon
  <2> QED
    BY <2>1, <2>3
<1>5. ASSUME NEW p \in Places, NEW q \in Places, ChunkAt(p) = ChunkAt(q)
      PROVE  p = q
    BY <1>1, <1>2, <1>3, <1>5, PlacedOnce
<1> QED
    BY <1>4, <1>5

-----------------------------------------------------------------------------
(* Theorems. *)

\* For every set of media and every number of slots, seeks and failures: chain() of
\* hlsprogressbuffer.c writes a chunk only into a slot that was claimed for its file, is not
\* free and has room for it, whatever flushes and refused events came in between.
THEOREM WritesHitClaimedSlots == Spec => []SlotsValid
<1>1. Spec => []Inv
    BY InitInv, InvInductive, PTL DEF Spec
<1> QED
    BY <1>1, InvImpliesSlotsValid, PTL

\* For every set of media and every number of seeks and failures: what the cache file of a
\* progressive download (progressbuffer.c, filecache.c) holds at offset i is what the medium
\* holds at cache_read_offset + i, through all seeks, flushes and ends, unless the pads or
\* the buffer refused something of a connection that then would not seek.
THEOREM CacheHoldsMedium == Spec => []CachePlaced
<1>1. Spec => []Inv
    BY InitInv, InvInductive, PTL DEF Spec
<1>2. Inv => CachePlaced
    BY DEF Inv, DownloadInv, CachePlaced
<1> QED
    BY <1>1, <1>2, PTL

\* The invariants of the data of a stream, and of what the demuxer is given, together.
StreamInv == Inv /\ (~stream.hls => DeliveryInv) /\ (stream.hls => RingDeliveryInv)

\* They hold at the start.
LEMMA StreamInit == Init => StreamInv
    BY InitInv, DeliveryInit, RingDeliveryInit DEF StreamInv

\* Every step keeps them.
LEMMA StreamInductive == StreamInv /\ [Next]_vars => StreamInv'
<1> SUFFICES ASSUME StreamInv, [Next]_vars PROVE StreamInv'
    OBVIOUS
<1>1. Inv' /\ stream' = stream
    BY InvInductive, HLSStep, DownloadStep DEF Inv, StreamInv
<1>2. ~stream.hls => DeliveryInv'
    BY <1>1, DeliveryStep DEF Inv, StreamInv
<1>3. stream.hls => RingDeliveryInv'
    BY RingDeliveryStep DEF Inv, StreamInv
<1> QED
    BY <1>1, <1>2, <1>3 DEF StreamInv

\* What the runs check follows from them.
LEMMA StreamImplies == StreamInv => Conserved /\ InOrder /\ EosIsEnd
<1> SUFFICES ASSUME StreamInv PROVE Conserved /\ InOrder /\ EosIsEnd
    OBVIOUS
<1>1. InOrder /\ EosIsEnd
    BY DeliveryImplies, RingDeliveryImplies DEF StreamInv, Inv
<1>2. RingConserved
    BY RingIsConserved DEF StreamInv, Inv, RingConserved
<1>3. CachePlaced
    BY DEF StreamInv, Inv, DownloadInv, CachePlaced
<1> QED
    BY <1>1, <1>2, <1>3 DEF Conserved

\* For every set of media and every number of slots, seeks and failures: no chunk is lost,
\* doubled or overwritten between the connection and the demuxer, through the ring of
\* hlsprogressbuffer.c as long as no seek is under way, and through the cache file of
\* progressbuffer.c at all times.
THEOREM ChunksConserved == Spec => []Conserved
<1>1. Spec => []StreamInv
    BY StreamInit, StreamInductive, PTL DEF Spec
<1> QED
    BY <1>1, StreamImplies, PTL

\* For every set of media and every number of slots, seeks and failures: what the demuxer is
\* given after a SEGMENT is the medium from the position of that SEGMENT on, through flushes
\* of the ring, slots claimed too late, seeks into the cache, out of it, and back after the
\* source has refused; and once a seek has returned undisturbed it is the position sought.
THEOREM DeliveredInOrder == Spec => []InOrder
<1>1. Spec => []StreamInv
    BY StreamInit, StreamInductive, PTL DEF Spec
<1> QED
    BY <1>1, StreamImplies, PTL

\* For every set of media and every number of slots, seeks and failures: the EOS that the
\* demuxer gets comes after the last chunk of the medium and not before, unless one of the
\* races and failures that mishaps and failures keep has happened (is_eos of
\* hlsprogressbuffer.c, sink_segment.stop of progressbuffer.c).
THEOREM EndsLast == Spec => []EosIsEnd
<1>1. Spec => []StreamInv
    BY StreamInit, StreamInductive, PTL DEF Spec
<1> QED
    BY <1>1, StreamImplies, PTL
=============================================================================
