-------------------------- MODULE QueuedPixelSource --------------------------
(***************************************************************************)
(* com.sun.prism.impl.QueuedPixelSource: the pixels of a window travel     *)
(* from the render thread, which fills them (UploadingPainter, the SW and  *)
(* J2D presentables), to the JavaFX thread, which uploads them to the      *)
(* window.  The source keeps the Pixels being uploaded, the Pixels waiting *)
(* to be, and weak references to the Pixels it has handed out, so that     *)
(* their buffers are used again.                                           *)
(*                                                                         *)
(* A Pixels object is its buffer and its shape (width, height and scale);  *)
(* what a buffer holds is the number of the frame last copied into it.     *)
(* The methods are synchronized, so each is one step; only the search of   *)
(* getUnusedPixels takes a step per reference, because the garbage         *)
(* collector goes on while the monitor is held.                            *)
(***************************************************************************)
EXTENDS Integers, Sequences, FiniteSets

CONSTANTS Buffers,      \* the buffers that can be allocated
          Shapes,       \* the shapes a window takes
          Area,         \* ints a shape needs: w * h
          NoPixels,     \* null
          MaxFrames     \* bound: frames painted

ASSUME ShapesAssumption == Area \in [Shapes -> Nat]

ASSUME BoundsAssumption == MaxFrames \in Nat

Pixels == [buf : Buffers, shape : Shapes]

ASSUME NoPixelsAssumption == NoPixels \notin Pixels

VARIABLES
    beingConsumed,  \* Pixels the JavaFX thread uploads, or null
    enqueued,       \* Pixels waiting to be uploaded, or null
    saved,          \* the weak references, null once cleared
    capacity,       \* capacity of the buffers
    content,        \* the frame each buffer holds
    pix,            \* the render thread's Pixels, or null
    phase,          \* where the render thread is
    want, at,       \* getUnusedPixels: the shape and the index of the search
    frame,          \* number of the frame it paints
    uploads         \* upload runnables in the JavaFX thread's queue

vars == <<beingConsumed, enqueued, saved, capacity, content, pix, phase, want, at,
          frame, uploads>>

Init ==
    /\ beingConsumed = NoPixels
    /\ enqueued = NoPixels
    /\ saved = <<>>
    /\ capacity = [b \in Buffers |-> 0]
    /\ content = [b \in Buffers |-> 0]
    /\ pix = NoPixels
    /\ phase = "idle"
    /\ want \in Shapes
    /\ at = 1
    /\ frame = 0
    /\ uploads = 0

-----------------------------------------------------------------------------
(* The render thread.                                                      *)

SameBuffer(p, q) == p # NoPixels /\ q # NoPixels /\ p.buf = q.buf

InUseEnqueuedOnly(p) == SameBuffer(p, enqueued)

\* Pixels that are on their way to the window.
InUse(p) == SameBuffer(p, beingConsumed) \/ SameBuffer(p, enqueued)

WithoutNone(i) == saved

\* The list without its i-th reference.
Without(i) == [k \in 1..(Len(saved) - 1) |-> saved[IF k < i THEN k ELSE k + 1]]

\* Buffers some Pixels object that is reachable, or not yet collected, holds.
Held == {p.buf : p \in {q \in {saved[i] : i \in 1..Len(saved)}
                              \union {beingConsumed, enqueued, pix} : q # NoPixels}}

GetUnusedPixels(s) ==
    /\ phase = "idle"
    /\ frame < MaxFrames
    /\ phase' = "search"
    /\ want' = s
    /\ at' = 1
    /\ frame' = frame + 1
    /\ UNCHANGED <<beingConsumed, enqueued, saved, capacity, content, pix, uploads>>

Searching == phase = "search" /\ at <= Len(saved)

Idle == saved[at] # NoPixels /\ ~InUse(saved[at])

HasShape == saved[at].shape = want

HasRoomAlways == TRUE

HasRoom == capacity[saved[at].buf] >= Area[want]

Found(p) ==
    /\ pix' = p
    /\ phase' = "fill"
    /\ UNCHANGED <<beingConsumed, enqueued, content, want, at, frame, uploads>>

\* References that were cleared leave the list, and so do idle Pixels that are
\* too small.
RemoveUseless ==
    /\ Searching
    /\ saved[at] = NoPixels \/ (Idle /\ ~HasShape /\ ~HasRoom)
    /\ saved' = Without(at)
    /\ UNCHANGED <<beingConsumed, enqueued, capacity, content, pix, phase, want, at, frame, uploads>>

PassInUse ==
    /\ Searching
    /\ InUse(saved[at])
    /\ at' = at + 1
    /\ UNCHANGED <<beingConsumed, enqueued, saved, capacity, content, pix, phase, want, frame, uploads>>

\* Idle Pixels of the shape are returned as they are.
ReturnSaved ==
    /\ Searching
    /\ Idle /\ HasShape
    /\ Found(saved[at])
    /\ UNCHANGED <<saved, capacity>>

\* New Pixels take over the buffer of idle ones.
ReuseBuffer ==
    /\ Searching
    /\ Idle /\ ~HasShape /\ HasRoom
    /\ LET p == [buf |-> saved[at].buf, shape |-> want]
       IN  saved' = Append(Without(at), p) /\ Found(p)
    /\ UNCHANGED capacity

\* The end of the list: new Pixels with a new buffer.
Allocate ==
    /\ phase = "search" /\ at > Len(saved)
    /\ \E b \in Buffers \ Held :
          LET p == [buf |-> b, shape |-> want]
          IN  /\ capacity' = [capacity EXCEPT ![b] = Area[want]]
              /\ saved' = Append(saved, p)
              /\ Found(p)

FillLate ==
    /\ phase \in {"fill", "upload"}
    /\ content' = IF phase = "upload" THEN [content EXCEPT ![pix.buf] = frame] ELSE content
    /\ phase' = IF phase = "fill" THEN "enqueue" ELSE "upload"
    /\ UNCHANGED <<beingConsumed, enqueued, saved, capacity, pix, want, at, frame, uploads>>

\* The frame is copied into the buffer.
Fill ==
    /\ phase = "fill"
    /\ content' = [content EXCEPT ![pix.buf] = frame]
    /\ phase' = "enqueue"
    /\ UNCHANGED <<beingConsumed, enqueued, saved, capacity, pix, want, at, frame, uploads>>

\* Or it cannot be read back: the device was lost, part of it may have been copied.
FillFails ==
    /\ phase = "fill"
    /\ \E f \in {content[pix.buf], frame} : content' = [content EXCEPT ![pix.buf] = f]
    /\ pix' = NoPixels
    /\ phase' = "idle"
    /\ UNCHANGED <<beingConsumed, enqueued, saved, capacity, want, at, frame, uploads>>

EnqueuePixels ==
    /\ phase = "enqueue"
    /\ enqueued' = pix
    /\ phase' = "upload"
    /\ UNCHANGED <<beingConsumed, saved, capacity, content, pix, want, at, frame, uploads>>

UploadPixelsCoalesced ==
    /\ phase = "upload"
    /\ uploads' = IF beingConsumed # NoPixels THEN uploads ELSE uploads + 1
    /\ pix' = NoPixels
    /\ phase' = "idle"
    /\ UNCHANGED <<beingConsumed, enqueued, saved, capacity, content, want, at, frame>>

\* SceneState.uploadPixels posts a runnable, whether or not one is waiting.
UploadPixels ==
    /\ phase = "upload"
    /\ uploads' = uploads + 1
    /\ pix' = NoPixels
    /\ phase' = "idle"
    /\ UNCHANGED <<beingConsumed, enqueued, saved, capacity, content, want, at, frame>>

-----------------------------------------------------------------------------
(* The JavaFX thread runs an upload.                                       *)

\* The search is made in one hold of the source's monitor.
Unlocked == phase # "search"

\* getLatestPixels; nothing is left to do when a later frame took this one's
\* place and is being, or has been, uploaded.
GetLatestPixels ==
    /\ Unlocked
    /\ uploads > 0
    /\ beingConsumed = NoPixels
    /\ uploads' = uploads - 1
    /\ beingConsumed' = enqueued
    /\ enqueued' = NoPixels
    /\ UNCHANGED <<saved, capacity, content, pix, phase, want, at, frame>>

\* The view is no longer valid: skipLatestPixels.
SkipLatestPixels ==
    /\ Unlocked
    /\ uploads > 0
    /\ beingConsumed = NoPixels
    /\ uploads' = uploads - 1
    /\ enqueued' = NoPixels
    /\ UNCHANGED <<beingConsumed, saved, capacity, content, pix, phase, want, at, frame>>

\* The upload is over: the window shows what the buffer holds.
DoneWithPixels ==
    /\ Unlocked
    /\ beingConsumed # NoPixels
    /\ beingConsumed' = NoPixels
    /\ UNCHANGED <<enqueued, saved, capacity, content, pix, phase, want, at, frame, uploads>>

-----------------------------------------------------------------------------
\* The collector clears a reference to Pixels that nothing else holds.
Collect ==
    /\ \E i \in 1..Len(saved) :
          /\ saved[i] \notin {NoPixels, beingConsumed, enqueued, pix}
          /\ saved' = [saved EXCEPT ![i] = NoPixels]
    /\ UNCHANGED <<beingConsumed, enqueued, capacity, content, pix, phase, want, at, frame,
                   uploads>>

\* The last frame of the bound was painted and its upload is over.
Terminated ==
    /\ phase = "idle"
    /\ frame = MaxFrames
    /\ uploads = 0
    /\ beingConsumed = NoPixels
    /\ UNCHANGED vars

Render ==
    \/ \E s \in Shapes : GetUnusedPixels(s)
    \/ RemoveUseless
    \/ PassInUse
    \/ ReturnSaved
    \/ ReuseBuffer
    \/ Allocate
    \/ Fill
    \/ FillFails
    \/ EnqueuePixels
    \/ UploadPixels

Consume ==
    \/ GetLatestPixels
    \/ SkipLatestPixels
    \/ DoneWithPixels

Next == Render \/ Consume \/ Collect \/ Terminated

Spec == Init /\ [][Next]_vars

-----------------------------------------------------------------------------
Phases == {"idle", "search", "fill", "enqueue", "upload"}

MaybePixels == Pixels \union {NoPixels}

\* Types; the render thread holds Pixels exactly while it delivers a frame, and no
\* upload runs without a request.
TypeOK ==
    /\ beingConsumed \in MaybePixels
    /\ enqueued \in MaybePixels
    /\ saved \in Seq(MaybePixels)
    /\ capacity \in [Buffers -> Nat]
    /\ content \in [Buffers -> 0..MaxFrames]
    /\ pix \in MaybePixels
    /\ phase \in Phases
    /\ pix = NoPixels <=> phase \in {"idle", "search"}
    /\ want \in Shapes
    /\ at \in 1..(Len(saved) + 1)
    /\ frame \in 0..MaxFrames
    /\ uploads \in Nat

\* getUnusedPixels returns Pixels "currently not being consumed or in the
\* queue": the buffer the render thread writes to is never the one the JavaFX
\* thread uploads or will upload next, and these two are never the same, however
\* the shapes change and whatever buffers are passed on to new Pixels.
BuffersApart ==
    /\ phase \in {"fill", "enqueue"} =>
          ~SameBuffer(pix, beingConsumed) /\ ~SameBuffer(pix, enqueued)
    /\ ~SameBuffer(beingConsumed, enqueued)

\* A frame on its way to the window reaches it whole: from enqueuePixels to the end
\* of the upload nobody writes to its buffer.
FramesStayWhole ==
    [][ \A p \in {beingConsumed, enqueued} \ {NoPixels} :
            content'[p.buf] = content[p.buf] ]_vars

\* The buffer of Pixels handed to the render thread has room for the frame.
RoomForFrame == pix # NoPixels => capacity[pix.buf] >= Area[pix.shape]

\* "At most we will need 3 sets of pixels": the list of references, cleared ones
\* included, never grows past three.
ThreeSets == Len(saved) <= 3

\* Requests and frames are not paired, an upload takes whatever frame is the
\* latest, and yet a frame that waits always has a request that will fetch it, or
\* is about to get one.
NothingStranded == enqueued # NoPixels => uploads > 0 \/ phase = "upload"

\* The parts of the inductive invariant the proofs rest on.  No two references
\* share a buffer; ...
Distinct ==
    \A i, j \in 1..Len(saved) : i # j => ~SameBuffer(saved[i], saved[j])

\* ... Pixels in use whose buffer a reference has are what it refers to, so the
\* collector leaves it alone; ...
OneObject ==
    \A k \in 1..Len(saved) : \A p \in {beingConsumed, enqueued, pix} :
        SameBuffer(saved[k], p) => saved[k] = p

\* ... and what the search has passed is in use.
PassedInUse == phase = "search" => \A k \in 1..(at - 1) : InUse(saved[k])

\* Saved Pixels have room for their shape.
RoomSaved ==
    \A k \in 1..Len(saved) :
        saved[k] # NoPixels => capacity[saved[k].buf] >= Area[saved[k].shape]
=============================================================================
