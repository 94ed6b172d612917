----------------------- MODULE QueuedPixelSourceProofs -----------------------
(***************************************************************************)
(* For any buffers and shapes: the render thread never writes to a buffer  *)
(* on its way to the window, the list of references holds at most three,   *)
(* and no frame is left behind without a request.                          *)
(*                                                                         *)
(* The bound of three needs the shape of the list: references have         *)
(* distinct buffers (Distinct), the search has passed only Pixels in use   *)
(* (PassedInUse), and there are two of these at most.  The collector must  *)
(* not clear what was passed, which is OneObject.                          *)
(***************************************************************************)
EXTENDS QueuedPixelSource, TLAPS

USE DEF Phases, MaybePixels, Pixels

\* A new pixel source has the types.
LEMMA TypeInit == Init => TypeOK
BY BoundsAssumption, NoPixelsAssumption DEF Init, TypeOK

\* What is left of the list without its i-th reference.
LEMMA WithoutType ==
    ASSUME saved \in Seq(MaybePixels), NEW i \in 1..Len(saved)
    PROVE  /\ Without(i) \in Seq(MaybePixels)
           /\ Len(Without(i)) = Len(saved) - 1
           /\ \A k \in 1..(Len(saved) - 1) :
                 Without(i)[k] = saved[IF k < i THEN k ELSE k + 1]
<1> DEFINE n == Len(saved) - 1
<1>1. n \in Nat
  OBVIOUS
<1>2. \A k \in 1..n : saved[IF k < i THEN k ELSE k + 1] \in MaybePixels
  OBVIOUS
<1>3. Without(i) \in [1..n -> MaybePixels]
  BY <1>2 DEF Without
<1>4. Without(i) \in Seq(MaybePixels)
  BY <1>1, <1>3
<1>5. Len(Without(i)) = n
  BY <1>1, <1>3, <1>4
<1> QED
  BY <1>3, <1>4, <1>5 DEF Without

\* TypeOK is inductive by itself.
LEMMA TypeStep == TypeOK /\ [Next]_vars => TypeOK'
<1> SUFFICES ASSUME TypeOK, [Next]_vars PROVE TypeOK'
  OBVIOUS
<1> USE NoPixelsAssumption, BoundsAssumption, ShapesAssumption DEF TypeOK
<1>1. ASSUME NEW s \in Shapes, GetUnusedPixels(s) PROVE TypeOK'
  BY <1>1 DEF GetUnusedPixels
<1>2. CASE RemoveUseless
  <2>1. at \in 1..Len(saved)
    BY <1>2 DEF RemoveUseless, Searching
  <2> QED
    BY <1>2, <2>1, WithoutType DEF RemoveUseless
<1>3. CASE PassInUse
  BY <1>3 DEF PassInUse, Searching
<1>4. CASE ReturnSaved
  BY <1>4 DEF ReturnSaved, Searching, Idle, Found
<1>5. CASE ReuseBuffer
  <2>1. at \in 1..Len(saved)
    BY <1>5 DEF ReuseBuffer, Searching
  <2> DEFINE p == [buf |-> saved[at].buf, shape |-> want]
  <2>2. p \in Pixels /\ p # NoPixels
    BY <1>5, <2>1 DEF ReuseBuffer, Idle
  <2>3. saved' = Append(Without(at), p) /\ pix' = p
    BY <1>5 DEF ReuseBuffer, Found
  <2>4. saved' \in Seq(MaybePixels) /\ Len(saved') = Len(saved)
    BY <2>1, <2>2, <2>3, WithoutType
  <2> QED
    BY <1>5, <2>1, <2>2, <2>3, <2>4 DEF ReuseBuffer, Found
<1>6. CASE Allocate
  <2>1. PICK b \in Buffers \ Held :
             LET p == [buf |-> b, shape |-> want]
             IN  /\ capacity' = [capacity EXCEPT ![b] = Area[want]]
                 /\ saved' = Append(saved, p)
                 /\ Found(p)
    BY <1>6 DEF Allocate
  <2> DEFINE p == [buf |-> b, shape |-> want]
  <2>2. p \in Pixels /\ p # NoPixels
    OBVIOUS
  <2>3. saved' = Append(saved, p) /\ pix' = p /\ capacity' \in [Buffers -> Nat]
    BY <2>1 DEF Found
  <2>4. saved' \in Seq(MaybePixels) /\ Len(saved') = Len(saved) + 1
    BY <2>2, <2>3
  <2> QED
    BY <2>1, <2>2, <2>3, <2>4 DEF Found
<1>7. CASE Fill
  BY <1>7 DEF Fill
<1>8. CASE FillFails
  BY <1>8 DEF FillFails
<1>9. CASE EnqueuePixels
  BY <1>9 DEF EnqueuePixels
<1>10. CASE UploadPixels
  BY <1>10 DEF UploadPixels
<1>11. CASE GetLatestPixels
  BY <1>11 DEF GetLatestPixels
<1>12. CASE SkipLatestPixels
  BY <1>12 DEF SkipLatestPixels
<1>13. CASE DoneWithPixels
  BY <1>13 DEF DoneWithPixels
<1>14. CASE Collect
  <2>1. PICK i \in 1..Len(saved) : saved' = [saved EXCEPT ![i] = NoPixels]
    BY <1>14 DEF Collect
  <2>2. saved' \in Seq(MaybePixels) /\ Len(saved') = Len(saved)
    BY <2>1
  <2> QED
    BY <1>14, <2>2 DEF Collect
<1>15. CASE Terminated
  BY <1>15 DEF Terminated, vars
<1>16. CASE UNCHANGED vars
  BY <1>16 DEF vars
<1> QED
  BY <1>1, <1>2, <1>3, <1>4, <1>5, <1>6, <1>7, <1>8, <1>9, <1>10, <1>11, <1>12, <1>13,
     <1>14, <1>15, <1>16 DEF Next, Render, Consume

(* The source and its two threads keep their types.                        *)
THEOREM TypeCorrect == Spec => []TypeOK
BY TypeInit, TypeStep, PTL DEF Spec

-----------------------------------------------------------------------------
(* The list of references and the buffers in use.                          *)

ListInv == Distinct /\ OneObject /\ PassedInUse /\ ThreeSets

\* At most two references are to Pixels in use.
LEMMA TwoInUse ==
    ASSUME TypeOK, Distinct, NEW n \in 0..Len(saved), \A k \in 1..n : InUse(saved[k])
    PROVE  n <= 2
<1> SUFFICES ASSUME n >= 3 PROVE FALSE
  BY DEF TypeOK
<1>1. 1 \in 1..n /\ 2 \in 1..n /\ 3 \in 1..n /\ n <= Len(saved) /\ Len(saved) \in Nat
  BY DEF TypeOK
<1>2. InUse(saved[1]) /\ InUse(saved[2]) /\ InUse(saved[3])
  BY <1>1
<1>3. ~SameBuffer(saved[1], saved[2]) /\ ~SameBuffer(saved[1], saved[3])
      /\ ~SameBuffer(saved[2], saved[3])
  BY <1>1 DEF Distinct
<1> QED
  BY <1>2, <1>3 DEF InUse, SameBuffer

\* Every step of either thread, and of the collector, keeps the list invariant.
LEMMA ListStep ==
    TypeOK /\ TypeOK' /\ ListInv /\ BuffersApart /\ [Next]_vars => ListInv'
<1> SUFFICES ASSUME TypeOK, TypeOK', ListInv, BuffersApart, [Next]_vars PROVE ListInv'
  OBVIOUS
<1> USE NoPixelsAssumption DEF ListInv
<1>1. ASSUME NEW s \in Shapes, GetUnusedPixels(s) PROVE ListInv'
  BY <1>1 DEF GetUnusedPixels, Distinct, OneObject, PassedInUse, ThreeSets, TypeOK, SameBuffer, InUse
<1>2. CASE RemoveUseless
  <2>1. at \in 1..Len(saved) /\ Len(saved) \in Nat /\ saved \in Seq(MaybePixels)
    BY <1>2 DEF RemoveUseless, Searching, TypeOK
  <2>2. saved' = Without(at)
    BY <1>2 DEF RemoveUseless
  <2>3. /\ Len(saved') = Len(saved) - 1
        /\ \A k \in 1..(Len(saved) - 1) : saved'[k] = saved[IF k < at THEN k ELSE k + 1]
    BY <2>1, <2>2, WithoutType
  <2>4. UNCHANGED <<beingConsumed, enqueued, pix, phase, at>>
    BY <1>2 DEF RemoveUseless
  <2>5. Distinct'
    BY <2>1, <2>3 DEF Distinct, SameBuffer
  <2>6. OneObject'
    BY <2>1, <2>3, <2>4 DEF OneObject, SameBuffer
  <2>7. PassedInUse'
    BY <2>1, <2>3, <2>4 DEF PassedInUse, SameBuffer, InUse
  <2>8. ThreeSets'
    BY <2>1, <2>3 DEF ThreeSets
  <2> QED
    BY <2>5, <2>6, <2>7, <2>8
<1>3. CASE PassInUse
  <2>1. PassedInUse'
    BY <1>3 DEF PassInUse, Searching, PassedInUse, TypeOK, InUse, SameBuffer
  <2> QED
    BY <1>3, <2>1 DEF PassInUse, Distinct, OneObject, ThreeSets, SameBuffer
<1>4. CASE ReturnSaved
  <2>1. OneObject'
    BY <1>4 DEF ReturnSaved, Searching, Found, Distinct, OneObject, SameBuffer, TypeOK
  <2> QED
    BY <1>4, <2>1 DEF ReturnSaved, Found, Distinct, PassedInUse, ThreeSets, SameBuffer
<1>5. CASE ReuseBuffer
  <2>1. at \in 1..Len(saved) /\ Len(saved) \in Nat /\ saved \in Seq(MaybePixels)
    BY <1>5 DEF ReuseBuffer, Searching, TypeOK
  <2> DEFINE p == [buf |-> saved[at].buf, shape |-> want]
  <2>2. p \in Pixels /\ saved[at] # NoPixels /\ ~InUse(saved[at])
    BY <1>5, <2>1 DEF ReuseBuffer, Idle, TypeOK
  <2>3. /\ saved' = Append(Without(at), p) /\ pix' = p /\ phase' = "fill"
        /\ UNCHANGED <<beingConsumed, enqueued>>
    BY <1>5 DEF ReuseBuffer, Found
  <2>4. /\ Len(saved') = Len(saved)
        /\ \A k \in 1..(Len(saved) - 1) : saved'[k] = saved[IF k < at THEN k ELSE k + 1]
        /\ saved'[Len(saved)] = p
    BY <2>1, <2>2, <2>3, WithoutType
  <2>5. \A k \in 1..(Len(saved) - 1) : ~SameBuffer(saved'[k], p)
    BY <2>1, <2>2, <2>4 DEF Distinct, SameBuffer
  <2>6. Distinct'
    <3> SUFFICES ASSUME NEW i \in 1..Len(saved), NEW j \in 1..Len(saved), i # j
                 PROVE  ~SameBuffer(saved'[i], saved'[j])
      BY <2>4 DEF Distinct, SameBuffer
    <3>1. CASE i = Len(saved)
      BY <2>1, <2>4, <2>5, <3>1 DEF SameBuffer
    <3>2. CASE j = Len(saved)
      BY <2>1, <2>4, <2>5, <3>2 DEF SameBuffer
    <3>3. CASE i # Len(saved) /\ j # Len(saved)
      BY <2>1, <2>4, <3>3 DEF SameBuffer, Distinct
    <3> QED
      BY <3>1, <3>2, <3>3
  <2>7. OneObject'
    <3> SUFFICES ASSUME NEW k \in 1..Len(saved), NEW q \in {beingConsumed, enqueued, p},
                        SameBuffer(saved'[k], q)
                 PROVE  saved'[k] = q
      BY <2>3, <2>4 DEF OneObject, SameBuffer
    <3>1. CASE k = Len(saved)
      BY <2>2, <2>4, <3>1 DEF SameBuffer, InUse
    <3>2. CASE k # Len(saved)
      BY <2>1, <2>4, <2>5, <3>2 DEF SameBuffer, OneObject
    <3> QED
      BY <3>1, <3>2
  <2> QED
    BY <2>3, <2>4, <2>6, <2>7 DEF PassedInUse, ThreeSets
<1>6. CASE Allocate
  <2>1. PICK b \in Buffers \ Held :
             LET p == [buf |-> b, shape |-> want]
             IN  /\ capacity' = [capacity EXCEPT ![b] = Area[want]]
                 /\ saved' = Append(saved, p)
                 /\ Found(p)
    BY <1>6 DEF Allocate
  <2> DEFINE p == [buf |-> b, shape |-> want]
  <2>2. /\ saved' = Append(saved, p) /\ pix' = p /\ phase' = "fill"
        /\ UNCHANGED <<beingConsumed, enqueued>>
    BY <2>1 DEF Found
  <2>3. saved \in Seq(MaybePixels) /\ Len(saved) \in Nat /\ p \in MaybePixels
    BY DEF TypeOK
  <2>4. /\ Len(saved') = Len(saved) + 1
        /\ \A k \in 1..Len(saved) : saved'[k] = saved[k]
        /\ saved'[Len(saved) + 1] = p
    BY <2>2, <2>3
  <2>5. \A k \in 1..Len(saved) : ~SameBuffer(saved[k], p)
    BY <2>1 DEF Held, SameBuffer
  <2>6. ~SameBuffer(p, beingConsumed) /\ ~SameBuffer(p, enqueued)
    BY <2>1 DEF Held, SameBuffer
  <2>7. Distinct'
    BY <2>3, <2>4, <2>5 DEF Distinct, SameBuffer
  <2>8. OneObject'
    BY <2>2, <2>3, <2>4, <2>5, <2>6 DEF OneObject, SameBuffer
  <2>9. Len(saved) <= 2
    <3>1. phase = "search" /\ at > Len(saved)
      BY <1>6 DEF Allocate
    <3>2. at \in 1..(Len(saved) + 1)
      BY DEF TypeOK
    <3>3. \A k \in 1..Len(saved) : InUse(saved[k])
      BY <2>3, <3>1, <3>2 DEF PassedInUse
    <3> QED
      BY <2>3, <3>3, TwoInUse
  <2> QED
    BY <2>2, <2>3, <2>4, <2>7, <2>8, <2>9 DEF PassedInUse, ThreeSets
<1>7. CASE Fill
  BY <1>7 DEF Fill, Distinct, OneObject, PassedInUse, ThreeSets, SameBuffer
<1>8. CASE FillFails
  BY <1>8 DEF FillFails, Distinct, OneObject, PassedInUse, ThreeSets, SameBuffer
<1>9. CASE EnqueuePixels
  BY <1>9 DEF EnqueuePixels, Distinct, OneObject, PassedInUse, ThreeSets, SameBuffer
<1>10. CASE UploadPixels
  BY <1>10 DEF UploadPixels, Distinct, OneObject, PassedInUse, ThreeSets, SameBuffer
<1>11. CASE GetLatestPixels
  BY <1>11 DEF GetLatestPixels, Unlocked, Distinct, OneObject, PassedInUse, ThreeSets, SameBuffer
<1>12. CASE SkipLatestPixels
  BY <1>12 DEF SkipLatestPixels, Unlocked, Distinct, OneObject, PassedInUse, ThreeSets, SameBuffer
<1>13. CASE DoneWithPixels
  BY <1>13 DEF DoneWithPixels, Unlocked, Distinct, OneObject, PassedInUse, ThreeSets, SameBuffer
<1>14. CASE Collect
  <2>1. PICK i \in 1..Len(saved) : /\ saved[i] \notin {NoPixels, beingConsumed, enqueued, pix}
                                   /\ saved' = [saved EXCEPT ![i] = NoPixels]
    BY <1>14 DEF Collect
  <2>2. /\ Len(saved') = Len(saved)
        /\ \A k \in 1..Len(saved) : saved'[k] = IF k = i THEN NoPixels ELSE saved[k]
    BY <2>1 DEF TypeOK
  <2>3. UNCHANGED <<beingConsumed, enqueued, pix, phase, at>>
    BY <1>14 DEF Collect
  <2>4. ~InUse(saved[i])
    BY <2>1 DEF OneObject, InUse
  <2>5. PassedInUse'
    <3> SUFFICES ASSUME phase = "search", NEW k \in 1..(at - 1) PROVE InUse(saved[k])'
      BY <2>3 DEF PassedInUse
    <3>1. k \in 1..Len(saved) /\ InUse(saved[k])
      BY DEF PassedInUse, TypeOK
    <3>2. saved'[k] = saved[k]
      BY <2>2, <2>4, <3>1
    <3> QED
      BY <2>3, <3>1, <3>2 DEF InUse, SameBuffer
  <2> QED
    BY <2>2, <2>3, <2>5 DEF Distinct, OneObject, ThreeSets, SameBuffer
<1>15. CASE Terminated \/ UNCHANGED vars
  BY <1>15 DEF Terminated, vars, Distinct, OneObject, PassedInUse, ThreeSets, SameBuffer, InUse
<1> QED
  BY <1>1, <1>2, <1>3, <1>4, <1>5, <1>6, <1>7, <1>8, <1>9, <1>10, <1>11, <1>12, <1>13,
     <1>14, <1>15 DEF Next, Render, Consume

\* BuffersApart is inductive, given the types: the search passes what is in use.
LEMMA ApartStep ==
    TypeOK /\ BuffersApart /\ [Next]_vars => BuffersApart'
<1> SUFFICES ASSUME TypeOK, BuffersApart, [Next]_vars PROVE BuffersApart'
  OBVIOUS
<1> USE NoPixelsAssumption DEF BuffersApart, SameBuffer
<1>1. ASSUME NEW s \in Shapes, GetUnusedPixels(s) PROVE BuffersApart'
  BY <1>1 DEF GetUnusedPixels
<1>2. CASE RemoveUseless \/ PassInUse \/ Collect \/ Terminated \/ UNCHANGED vars
  BY <1>2 DEF RemoveUseless, PassInUse, Collect, Terminated, vars
<1>3. CASE ReturnSaved
  BY <1>3 DEF ReturnSaved, Idle, InUse, Found
<1>4. CASE ReuseBuffer
  BY <1>4 DEF ReuseBuffer, Idle, InUse, Found
<1>5. CASE Allocate
  <2>1. PICK b \in Buffers \ Held : Found([buf |-> b, shape |-> want])
    BY <1>5 DEF Allocate
  <2>2. /\ pix' = [buf |-> b, shape |-> want]
        /\ UNCHANGED <<beingConsumed, enqueued>>
    BY <2>1 DEF Found
  <2>3. \A p \in {beingConsumed, enqueued} : p # NoPixels => p.buf # b
    BY <2>1 DEF Held
  <2> QED
    BY <2>2, <2>3
<1>6. CASE Fill \/ FillFails \/ EnqueuePixels \/ UploadPixels
  BY <1>6 DEF Fill, FillFails, EnqueuePixels, UploadPixels
<1>7. CASE GetLatestPixels \/ SkipLatestPixels \/ DoneWithPixels
  BY <1>7 DEF GetLatestPixels, SkipLatestPixels, DoneWithPixels
<1> QED
  BY <1>1, <1>2, <1>3, <1>4, <1>5, <1>6, <1>7 DEF Next, Render, Consume

\* A new pixel source satisfies both invariants.
LEMMA ListInit == Init => ListInv /\ BuffersApart
BY DEF Init, ListInv, Distinct, OneObject, PassedInUse, ThreeSets, BuffersApart, SameBuffer

(* The buffer the render thread writes to is neither the one being         *)
(* uploaded nor the one waiting to be, for any shapes and any number of    *)
(* buffers (getUnusedPixels, enqueuePixels, getLatestPixels).              *)
THEOREM BuffersStayApart == Spec => []BuffersApart
<1>1. Init => TypeOK /\ BuffersApart
  BY TypeInit, ListInit
<1>2. TypeOK /\ BuffersApart /\ [Next]_vars => (TypeOK /\ BuffersApart)'
  BY TypeStep, ApartStep
<1> QED
  BY <1>1, <1>2, PTL DEF Spec

(* The source never keeps more than three references, cleared ones         *)
(* included: "At most we will need 3 sets of pixels".                      *)
THEOREM AtMostThreeSets == Spec => []ThreeSets
<1> DEFINE Inv == TypeOK /\ BuffersApart /\ ListInv
<1>1. Init => Inv
  BY TypeInit, ListInit
<1>2. Inv /\ [Next]_vars => Inv'
  BY TypeStep, ApartStep, ListStep
<1>3. Inv => ThreeSets
  BY DEF ListInv
<1> QED
  BY <1>1, <1>2, <1>3, PTL DEF Spec

(* Nobody writes to a buffer between enqueuePixels and the end of the      *)
(* upload: no frame is torn.                                               *)
THEOREM FramesAreWhole == Spec => FramesStayWhole
<1> DEFINE A == \A p \in {beingConsumed, enqueued} \ {NoPixels} :
                    content'[p.buf] = content[p.buf]
<1>1. TypeOK /\ BuffersApart /\ [Next]_vars => [A]_vars
  <2> SUFFICES ASSUME TypeOK, BuffersApart, Next PROVE A
    OBVIOUS
  <2>1. ASSUME Fill \/ FillFails, NEW p \in {beingConsumed, enqueued} \ {NoPixels}
        PROVE  content'[p.buf] = content[p.buf]
    <3>1. pix # NoPixels /\ ~SameBuffer(pix, beingConsumed) /\ ~SameBuffer(pix, enqueued)
      BY <2>1 DEF Fill, FillFails, BuffersApart, TypeOK
    <3>2. p.buf # pix.buf
      BY <3>1 DEF SameBuffer
    <3>3. p.buf \in Buffers /\ content \in [Buffers -> 0..MaxFrames]
      BY NoPixelsAssumption DEF TypeOK
    <3> QED
      BY <2>1, <3>2, <3>3 DEF Fill, FillFails
  <2>2. CASE ~(Fill \/ FillFails)
    <3>1. content' = content
      BY <2>2 DEF Next, Render, Consume, GetUnusedPixels, RemoveUseless, PassInUse, ReturnSaved,
                  ReuseBuffer, Allocate, Found, EnqueuePixels, UploadPixels, GetLatestPixels,
                  SkipLatestPixels, DoneWithPixels, Collect, Terminated, vars
    <3> QED
      BY <3>1
  <2> QED
    BY <2>1, <2>2
<1>2. Spec => []TypeOK /\ []BuffersApart
  BY TypeCorrect, BuffersStayApart
<1> QED
  BY <1>1, <1>2, PTL DEF Spec, FramesStayWhole

(* A frame that waits has a request that will fetch it, although requests  *)
(* and frames are not paired.                                              *)
THEOREM NoFrameStranded == Spec => []NothingStranded
<1>1. Init => NothingStranded
  BY DEF Init, NothingStranded
<1>2. TypeOK /\ NothingStranded /\ [Next]_vars => NothingStranded'
  <2> SUFFICES ASSUME TypeOK, NothingStranded, [Next]_vars PROVE NothingStranded'
    OBVIOUS
  <2> USE DEF NothingStranded
  <2>1. CASE EnqueuePixels \/ UploadPixels
    BY <2>1 DEF EnqueuePixels, UploadPixels, TypeOK
  <2>2. CASE GetLatestPixels \/ SkipLatestPixels
    BY <2>2 DEF GetLatestPixels, SkipLatestPixels
  <2>3. ASSUME NEW s \in Shapes, GetUnusedPixels(s) PROVE NothingStranded'
    BY <2>3 DEF GetUnusedPixels
  <2>4. CASE RemoveUseless \/ PassInUse \/ ReturnSaved \/ ReuseBuffer \/ Allocate
    BY <2>4 DEF RemoveUseless, PassInUse, ReturnSaved, ReuseBuffer, Allocate, Searching, Found
  <2>5. CASE Fill \/ FillFails \/ DoneWithPixels \/ Collect \/ Terminated \/ UNCHANGED vars
    BY <2>5 DEF Fill, FillFails, DoneWithPixels, Collect, Terminated, vars
  <2> QED
    BY <2>1, <2>2, <2>3, <2>4, <2>5 DEF Next, Render, Consume
<1> QED
  BY <1>1, <1>2, TypeCorrect, PTL DEF Spec

(* The buffer handed to the render thread holds w * h ints, whether it is  *)
(* new, saved, or taken over from Pixels of another shape.                 *)
THEOREM RoomForEveryFrame == Spec => []RoomForFrame
<1> DEFINE Inv == RoomSaved /\ RoomForFrame
<1>1. Init => Inv
  BY DEF Init, RoomSaved, RoomForFrame
<1>2. TypeOK /\ Inv /\ [Next]_vars => Inv'
  <2> SUFFICES ASSUME TypeOK, RoomSaved, RoomForFrame, [Next]_vars
               PROVE  RoomSaved' /\ RoomForFrame'
    OBVIOUS
  <2> USE NoPixelsAssumption, ShapesAssumption
  <2>1. CASE RemoveUseless
    <3>1. at \in 1..Len(saved) /\ Len(saved) \in Nat /\ saved \in Seq(MaybePixels)
      BY <2>1 DEF RemoveUseless, Searching, TypeOK
    <3>2. saved' = Without(at) /\ UNCHANGED <<capacity, pix>>
      BY <2>1 DEF RemoveUseless
    <3>3. /\ Len(saved') = Len(saved) - 1
          /\ \A k \in 1..(Len(saved) - 1) : saved'[k] = saved[IF k < at THEN k ELSE k + 1]
      BY <3>1, <3>2, WithoutType
    <3> QED
      BY <3>1, <3>2, <3>3 DEF RoomSaved, RoomForFrame
  <2>2. CASE ReturnSaved
    BY <2>2 DEF ReturnSaved, Searching, Idle, Found, TypeOK, RoomSaved, RoomForFrame
  <2>3. CASE ReuseBuffer
    <3>1. at \in 1..Len(saved) /\ Len(saved) \in Nat /\ saved \in Seq(MaybePixels)
      BY <2>3 DEF ReuseBuffer, Searching, TypeOK
    <3> DEFINE p == [buf |-> saved[at].buf, shape |-> want]
    <3>2. /\ p \in Pixels /\ capacity[p.buf] >= Area[p.shape]
          /\ saved' = Append(Without(at), p) /\ pix' = p /\ UNCHANGED capacity
      <4>1. saved[at] # NoPixels /\ saved[at] \in MaybePixels /\ want \in Shapes
        BY <2>3, <3>1 DEF ReuseBuffer, Idle, TypeOK
      <4>2. p \in Pixels /\ p.buf = saved[at].buf /\ p.shape = want
        BY <4>1 DEF Pixels, MaybePixels
      <4>3. capacity[saved[at].buf] >= Area[want]
        BY <2>3 DEF ReuseBuffer, HasRoom
      <4>4. saved' = Append(Without(at), p) /\ pix' = p /\ UNCHANGED capacity
        BY <2>3 DEF ReuseBuffer, Found
      <4> QED
        BY <4>2, <4>3, <4>4
    <3>3. /\ Len(saved') = Len(saved)
          /\ \A k \in 1..(Len(saved) - 1) : saved'[k] = saved[IF k < at THEN k ELSE k + 1]
          /\ saved'[Len(saved)] = p
      BY <3>1, <3>2, WithoutType
    <3>4. RoomSaved'
      <4> HIDE DEF p
      <4> SUFFICES ASSUME NEW k \in 1..Len(saved), saved'[k] # NoPixels
                   PROVE  capacity[saved'[k].buf] >= Area[saved'[k].shape]
        BY <3>2, <3>3 DEF RoomSaved
      <4>1. CASE k = Len(saved)
        BY <3>2, <3>3, <4>1
      <4>2. CASE k \in 1..(Len(saved) - 1)
        <5>1. (IF k < at THEN k ELSE k + 1) \in 1..Len(saved)
          BY <3>1, <4>2
        <5> QED
          BY <3>3, <4>2, <5>1 DEF RoomSaved
      <4> QED
        BY <3>1, <4>1, <4>2
    <3> QED
      BY <3>2, <3>4 DEF RoomForFrame
  <2>4. CASE Allocate
    <3>1. PICK b \in Buffers \ Held :
               LET p == [buf |-> b, shape |-> want]
               IN  /\ capacity' = [capacity EXCEPT ![b] = Area[want]]
                   /\ saved' = Append(saved, p)
                   /\ Found(p)
      BY <2>4 DEF Allocate
    <3> DEFINE p == [buf |-> b, shape |-> want]
    <3>2. saved \in Seq(MaybePixels) /\ Len(saved) \in Nat /\ p \in MaybePixels /\ want \in Shapes
      BY DEF TypeOK
    <3>3. /\ Len(saved') = Len(saved) + 1
          /\ \A k \in 1..Len(saved) : saved'[k] = saved[k]
          /\ saved'[Len(saved) + 1] = p
      BY <3>1, <3>2
    <3>4. capacity'[b] = Area[want] /\ Area[want] \in Nat
          /\ \A c \in Buffers \ {b} : capacity'[c] = capacity[c]
      BY <3>1, <3>2 DEF TypeOK
    <3>5. \A k \in 1..Len(saved) : saved[k] # NoPixels => saved[k].buf \in Buffers \ {b}
      BY <3>1, <3>2 DEF Held
    <3>6. RoomSaved'
      <4> SUFFICES ASSUME NEW k \in 1..(Len(saved) + 1), saved'[k] # NoPixels
                   PROVE  capacity'[saved'[k].buf] >= Area[saved'[k].shape]
        BY <3>3 DEF RoomSaved
      <4>1. CASE k = Len(saved) + 1
        BY <3>3, <3>4, <4>1
      <4>2. CASE k \in 1..Len(saved)
        BY <3>3, <3>4, <3>5, <4>2 DEF RoomSaved
      <4> QED
        BY <3>2, <4>1, <4>2
    <3>7. pix' = p
      BY <3>1 DEF Found
    <3> QED
      BY <3>4, <3>6, <3>7 DEF RoomForFrame
  <2>5. CASE Collect
    <3>1. PICK i \in 1..Len(saved) : saved' = [saved EXCEPT ![i] = NoPixels]
      BY <2>5 DEF Collect
    <3>2. /\ Len(saved') = Len(saved)
          /\ \A k \in 1..Len(saved) : saved'[k] = IF k = i THEN NoPixels ELSE saved[k]
      BY <3>1 DEF TypeOK
    <3> QED
      BY <2>5, <3>2 DEF Collect, RoomSaved, RoomForFrame
  <2>6. ASSUME NEW s \in Shapes, GetUnusedPixels(s) PROVE RoomSaved' /\ RoomForFrame'
    BY <2>6 DEF GetUnusedPixels, RoomSaved, RoomForFrame
  <2>7. CASE PassInUse \/ Fill \/ FillFails \/ EnqueuePixels \/ UploadPixels
    BY <2>7 DEF PassInUse, Fill, FillFails, EnqueuePixels, UploadPixels, RoomSaved, RoomForFrame
  <2>8. CASE \/ GetLatestPixels \/ SkipLatestPixels \/ DoneWithPixels \/ Terminated
             \/ UNCHANGED vars
    BY <2>8 DEF GetLatestPixels, SkipLatestPixels, DoneWithPixels, Terminated, vars, RoomSaved,
                RoomForFrame
  <2> QED
    BY <2>1, <2>2, <2>3, <2>4, <2>5, <2>6, <2>7, <2>8 DEF Next, Render, Consume
<1> QED
  BY <1>1, <1>2, TypeCorrect, PTL DEF Spec
=============================================================================
