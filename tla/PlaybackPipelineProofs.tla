----------------------- MODULE PlaybackPipelineProofs -----------------------
(***************************************************************************)
(* Who frees the data of the bus callback (sBusCallbackContent), for every *)
(* medium and every number of calls and messages.  It holds the lock that  *)
(* Dispose() and the callback meet on, and two threads may be the last to  *)
(* use it: the invariant says, for each place Dispose() can be at, which   *)
(* of them is.                                                             *)
(***************************************************************************)
EXTENDS PlaybackPipeline, TLAPS

\* Where Dispose() may be.
DisposePlaces == {"dispose", "dispose locked", "dispose unlock", "dispose free", "closed"}

\* The other calls of the application return to one of these.
AfterCalls == {"idle", "seek", "zero", "zero resume"}

Types ==
    /\ disposing \in [begun : BOOLEAN, disposed : BOOLEAN, freeMe : BOOLEAN, freed : Nat]
    /\ after \in AfterCalls

\* Once Dispose() has begun, no callback gets past its first look.
Begun ==
    /\ disposing.begun <=> call \in DisposePlaces
    /\ disposing.begun => at \in {"idle", "callback", "returned"}

\* Nothing is freed or left to anyone before the source is destroyed.
NotYet ==
    call \notin {"dispose unlock", "dispose free", "closed"} =>
        ~disposing.disposed /\ ~disposing.freeMe /\ disposing.freed = 0

\* With the lock held: the data is left to Dispose() unless a callback is under way.
Handover ==
    call = "dispose unlock" =>
        ~disposing.disposed /\ disposing.freed = 0 /\ (disposing.freeMe <=> at = "idle")

LastUser ==
    /\ call = "dispose free" => disposing.disposed /\ disposing.freed = 0 /\ at = "idle"
    /\ call = "closed" =>
          /\ disposing.disposed
          /\ \/ disposing.freed = 1 /\ at = "idle"
             \/ disposing.freed = 0 /\ at \in {"callback", "returned"}

Inv == Types /\ Begun /\ NotYet /\ Handover /\ LastUser

-----------------------------------------------------------------------------
\* Nothing is disposed of at the start.
LEMMA InitInv == Init => Inv
    BY DEF Init, Inv, Types, AfterCalls, Begun, DisposePlaces, NotYet, Handover, LastUser

\* Steps of the pipeline and of the callback, and calls of the application other than
\* Dispose(), leave its state alone.
LEMMA Frame ==
    ASSUME Inv, disposing' = disposing, after' \in AfterCalls,
           call' = call \/ (call \notin DisposePlaces /\ call' \notin DisposePlaces),
           at' = at \/ (~disposing.begun) \/ (at = "idle" /\ at' = "callback" /\ ~SourceDestroyed)
               \/ (at = "callback" /\ at' = "returned" /\ ~DisposeHoldsLock)
    PROVE  Inv'
<1>1. Types'
    BY DEF Inv, Types
<1>2. Begun'
    BY DEF Inv, Begun
<1>3. NotYet'
    BY DEF Inv, NotYet, DisposePlaces
<1>4. Handover'
    BY DEF Inv, Begun, Handover, DisposePlaces, SourceDestroyed, DisposeHoldsLock
<1>5. LastUser'
    BY DEF Inv, Begun, LastUser, DisposePlaces, SourceDestroyed
<1> QED
    BY <1>1, <1>2, <1>3, <1>4, <1>5 DEF Inv

\* The elements of the pipeline only post messages.
LEMMA ElementsStep == Inv /\ Elements => Inv'
<1> SUFFICES ASSUME Inv, Elements PROVE Inv'
    OBVIOUS
<1>1. UNCHANGED <<call, after, at, disposing>>
    BY DEF Elements, Preroll, Continue, RunOut, Arrive, RingFull, RingNotFull, PlayEnd, Fail, Complete, Report
<1> QED
    BY <1>1, Frame DEF Inv, Types

\* The main loop frees the data if Dispose() has come to its end.
LEMMA BusStep == Inv /\ BusThread => Inv'
<1> SUFFICES ASSUME Inv, BusThread PROVE Inv'
    OBVIOUS
<1>1. CASE Returned
  <2>1. /\ at = "returned" /\ call # "dispose unlock" /\ at' = "idle" /\ UNCHANGED <<call, after>>
        /\ disposing' = IF SourceDestroyed THEN BusCallbackDestroyNotify(disposing) ELSE disposing
    BY <1>1 DEF Returned, DisposeHoldsLock
  <2>2. CASE ~SourceDestroyed
    BY <2>1, <2>2 DEF Inv, Types, Begun, NotYet, Handover, LastUser, SourceDestroyed, DisposePlaces
  <2>3. CASE SourceDestroyed
    <3>1. call = "closed" /\ disposing.disposed /\ disposing.freed = 0
      BY <2>1, <2>3 DEF Inv, LastUser, SourceDestroyed
    <3>2. disposing' = [disposing EXCEPT !.freed = 1]
      <4>1. disposing' = [disposing EXCEPT !.freed = disposing.freed + 1] /\ disposing.freed + 1 = 1
        BY <2>1, <2>3, <3>1 DEF BusCallbackDestroyNotify
      <4> QED
        BY <4>1
    <3>3. /\ disposing' \in [begun : BOOLEAN, disposed : BOOLEAN, freeMe : BOOLEAN, freed : Nat]
          /\ disposing'.freed = 1 /\ disposing'.disposed = disposing.disposed /\ disposing'.begun = disposing.begun
      BY <3>2 DEF Inv, Types
    <3> QED
      BY <2>1, <3>1, <3>3 DEF Inv, Types, Begun, NotYet, Handover, LastUser, DisposePlaces
  <2> QED
    BY <2>2, <2>3
<1>2. CASE Dispatch \/ Ignored
  <2>1. /\ UNCHANGED <<call, after, disposing>>
        /\ \/ at = "idle" /\ at' = "callback" /\ ~SourceDestroyed
           \/ at = "callback" /\ at' = "returned" /\ ~DisposeHoldsLock
    BY <1>2 DEF Dispatch, Ignored
  <2> QED
    BY <2>1, Frame DEF Inv, Types
<1>3. CASE \/ OnStateChanged \/ UpdatePlayerState \/ OnUnderrun \/ Stall \/ StallPause
           \/ OnData \/ Resume \/ OnEos \/ OnError
  <2>1. UNCHANGED <<call, after, disposing>>
    BY <1>3 DEF OnStateChanged, UpdatePlayerState, OnUnderrun, Stall, StallPause, OnData, Resume, OnEos, OnError
  <2>2. ~disposing.begun
    BY <1>3 DEF Inv, Begun, InCallback, OnStateChanged, UpdatePlayerState, OnUnderrun, Stall, StallPause, OnData,
           Resume, OnEos, OnError
  <2> QED
    BY <2>1, <2>2, Frame DEF Inv, Types
<1> QED
    BY <1>1, <1>2, <1>3 DEF BusThread

\* The application's other calls are over before Dispose(), and do not return into it.
LEMMA CallsStep ==
    ASSUME Inv,
           \/ PlaySet \/ PauseLocked \/ StopLocked \/ InternalPause \/ PauseSet \/ Seek \/ SeekPipeline
           \/ SeekResume \/ SeekPlay \/ RateZero
           \/ Play \/ Pause \/ Finish \/ Stop \/ SeekCall \/ SetRateZero \/ SetRate
    PROVE  Inv'
<1> USE DEF AfterCalls, DisposePlaces
<1>1. UNCHANGED <<disposing, at>>
    BY DEF PlaySet, PauseLocked, StopLocked, InternalPause, PauseSet, Seek, SeekPipeline, SeekResume, SeekPlay,
           RateZero, Play, Pause, Finish, Stop, SeekCall, SetRateZero, SetRate
<1>2. CASE \/ PlaySet \/ PauseLocked \/ StopLocked \/ InternalPause \/ PauseSet \/ Seek \/ SeekPipeline
           \/ SeekResume \/ SeekPlay \/ RateZero
  <2>1. after' \in AfterCalls /\ call \notin DisposePlaces /\ call' \notin DisposePlaces
    BY <1>2 DEF Inv, Types, PlaySet, PauseLocked, StopLocked, InternalPause, PauseSet, Seek, SeekPipeline,
           SeekResume, SeekPlay, RateZero
  <2> QED
    BY <1>1, <2>1, Frame
<1>3. CASE Play \/ Pause \/ Finish \/ Stop \/ SeekCall \/ SetRateZero \/ SetRate
  <2>1. after' \in AfterCalls /\ call \notin DisposePlaces /\ call' \notin DisposePlaces
    BY <1>3 DEF Inv, Types, Calls, Play, Pause, Finish, Stop, SeekCall, SetRateZero, SetRate
  <2> QED
    BY <1>1, <2>1, Frame
<1> QED
    BY <1>2, <1>3

\* Dispose() itself: it begins and takes the lock only while no callback holds it.
LEMMA DisposeStep ==
    ASSUME Inv, DisposeBegin \/ DisposeStop \/ DisposeLocked \/ DisposeUnlock \/ DisposeFree
    PROVE  Inv'
<1> USE DEF Inv, Types, Begun, NotYet, Handover, LastUser, DisposePlaces
<1>1. CASE DisposeBegin
    BY <1>1 DEF DisposeBegin, DisposeLockFree
<1>2. CASE DisposeStop
    BY <1>2 DEF DisposeStop
<1>3. CASE DisposeLocked
    BY <1>3 DEF DisposeLocked, DisposeLockFree, BusCallbackDestroyNotify
<1>4. CASE DisposeUnlock
    BY <1>4 DEF DisposeUnlock
<1>5. CASE DisposeFree
  <2>1. /\ disposing' = [disposing EXCEPT !.freed = disposing.freed + 1]
        /\ call = "dispose free" /\ call' = "closed" /\ UNCHANGED <<after, at>>
    BY <1>5 DEF DisposeFree
  <2>2. disposing.disposed /\ disposing.freed = 0 /\ at = "idle"
    BY <2>1
  <2>3. disposing' = [disposing EXCEPT !.freed = 1]
    <3>1. disposing.freed + 1 = 1
      BY ONLY <2>2
    <3> QED
      BY ONLY <2>1, <3>1
  <2>4. /\ disposing' \in [begun : BOOLEAN, disposed : BOOLEAN, freeMe : BOOLEAN, freed : Nat]
        /\ disposing'.freed = 1 /\ disposing'.disposed = disposing.disposed /\ disposing'.begun = disposing.begun
    BY <2>3
  <2> QED
    BY <2>1, <2>2, <2>4
<1> QED
    BY <1>1, <1>2, <1>3, <1>4, <1>5

\* Every step keeps the invariant.
LEMMA InvInductive == Inv /\ [Next]_vars => Inv'
<1> SUFFICES ASSUME Inv, [Next]_vars PROVE Inv'
    OBVIOUS
<1>1. CASE Elements \/ BusThread
    BY <1>1, ElementsStep, BusStep
<1>2. CASE AppSteps \/ Requests
    BY <1>2, CallsStep, DisposeStep DEF AppSteps, Requests
<1>3. CASE UNCHANGED vars
    BY <1>3, Frame DEF vars, Inv, Types
<1> QED
    BY <1>1, <1>2, <1>3 DEF Next

\* The data of the callback is freed at most once, and only when Dispose() is over and no
\* callback is under way: whichever of the two threads comes last frees it
\* (Dispose(), BusCallbackDestroyNotify()).
THEOREM CallbackDataFreedSafely == Spec => []FreedSafely
<1>1. ASSUME Inv PROVE FreedSafely
  <2>1. disposing.freed = 0 \/ (disposing.freed = 1 /\ at = "idle" /\ call = "closed")
    BY <1>1 DEF Inv, NotYet, Handover, LastUser
  <2> QED
    BY <2>1 DEF FreedSafely
<1> QED
    BY <1>1, InitInv, InvInductive, PTL DEF Spec
=============================================================================
