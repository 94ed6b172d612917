-------------------------- MODULE PlaybackPipeline --------------------------
(***************************************************************************)
(* The state of a media player (GstAudioPlaybackPipeline.cpp): what the    *)
(* application asks for on its thread, what the GStreamer pipeline reports *)
(* on the bus, and what the thread of the bus makes of the two.            *)
(*                                                                         *)
(* A section under m_StateLock is one step, and so is a change of the      *)
(* pipeline's state (gst_element_set_state() holds the pipeline's own      *)
(* lock).  Stream positions, queue sizes and track events are left out.    *)
(***************************************************************************)
EXTENDS Integers, Sequences

(***************************************************************************)
(* The media: whether it is HLS, and as bounds how many calls the          *)
(* application makes, and how many stalls, ends of stream and failures     *)
(* there are.                                                              *)
(***************************************************************************)
CONSTANT Media

VARIABLES
    medium,
    budget,     \* what is left of its bounds
    \* the pipeline, inside GStreamer
    gst,        \* its current, next, pending and target state, whether its sinks have data
                \* to show and whether they have had EOS, whether the thread that
                \* carries on is due
    bus,        \* messages
    buffered,   \* the buffer element has had its EOS
    \* the player
    state,      \* m_PlayerState
    pending,    \* m_PlayerPendingState
    stallOnPause, seekInvoked,
    rate,       \* m_fRate is not zero
    resumeOnRate, \* m_bResumePlayOnNonzeroRate
    lastEos,    \* m_bLastProgressValueEOS
    full,       \* m_bHLSPBFull
    \* the threads
    call,       \* where the application's thread is
    after,      \* what comes after the call in hand
    at,         \* where the thread of the bus is
    msg,        \* the message it handles
    \* sBusCallbackContent
    disposing,  \* m_bIsDisposeInProgress, m_bIsDisposed, m_bFreeMe, and how often it was freed
    \* history
    asked       \* what the application asked for last, or that a call was crossed

gstVars == <<gst, bus>>
playerVars == <<state, pending, stallOnPause, seekInvoked>>
flagVars == <<rate, resumeOnRate, lastEos, full>>
vars == <<medium, budget, gst, bus, buffered, playerVars, flagVars, call, after, at, msg, disposing, asked>>

Void == "VOID"

\* A change of state with none pending after it; the player ignores the others.
StateChanged(old, new) == [type |-> "state", old |-> old, new |-> new]
Message(type) == [type |-> type]

Init ==
    /\ medium \in Media
    /\ budget = medium.bounds
    /\ gst = [state |-> "READY", next |-> "PAUSED", pending |-> "PAUSED", target |-> "PAUSED",
              prerolled |-> FALSE, ended |-> FALSE, continue |-> FALSE]
    /\ bus = <<>> /\ buffered = FALSE
    /\ state = "Unknown" /\ pending = "Unknown" /\ stallOnPause = FALSE /\ seekInvoked = FALSE
    /\ rate = TRUE /\ resumeOnRate = FALSE /\ lastEos = FALSE /\ full = FALSE
    /\ call = "idle" /\ after = "idle" /\ at = "idle"
    /\ msg = Message("none")
    /\ disposing = [begun |-> FALSE, disposed |-> FALSE, freeMe |-> FALSE, freed |-> 0]
    /\ asked = "none"

Spend(what) == budget[what] > 0 /\ budget' = [budget EXCEPT ![what] = @ - 1]

-----------------------------------------------------------------------------
(* The pipeline: gst_element_set_state(), a flushing seek, and what happens *)
(* on GStreamer's own threads.                                              *)

Post(m) == bus' = Append(bus, m)

\* Sinks that have had EOS say so each time they play.
PostChange(from, to) ==
    bus' = bus \o <<StateChanged(from, to)>> \o (IF to = "PLAYING" /\ gst.ended THEN <<Message("eos")>> ELSE <<>>)

\* A change of state under way takes in the new target.
SetStateBusy(to) ==
    /\ gst.pending # Void /\ (to = "PLAYING" \/ gst.next = "PAUSED")
    /\ gst' = [gst EXCEPT !.pending = to, !.target = to, !.continue = @ /\ gst.target = to]
    /\ UNCHANGED bus

\* The way from PAUSED to PLAYING, not yet gone, is given up.
SetStateBack(to) ==
    /\ gst.pending # Void /\ to = "PAUSED" /\ gst.next = "PLAYING"
    /\ IF gst.prerolled
       THEN /\ gst' = [gst EXCEPT !.next = Void, !.pending = Void, !.target = to, !.continue = FALSE]
            /\ Post(StateChanged("PAUSED", "PAUSED"))
       ELSE /\ gst' = [gst EXCEPT !.next = to, !.pending = to, !.target = to, !.continue = FALSE]
            /\ UNCHANGED bus

\* A pipeline at rest changes at once, or stays and reports nothing.  It goes to
\* PAUSED later when its sinks have run out of data.
SetStateNow(to) ==
    /\ gst.pending = Void
    /\ \/ /\ gst.state # "NULL"
          /\ gst' = [gst EXCEPT !.state = to, !.target = to]
          /\ IF gst.state = to THEN UNCHANGED bus ELSE PostChange(gst.state, to)
       \/ /\ gst.state = "PLAYING" /\ to = "PAUSED" /\ ~gst.ended
          /\ gst' = [gst EXCEPT !.next = to, !.pending = to, !.target = to, !.prerolled = FALSE]
          /\ UNCHANGED bus

\* A pipeline that was torn down starts again.
SetStateAnew(to) ==
    /\ gst.state = "NULL"
    /\ gst' = [gst EXCEPT !.state = "READY", !.next = "PAUSED", !.pending = to, !.target = to,
                         !.prerolled = FALSE, !.ended = FALSE]
    /\ UNCHANGED bus

SetState(to) == SetStateAnew(to) \/ SetStateBusy(to) \/ SetStateBack(to) \/ SetStateNow(to)

\* A flush takes the data from the sinks; PLAYING is left for PAUSED.
LoseState ==
    /\ LET flushed == [gst EXCEPT !.prerolled = FALSE, !.ended = FALSE]
       IN  gst' = IF gst.pending = Void
                  THEN [flushed EXCEPT !.state = "PAUSED", !.next = "PAUSED", !.pending = "PAUSED"] ELSE flushed
    /\ UNCHANGED bus

\* The sinks have data again: bin_handle_async_done().
Preroll ==
    /\ gst.pending # Void /\ ~gst.prerolled
    /\ \/ /\ gst.next = "PAUSED" /\ gst.target = "PAUSED"
          /\ gst' = [gst EXCEPT !.state = "PAUSED", !.next = Void, !.pending = Void, !.prerolled = TRUE]
          /\ Post(StateChanged(gst.state, "PAUSED"))
       \/ /\ gst.next = "PAUSED" /\ gst.target = "PLAYING"
          /\ gst' = [gst EXCEPT !.state = "PAUSED", !.next = "PLAYING", !.pending = "PLAYING",
                                !.prerolled = TRUE, !.continue = TRUE]
          /\ UNCHANGED bus
       \/ /\ gst.next = "PLAYING"
          /\ gst' = [gst EXCEPT !.prerolled = TRUE, !.continue = TRUE]
          /\ UNCHANGED bus
    /\ UNCHANGED <<medium, budget, buffered, playerVars, flagVars, call, after, at, msg, disposing, asked>>

\* gst_bin_continue_func()
Continue ==
    /\ gst.continue
    /\ IF gst.prerolled
       THEN /\ gst' = [gst EXCEPT !.state = "PLAYING", !.next = Void, !.pending = Void, !.continue = FALSE]
            /\ PostChange("PAUSED", "PLAYING")
       ELSE gst' = [gst EXCEPT !.continue = FALSE] /\ UNCHANGED bus
    /\ UNCHANGED <<medium, budget, buffered, playerVars, flagVars, call, after, at, msg, disposing, asked>>

\* The elements report: data runs out, arrives, is complete; the ring of HLS files is
\* full; the end is played; a failure.
Report(what, type) ==
    /\ gst.state # "NULL"
    /\ Spend(what) /\ Post(Message(type))
    /\ UNCHANGED <<medium, gst, buffered, playerVars, flagVars, call, after, at, msg, disposing, asked>>

RunOut ==
    /\ gst.state = "PLAYING" /\ ~gst.ended /\ (medium.hls \/ ~buffered)
    /\ Report("stalls", IF medium.hls THEN "stall" ELSE "underrun")
Arrive == ~buffered /\ Report("arrivals", IF medium.hls THEN "resume" ELSE "progress")
\* The writer waits for a slot of the ring, and its task can report nothing.
RingBlocked == budget.frees > budget.fulls
RingFull == medium.hls /\ ~buffered /\ Report("fulls", "full")
RingNotFull == medium.hls /\ RingBlocked /\ Report("frees", "not full")
Fail == Report("errors", "error")

PlayEnd ==
    /\ gst.state = "PLAYING" /\ gst.pending = Void /\ buffered /\ ~gst.ended
    /\ gst' = [gst EXCEPT !.ended = TRUE]
    /\ Post(Message("eos"))
    /\ UNCHANGED <<medium, budget, buffered, playerVars, flagVars, call, after, at, msg, disposing, asked>>

Complete ==
    /\ gst.state # "NULL" /\ ~buffered
    /\ buffered' = TRUE
    /\ Post(Message(IF medium.hls THEN "hls eos" ELSE "progress eos"))
    /\ UNCHANGED <<medium, budget, gst, playerVars, flagVars, call, after, at, msg, disposing, asked>>

Elements == Preroll \/ Continue \/ RunOut \/ Arrive \/ RingFull \/ RingNotFull \/ PlayEnd \/ Fail \/ Complete

-----------------------------------------------------------------------------
(* What both threads call. *)

\* Play(): whether it has something to do.
PlayReady ==
    \/ state \notin {"Finished", "Error", "Playing"}
    \/ state = "Playing" /\ "PAUSED" \in {gst.state, gst.pending}

\* InternalPause(): whether it has.
PauseReady == (state # "Finished" \/ seekInvoked \/ pending = "Stopped") /\ state # "Error"

\* The last step of Play() and of InternalPause().  At rate zero only a flag is set.
PlayNow ==
    IF rate THEN SetState("PLAYING") /\ UNCHANGED resumeOnRate
    ELSE resumeOnRate' = TRUE /\ UNCHANGED gstVars

PauseNow ==
    IF rate THEN SetState("PAUSED") /\ UNCHANGED resumeOnRate
    ELSE resumeOnRate' = FALSE /\ UNCHANGED gstVars

-----------------------------------------------------------------------------
(* The thread of the bus: BusCallback(), which holds the dispose lock. *)

\* UpdatePlayerState(): the state of the player after the pipeline has gone from old
\* to new; it is Playing or Finished, ...
PausedWhilePlaying(old, new) ==
    IF new # "PAUSED" THEN state
    ELSE IF pending = "Stopped" THEN "Stopped"
    ELSE IF stallOnPause /\ pending # "Paused" THEN "Stalled"
    ELSE IF pending = "Paused" THEN "Paused"
    ELSE IF old = "PLAYING" THEN "Finished" ELSE state

ChangedWhileFinished(old, new) ==
    IF new = "PAUSED" /\ pending = "Stopped" THEN "Stopped"
    ELSE IF old = "PAUSED" THEN (IF new = "PLAYING" THEN "Playing" ELSE "Paused") ELSE state

\* ... or at rest.
Resting == {"Ready", "Paused", "Stopped", "Stalled"}

ChangedAtRest(old, new) ==
    IF old # "PAUSED" THEN state
    ELSE IF pending = "Stopped" /\ (state = "Paused" \/ (state = "Stalled" /\ new = "PAUSED")) THEN "Stopped"
    ELSE IF pending = "Paused" /\ new = "PAUSED" /\ state \in {"Stopped", "Stalled"} THEN "Paused"
    ELSE IF new = "PLAYING" THEN "Playing" ELSE state

PlayerStateAfter(old, new) ==
    CASE state = "Unknown" -> "Ready"
      [] state \in Resting -> ChangedAtRest(old, new)
      [] state = "Playing" -> PausedWhilePlaying(old, new)
      [] state = "Finished" -> ChangedWhileFinished(old, new)
      [] state = "Error" -> state

\* Mutant: the special cases of PAUSED to PAUSED are forgotten.
ConcernsRegular(m) == m.new # m.old

\* Whether a change of the pipeline's state is one of the player's.
Concerns(m) ==
    \/ m.new # m.old
    \/ state # "Unknown" /\ (pending \in {"Stopped", "Paused"} \/ stallOnPause)

\* Mutant: a full ring is not looked at.
NoStallAtEnd == lastEos

\* With the end of the data in sight, or a full ring, a stall is over as it begins.
NoStall == lastEos \/ full

UpdatePlayerState ==
    /\ at = "update"
    /\ LET result == PlayerStateAfter(msg.old, msg.new)
       IN  /\ state' = result
           /\ pending' = IF result # state /\ pending = result /\ ~(state = "Finished" /\ result = "Paused")
                         THEN "Unknown" ELSE pending
           /\ stallOnPause' = (stallOnPause /\ ~(state = "Playing" /\ result \in {"Stopped", "Stalled", "Paused"}))
           /\ seekInvoked' = (seekInvoked /\ ~(state = "Finished" /\ result # state))
           /\ IF result = "Stalled" /\ state # "Stalled" /\ NoStall
              THEN PlayNow ELSE UNCHANGED <<gstVars, resumeOnRate>>
    /\ at' = "returned"
    /\ UNCHANGED <<medium, budget, buffered, rate, lastEos, full, call, after, msg, disposing, asked>>

\* What Dispose() has come to.
DisposeHoldsLock == call = "dispose unlock"
SourceDestroyed == call \in {"dispose unlock", "dispose free", "closed"}

\* History: a call was made while something of the pipeline was under way, or the bus had
\* more to report than a change of state between Stop()'s look at the player's state and
\* its lock.  In other calls such a report leaves open what comes of them.
Crossed == asked = "crossed"

Interrupted ==
    CASE call = "stop" -> "crossed"
      [] call # "stop" /\ (call = "idle" \/ Crossed) -> asked
      [] OTHER -> "none"

\* The next message is for the callback, which the main loop keeps alive meanwhile.
Dispatch ==
    /\ at = "idle" /\ bus # <<>> /\ ~SourceDestroyed
    /\ msg' = Head(bus) /\ bus' = Tail(bus)
    /\ at' = "callback"
    /\ asked' = IF Head(bus).type = "state" THEN asked ELSE Interrupted
    /\ UNCHANGED <<medium, budget, gst, buffered, playerVars, flagVars, call, after, disposing>>

InCallback(types) == at = "callback" /\ ~disposing.begun /\ msg.type \in types

Ignored ==
    /\ at = "callback" /\ disposing.begun /\ ~DisposeHoldsLock
    /\ at' = "returned"
    /\ UNCHANGED <<medium, budget, gstVars, buffered, playerVars, flagVars, call, after, msg, disposing, asked>>

\* Mutant: playback is resumed whatever was asked for.
NothingAskedIgnored == TRUE

NothingAsked == pending \notin {"Paused", "Stopped"}

\* GST_MESSAGE_STATE_CHANGED; with the end of the data in sight, a look at the buffer first,
\* which the positions of a progress message are needed for.
OnStateChanged ==
    /\ InCallback({"state"})
    /\ at' = CASE ~Concerns(msg) -> "returned"
              [] Concerns(msg) /\ msg.new = "PAUSED" /\ ~medium.hls /\ lastEos /\ state = "Stalled" /\ NothingAsked -> "play set"
              [] OTHER -> "update"
    /\ UNCHANGED <<medium, budget, gstVars, buffered, playerVars, flagVars, call, after, msg, disposing, asked>>

\* BufferUnderrun(), HLSBufferStall(); the buffer position may still be unknown.
MayStall ==
    /\ gst.state = "PLAYING" /\ ~lastEos
    /\ IF medium.hls THEN state = "Playing" /\ gst.pending = Void /\ ~full
       ELSE state \notin {"Stalled", "Ready", "Error", "Finished"} /\ gst.pending # "PAUSED"

OnUnderrun ==
    /\ InCallback({"underrun", "stall"})
    /\ \/ MayStall /\ at' = "stall"
       \/ (~MayStall \/ ~medium.hls) /\ at' = "returned"
    /\ UNCHANGED <<medium, budget, gstVars, buffered, playerVars, flagVars, call, after, msg, disposing, asked>>

Stall ==
    /\ at = "stall"
    /\ stallOnPause' = TRUE
    /\ seekInvoked' = FALSE
    /\ at' = IF PauseReady THEN "pause set" ELSE "returned"
    /\ UNCHANGED <<medium, budget, gstVars, buffered, state, pending, flagVars, call, after, msg, disposing, asked>>

StallPause ==
    /\ at = "pause set"
    /\ PauseNow
    /\ at' = "returned"
    /\ UNCHANGED <<medium, budget, buffered, playerVars, rate, lastEos, full, call, after, msg, disposing, asked>>

\* UpdateBufferPosition(), HLSBufferResume().
OnData ==
    /\ InCallback({"progress", "progress eos", "resume", "hls eos", "full", "not full"})
    /\ lastEos' = CASE msg.type = "progress" -> FALSE
                    [] msg.type \in {"progress eos", "hls eos"} -> TRUE
                    [] OTHER -> lastEos
    /\ full' = CASE msg.type = "full" -> TRUE [] msg.type = "not full" -> FALSE [] OTHER -> full
    /\ LET resume == /\ msg.type # "not full" /\ NothingAsked
                     /\ state = "Stalled" \/ (medium.hls /\ lastEos' /\ state = "Playing" /\ PlayReady)
       IN  \/ resume /\ at' = "play set"
           \/ (~resume \/ msg.type = "progress") /\ at' = "returned"
    /\ UNCHANGED <<medium, budget, gstVars, buffered, playerVars, rate, resumeOnRate, call, after, msg, disposing, asked>>

Resume ==
    /\ at = "play set"
    /\ PlayNow
    /\ at' = IF msg.type = "state" THEN "update" ELSE "returned"
    /\ UNCHANGED <<medium, budget, buffered, playerVars, rate, lastEos, full, call, after, msg, disposing, asked>>

\* GST_MESSAGE_EOS
OnEos ==
    /\ InCallback({"eos"})
    /\ state' = "Finished"
    /\ lastEos' = (lastEos /\ (state = "Finished" \/ ~medium.hls))
    /\ at' = "returned"
    /\ UNCHANGED <<medium, budget, gstVars, buffered, pending, stallOnPause, seekInvoked, rate, resumeOnRate, full,
                   call, after, msg, disposing, asked>>

\* GST_MESSAGE_ERROR of a kind that stops the player: the pipeline is torn down.
Gone == [gst EXCEPT !.state = "NULL", !.next = Void, !.pending = Void, !.target = "NULL", !.continue = FALSE]

OnError ==
    /\ InCallback({"error"})
    /\ gst' = Gone /\ bus' = <<>>
    /\ state' = "Error"
    /\ at' = "returned"
    /\ UNCHANGED <<medium, budget, buffered, pending, stallOnPause, seekInvoked, flagVars, call, after, msg, disposing, asked>>

\* Mutant: it is left to Dispose() always.
BusCallbackDestroyNotifyLeaves(d) == [d EXCEPT !.freeMe = TRUE]

\* BusCallbackDestroyNotify(): whoever drops the last reference to the callback's data
\* frees it, or asks Dispose() to.
BusCallbackDestroyNotify(d) == IF d.disposed THEN [d EXCEPT !.freed = @ + 1] ELSE [d EXCEPT !.freeMe = TRUE]

\* The main loop drops its reference, the last one if the source is gone.
Returned ==
    /\ at = "returned" /\ ~DisposeHoldsLock
    /\ disposing' = IF SourceDestroyed THEN BusCallbackDestroyNotify(disposing) ELSE disposing
    /\ at' = "idle"
    /\ msg' = Message("none")
    /\ UNCHANGED <<medium, budget, gstVars, buffered, playerVars, flagVars, call, after, asked>>

BusThread ==
    \/ Dispatch \/ Ignored \/ OnStateChanged \/ UpdatePlayerState \/ OnUnderrun \/ Stall \/ StallPause
    \/ OnData \/ Resume \/ OnEos \/ OnError \/ Returned

-----------------------------------------------------------------------------
(* The calls of the application. *)

Quiet ==
    /\ bus = <<>> /\ at = "idle" /\ call = "idle" /\ gst.pending = Void /\ gst.state # "NULL"
    /\ ~disposing.begun

\* History: what is asked for, unless the rate is zero or a pause asked for earlier is left
\* over.
AskedAtRest(what) == IF Quiet /\ ~Crossed THEN what ELSE "crossed"

Asking(what) == AskedAtRest(IF rate /\ (what = "play" => pending = "Unknown") THEN what ELSE "none")

Calls ==
    /\ call = "idle" /\ state # "Unknown" /\ gst.state # "NULL"
    /\ budget.calls > 0 /\ (Quiet \/ budget.crossing > 0)
    /\ budget' = [budget EXCEPT !.calls = @ - 1, !.crossing = @ - (IF Quiet THEN 0 ELSE 1)]

Play ==
    /\ Calls /\ PlayReady
    /\ call' = "play set"
    /\ asked' = Asking("play")
    /\ UNCHANGED <<medium, gstVars, buffered, playerVars, flagVars, after, at, msg, disposing>>

PlaySet ==
    /\ call = "play set"
    /\ PlayNow
    /\ call' = "idle"
    /\ UNCHANGED <<medium, budget, buffered, playerVars, rate, lastEos, full, after, at, msg, disposing, asked>>

Pause ==
    /\ Calls /\ state \notin {"Paused", "Error"}
    /\ call' = "pause" /\ after' = "idle"
    /\ asked' = Asking("pause")
    /\ UNCHANGED <<medium, gstVars, buffered, playerVars, flagVars, at, msg, disposing>>

\* The section of Pause() under the lock.
PauseLocked ==
    /\ call = "pause"
    /\ IF state \in {"Stopped", "Stalled"}
       THEN state' = "Paused" /\ call' = after /\ UNCHANGED pending
       ELSE pending' = "Paused" /\ call' = "pause ready" /\ UNCHANGED state
    /\ UNCHANGED <<medium, budget, gstVars, buffered, stallOnPause, seekInvoked, flagVars, after, at, msg, disposing, asked>>

\* Finish(): the stop time is reached.
Finish ==
    /\ Calls /\ state = "Playing"
    /\ call' = "pause ready" /\ after' = "idle"
    /\ asked' = AskedAtRest("none")
    /\ UNCHANGED <<medium, gstVars, buffered, playerVars, flagVars, at, msg, disposing>>

InternalPause ==
    /\ call = "pause ready"
    /\ seekInvoked' = FALSE
    /\ call' = IF PauseReady THEN "pause set" ELSE after
    /\ UNCHANGED <<medium, budget, gstVars, buffered, state, pending, stallOnPause, flagVars, after, at, msg, disposing, asked>>

PauseSet ==
    /\ call = "pause set"
    /\ PauseNow
    /\ call' = after
    /\ UNCHANGED <<medium, budget, buffered, playerVars, rate, lastEos, full, after, at, msg, disposing, asked>>

\* stop() of NativeMediaPlayer: Stop(), then Seek() to the start.
Stop ==
    /\ Calls /\ state \notin {"Stopped", "Error"}
    /\ after' = "seek"
    /\ call' = IF rate THEN "stop" ELSE "seek"
    /\ resumeOnRate' = (resumeOnRate /\ rate)
    /\ asked' = Asking("pause")
    /\ UNCHANGED <<medium, gstVars, buffered, playerVars, rate, lastEos, full, at, msg, disposing>>

StopLocked ==
    /\ call = "stop"
    /\ pending' = "Stopped"
    /\ call' = "pause ready"
    /\ UNCHANGED <<medium, budget, gstVars, buffered, state, stallOnPause, seekInvoked, flagVars, after, at, msg, disposing, asked>>

SeekCall ==
    /\ Calls /\ state # "Stopped"
    /\ call' = "seek"
    /\ asked' = AskedAtRest(asked)
    /\ UNCHANGED <<medium, gstVars, buffered, playerVars, flagVars, after, at, msg, disposing>>

Seek ==
    /\ call = "seek"
    /\ seekInvoked' = (seekInvoked \/ state = "Finished")
    /\ call' = IF state = "Error" THEN "idle" ELSE "seek pipeline"
    /\ asked' = IF state = "Finished" /\ ~Crossed THEN "none" ELSE asked
    /\ UNCHANGED <<medium, budget, gstVars, buffered, state, pending, stallOnPause, flagVars, after, at, msg, disposing>>

\* SeekPipeline(): the data is downloaded again, unless it is in the buffer.
SeekPipeline ==
    /\ call \in {"seek pipeline", "rate seek"}
    /\ IF gst.state \in {"PAUSED", "PLAYING"}
       THEN /\ LoseState
            /\ buffered' \in (IF medium.hls THEN {FALSE} ELSE {FALSE, buffered})
            /\ call' = IF call = "rate seek" THEN "idle" ELSE "seek resume"
       ELSE call' = "idle" /\ UNCHANGED <<gstVars, buffered>>
    /\ UNCHANGED <<medium, budget, playerVars, flagVars, after, at, msg, disposing, asked>>

SeekResume ==
    /\ call = "seek resume"
    /\ call' = IF state = "Finished" /\ pending # "Stopped" THEN "seek play" ELSE "idle"
    /\ UNCHANGED <<medium, budget, gstVars, buffered, playerVars, flagVars, after, at, msg, disposing, asked>>

SeekPlay ==
    /\ call = "seek play"
    /\ SetState("PLAYING")
    /\ call' = "idle"
    /\ UNCHANGED <<medium, budget, buffered, playerVars, flagVars, after, at, msg, disposing, asked>>

\* SetRate(0): Pause(), and a note whether to play again.
SetRateZero ==
    /\ Calls /\ rate /\ state # "Error"
    /\ after' = IF gst.state = "PLAYING" \/ state = "Stalled" THEN "zero resume" ELSE "zero"
    /\ call' = IF state = "Paused" THEN after' ELSE "pause"
    /\ asked' = Asking("pause")
    /\ UNCHANGED <<medium, gstVars, buffered, playerVars, flagVars, at, msg, disposing>>

RateZero ==
    /\ call \in {"zero", "zero resume"}
    /\ rate' = FALSE
    /\ resumeOnRate' = (call = "zero resume")
    /\ call' = "idle"
    /\ UNCHANGED <<medium, budget, gstVars, buffered, playerVars, lastEos, full, after, at, msg, disposing, asked>>

\* SetRate() of another rate: the rate is stored before it is compared with zero, so
\* Play() is never called.
SetRate ==
    /\ Calls /\ ~rate /\ state # "Error"
    /\ rate' = TRUE
    /\ call' = "rate seek"
    /\ asked' = AskedAtRest("none")
    /\ UNCHANGED <<medium, gstVars, buffered, playerVars, resumeOnRate, lastEos, full, after, at, msg, disposing>>

-----------------------------------------------------------------------------
(* Dispose(), and who frees the data of the callback. *)

\* The bus thread does not hold the dispose lock.
DisposeLockFree == at \in {"idle", "callback", "returned"}

DisposeBegin ==
    /\ call = "idle" /\ ~disposing.begun /\ DisposeLockFree
    /\ Spend("disposals")
    /\ disposing' = [disposing EXCEPT !.begun = TRUE]
    /\ call' = "dispose"
    /\ UNCHANGED <<medium, gstVars, buffered, playerVars, flagVars, after, at, msg, asked>>

DisposeStop ==
    /\ call = "dispose"
    /\ gst' = Gone /\ bus' = <<>>
    /\ call' = "dispose locked"
    /\ UNCHANGED <<medium, budget, buffered, playerVars, flagVars, after, at, msg, disposing, asked>>

\* g_source_destroy() drops a reference: the last one, unless a callback is under way.
DisposeLocked ==
    /\ call = "dispose locked" /\ DisposeLockFree
    /\ disposing' = IF at = "idle" THEN BusCallbackDestroyNotify(disposing) ELSE disposing
    /\ call' = "dispose unlock"
    /\ UNCHANGED <<medium, budget, gstVars, buffered, playerVars, flagVars, after, at, msg, asked>>

DisposeUnlock ==
    /\ call = "dispose unlock"
    /\ disposing' = [disposing EXCEPT !.disposed = TRUE]
    /\ call' = IF disposing.freeMe THEN "dispose free" ELSE "closed"
    /\ UNCHANGED <<medium, budget, gstVars, buffered, playerVars, flagVars, after, at, msg, asked>>

DisposeFree ==
    /\ call = "dispose free"
    /\ disposing' = [disposing EXCEPT !.freed = @ + 1]
    /\ call' = "closed"
    /\ UNCHANGED <<medium, budget, gstVars, buffered, playerVars, flagVars, after, at, msg, asked>>

AppSteps ==
    \/ PlaySet \/ PauseLocked \/ StopLocked \/ InternalPause \/ PauseSet \/ Seek \/ SeekPipeline \/ SeekResume \/ SeekPlay \/ RateZero
    \/ DisposeStop \/ DisposeLocked \/ DisposeUnlock \/ DisposeFree

Requests == Play \/ Pause \/ Finish \/ Stop \/ SeekCall \/ SetRateZero \/ SetRate \/ DisposeBegin

Next == Elements \/ BusThread \/ AppSteps \/ Requests

Spec == Init /\ [][Next]_vars

\* The download ends, unless it has to wait for the reader.
FairSpec ==
    /\ Spec /\ WF_vars(BusThread) /\ WF_vars(AppSteps)
    /\ WF_vars(Preroll) /\ WF_vars(Continue) /\ WF_vars(Complete /\ ~RingBlocked)

-----------------------------------------------------------------------------
(* Properties. *)

\* The state the application is told of is the state of the pipeline once both have come
\* to rest, however stalls, data, ends of stream and the application's calls followed on
\* each other: UpdatePlayerState() works it out from messages that arrive later, from
\* m_PlayerPendingState and from m_StallOnPause.  A call that crosses a change still
\* under way may upset it, and so may a report between Stop()'s check and its lock.
Settled ==
    Quiet /\ ~Crossed => (state = "Playing" <=> gst.state = "PLAYING" /\ state \notin {"Finished", "Error"})

\* What the application asked for last comes about: after Pause(), Stop() or a rate of zero
\* the thread of the bus does not set the pipeline playing again (BufferUnderrun(),
\* UpdateBufferPosition(), HLSBufferResume() look at the pending state), and after Play() it
\* does not leave it paused.  It holds when no call crosses a change or a report; and
\* Pause() of a player that is Ready leaves a pending state behind that turns the next
\* stall into a pause.
Obeyed ==
    Quiet /\ ~Crossed =>
        /\ asked = "pause" => gst.state # "PLAYING" \/ state \in {"Finished", "Error"}
        /\ asked = "play" => state \in {"Playing", "Stalled", "Finished", "Error"}

\* A stall ends: the end of the data, or a ring that is full, was reported while the pipeline
\* was still on its way to PAUSED, and no report follows, because the download is over or
\* waits for the reader (SetPlayerState() calls Play() for that).
StallEnds == state = "Stalled" ~> state # "Stalled" \/ disposing.begun \/ ~rate

FreedSafely == disposing.freed <= 1 /\ (disposing.freed = 1 => at = "idle" /\ call = "closed")

\* The data of the callback, with the lock that guards it, is freed exactly once after
\* Dispose(), by Dispose() or by the main loop, and only when neither uses it any more.
FreedOnce ==
    /\ []FreedSafely
    /\ disposing.begun ~> disposing.freed = 1
=============================================================================
