------------------------------ MODULE Recorder ------------------------------
(***************************************************************************)
(* The recorder of a page: status, clock, the coroutines pause, resume and *)
(* stop, and the worklet that cuts the sound of a microphone into chunks,  *)
(* with the two ports between them.                                        *)
(*                                                                         *)
(* An action is a task of the page or of the worklet; what a settled       *)
(* promise runs is part of the task that settles it, except that a stop    *)
(* which waited for a pause or a resume goes on in a step of its own,      *)
(* before any other task (Waiting).  One source is modelled: the controls  *)
(* of several are awaited together.  The upload behind the client is       *)
(* module Uploader; here it saves, fails or takes its time.  Sound comes   *)
(* in units of half a chunk.                                               *)
(***************************************************************************)
EXTENDS Naturals, Sequences

CONSTANTS
  MaxSound,     \* bound: units of sound
  MaxControls,  \* bound: no pause, resume or stop is begun after this many requests to the worklet
  MaxTimeouts   \* bound: requests the worklet answers too late

ASSUME RecorderAssumption == {MaxSound, MaxControls, MaxTimeouts} \subseteq Nat

VARIABLES
  status,     \* BrowserRecorder.status
  clock,      \* runningSince is set
  media,      \* the tracks of the microphone are live
  node,       \* the worklet node is connected
  pausing,    \* request that _pausePromise waits for, 0 for no pause
  asked,      \* who waits for that pause: a person, a full buffer, a fatal error
  resuming,   \* "no", "context" or "control": what _resumePromise waits for
  resumeId,   \* the request of a resume
  stopping,   \* "no" or what _stopPromise waits for: "others", "control", "release", "client"
  stopId,     \* the request of a stop
  controlSeq, \* requests sent so far
  toWorklet,  \* the port to the worklet: requests to pause (TRUE) or go on
  toPage,     \* the port to the page: chunks of sound and acknowledgments
  wPaused,    \* PcmChunker.paused
  partial,    \* units in PcmChunker.buf
  heard,      \* units the worklet has taken
  pushed,     \* units handed to the client
  fatal,      \* IngestClient._fatal
  saved,      \* IngestClient.stopped: the server has stopped the session
  late        \* requests that timed out

pageVars  == <<status, clock, media, node>>
taskVars  == <<pausing, asked, resuming, resumeId, stopping, stopId>>
portVars  == <<controlSeq, toWorklet, toPage>>
soundVars == <<wPaused, partial, heard>>
restVars  == <<pushed, fatal, saved, late>>
vars      == <<pageVars, taskVars, portVars, soundVars, restVars>>

Chunk(n) == [kind |-> "chunk", size |-> n]
Ack(id)  == [kind |-> "ack", id |-> id]

Init ==
  /\ status = "idle" /\ clock = FALSE /\ media = FALSE /\ node = FALSE
  /\ pausing = 0 /\ asked = {} /\ resuming = "no" /\ resumeId = 0 /\ stopping = "no" /\ stopId = 0
  /\ controlSeq = 0 /\ toWorklet = <<>> /\ toPage = <<>>
  /\ wPaused = FALSE /\ partial = 0 /\ heard = 0
  /\ pushed = 0 /\ fatal = FALSE /\ saved = FALSE /\ late = 0

\* a stop that waited for the other coroutines goes on before anything else happens
Waiting == stopping = "others" /\ pausing = 0 /\ resuming = "no"

Task == ~Waiting

-----------------------------------------------------------------------------
(* Starting. *)

Start ==
  /\ Task /\ status = "idle"
  /\ status' = "requesting"
  /\ UNCHANGED <<clock, media, node, taskVars, portVars, soundVars, restVars>>

GrantMicrophone ==
  /\ Task /\ status = "requesting" /\ ~media
  /\ media' = TRUE
  /\ UNCHANGED <<status, clock, node, taskVars, portVars, soundVars, restVars>>

\* the session is created, the worklet is connected, the client connects
Record ==
  /\ Task /\ status = "requesting" /\ media
  /\ status' = "recording" /\ clock' = TRUE /\ node' = TRUE
  /\ UNCHANGED <<media, taskVars, portVars, soundVars, restVars>>

\* refused by the person, the browser or the server: the media are released
StartFails ==
  /\ Task /\ status = "requesting"
  /\ status' = "error" /\ media' = FALSE
  /\ UNCHANGED <<clock, node, taskVars, portVars, soundVars, restVars>>

-----------------------------------------------------------------------------
(* The worklet. *)

\* half a chunk of sound: a full chunk is posted to the page
Hear ==
  /\ Task /\ node /\ media /\ ~wPaused /\ heard < MaxSound
  /\ heard' = heard + 1
  /\ \/ partial = 0 /\ partial' = 1 /\ UNCHANGED toPage
     \/ partial = 1 /\ partial' = 0 /\ toPage' = Append(toPage, Chunk(2))
  /\ UNCHANGED <<pageVars, taskVars, controlSeq, toWorklet, wPaused, restVars>>

\* a pause posts the partial chunk before its acknowledgment
\* Mutant: the partial chunk is discarded.
Unflushed == toPage

Flushed == IF partial = 0 THEN toPage ELSE Append(toPage, Chunk(partial))

Obey ==
  /\ Task /\ node /\ toWorklet # <<>>
  /\ LET request == Head(toWorklet)
     IN  /\ wPaused' = request.paused
         /\ partial' = IF request.paused THEN 0 ELSE partial
         /\ toPage' = Append(IF request.paused THEN Flushed ELSE toPage, Ack(request.id))
  /\ toWorklet' = Tail(toWorklet)
  /\ UNCHANGED <<pageVars, taskVars, controlSeq, heard, restVars>>

-----------------------------------------------------------------------------
(* What the coroutines are made of. *)

\* _control: the request, which is awaited under the number controlSeq'
Control(paused) ==
  /\ controlSeq' = controlSeq + 1
  /\ toWorklet' = Append(toWorklet, [paused |-> paused, id |-> controlSeq'])

\* Mutant: the clock is left running.
BeginPauseRunning(who) ==
  /\ pausing' = controlSeq + 1 /\ asked' = {who}
  /\ Control(TRUE)
  /\ UNCHANGED <<clock, toPage>>

\* pause while recording: the clock stands still, and the worklet is asked
BeginPause(who) ==
  /\ clock' = FALSE
  /\ pausing' = controlSeq + 1 /\ asked' = {who}
  /\ Control(TRUE)
  /\ UNCHANGED toPage

\* _releaseMedia until it waits for the context: what is in the ports is lost
Release ==
  /\ media' = FALSE /\ node' = FALSE
  /\ toWorklet' = <<>> /\ toPage' = <<>>

\* _complete, which the server's word starts wherever the page is
Complete ==
  /\ status' = "stopped" /\ clock' = FALSE
  /\ Release

-----------------------------------------------------------------------------
(* Pause and resume. *)

UserPauses ==
  /\ Task /\ status = "recording" /\ pausing = 0 /\ controlSeq < MaxControls
  /\ BeginPause("person")
  /\ UNCHANGED <<status, media, node, resuming, resumeId, stopping, stopId, soundVars, restVars>>

\* two minutes of sound wait for the server
BufferIsFull ==
  /\ Task /\ status = "recording" /\ pausing = 0 /\ pushed > 0 /\ controlSeq < MaxControls
  /\ BeginPause("buffer")
  /\ UNCHANGED <<status, media, node, resuming, resumeId, stopping, stopId, soundVars, restVars>>

\* the pause is acknowledged; after a fatal error the recording can only be saved
PauseEnds ==
  /\ status' = CASE "fatal" \in asked -> "recoverable"
                 [] "fatal" \notin asked /\ status = "recording" -> "paused"
                 [] OTHER -> status
  /\ pausing' = 0 /\ asked' = {}

UserResumes ==
  /\ Task /\ status = "paused" /\ resuming = "no" /\ ~fatal /\ controlSeq < MaxControls
  /\ resuming' = "context"
  /\ UNCHANGED <<pageVars, pausing, asked, resumeId, stopping, stopId, portVars, soundVars, restVars>>

ContextResumes ==
  /\ Task /\ resuming = "context"
  /\ IF status # "paused"
     THEN resuming' = "no" /\ UNCHANGED <<resumeId, portVars>>
     ELSE resuming' = "control" /\ resumeId' = controlSeq + 1 /\ Control(FALSE) /\ UNCHANGED toPage
  /\ UNCHANGED <<pageVars, pausing, asked, stopping, stopId, soundVars, restVars>>

\* Mutant: the status is not looked at again after the wait.
ResumeEndsAnyway ==
  resuming' = "no" /\ status' = "recording" /\ clock' = TRUE

ResumeEnds ==
  /\ resuming' = "no"
  /\ IF status = "paused" THEN status' = "recording" /\ clock' = TRUE
     ELSE UNCHANGED <<status, clock>>

-----------------------------------------------------------------------------
(* Stop. *)

\* by the person, by the end of the track, on request of the server, or once more
Stop ==
  /\ Task /\ status \in {"recording", "paused", "saving", "recoverable"} /\ stopping = "no"
  /\ node => controlSeq < MaxControls
  /\ status' = "saving" /\ clock' = FALSE
  /\ stopping' = "others"
  /\ UNCHANGED <<media, node, pausing, asked, resuming, resumeId, stopId, portVars, soundVars, restVars>>

\* the last chunk is asked for, unless the graph is gone
StopGoesOn ==
  /\ Waiting
  /\ \/ /\ node
        /\ stopping' = "control" /\ stopId' = controlSeq + 1
        /\ Control(TRUE)
        /\ UNCHANGED <<toPage, media, node>>
     \/ /\ ~node
        /\ stopping' = "release"
        /\ Release
        /\ UNCHANGED <<stopId, controlSeq>>
  /\ UNCHANGED <<status, clock, pausing, asked, resuming, resumeId, soundVars, restVars>>

\* the audio context is closed, the client is asked to stop
ContextCloses ==
  /\ Task /\ stopping = "release"
  /\ stopping' = "client"
  /\ UNCHANGED <<pageVars, pausing, asked, resuming, resumeId, stopId, portVars, soundVars, restVars>>

\* every sample is durable and the session stopped; that it is, the page may hear at any time
SessionStopped ==
  /\ Task /\ status \notin {"idle", "requesting", "error"} /\ ~saved /\ ~fatal
  /\ saved' = TRUE
  /\ Complete
  /\ stopping' = IF stopping = "client" THEN "no" ELSE stopping
  /\ UNCHANGED <<pausing, asked, resuming, resumeId, stopId, controlSeq, soundVars, pushed, fatal, late>>

\* client.stop returns at once when the session is stopped already
AlreadySaved ==
  /\ Task /\ stopping = "client" /\ saved
  /\ stopping' = "no"
  /\ Complete
  /\ UNCHANGED <<pausing, asked, resuming, resumeId, stopId, controlSeq, soundVars, restVars>>

\* Mutant: the page is not told.
NotSavedSilently ==
  /\ Task /\ stopping = "client" /\ ~saved
  /\ stopping' = "no"
  /\ UNCHANGED <<pageVars, pausing, asked, resuming, resumeId, stopId, portVars, soundVars, restVars>>

\* nothing is confirmed in time, or never will be
NotSaved ==
  /\ Task /\ stopping = "client" /\ ~saved
  /\ stopping' = "no" /\ status' = "recoverable"
  /\ UNCHANGED <<clock, media, node, pausing, asked, resuming, resumeId, stopId, portVars, soundVars, restVars>>

-----------------------------------------------------------------------------
(* Messages and timeouts. *)

StopAcknowledged ==
  /\ stopping' = "release"
  /\ Release

\* a chunk is handed to the client, an acknowledgment to the coroutine that waits for it
Receive ==
  /\ Task /\ toPage # <<>>
  /\ UNCHANGED <<controlSeq, soundVars, fatal, saved, late, resumeId, stopId>>
  /\ LET m == Head(toPage)
     IN  \/ /\ m.kind = "chunk"
            /\ pushed' = pushed + m.size
            /\ toPage' = Tail(toPage)
            /\ UNCHANGED <<pageVars, pausing, asked, resuming, stopping, toWorklet>>
         \/ /\ m.kind = "ack" /\ m.id = pausing
            /\ PauseEnds
            /\ toPage' = Tail(toPage)
            /\ UNCHANGED <<clock, media, node, resuming, stopping, toWorklet, pushed>>
         \/ /\ m.kind = "ack" /\ resuming = "control" /\ m.id = resumeId
            /\ ResumeEnds
            /\ toPage' = Tail(toPage)
            /\ UNCHANGED <<media, node, pausing, asked, stopping, toWorklet, pushed>>
         \/ /\ m.kind = "ack" /\ stopping = "control" /\ m.id = stopId
            /\ StopAcknowledged
            /\ UNCHANGED <<status, clock, pausing, asked, resuming, pushed>>
         \/ /\ m.kind = "ack" /\ m.id # pausing
            /\ ~(resuming = "control" /\ m.id = resumeId) /\ ~(stopping = "control" /\ m.id = stopId)
            /\ toPage' = Tail(toPage)
            /\ UNCHANGED <<pageVars, pausing, asked, resuming, stopping, toWorklet, pushed>>

\* five seconds without an answer: always when the port was closed, otherwise when the page hangs
TimesOut == IF node THEN late < MaxTimeouts /\ late' = late + 1 ELSE UNCHANGED late

\* a stop that waited for a coroutine that failed fails as well
StopFails == stopping' = IF stopping = "others" THEN "no" ELSE stopping

PauseTimesOut ==
  /\ Task /\ pausing # 0 /\ TimesOut
  /\ pausing' = 0 /\ asked' = {}
  /\ StopFails
  /\ status' = IF asked # {"person"} \/ (stopping = "others" /\ status # "stopped")
               THEN "recoverable" ELSE status
  /\ UNCHANGED <<clock, media, node, resuming, resumeId, stopId, portVars, soundVars, pushed, fatal, saved>>

ResumeTimesOut ==
  /\ Task /\ resuming = "control" /\ TimesOut
  /\ resuming' = "no"
  /\ StopFails
  /\ status' = IF stopping = "others" /\ status # "stopped" THEN "recoverable" ELSE status
  /\ UNCHANGED <<clock, media, node, pausing, asked, resumeId, stopId, portVars, soundVars, pushed, fatal, saved>>

StopTimesOut ==
  /\ Task /\ stopping = "control" /\ TimesOut
  /\ stopping' = "no"
  /\ status' = IF status = "stopped" THEN status ELSE "recoverable"
  /\ UNCHANGED <<clock, media, node, pausing, asked, resuming, resumeId, stopId, portVars, soundVars,
                 pushed, fatal, saved>>

\* the server refuses the connection for good: a recording is paused first
FatalError ==
  /\ Task /\ status \notin {"idle", "requesting", "error"} /\ ~fatal /\ ~saved
  /\ fatal' = TRUE
  /\ stopping' = IF stopping = "client" THEN "no" ELSE stopping
  /\ \/ /\ status = "recording" /\ pausing = 0
        /\ BeginPause("fatal")
        /\ UNCHANGED status
     \/ /\ status = "recording" /\ pausing # 0
        /\ asked' = asked \cup {"fatal"}
        /\ UNCHANGED <<status, clock, pausing, portVars>>
     \/ /\ status # "recording"
        /\ status' = "recoverable"
        /\ UNCHANGED <<clock, pausing, asked, portVars>>
  /\ UNCHANGED <<media, node, resuming, resumeId, stopId, soundVars, pushed, saved, late>>

-----------------------------------------------------------------------------
Quiet == status \in {"error", "stopped", "paused", "recoverable"} /\ stopping = "no" /\ pausing = 0 /\ resuming = "no"

Rest == Quiet /\ UNCHANGED vars

Next ==
  \/ Start \/ GrantMicrophone \/ Record \/ StartFails
  \/ Hear \/ Obey \/ Receive
  \/ UserPauses \/ BufferIsFull \/ UserResumes \/ ContextResumes
  \/ Stop \/ StopGoesOn \/ ContextCloses \/ SessionStopped \/ AlreadySaved \/ NotSaved
  \/ PauseTimesOut \/ ResumeTimesOut \/ StopTimesOut \/ FatalError
  \/ Rest

\* tasks that are due run, and so do the timers of requests and of client.stop
Fairness ==
  /\ WF_vars(Obey) /\ WF_vars(Receive)
  /\ WF_vars(ContextResumes) /\ WF_vars(StopGoesOn) /\ WF_vars(ContextCloses)
  /\ WF_vars(AlreadySaved) /\ WF_vars(NotSaved)
  /\ WF_vars(PauseTimesOut) /\ WF_vars(ResumeTimesOut) /\ WF_vars(StopTimesOut)

Spec == Init /\ [][Next]_vars /\ Fairness

-----------------------------------------------------------------------------
(* Correctness. *)

(* The variables have the declared shape. *)
TypeOK ==
  /\ status \in {"idle", "requesting", "recording", "paused", "saving", "recoverable", "stopped", "error"}
  /\ {clock, media, node, wPaused, fatal, saved} \subseteq BOOLEAN
  /\ asked \subseteq {"person", "buffer", "fatal"} /\ (pausing = 0 <=> asked = {})
  /\ {pausing, resumeId, stopId} \subseteq 0..controlSeq
  /\ resuming \in {"no", "context", "control"}
  /\ stopping \in {"no", "others", "control", "release", "client"}
  /\ partial \in 0..1 /\ pushed <= heard

(* recorder.js:177-207: the clock that the person sees runs exactly while sound is taken, as soon *)
(* as every request is answered, unless one timed out or the server has refused the connection.   *)
ClockShowsCapture ==
  /\ clock => status = "recording"
  /\ (/\ status \in {"recording", "paused"} /\ pausing = 0 /\ resuming = "no"
      /\ late = 0 /\ ~fatal) => (clock <=> node /\ ~wPaused)

(* recorder.js:219-227 and worklet.test.mjs:16: when a stop asks the client to save, all the sound *)
(* that the worklet took has been handed over, the partial chunk included, unless the server has   *)
(* stopped the session by itself.                                                                  *)
NothingLeftBehind ==
  (status = "saving" /\ stopping \in {"release", "client"} /\ ~saved) => pushed = heard

(* recorder.test.mjs:128: a stop is definitive. However pauses and resumes that are under way end,  *)
(* a recording that is being saved, or was, is never again shown as running or paused.              *)
StopIsDefinitive ==
  [][(status \in {"saving", "recoverable", "stopped"}) => (status' \notin {"recording", "paused"})]_vars

(* recorder.js:219-237: a save ends, saved or to be repeated.                                       *)
SavingEnds == (status = "saving") ~> (status \in {"stopped", "recoverable"})
=============================================================================
