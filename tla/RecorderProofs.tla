---------------------------- MODULE RecorderProofs ----------------------------
(***************************************************************************)
(* Proofs about Recorder, for any amount of sound, any number of requests  *)
(* and of timeouts.                                                        *)
(*                                                                         *)
(* That the clock tells whether sound is taken is a fact about the page    *)
(* and the worklet, which only know of each other by messages.  What makes *)
(* it inductive is that at most one request is under way as long as none   *)
(* timed out, and where it is: still in the port to the worklet, or obeyed *)
(* and answered by the one acknowledgment in the port to the page.         *)
(*                                                                         *)
(* That a stop leaves no sound behind does not need that: late answers may *)
(* still be under way.  What the worklet took is accounted for wherever it *)
(* is, and the request of the stop is the last one the worklet gets.       *)
(***************************************************************************)
EXTENDS Recorder, Integers, TLAPS

Begun   == status \notin {"idle", "requesting", "error"}
Running == status \in {"recording", "paused"}

Requests == [paused : BOOLEAN, id : Nat \ {0}]
Messages == [kind : {"chunk"}, size : Nat] \cup [kind : {"ack"}, id : Nat \ {0}]

PortTypes ==
  /\ controlSeq \in Nat /\ pausing \in Nat /\ resumeId \in Nat /\ late \in Nat /\ partial \in Nat
  /\ toWorklet \in Seq(Requests)
  /\ toPage \in Seq(Messages)

OnlySound == \A i \in 1..Len(toPage) : toPage[i].kind = "chunk"

OneAnswer(id) ==
  \E k \in 1..Len(toPage) :
    /\ toPage[k].kind = "ack" /\ toPage[k].id = id
    /\ \A i \in 1..Len(toPage) : i # k => toPage[i].kind = "chunk"

\* Where the one request under way is.
UnderWay(id, paused) ==
  \/ toWorklet = <<[paused |-> paused, id |-> id]>> /\ OnlySound
  \/ toWorklet = <<>> /\ wPaused = paused /\ OneAnswer(id)

Ports ==
  IF pausing # 0 THEN UnderWay(pausing, TRUE)
  ELSE IF resuming = "control" THEN UnderWay(resumeId, FALSE)
  ELSE toWorklet = <<>> /\ OnlySound /\ (clock <=> ~wPaused)

\* How the coroutines exclude each other.
Shape ==
  /\ pausing # 0 => ~clock
  /\ clock => status = "recording"
  /\ status = "paused" => pausing = 0
  /\ resuming # "no" => status # "recording" /\ Begun
  /\ Running => node /\ stopping = "no"
  /\ ~Begun => /\ pausing = 0 /\ resuming = "no" /\ stopping = "no" /\ ~node /\ ~clock
               /\ toWorklet = <<>> /\ toPage = <<>> /\ ~wPaused

InTouch == Running /\ late = 0 /\ ~fatal => Ports

RInv == PortTypes /\ Shape /\ InTouch

-----------------------------------------------------------------------------
\* A stop is definitive: only two steps make a recording run, and both look at the status.
LEMMA RunningFromRunning ==
  ASSUME [Next]_vars, status \in {"saving", "recoverable", "stopped"}
  PROVE  status' \notin {"recording", "paused"}
BY DEF Next, Start, GrantMicrophone, Record, StartFails, Hear, Obey, Receive, UserPauses, BufferIsFull,
   UserResumes, ContextResumes, Stop, StopGoesOn, ContextCloses, SessionStopped, AlreadySaved, NotSaved,
   PauseTimesOut, ResumeTimesOut, StopTimesOut, FatalError, Rest, Complete, PauseEnds, ResumeEnds, vars, pageVars

\* However pauses and resumes that are under way end, a recording that is being saved, or was,
\* is never again shown as running or paused.
THEOREM NoWayBack == Spec => StopIsDefinitive
<1>1. [Next]_vars => (status \in {"saving", "recoverable", "stopped"} => status' \notin {"recording", "paused"})
  BY RunningFromRunning
<1>2. QED
  BY <1>1, PTL DEF Spec, StopIsDefinitive

-----------------------------------------------------------------------------
(* The ports. *)

LEMMA Single == \A x : Head(<<x>>) = x /\ Tail(<<x>>) = <<>> /\ <<x>> # <<>>
OBVIOUS

LEMMA Empty == \A T : \A q \in Seq(T) : Len(q) = 0 => q = <<>>
OBVIOUS

LEMMA Posted ==
  ASSUME NEW T, NEW q \in Seq(T), NEW m \in T
  PROVE  /\ Append(q, m) \in Seq(T) /\ Len(Append(q, m)) = Len(q) + 1
         /\ Append(q, m)[Len(q) + 1] = m
         /\ \A i \in 1..Len(q) : Append(q, m)[i] = q[i]
OBVIOUS

LEMMA Delivered ==
  ASSUME NEW T, NEW q \in Seq(T), q # <<>>
  PROVE  /\ Head(q) = q[1] /\ 1 \in 1..Len(q) /\ Head(q) \in T
         /\ Tail(q) \in Seq(T) /\ Len(Tail(q)) = Len(q) - 1
         /\ \A i \in 1..Len(Tail(q)) : i + 1 \in 1..Len(q) /\ Tail(q)[i] = q[i + 1]
OBVIOUS

\* One more chunk of sound disturbs nothing, and neither does one that is handed over.
LEMMA SoundPasses ==
  ASSUME PortTypes, NEW m \in Messages, m.kind = "chunk",
         UNCHANGED <<clock, pausing, resuming, resumeId, toWorklet, wPaused>>,
         toPage' = Append(toPage, m), Ports
  PROVE  Ports'
<1>1. toPage \in Seq(Messages)
  BY DEF PortTypes
<1>2. /\ Len(toPage') = Len(toPage) + 1 /\ toPage'[Len(toPage) + 1] = m
      /\ \A i \in 1..Len(toPage) : toPage'[i] = toPage[i]
      /\ Len(toPage) \in Nat
  BY <1>1, Posted
<1>3. OnlySound => OnlySound'
  BY <1>2 DEF OnlySound
<1>4. ASSUME NEW id, OneAnswer(id) PROVE OneAnswer(id)'
  <2>1. PICK k \in 1..Len(toPage) :
           /\ toPage[k].kind = "ack" /\ toPage[k].id = id
           /\ \A i \in 1..Len(toPage) : i # k => toPage[i].kind = "chunk"
    BY <1>4 DEF OneAnswer
  <2>2. k \in 1..Len(toPage') /\ toPage'[k] = toPage[k]
    BY <1>2
  <2>3. \A i \in 1..Len(toPage') : i # k => toPage'[i].kind = "chunk"
    BY <1>2, <2>1
  <2>4. QED
    BY <2>1, <2>2, <2>3 DEF OneAnswer
<1>5. \A id, paused : UnderWay(id, paused) => UnderWay(id, paused)'
  BY <1>3, <1>4 DEF UnderWay
<1>6. QED
  BY <1>3, <1>5 DEF Ports

LEMMA SoundArrives ==
  ASSUME PortTypes, toPage # <<>>, Head(toPage).kind = "chunk",
         UNCHANGED <<clock, pausing, resuming, resumeId, toWorklet, wPaused>>,
         toPage' = Tail(toPage), Ports
  PROVE  Ports'
<1>1. toPage \in Seq(Messages)
  BY DEF PortTypes
<1>2. /\ toPage[1].kind = "chunk"
      /\ Len(toPage') = Len(toPage) - 1
      /\ \A i \in 1..Len(toPage') : i + 1 \in 1..Len(toPage) /\ toPage'[i] = toPage[i + 1]
      /\ Len(toPage) \in Nat
  BY <1>1, Delivered
<1>3. OnlySound => OnlySound'
  BY <1>2 DEF OnlySound
<1>4. ASSUME NEW id, OneAnswer(id) PROVE OneAnswer(id)'
  <2>0. PICK k \in 1..Len(toPage) :
           /\ toPage[k].kind = "ack" /\ toPage[k].id = id
           /\ \A i \in 1..Len(toPage) : i # k => toPage[i].kind = "chunk"
    BY <1>4 DEF OneAnswer
  <2>1. k # 1
    BY <1>2, <2>0
  <2>2. k - 1 \in 1..Len(toPage') /\ toPage'[k - 1] = toPage[k]
    BY <1>2, <2>1
  <2>3. \A i \in 1..Len(toPage') : i # k - 1 => toPage'[i].kind = "chunk"
    BY <1>2, <2>0
  <2>4. QED
    BY <2>0, <2>2, <2>3 DEF OneAnswer
<1>5. \A id, paused : UnderWay(id, paused) => UnderWay(id, paused)'
  BY <1>3, <1>4 DEF UnderWay
<1>6. QED
  BY <1>3, <1>5 DEF Ports

\* The worklet obeys the one request under way, and answers it.
LEMMA RequestObeyed ==
  ASSUME PortTypes, NEW id \in Nat \ {0}, NEW paused \in BOOLEAN, UnderWay(id, paused), Obey
  PROVE  UnderWay(id, paused)'
<1>0. toPage \in Seq(Messages) /\ partial \in Nat /\ Len(toPage) \in Nat
  BY DEF PortTypes
<1>1. toWorklet = <<[paused |-> paused, id |-> id]>> /\ OnlySound
  BY DEF UnderWay, Obey
<1>2. Head(toWorklet) = [paused |-> paused, id |-> id] /\ Tail(toWorklet) = <<>>
  BY <1>1, Single
<1>3. /\ wPaused' = paused /\ toWorklet' = <<>>
      /\ toPage' = Append(IF paused THEN Flushed ELSE toPage, Ack(id))
  <2>1. /\ wPaused' = Head(toWorklet).paused /\ toWorklet' = Tail(toWorklet)
        /\ toPage' = Append(IF Head(toWorklet).paused THEN Flushed ELSE toPage, Ack(Head(toWorklet).id))
    BY DEF Obey
  <2>2. QED
    BY <1>2, <2>1
<1>4. Ack(id) \in Messages /\ Ack(id).kind = "ack" /\ Ack(id).id = id
  BY DEF Ack, Messages
<1>5. ASSUME NEW q \in Seq(Messages), \A i \in 1..Len(q) : q[i].kind = "chunk", toPage' = Append(q, Ack(id))
      PROVE  OneAnswer(id)'
  <2>1. /\ Len(toPage') = Len(q) + 1 /\ toPage'[Len(q) + 1] = Ack(id) /\ Len(q) \in Nat
        /\ \A i \in 1..Len(q) : toPage'[i] = q[i]
    BY <1>4, <1>5, Posted
  <2>2. Len(q) + 1 \in 1..Len(toPage') /\ \A i \in 1..Len(toPage') : i # Len(q) + 1 => i \in 1..Len(q)
    BY <2>1
  <2>3. QED
    BY <1>4, <1>5, <2>1, <2>2 DEF OneAnswer
<1>6. Flushed \in Seq(Messages) /\ \A i \in 1..Len(Flushed) : Flushed[i].kind = "chunk"
  <2>1. CASE partial = 0
    BY <1>0, <1>1, <2>1 DEF Flushed, OnlySound
  <2>2. CASE partial # 0
    <3>1. Chunk(partial) \in Messages /\ Chunk(partial).kind = "chunk"
      BY <1>0 DEF Chunk, Messages
    <3>2. Flushed = Append(toPage, Chunk(partial))
      BY <2>2 DEF Flushed
    <3>3. /\ Flushed \in Seq(Messages) /\ Len(Flushed) = Len(toPage) + 1 /\ Flushed[Len(toPage) + 1] = Chunk(partial)
          /\ \A i \in 1..Len(toPage) : Flushed[i] = toPage[i]
      BY <1>0, <3>1, <3>2, Posted
    <3>4. QED
      BY <1>0, <1>1, <3>1, <3>3 DEF OnlySound
  <2>3. QED
    BY <2>1, <2>2
<1>7. OneAnswer(id)'
  BY <1>0, <1>1, <1>3, <1>5, <1>6 DEF OnlySound
<1>8. QED
  BY <1>3, <1>7 DEF UnderWay

\* An acknowledgment at the head of the port is the answer to the request under way.
LEMMA AnswerArrives ==
  ASSUME PortTypes, toPage # <<>>, Head(toPage).kind = "ack", toPage' = Tail(toPage),
         NEW id, NEW paused, UnderWay(id, paused)
  PROVE  toWorklet = <<>> /\ wPaused = paused /\ Head(toPage).id = id /\ OnlySound'
<1>1. toPage \in Seq(Messages)
  BY DEF PortTypes
<1>2. /\ toPage[1] = Head(toPage) /\ 1 \in 1..Len(toPage) /\ toPage[1].kind # "chunk"
      /\ Len(toPage') = Len(toPage) - 1
      /\ \A i \in 1..Len(toPage') : i + 1 \in 1..Len(toPage) /\ toPage'[i] = toPage[i + 1]
      /\ Len(toPage) \in Nat
  BY <1>1, Delivered
<1>3. toWorklet = <<>> /\ wPaused = paused /\ OneAnswer(id)
  BY <1>2 DEF UnderWay, OnlySound
<1>4. PICK k \in 1..Len(toPage) :
         /\ toPage[k].kind = "ack" /\ toPage[k].id = id
         /\ \A i \in 1..Len(toPage) : i # k => toPage[i].kind = "chunk"
  BY <1>3 DEF OneAnswer
<1>5. k = 1
  BY <1>2, <1>4
<1>6. OnlySound'
  BY <1>2, <1>4, <1>5 DEF OnlySound
<1>7. QED
  BY <1>2, <1>3, <1>4, <1>5, <1>6

\* A request to an idle worklet is under way.
LEMMA RequestSent ==
  ASSUME PortTypes, NEW n, n = controlSeq + 1, NEW paused \in BOOLEAN,
         Control(paused), toWorklet = <<>>, OnlySound, UNCHANGED toPage
  PROVE  UnderWay(n, paused)'
<1>1. controlSeq' = n /\ toWorklet' = Append(<<>>, [paused |-> paused, id |-> n])
  BY DEF Control
<1>2. toWorklet' = <<[paused |-> paused, id |-> n]>>
  BY <1>1
<1>3. OnlySound'
  BY DEF OnlySound
<1>4. QED
  BY <1>2, <1>3 DEF UnderWay

-----------------------------------------------------------------------------
(* The invariant. *)

LEMMA PortTypesKept ==
  ASSUME PortTypes, [Next]_vars
  PROVE  PortTypes'
<1> USE DEF PortTypes
<1>0. <<>> \in Seq(Messages) /\ <<>> \in Seq(Requests) /\ 0 \in Nat
  OBVIOUS
<1>1. CASE Start \/ GrantMicrophone \/ Record \/ StartFails
  BY <1>1 DEF Start, GrantMicrophone, Record, StartFails, taskVars, portVars, soundVars, restVars
<1>2. CASE Hear
  <2>1. Chunk(2) \in Messages /\ 0 \in Nat /\ 1 \in Nat
    BY DEF Chunk, Messages
  <2>2. toPage' \in Seq(Messages) /\ partial' \in Nat
    BY <1>2, <2>1, Posted DEF Hear
  <2>3. QED
    BY <1>2, <2>2 DEF Hear, pageVars, taskVars, restVars
<1>3. CASE Obey
  <2>1. Head(toWorklet) \in Requests /\ Tail(toWorklet) \in Seq(Requests)
    BY <1>3, Delivered DEF Obey
  <2>2. Ack(Head(toWorklet).id) \in Messages /\ Chunk(partial) \in Messages /\ Head(toWorklet).paused \in BOOLEAN
    BY <2>1 DEF Ack, Chunk, Messages, Requests
  <2>3. Flushed \in Seq(Messages)
    BY <2>2, Posted DEF Flushed
  <2>4. toPage' \in Seq(Messages) /\ partial' \in Nat
    BY <1>3, <2>2, <2>3, Posted DEF Obey
  <2>5. QED
    BY <1>3, <2>1, <2>2, <2>4 DEF Obey, pageVars, taskVars, restVars
<1>4. CASE Receive
  <2>1. Tail(toPage) \in Seq(Messages)
    BY <1>4, Delivered DEF Receive
  <2>0. \/ toPage' = Tail(toPage) /\ UNCHANGED toWorklet
        \/ toPage' = <<>> /\ toWorklet' = <<>>
    BY <1>4, Zenon DEF Receive, StopAcknowledged, Release
  <2>2. toPage' \in Seq(Messages) /\ toWorklet' \in Seq(Requests)
    BY <1>0, <2>0, <2>1
  <2>3. pausing' \in Nat
    BY <1>0, <1>4 DEF Receive, PauseEnds, ResumeEnds, StopAcknowledged, pageVars
  <2>4. QED
    BY <1>4, <2>2, <2>3 DEF Receive, soundVars
<1>5. Control(TRUE) \/ Control(FALSE) => controlSeq' \in Nat /\ toWorklet' \in Seq(Requests)
  <2>1. controlSeq + 1 \in Nat \ {0}
    OBVIOUS
  <2>2. [paused |-> TRUE, id |-> controlSeq + 1] \in Requests /\ [paused |-> FALSE, id |-> controlSeq + 1] \in Requests
    BY <2>1 DEF Requests
  <2>3. ASSUME NEW m \in Requests PROVE Append(toWorklet, m) \in Seq(Requests)
    BY Posted
  <2>4. QED
    BY <2>1, <2>2, <2>3 DEF Control
<1>6. CASE UserPauses \/ BufferIsFull
  <2>1. Control(TRUE) /\ pausing' = controlSeq + 1
    BY <1>6, Zenon DEF UserPauses, BufferIsFull, BeginPause
  <2>2. controlSeq' \in Nat /\ toWorklet' \in Seq(Requests)
    BY <1>5, <2>1, Zenon
  <2>3. UNCHANGED <<toPage, resumeId, late, partial>>
    BY <1>6 DEF UserPauses, BufferIsFull, BeginPause, soundVars, restVars
  <2>4. pausing' \in Nat
    BY <2>1
  <2>5. QED
    BY <2>2, <2>3, <2>4
<1>7. CASE UserResumes \/ ContextResumes
  <2>1. Control(FALSE) \/ UNCHANGED <<controlSeq, toWorklet>>
    BY <1>7 DEF UserResumes, ContextResumes, portVars
  <2>2. controlSeq' \in Nat /\ toWorklet' \in Seq(Requests)
    BY <1>5, <2>1
  <2>3. UNCHANGED <<toPage, pausing, late, partial>>
    BY <1>7 DEF UserResumes, ContextResumes, portVars, soundVars, restVars
  <2>4. resumeId' \in Nat
    BY <1>7 DEF UserResumes, ContextResumes, Control
  <2>5. QED
    BY <2>2, <2>3, <2>4
<1>8. CASE Stop \/ ContextCloses \/ SessionStopped \/ AlreadySaved \/ NotSaved
  BY <1>0, <1>8 DEF Stop, ContextCloses, SessionStopped, AlreadySaved, NotSaved, Complete, Release,
     pageVars, portVars, soundVars, restVars
<1>9. CASE StopGoesOn
  BY <1>0, <1>5, <1>9 DEF StopGoesOn, Release, soundVars, restVars
<1>10. CASE PauseTimesOut \/ ResumeTimesOut \/ StopTimesOut
  <2>1. UNCHANGED <<controlSeq, toWorklet, toPage, resumeId, partial>>
    BY <1>10 DEF PauseTimesOut, ResumeTimesOut, StopTimesOut, portVars, soundVars
  <2>2. late' \in Nat
    BY <1>10 DEF PauseTimesOut, ResumeTimesOut, StopTimesOut, TimesOut
  <2>3. pausing' \in Nat
    BY <1>0, <1>10 DEF PauseTimesOut, ResumeTimesOut, StopTimesOut
  <2>4. QED
    BY <2>1, <2>2, <2>3
<1>11. CASE FatalError
  <2>1. Control(TRUE) \/ UNCHANGED <<controlSeq, toWorklet>>
    BY <1>11 DEF FatalError, BeginPause, portVars
  <2>2. controlSeq' \in Nat /\ toWorklet' \in Seq(Requests)
    BY <1>5, <2>1
  <2>3. UNCHANGED <<toPage, resumeId, late, partial>>
    BY <1>11 DEF FatalError, BeginPause, portVars, soundVars
  <2>4. pausing' \in Nat
    BY <1>0, <1>11 DEF FatalError, BeginPause, Control
  <2>5. QED
    BY <2>2, <2>3, <2>4
<1>12. CASE UNCHANGED vars \/ Rest
  BY <1>12 DEF Rest, vars, pageVars, taskVars, portVars, soundVars, restVars
<1>13. QED
  BY <1>1, <1>2, <1>3, <1>4, <1>6, <1>7, <1>8, <1>9, <1>10, <1>11, <1>12 DEF Next

LEMMA ShapeKept ==
  ASSUME PortTypes, Shape, [Next]_vars
  PROVE  Shape'
<1> USE DEF Shape, Begun, Running
<1>1. CASE Start \/ GrantMicrophone \/ Record \/ StartFails
  BY <1>1 DEF Start, GrantMicrophone, Record, StartFails, taskVars, portVars, soundVars, restVars
<1>2. CASE Hear
  BY <1>2 DEF Hear, pageVars, taskVars
<1>3. CASE Obey
  BY <1>3 DEF Obey, pageVars, taskVars
<1>4. CASE Receive
  <2>1. Head(toPage) \in Messages /\ toPage # <<>>
    BY <1>4, Delivered DEF Receive, PortTypes
  <2>2. Head(toPage).kind = "ack" => Head(toPage).id # 0
    BY <2>1 DEF Messages
  <2>3. QED
    BY <1>4, <2>1, <2>2 DEF Receive, PauseEnds, ResumeEnds, StopAcknowledged, Release, pageVars, soundVars
<1>5. CASE UserPauses \/ BufferIsFull
  BY <1>5 DEF UserPauses, BufferIsFull, BeginPause
<1>6. CASE UserResumes \/ ContextResumes
  BY <1>6 DEF UserResumes, ContextResumes, Control, pageVars, portVars, soundVars
<1>7. CASE Stop \/ StopGoesOn \/ ContextCloses
  BY <1>7 DEF Stop, StopGoesOn, Waiting, ContextCloses, Control, Release, pageVars, portVars, soundVars
<1>8. CASE SessionStopped \/ AlreadySaved \/ NotSaved
  BY <1>8 DEF SessionStopped, AlreadySaved, NotSaved, Complete, Release
<1>9. CASE PauseTimesOut \/ ResumeTimesOut \/ StopTimesOut
  BY <1>9 DEF PauseTimesOut, ResumeTimesOut, StopTimesOut, StopFails
<1>10. CASE FatalError
  BY <1>10 DEF FatalError, BeginPause, Control, portVars, soundVars
<1>11. CASE UNCHANGED vars \/ Rest
  BY <1>11 DEF Rest, vars, pageVars, taskVars, portVars, soundVars, restVars
<1>12. QED
  BY <1>1, <1>2, <1>3, <1>4, <1>5, <1>6, <1>7, <1>8, <1>9, <1>10, <1>11 DEF Next

LEMMA InTouchKept ==
  ASSUME RInv, [Next]_vars, Running', late' = 0, ~fatal'
  PROVE  Ports'
<1> USE DEF Running, Begun
<1>1. PortTypes /\ Shape /\ InTouch
  BY DEF RInv
<1>2. status \in {"requesting", "recording", "paused"} /\ (status = "requesting" => Record)
  BY <1>1 DEF Shape, Next, Start, GrantMicrophone, Record, StartFails, Hear, Obey, Receive, UserPauses, BufferIsFull,
     UserResumes, ContextResumes, Stop, StopGoesOn, ContextCloses, SessionStopped, AlreadySaved, NotSaved,
     PauseTimesOut, ResumeTimesOut, StopTimesOut, FatalError, Rest, Complete, PauseEnds, ResumeEnds, vars, pageVars
<1>3. CASE Record
  <2>1. pausing = 0 /\ resuming = "no" /\ toWorklet = <<>> /\ toPage = <<>> /\ ~wPaused
    BY <1>1, <1>3 DEF Shape, Record
  <2>2. OnlySound
    BY <2>1 DEF OnlySound
  <2>3. QED
    BY <1>3, <2>1, <2>2 DEF Record, taskVars, portVars, soundVars, Ports, OnlySound
<1>4. ASSUME Running, late = 0, ~fatal PROVE Ports'
  <2>0. Ports /\ node /\ stopping = "no"
    BY <1>1, <1>4 DEF InTouch, Shape
  <2>1. CASE Hear
    <3>1. UNCHANGED <<clock, pausing, resuming, resumeId, toWorklet, wPaused>>
      BY <2>1 DEF Hear, pageVars, taskVars
    <3>2. CASE toPage' = Append(toPage, Chunk(2))
      <4>1. Chunk(2) \in Messages /\ Chunk(2).kind = "chunk"
        BY DEF Chunk, Messages
      <4>2. QED
        BY <1>1, <2>0, <3>1, <3>2, <4>1, SoundPasses
    <3>3. CASE UNCHANGED toPage
      BY <2>0, <3>1, <3>3 DEF Ports, UnderWay, OnlySound, OneAnswer
    <3>4. QED
      BY <2>1, <3>2, <3>3 DEF Hear
  <2>2. CASE Obey
    <3>1. UNCHANGED <<clock, pausing, resuming, resumeId>> /\ toWorklet # <<>>
      BY <2>2 DEF Obey, pageVars, taskVars
    <3>2. \A id \in Nat \ {0}, paused \in BOOLEAN : UnderWay(id, paused) => UnderWay(id, paused)'
      BY <1>1, <2>2, RequestObeyed
    <3>3. \A id, paused : UnderWay(id, paused) => id \in Nat \ {0}
      <4>1. ASSUME NEW id, NEW paused, UnderWay(id, paused) PROVE id \in Nat \ {0}
        <5>1. toWorklet = <<[paused |-> paused, id |-> id]>>
          BY <3>1, <4>1 DEF UnderWay
        <5>2. toWorklet \in Seq(Requests)
          BY <1>1 DEF PortTypes
        <5>3. Head(toWorklet) = [paused |-> paused, id |-> id] /\ Head(toWorklet) \in Requests
          BY <3>1, <5>1, <5>2, Single, Delivered
        <5>4. QED
          BY <5>3 DEF Requests
      <4>2. QED
        BY <4>1
    <3>4. QED
      BY <2>0, <3>1, <3>2, <3>3 DEF Ports
  <2>3. CASE Receive
    <3>0. toPage # <<>> /\ Head(toPage) \in Messages
      BY <1>1, <2>3, Delivered DEF Receive, PortTypes
    <3>1. CASE Head(toPage).kind = "chunk"
      <4>1. UNCHANGED <<clock, pausing, resuming, resumeId, toWorklet, wPaused>> /\ toPage' = Tail(toPage)
        BY <2>3, <3>1 DEF Receive, pageVars, soundVars
      <4>2. QED
        BY <1>1, <2>0, <3>0, <3>1, <4>1, SoundArrives
    <3>2. CASE Head(toPage).kind = "ack"
      <4>1. toPage' = Tail(toPage) /\ UNCHANGED <<toWorklet, wPaused, resumeId>> /\ Head(toPage).id # 0
        BY <2>0, <2>3, <3>0, <3>2 DEF Receive, PauseEnds, ResumeEnds, soundVars, Messages
      <4>2. \A id, paused : UnderWay(id, paused) =>
               /\ toWorklet = <<>> /\ wPaused = paused /\ OnlySound'
               /\ Head(toPage).id = id
        BY <1>1, <3>0, <3>2, <4>1, AnswerArrives
      <4>3. CASE pausing # 0
        <5>1. UnderWay(pausing, TRUE)
          BY <2>0, <4>3 DEF Ports
        <5>2. toWorklet = <<>> /\ wPaused = TRUE /\ Head(toPage).id = pausing /\ OnlySound'
          BY <4>2, <5>1, Zenon
        <5>3. status = "recording" /\ ~clock /\ resuming = "no"
          BY <1>1, <1>4, <4>3 DEF Shape
        <5>4. pausing' = 0 /\ UNCHANGED <<clock, resuming>>
          BY <2>0, <2>3, <3>2, <4>3, <5>2, <5>3 DEF Receive, PauseEnds
        <5>5. QED
          BY <4>1, <5>2, <5>3, <5>4 DEF Ports
      <4>4. CASE pausing = 0 /\ resuming = "control"
        <5>1. UnderWay(resumeId, FALSE)
          BY <2>0, <4>4 DEF Ports
        <5>2. toWorklet = <<>> /\ wPaused = FALSE /\ Head(toPage).id = resumeId /\ OnlySound'
          BY <4>2, <5>1, Zenon
        <5>3. status = "paused"
          BY <1>1, <1>4, <4>4 DEF Shape
        <5>4. pausing' = 0 /\ resuming' = "no" /\ clock'
          BY <2>0, <2>3, <3>2, <4>1, <4>4, <5>2, <5>3 DEF Receive, ResumeEnds
        <5>5. QED
          BY <4>1, <5>2, <5>4 DEF Ports
      <4>5. CASE pausing = 0 /\ resuming # "control"
        <5>1. OnlySound
          BY <2>0, <4>5 DEF Ports
        <5>2. toPage[1].kind = "ack" /\ 1 \in 1..Len(toPage)
          BY <1>1, <3>0, <3>2, Delivered DEF PortTypes
        <5>3. QED
          BY <5>1, <5>2 DEF OnlySound
      <4>6. QED
        BY <4>3, <4>4, <4>5
    <3>3. QED
      BY <3>0, <3>1, <3>2 DEF Messages
  <2>4. CASE UserPauses \/ BufferIsFull
    <3>1. /\ status = "recording" /\ pausing = 0 /\ Control(TRUE) /\ UNCHANGED toPage
          /\ pausing' = controlSeq + 1
      BY <2>4 DEF UserPauses, BufferIsFull, BeginPause
    <3>2. toWorklet = <<>> /\ OnlySound
      BY <1>1, <2>0, <3>1 DEF Shape, Ports
    <3>3. \A n : n = controlSeq + 1 => UnderWay(n, TRUE)'
      BY <1>1, <3>1, <3>2, RequestSent
    <3>4. UnderWay(pausing, TRUE)' /\ pausing' # 0
      BY <1>1, <3>1, <3>3 DEF PortTypes, UnderWay
    <3>5. QED
      BY <3>4 DEF Ports
  <2>5. CASE UserResumes
    BY <2>0, <2>5 DEF UserResumes, pageVars, portVars, soundVars, Ports, OnlySound, UnderWay, OneAnswer
  <2>6. CASE ContextResumes
    <3>1. status = "paused" /\ pausing = 0 /\ resuming = "context"
      BY <1>1, <1>4, <2>6 DEF Shape, ContextResumes
    <3>2. /\ Control(FALSE) /\ UNCHANGED <<toPage, pausing>>
          /\ resuming' = "control" /\ resumeId' = controlSeq + 1
      BY <2>6, <3>1 DEF ContextResumes
    <3>3. toWorklet = <<>> /\ OnlySound
      BY <2>0, <3>1 DEF Ports
    <3>4. \A n : n = controlSeq + 1 => UnderWay(n, FALSE)'
      BY <1>1, <3>2, <3>3, RequestSent
    <3>5. UnderWay(resumeId, FALSE)'
      BY <3>2, <3>4 DEF UnderWay
    <3>6. QED
      BY <3>1, <3>2, <3>5 DEF Ports
  <2>7. CASE PauseTimesOut \/ ResumeTimesOut \/ StopTimesOut
    BY <1>4, <2>0, <2>7 DEF PauseTimesOut, ResumeTimesOut, StopTimesOut, TimesOut
  <2>8. CASE FatalError
    BY <2>8 DEF FatalError
  <2>9. CASE UNCHANGED vars \/ Rest
    <3>1. UNCHANGED <<clock, pausing, resuming, resumeId, toWorklet, toPage, wPaused>>
      BY <2>9 DEF Rest, vars, pageVars, taskVars, portVars, soundVars
    <3>2. QED
      BY <2>0, <3>1 DEF Ports, OnlySound, UnderWay, OneAnswer
  <2>10. CASE Start \/ GrantMicrophone \/ StartFails \/ Record
    BY <1>4, <2>10 DEF Start, GrantMicrophone, StartFails, Record
  <2>11. CASE Stop \/ StopGoesOn \/ ContextCloses \/ SessionStopped \/ AlreadySaved \/ NotSaved
    BY <2>0, <2>11 DEF Stop, StopGoesOn, Waiting, ContextCloses, SessionStopped, AlreadySaved, NotSaved, Complete
  <2>12. QED
    BY <2>1, <2>2, <2>3, <2>4, <2>5, <2>6, <2>7, <2>8, <2>9, <2>10, <2>11 DEF Next
<1>5. ~Record => late = 0 /\ ~fatal
  <2>1. CASE PauseTimesOut \/ ResumeTimesOut \/ StopTimesOut
    BY <1>1, <2>1 DEF PauseTimesOut, ResumeTimesOut, StopTimesOut, TimesOut, PortTypes
  <2>2. CASE UNCHANGED restVars \/ (UNCHANGED late /\ (UNCHANGED fatal \/ fatal'))
    BY <2>2 DEF restVars
  <2>3. QED
    BY <2>1, <2>2 DEF Next, Start, GrantMicrophone, StartFails, Hear, Obey, Receive, UserPauses, BufferIsFull,
       UserResumes, ContextResumes, Stop, StopGoesOn, ContextCloses, SessionStopped, AlreadySaved, NotSaved,
       FatalError, Rest, vars
<1>6. QED
  BY <1>2, <1>3, <1>4, <1>5

THEOREM InvariantHolds == Spec => []RInv
<1>1. Init => RInv
  <2>1. Init => PortTypes
    BY DEF Init, PortTypes
  <2>2. Init => Shape /\ InTouch
    BY DEF Init, Shape, InTouch, Begun, Running
  <2>3. QED
    BY <2>1, <2>2 DEF RInv
<1>2. RInv /\ [Next]_vars => RInv'
  BY PortTypesKept, ShapeKept, InTouchKept DEF RInv, InTouch
<1>3. QED
  BY <1>1, <1>2, PTL DEF Spec

\* The clock runs exactly while sound is taken, as soon as every request is answered, unless one
\* timed out or the server has refused the connection.
THEOREM ClockTellsTheTruth == Spec => []ClockShowsCapture
<1>1. RInv => ClockShowsCapture
  BY DEF RInv, PortTypes, Shape, InTouch, Running, Ports, ClockShowsCapture
<1>2. QED
  BY <1>1, InvariantHolds, PTL
-----------------------------------------------------------------------------
(* The sound.  What the worklet took is with the client, in the port to the page, or in the      *)
(* partial chunk; and nothing follows the answer to a stop.                                      *)

Size(m) == IF m.kind = "chunk" THEN m.size ELSE 0

\* The sound in a queue of messages, added up message by message.
Total(q, n) ==
  \E f \in [0..Len(q) -> Int] :
    /\ f[0] = 0 /\ f[Len(q)] = n
    /\ \A i \in 1..Len(q) : f[i] = f[i - 1] + Size(q[i])

Counters == heard \in Nat /\ pushed \in Nat

Numbered ==
  /\ \A i \in 1..Len(toWorklet) : toWorklet[i].id <= controlSeq
  /\ \A i \in 1..Len(toPage) : toPage[i].kind = "ack" => toPage[i].id <= controlSeq

Accounted ==
  IF node THEN Total(toPage, heard - pushed - partial)
  ELSE toPage = <<>> /\ pushed = heard

\* The stop is the last request, or obeyed and answered by the last message.
LastWord ==
  \/ /\ toWorklet # <<>> /\ toWorklet[Len(toWorklet)].paused = TRUE
     /\ \A i \in 1..Len(toWorklet) : toWorklet[i].id = stopId => i = Len(toWorklet)
     /\ \A i \in 1..Len(toPage) : toPage[i].kind = "ack" => toPage[i].id # stopId
  \/ /\ toWorklet = <<>> /\ wPaused = TRUE /\ partial = 0
     /\ \A i \in 1..Len(toPage) : toPage[i].kind = "ack" /\ toPage[i].id = stopId => i = Len(toPage)

Stopping ==
  /\ stopping = "control" => LastWord
  /\ stopping \in {"release", "client"} => ~node

Fresh == ~Begun => partial = 0

SoundInv == Counters /\ Numbered /\ Fresh /\ (~saved => Accounted /\ Stopping)

LEMMA TotalNothing == Total(<<>>, 0) /\ \A n : Total(<<>>, n) => n = 0
<1>1. Len(<<>>) = 0
  OBVIOUS
<1>2. \A n : Total(<<>>, n) => n = 0
  BY <1>1 DEF Total
<1>3. Total(<<>>, 0)
  <2> DEFINE f == [i \in 0..0 |-> 0]
  <2>1. f \in [0..Len(<<>>) -> Int] /\ f[0] = 0 /\ f[Len(<<>>)] = 0
    BY <1>1
  <2>2. \A i \in 1..Len(<<>>) : f[i] = f[i - 1] + Size(<<>>[i])
    BY <1>1
  <2> QED
    BY <2>1, <2>2 DEF Total
<1> QED
  BY <1>2, <1>3

LEMMA SizeTyped == \A m \in Messages : Size(m) \in Nat
BY DEF Size, Messages

LEMMA TotalPosted ==
  ASSUME NEW q \in Seq(Messages), NEW m \in Messages, NEW n \in Int, Total(q, n)
  PROVE  Total(Append(q, m), n + Size(m))
<1>1. PICK f \in [0..Len(q) -> Int] :
         /\ f[0] = 0 /\ f[Len(q)] = n
         /\ \A i \in 1..Len(q) : f[i] = f[i - 1] + Size(q[i])
  BY DEF Total
<1> DEFINE r == Append(q, m)
           g == [i \in 0..Len(q) + 1 |-> IF i = Len(q) + 1 THEN n + Size(m) ELSE f[i]]
<1>2. Len(r) = Len(q) + 1 /\ r[Len(q) + 1] = m /\ (\A i \in 1..Len(q) : r[i] = q[i]) /\ Len(q) \in Nat
  BY Posted
<1>3. Size(m) \in Int
  BY SizeTyped
<1>4. g \in [0..Len(r) -> Int] /\ g[0] = 0 /\ g[Len(r)] = n + Size(m)
  BY <1>1, <1>2, <1>3
<1>5. ASSUME NEW i \in 1..Len(r) PROVE g[i] = g[i - 1] + Size(r[i])
  <2>1. CASE i = Len(q) + 1
    <3>1. g[i] = n + Size(m) /\ g[i - 1] = f[Len(q)] /\ r[i] = m
      BY <1>2, <2>1
    <3> QED
      BY <3>1, <1>1
  <2>2. CASE i # Len(q) + 1
    <3>1. i \in 1..Len(q) /\ i \in 0..Len(q) + 1 /\ i - 1 \in 0..Len(q) + 1 /\ i - 1 # Len(q) + 1 /\ r[i] = q[i]
      BY <1>2, <2>2
    <3>2. g[i] = f[i] /\ g[i - 1] = f[i - 1]
      BY <2>2, <3>1
    <3> HIDE DEF g, r
    <3> QED
      BY <3>1, <3>2, <1>1
  <2> QED
    BY <2>1, <2>2
<1> HIDE DEF r, g
<1>6. Total(r, n + Size(m))
  BY <1>4, <1>5 DEF Total
<1> QED
  BY <1>6 DEF r

LEMMA TotalDelivered ==
  ASSUME NEW q \in Seq(Messages), q # <<>>, NEW n \in Int, Total(q, n)
  PROVE  Total(Tail(q), n - Size(Head(q)))
<1>1. PICK f \in [0..Len(q) -> Int] :
         /\ f[0] = 0 /\ f[Len(q)] = n
         /\ \A i \in 1..Len(q) : f[i] = f[i - 1] + Size(q[i])
  BY DEF Total
<1> DEFINE r == Tail(q)
           s == Size(Head(q))
           g == [i \in 0..Len(q) - 1 |-> f[i + 1] - s]
<1>2. /\ Head(q) = q[1] /\ 1 \in 1..Len(q) /\ Head(q) \in Messages /\ Len(r) = Len(q) - 1 /\ Len(q) \in Nat
      /\ \A i \in 1..Len(r) : i + 1 \in 1..Len(q) /\ r[i] = q[i + 1]
  BY Delivered
<1>3. s \in Int /\ f[1] = s
  <2>1. s \in Nat
    BY <1>2, SizeTyped
  <2>2. f[1] = f[0] + s
    BY <1>1, <1>2
  <2> QED
    BY <1>1, <2>1, <2>2
<1> HIDE DEF s
<1>4. g \in [0..Len(r) -> Int] /\ g[0] = 0 /\ g[Len(r)] = n - s
  BY <1>1, <1>2, <1>3
<1>5. ASSUME NEW i \in 1..Len(r) PROVE g[i] = g[i - 1] + Size(r[i])
  <2>1. i \in 0..Len(q) - 1 /\ i - 1 \in 0..Len(q) - 1 /\ i + 1 \in 1..Len(q) /\ i \in 0..Len(q) /\ i + 1 \in 0..Len(q)
        /\ r[i] = q[i + 1] /\ i - 1 + 1 = i /\ i + 1 - 1 = i
    BY <1>2
  <2>2. g[i] = f[i + 1] - s /\ g[i - 1] = f[i] - s
    BY <2>1
  <2>3. f[i + 1] = f[i] + Size(q[i + 1]) /\ f[i] \in Int
    BY <1>1, <2>1
  <2>4. Size(q[i + 1]) \in Int
    BY <2>1, SizeTyped
  <2> HIDE DEF g
  <2> QED
    BY <1>3, <2>1, <2>2, <2>3, <2>4
<1> HIDE DEF r, g
<1>6. Total(r, n - s)
  BY <1>4, <1>5 DEF Total
<1> QED
  BY <1>6 DEF r, s

\* A step that leaves ports, worklet and sound alone, and neither begins nor ends a save.
LEMMA SoundUntouched ==
  ASSUME SoundInv,
         UNCHANGED <<node, stopId, portVars, soundVars, pushed, saved>>,
         stopping' \in {stopping, "no", "others"} \/ (stopping = "release" /\ stopping' = "client"),
         Begun => Begun'
  PROVE  SoundInv'
<1>1. Counters' /\ Numbered' /\ Fresh'
  BY DEF SoundInv, Counters, Numbered, Fresh, portVars, soundVars
<1>2. Accounted => Accounted'
  BY DEF Accounted, portVars, soundVars
<1>3. LastWord => LastWord'
  BY DEF LastWord, portVars, soundVars
<1>4. Stopping => Stopping'
  BY <1>3 DEF Stopping
<1> QED
  BY <1>1, <1>2, <1>4 DEF SoundInv

\* A new request to the worklet, whoever makes it.
LEMMA RequestNumbered ==
  ASSUME PortTypes, Numbered, Control(TRUE) \/ Control(FALSE), UNCHANGED toPage
  PROVE  /\ Numbered' /\ controlSeq' = controlSeq + 1
         /\ toWorklet' # <<>> /\ Len(toWorklet') = Len(toWorklet) + 1
         /\ toWorklet'[Len(toWorklet')].id = controlSeq + 1
         /\ Control(TRUE) => toWorklet'[Len(toWorklet')].paused = TRUE
         /\ \A i \in 1..Len(toWorklet) : toWorklet'[i] = toWorklet[i] /\ toWorklet[i].id <= controlSeq
<1>1. PICK p \in BOOLEAN : Control(p) /\ (Control(TRUE) => p = TRUE)
  BY Zenon
<1> DEFINE n == controlSeq + 1
           e == [paused |-> p, id |-> n]
<1>2. controlSeq' = n /\ toWorklet' = Append(toWorklet, e)
  BY <1>1 DEF Control
<1>3. n \in Nat \ {0} /\ toWorklet \in Seq(Requests) /\ toPage \in Seq(Messages) /\ controlSeq \in Nat /\ controlSeq <= n
      /\ Len(toWorklet) \in Nat
  BY DEF PortTypes
<1>4. e \in Requests /\ e.id = n /\ e.paused = p
  BY <1>3 DEF Requests
<1> HIDE DEF n, e
<1>5. /\ Len(toWorklet') = Len(toWorklet) + 1 /\ toWorklet'[Len(toWorklet) + 1] = e
      /\ \A i \in 1..Len(toWorklet) : toWorklet'[i] = toWorklet[i]
  BY <1>2, <1>3, <1>4, Posted
<1>6. toWorklet' # <<>>
  BY <1>2, <1>3, <1>4
<1>7. \A i \in 1..Len(toWorklet) : toWorklet[i].id \in Nat /\ toWorklet[i].id <= controlSeq
  <2> TAKE i \in 1..Len(toWorklet)
  <2>1. toWorklet[i] \in Requests
    BY <1>3
  <2> QED
    BY <2>1 DEF Requests, Numbered
<1>8. \A i \in 1..Len(toWorklet') : toWorklet'[i].id <= n
  <2> TAKE i \in 1..Len(toWorklet')
  <2>1. CASE i = Len(toWorklet) + 1
    BY <1>3, <1>4, <1>5, <2>1
  <2>2. CASE i # Len(toWorklet) + 1
    <3>1. i \in 1..Len(toWorklet)
      BY <1>3, <1>5, <2>2
    <3>2. toWorklet'[i] = toWorklet[i] /\ toWorklet[i].id \in Nat /\ toWorklet[i].id <= controlSeq
      BY <1>5, <1>7, <3>1
    <3> QED
      BY <1>3, <3>2
  <2> QED
    BY <2>1, <2>2
<1>9. \A i \in 1..Len(toPage) : toPage[i].kind = "ack" => toPage[i].id <= n
  <2> TAKE i \in 1..Len(toPage)
  <2>1. toPage[i] \in Messages
    BY <1>3
  <2>2. toPage[i].kind = "ack" => toPage[i].id \in Nat /\ toPage[i].id <= controlSeq
    BY <2>1 DEF Messages, Numbered
  <2> QED
    BY <1>3, <2>2
<1>10. Numbered'
  BY <1>2, <1>8, <1>9 DEF Numbered
<1>11. Control(TRUE) => toWorklet'[Len(toWorklet')].paused = TRUE
  BY <1>1, <1>4, <1>5
<1>12. controlSeq' = controlSeq + 1 /\ toWorklet'[Len(toWorklet')].id = controlSeq + 1
  BY <1>2, <1>4, <1>5 DEF n
<1> QED
  BY <1>5, <1>6, <1>7, <1>10, <1>11, <1>12

\* A request that is not a stop, made while no stop is under way.
LEMMA SoundAsked ==
  ASSUME PortTypes, SoundInv, Control(TRUE) \/ Control(FALSE), UNCHANGED <<toPage, node, soundVars, pushed, saved>>,
         stopping' = "no", Begun => Begun'
  PROVE  SoundInv'
<1>1. Numbered'
  BY RequestNumbered DEF SoundInv
<1>2. Counters' /\ Fresh'
  BY DEF SoundInv, Counters, Fresh, soundVars
<1>3. Accounted => Accounted'
  BY DEF Accounted, soundVars
<1>4. Stopping'
  BY DEF Stopping
<1> QED
  BY <1>1, <1>2, <1>3, <1>4 DEF SoundInv

\* The worklet takes sound: it counts as partial, or is on its way in a chunk.
LEMMA SoundHeard ==
  ASSUME PortTypes, Shape, SoundInv, Hear
  PROVE  SoundInv'
<1>1. /\ node /\ ~wPaused /\ heard' = heard + 1
      /\ UNCHANGED <<status, node, stopping, stopId, controlSeq, toWorklet, wPaused, pushed, saved>>
      /\ \/ partial = 0 /\ partial' = 1 /\ UNCHANGED toPage
         \/ partial = 1 /\ partial' = 0 /\ toPage' = Append(toPage, Chunk(2))
  BY DEF Hear, pageVars, taskVars, restVars
<1>2. toPage \in Seq(Messages) /\ heard \in Nat /\ pushed \in Nat /\ Len(toPage) \in Nat
  BY DEF PortTypes, SoundInv, Counters
<1>3. Chunk(2) \in Messages /\ Chunk(2).kind = "chunk" /\ Size(Chunk(2)) = 2
  BY DEF Chunk, Messages, Size
<1>4. Len(Append(toPage, Chunk(2))) = Len(toPage) + 1 /\ Append(toPage, Chunk(2))[Len(toPage) + 1] = Chunk(2)
      /\ \A i \in 1..Len(toPage) : Append(toPage, Chunk(2))[i] = toPage[i]
  BY <1>2, <1>3, Posted
<1>5. \A i \in 1..Len(toPage') : toPage'[i].kind = "ack" => i \in 1..Len(toPage) /\ toPage'[i] = toPage[i]
  BY <1>1, <1>2, <1>3, <1>4
<1>6. Counters'
  BY <1>1, <1>2 DEF Counters
<1>7. Numbered'
  BY <1>1, <1>5 DEF SoundInv, Numbered
<1>8. Begun'
  BY <1>1 DEF Shape, Begun
<1>9. ASSUME Accounted PROVE Accounted'
  <2>1. Total(toPage, heard - pushed - partial)
    BY <1>1, <1>9 DEF Accounted
  <2>2. CASE partial = 0 /\ partial' = 1 /\ UNCHANGED toPage
    <3>1. heard' - pushed' - partial' = heard - pushed - partial
      BY <1>1, <1>2, <2>2
    <3> QED
      BY <1>1, <2>1, <2>2, <3>1 DEF Accounted
  <2>3. CASE partial = 1 /\ partial' = 0 /\ toPage' = Append(toPage, Chunk(2))
    <3> DEFINE n == heard - pushed - partial
    <3>1. n \in Int /\ heard' - pushed' - partial' = n + 2
      BY <1>1, <1>2, <2>3
    <3> HIDE DEF n
    <3>2. Total(toPage, n)
      BY <2>1 DEF n
    <3>3. Total(Append(toPage, Chunk(2)), n + 2)
      BY <1>2, <1>3, <3>1, <3>2, TotalPosted
    <3> QED
      BY <1>1, <2>3, <3>1, <3>3 DEF Accounted
  <2> QED
    BY <1>1, <2>2, <2>3
<1>10. LastWord => LastWord'
  BY <1>1, <1>5 DEF LastWord
<1>11. Stopping => Stopping'
  BY <1>1, <1>10 DEF Stopping
<1> QED
  BY <1>1, <1>6, <1>7, <1>8, <1>9, <1>11 DEF SoundInv, Fresh
\* The worklet obeys the next request: what it posts before the answer is the partial chunk.
LEMMA SoundObeyed ==
  ASSUME PortTypes, SoundInv, Obey
  PROVE  SoundInv'
<1> DEFINE r == Head(toWorklet)
           q == IF r.paused THEN Flushed ELSE toPage
           n == heard - pushed - partial
<1>1. /\ node /\ toWorklet # <<>> /\ wPaused' = r.paused /\ partial' = (IF r.paused THEN 0 ELSE partial)
      /\ toPage' = Append(q, Ack(r.id)) /\ toWorklet' = Tail(toWorklet)
      /\ UNCHANGED <<status, node, stopping, stopId, controlSeq, heard, pushed, saved>>
  BY DEF Obey, pageVars, taskVars, restVars
<1>2. /\ toPage \in Seq(Messages) /\ toWorklet \in Seq(Requests) /\ heard \in Nat /\ pushed \in Nat /\ partial \in Nat
      /\ controlSeq \in Nat /\ Len(toPage) \in Nat /\ Len(toWorklet) \in Nat
  BY DEF PortTypes, SoundInv, Counters
<1>3. /\ r = toWorklet[1] /\ 1 \in 1..Len(toWorklet) /\ r \in Requests
      /\ toWorklet' \in Seq(Requests) /\ Len(toWorklet') = Len(toWorklet) - 1
      /\ \A i \in 1..Len(toWorklet') : i + 1 \in 1..Len(toWorklet) /\ toWorklet'[i] = toWorklet[i + 1]
  BY <1>1, <1>2, Delivered
<1>4. r.paused \in BOOLEAN /\ r.id \in Nat \ {0} /\ r.id <= controlSeq
  BY <1>3 DEF Requests, SoundInv, Numbered
<1>5. Ack(r.id) \in Messages /\ Ack(r.id).kind = "ack" /\ Ack(r.id).id = r.id /\ Size(Ack(r.id)) = 0
  BY <1>4 DEF Ack, Messages, Size
<1> HIDE DEF r
\* what is posted before the answer
<1>6. /\ q \in Seq(Messages) /\ Len(q) \in Nat
      /\ \A i \in 1..Len(q) : q[i].kind = "ack" => i \in 1..Len(toPage) /\ q[i] = toPage[i]
      /\ Total(toPage, n) => Total(q, heard - pushed - partial')
  <2>1. CASE ~r.paused \/ partial = 0
    <3>1. q = toPage /\ partial' = partial
      BY <1>1, <1>4, <2>1 DEF Flushed
    <3> QED
      BY <1>2, <3>1
  <2>2. CASE r.paused /\ partial # 0
    <3>1. q = Append(toPage, Chunk(partial)) /\ partial' = 0
      BY <1>1, <2>2 DEF Flushed
    <3>2. Chunk(partial) \in Messages /\ Chunk(partial).kind = "chunk" /\ Size(Chunk(partial)) = partial
      BY <1>2 DEF Chunk, Messages, Size
    <3>3. /\ q \in Seq(Messages) /\ Len(q) = Len(toPage) + 1 /\ q[Len(toPage) + 1] = Chunk(partial)
          /\ \A i \in 1..Len(toPage) : q[i] = toPage[i]
      BY <1>2, <3>1, <3>2, Posted
    <3>4. n \in Int /\ n + partial = heard - pushed - partial'
      BY <1>2, <3>1
    <3> HIDE DEF n, q
    <3>5. Total(toPage, n) => Total(q, n + partial)
      BY <1>2, <3>1, <3>2, <3>4, TotalPosted
    <3> QED
      BY <1>2, <3>2, <3>3, <3>4, <3>5
  <2> QED
    BY <1>4, <2>1, <2>2
<1> HIDE DEF q
<1>7. /\ Len(toPage') = Len(q) + 1 /\ toPage'[Len(q) + 1] = Ack(r.id)
      /\ \A i \in 1..Len(q) : toPage'[i] = q[i]
  BY <1>1, <1>5, <1>6, Posted
<1>8. Counters' /\ Fresh'
  BY <1>1 DEF SoundInv, Counters, Fresh, Begun
<1>9. \A i \in 1..Len(toPage') : toPage'[i].kind = "ack" =>
         \/ i = Len(toPage') /\ toPage'[i].id = r.id
         \/ i \in 1..Len(toPage) /\ toPage'[i] = toPage[i]
  BY <1>5, <1>6, <1>7
<1>10. Numbered'
  <2>1. \A i \in 1..Len(toWorklet') : toWorklet'[i].id <= controlSeq'
    BY <1>1, <1>3 DEF SoundInv, Numbered
  <2>2. \A i \in 1..Len(toPage') : toPage'[i].kind = "ack" => toPage'[i].id <= controlSeq'
    BY <1>1, <1>4, <1>9 DEF SoundInv, Numbered
  <2> QED
    BY <2>1, <2>2 DEF Numbered
<1>11. Accounted => Accounted'
  <2> SUFFICES ASSUME Accounted PROVE Accounted'
    OBVIOUS
  <2> DEFINE m == heard - pushed - partial'
  <2>1. Total(q, m) /\ m \in Int
    BY <1>1, <1>2, <1>4, <1>6 DEF Accounted
  <2>2. m = heard' - pushed' - partial'
    BY <1>1
  <2> HIDE DEF m
  <2>3. Total(Append(q, Ack(r.id)), m + 0)
    BY <1>5, <1>6, <2>1, TotalPosted
  <2>4. Total(toPage', m)
    BY <1>1, <2>1, <2>3
  <2> QED
    BY <1>1, <2>2, <2>4 DEF Accounted
<1>12. LastWord => LastWord'
  <2> SUFFICES ASSUME LastWord PROVE LastWord'
    OBVIOUS
  <2>1. /\ toWorklet[Len(toWorklet)].paused = TRUE
        /\ \A i \in 1..Len(toWorklet) : toWorklet[i].id = stopId => i = Len(toWorklet)
        /\ \A i \in 1..Len(toPage) : toPage[i].kind = "ack" => toPage[i].id # stopId
    BY <1>1 DEF LastWord
  <2>2. CASE Len(toWorklet) = 1
    <3>1. r.paused = TRUE /\ toWorklet' = <<>>
      BY <1>3, <2>1, <2>2
    <3>2. wPaused' = TRUE /\ partial' = 0
      BY <1>1, <3>1
    <3>3. \A i \in 1..Len(toPage') : toPage'[i].kind = "ack" /\ toPage'[i].id = stopId' => i = Len(toPage')
      BY <1>1, <1>9, <2>1
    <3> QED
      BY <3>1, <3>2, <3>3 DEF LastWord
  <2>3. CASE Len(toWorklet) # 1
    <3>1. r.id # stopId
      BY <1>3, <2>1, <2>3
    <3>2. toWorklet' # <<>> /\ Len(toWorklet') \in 1..Len(toWorklet')
      BY <1>2, <1>3, <2>3
    <3>3. toWorklet'[Len(toWorklet')] = toWorklet[Len(toWorklet)]
      BY <1>2, <1>3, <3>2
    <3>4. \A i \in 1..Len(toWorklet') : toWorklet'[i].id = stopId' => i = Len(toWorklet')
      <4> TAKE i \in 1..Len(toWorklet')
      <4>1. i + 1 \in 1..Len(toWorklet) /\ toWorklet'[i] = toWorklet[i + 1] /\ stopId' = stopId
        BY <1>1, <1>3
      <4>2. toWorklet[i + 1].id = stopId => i + 1 = Len(toWorklet)
        BY <2>1, <4>1
      <4> QED
        BY <1>2, <1>3, <4>1, <4>2
    <3>5. \A i \in 1..Len(toPage') : toPage'[i].kind = "ack" => toPage'[i].id # stopId'
      BY <1>1, <1>9, <2>1, <3>1
    <3> QED
      BY <2>1, <3>2, <3>3, <3>4, <3>5 DEF LastWord
  <2> QED
    BY <2>2, <2>3
<1>13. Stopping => Stopping'
  BY <1>1, <1>12 DEF Stopping
<1> QED
  BY <1>1, <1>8, <1>10, <1>11, <1>13 DEF SoundInv

\* A message is handled; the answer to a stop is the last of all.
LEMMA SoundReceived ==
  ASSUME PortTypes, Shape, SoundInv, Receive
  PROVE  SoundInv'
<1> DEFINE m == Head(toPage)
           n == heard - pushed - partial
<1>1. /\ toPage # <<>>
      /\ UNCHANGED <<controlSeq, heard, partial, wPaused, saved, stopId>>
  BY DEF Receive, soundVars
<1>2. /\ toPage \in Seq(Messages) /\ heard \in Nat /\ pushed \in Nat /\ partial \in Nat /\ Len(toPage) \in Nat
  BY DEF PortTypes, SoundInv, Counters
<1>3. /\ m = toPage[1] /\ 1 \in 1..Len(toPage) /\ m \in Messages
      /\ Tail(toPage) \in Seq(Messages) /\ Len(Tail(toPage)) = Len(toPage) - 1
      /\ \A i \in 1..Len(Tail(toPage)) : i + 1 \in 1..Len(toPage) /\ Tail(toPage)[i] = toPage[i + 1]
  BY <1>1, <1>2, Delivered
<1>4. m.kind \in {"chunk", "ack"}
  BY <1>3 DEF Messages
<1>5. Begun /\ Begun'
  <2>1. Begun
    BY <1>1 DEF Shape
  <2> QED
    BY <2>1 DEF Begun, Receive, PauseEnds, ResumeEnds, StopAcknowledged, pageVars
<1>6. \/ /\ toPage' = Tail(toPage) /\ pushed' = pushed + Size(m) /\ UNCHANGED <<toWorklet, node, stopping>>
      \/ /\ m.kind = "ack" /\ stopping = "control" /\ m.id = stopId /\ UNCHANGED pushed
         /\ stopping' = "release" /\ ~node' /\ toPage' = <<>> /\ toWorklet' = <<>>
  <2>1. CASE m.kind = "chunk"
    BY <2>1 DEF Receive, pageVars, Size
  <2>2. CASE m.kind = "ack"
    <3>1. \/ /\ toPage' = Tail(toPage) /\ UNCHANGED <<toWorklet, node, stopping, pushed>>
          \/ /\ stopping = "control" /\ m.id = stopId /\ UNCHANGED pushed
             /\ StopAcknowledged
      BY <2>2 DEF Receive, pageVars
    <3>2. Size(m) = 0 /\ pushed + 0 = pushed
      BY <1>2, <2>2 DEF Size
    <3> QED
      BY <2>2, <3>1, <3>2 DEF StopAcknowledged, Release
  <2> QED
    BY <1>4, <2>1, <2>2
<1>7. Size(m) \in Nat /\ n \in Int
  BY <1>2, <1>3, SizeTyped
<1>8. Total(toPage, n) => Total(Tail(toPage), n - Size(m))
  BY <1>1, <1>2, <1>7, TotalDelivered
<1>9. SoundInv /\ (~saved => Accounted /\ Stopping) /\ Fresh'
  BY <1>5 DEF SoundInv, Fresh
<1> HIDE DEF m
<1>10. CASE toPage' = Tail(toPage) /\ pushed' = pushed + Size(m) /\ UNCHANGED <<toWorklet, node, stopping>>
  <2>1. Counters'
    BY <1>1, <1>2, <1>7, <1>10 DEF Counters
  <2>2. \A i \in 1..Len(toPage') : i + 1 \in 1..Len(toPage) /\ toPage'[i] = toPage[i + 1]
    BY <1>3, <1>10
  <2>3. Numbered'
    BY <1>1, <1>10, <2>2 DEF SoundInv, Numbered
  <2>4. Accounted => Accounted'
    <3> SUFFICES ASSUME Accounted PROVE Accounted'
      OBVIOUS
    <3>1. node /\ Total(toPage, n)
      BY <1>1 DEF Accounted
    <3>2. heard' - pushed' - partial' = n - Size(m)
      <4>1. heard' - pushed' - partial' = heard - (pushed + Size(m)) - partial
        BY <1>1, <1>10
      <4>2. \A s \in Nat : heard - (pushed + s) - partial = heard - pushed - partial - s
        BY <1>2
      <4>3. heard - (pushed + Size(m)) - partial = n - Size(m)
        BY <1>7, <4>2
      <4> HIDE DEF n
      <4> QED
        BY <4>1, <4>3
    <3> HIDE DEF n
    <3> QED
      BY <1>8, <1>10, <3>1, <3>2 DEF Accounted
  <2>5. LastWord => LastWord'
    <3> SUFFICES ASSUME LastWord PROVE LastWord'
      OBVIOUS
    <3>1. Len(toPage') = Len(toPage) - 1
      BY <1>3, <1>10
    <3>2. \A i \in 1..Len(toPage') : i + 1 = Len(toPage) => i = Len(toPage')
      BY <1>2, <3>1
    <3> QED
      BY <1>1, <1>10, <2>2, <3>2 DEF LastWord
  <2>6. Stopping => Stopping'
    BY <1>10, <2>5 DEF Stopping
  <2> QED
    BY <1>1, <1>9, <2>1, <2>3, <2>4, <2>6 DEF SoundInv
<1>11. CASE /\ m.kind = "ack" /\ stopping = "control" /\ m.id = stopId /\ UNCHANGED pushed
            /\ stopping' = "release" /\ ~node' /\ toPage' = <<>> /\ toWorklet' = <<>>
  <2>1. Counters'
    BY <1>1, <1>2, <1>11 DEF Counters
  <2>2. Numbered'
    <3>1. Len(toPage') = 0 /\ Len(toWorklet') = 0
      BY <1>11
    <3> QED
      BY <3>1 DEF Numbered
  <2>3. Stopping'
    BY <1>11 DEF Stopping
  <2>4. ASSUME ~saved PROVE Accounted'
    <3>1. node /\ Total(toPage, n) /\ LastWord
      BY <1>1, <1>9, <1>11, <2>4 DEF Accounted, Stopping
    <3>2. partial = 0 /\ Len(toPage) = 1
      BY <1>3, <1>11, <3>1 DEF LastWord
    <3>3. Tail(toPage) = <<>>
      <4>1. Tail(toPage) \in Seq(Messages) /\ Len(Tail(toPage)) = 0
        BY <1>3, <3>2
      <4> QED
        BY <4>1, Empty
    <3>4. Size(m) = 0
      BY <1>11 DEF Size
    <3>5. n = 0
      <4> HIDE DEF n
      <4>1. Total(<<>>, n - Size(m))
        BY <1>8, <3>1, <3>3
      <4>2. n - Size(m) = 0
        BY <4>1, TotalNothing, Zenon
      <4> QED
        BY <1>7, <3>4, <4>2
    <3>6. pushed = heard
      BY <1>2, <3>2, <3>5
    <3>7. pushed' = heard'
      BY <1>1, <1>11, <3>6
    <3> QED
      BY <1>11, <3>7 DEF Accounted
  <2> QED
    BY <1>1, <1>9, <2>1, <2>2, <2>3, <2>4 DEF SoundInv
<1> QED
  BY <1>6, <1>10, <1>11

\* A stop that goes on: its request is the last, or the graph is gone and all sound handed over.
LEMMA SoundStopped ==
  ASSUME PortTypes, Shape, SoundInv, StopGoesOn
  PROVE  SoundInv'
<1>1. /\ stopping = "others" /\ Begun /\ Begun'
      /\ UNCHANGED <<status, wPaused, partial, heard, pushed, saved>>
  BY DEF StopGoesOn, Waiting, Shape, Begun, soundVars, restVars
<1>2. Counters' /\ Fresh'
  BY <1>1 DEF SoundInv, Counters, Fresh
<1>3. CASE /\ node /\ stopping' = "control" /\ stopId' = controlSeq + 1 /\ Control(TRUE)
           /\ UNCHANGED <<toPage, node>>
  <2>1. /\ Numbered' /\ toWorklet' # <<>> /\ Len(toWorklet') = Len(toWorklet) + 1
        /\ toWorklet'[Len(toWorklet')].paused = TRUE
        /\ \A i \in 1..Len(toWorklet) : toWorklet'[i] = toWorklet[i] /\ toWorklet[i].id <= controlSeq
    BY <1>3, RequestNumbered DEF SoundInv
  <2>2. Accounted => Accounted'
    BY <1>1, <1>3 DEF Accounted
  <2>3. controlSeq \in Nat /\ toWorklet \in Seq(Requests) /\ toPage \in Seq(Messages) /\ Len(toWorklet) \in Nat
    BY DEF PortTypes
  <2>4. \A i \in 1..Len(toWorklet') : toWorklet'[i].id = stopId' => i = Len(toWorklet')
    <3> TAKE i \in 1..Len(toWorklet')
    <3>1. CASE i \in 1..Len(toWorklet)
      <4>1. toWorklet[i] \in Requests
        BY <2>3, <3>1
      <4>2. toWorklet[i].id \in Nat /\ toWorklet[i].id <= controlSeq
        BY <2>1, <3>1, <4>1 DEF Requests
      <4>3. toWorklet[i].id # controlSeq + 1
        BY <2>3, <4>2
      <4> QED
        BY <1>3, <2>1, <3>1, <4>3
    <3>2. CASE i \notin 1..Len(toWorklet)
      BY <2>1, <2>3, <3>2
    <3> QED
      BY <3>1, <3>2
  <2>5. \A i \in 1..Len(toPage') : toPage'[i].kind = "ack" => toPage'[i].id # stopId'
    <3> SUFFICES ASSUME NEW i \in 1..Len(toPage), toPage[i].kind = "ack" PROVE toPage[i].id # controlSeq + 1
      BY <1>3
    <3>1. toPage[i] \in Messages
      BY <2>3
    <3>2. toPage[i].id \in Nat /\ toPage[i].id <= controlSeq
      BY <3>1 DEF Messages, SoundInv, Numbered
    <3> QED
      BY <2>3, <3>2
  <2>6. LastWord'
    BY <2>1, <2>4, <2>5 DEF LastWord
  <2>7. Stopping'
    BY <1>3, <2>6 DEF Stopping
  <2> QED
    BY <1>1, <1>2, <2>1, <2>2, <2>7 DEF SoundInv
<1>4. CASE ~node /\ stopping' = "release" /\ ~node' /\ toPage' = <<>> /\ toWorklet' = <<>>
  <2>1. Numbered'
    <3>1. Len(toPage') = 0 /\ Len(toWorklet') = 0
      BY <1>4
    <3> QED
      BY <3>1 DEF Numbered
  <2>2. Accounted => Accounted'
    BY <1>1, <1>4 DEF Accounted
  <2>3. Stopping'
    BY <1>4 DEF Stopping
  <2> QED
    BY <1>1, <1>2, <2>1, <2>2, <2>3 DEF SoundInv
<1> QED
  BY <1>3, <1>4 DEF StopGoesOn, Release

LEMMA SoundKept ==
  ASSUME PortTypes, Shape, SoundInv, [Next]_vars
  PROVE  SoundInv'
<1>1. CASE Start \/ GrantMicrophone \/ StartFails
  <2>1. /\ UNCHANGED <<node, stopping, stopId, portVars, soundVars, pushed, saved>>
        /\ ~Begun
    BY <1>1 DEF Start, GrantMicrophone, StartFails, Begun, taskVars, restVars
  <2> QED
    BY <2>1, SoundUntouched
<1>2. CASE Record
  <2>1. /\ ~Begun /\ ~node /\ node' /\ stopping = "no"
        /\ UNCHANGED <<stopping, stopId, portVars, soundVars, pushed, saved>>
    BY <1>2 DEF Record, Shape, Begun, taskVars, restVars
  <2>2. Counters' /\ Numbered' /\ Fresh'
    BY <2>1 DEF SoundInv, Counters, Numbered, Fresh, portVars, soundVars
  <2>3. Stopping'
    BY <2>1 DEF Stopping
  <2>4. ASSUME Accounted PROVE Accounted'
    <3>1. /\ toPage' = <<>> /\ pushed' = pushed /\ heard' = pushed /\ partial' = 0 /\ pushed \in Nat
      BY <2>1, <2>4 DEF Accounted, SoundInv, Fresh, Counters, portVars, soundVars
    <3>2. heard' - pushed' - partial' = 0
      BY <3>1
    <3> QED
      BY <2>1, <3>1, <3>2, TotalNothing DEF Accounted
  <2> QED
    BY <2>1, <2>2, <2>3, <2>4 DEF SoundInv
<1>3. CASE Hear \/ Obey \/ Receive
  BY <1>3, SoundHeard, SoundObeyed, SoundReceived
<1>4. CASE UserPauses \/ BufferIsFull
  <2>1. /\ Control(TRUE) /\ UNCHANGED <<status, toPage, node, stopping, soundVars, pushed, saved>>
        /\ status = "recording"
    BY <1>4 DEF UserPauses, BufferIsFull, BeginPause, restVars
  <2>2. stopping' = "no" /\ (Begun => Begun')
    BY <2>1 DEF Shape, Running, Begun
  <2> QED
    BY <2>1, <2>2, SoundAsked
<1>5. CASE UserResumes \/ ContextResumes
  <2>1. UNCHANGED <<status, node, stopping, stopId, soundVars, pushed, saved>>
    BY <1>5 DEF UserResumes, ContextResumes, pageVars, restVars
  <2>2. Begun => Begun'
    BY <2>1 DEF Begun
  <2>3. CASE UNCHANGED portVars
    BY <2>1, <2>2, <2>3, SoundUntouched
  <2>4. CASE Control(FALSE) /\ UNCHANGED toPage /\ status = "paused"
    <3>1. stopping' = "no"
      BY <2>1, <2>4 DEF Shape, Running
    <3> QED
      BY <2>1, <2>2, <2>4, <3>1, SoundAsked
  <2> QED
    BY <1>5, <2>3, <2>4 DEF UserResumes, ContextResumes
<1>6. CASE Stop \/ ContextCloses \/ NotSaved
  <2>1. /\ UNCHANGED <<node, stopId, portVars, soundVars, pushed, saved>>
        /\ stopping' \in {stopping, "no", "others"} \/ (stopping = "release" /\ stopping' = "client")
        /\ Begun => Begun'
    BY <1>6 DEF Stop, ContextCloses, NotSaved, pageVars, restVars, Begun
  <2> QED
    BY <2>1, SoundUntouched
<1>7. CASE StopGoesOn
  BY <1>7, SoundStopped
<1>8. CASE SessionStopped \/ AlreadySaved
  <2>1. /\ saved' /\ toPage' = <<>> /\ toWorklet' = <<>> /\ UNCHANGED <<heard, pushed>>
        /\ status' = "stopped"
    BY <1>8 DEF SessionStopped, AlreadySaved, Complete, Release, soundVars, restVars
  <2>2. Len(toPage') = 0 /\ Len(toWorklet') = 0
    BY <2>1
  <2> QED
    BY <2>1, <2>2 DEF SoundInv, Counters, Numbered, Fresh, Begun
<1>9. CASE PauseTimesOut \/ ResumeTimesOut \/ StopTimesOut
  <2>1. /\ UNCHANGED <<node, stopId, portVars, soundVars, pushed, saved>>
        /\ stopping' \in {stopping, "no"}
        /\ Begun => Begun'
    BY <1>9 DEF PauseTimesOut, ResumeTimesOut, StopTimesOut, StopFails, Begun
  <2> QED
    BY <2>1, SoundUntouched
<1>10. CASE FatalError
  <2>1. /\ UNCHANGED <<node, stopId, soundVars, pushed, saved>>
        /\ stopping' \in {stopping, "no"}
        /\ Begun'
    BY <1>10 DEF FatalError, Begun
  <2>2. CASE UNCHANGED portVars
    BY <2>1, <2>2, SoundUntouched
  <2>3. CASE status = "recording" /\ Control(TRUE) /\ UNCHANGED toPage
    <3>1. stopping' = "no"
      BY <2>1, <2>3 DEF Shape, Running
    <3> QED
      BY <2>1, <2>3, <3>1, SoundAsked
  <2> QED
    BY <1>10, <2>2, <2>3 DEF FatalError, BeginPause
<1>11. CASE UNCHANGED vars \/ Rest
  <2>1. UNCHANGED <<node, stopping, stopId, portVars, soundVars, pushed, saved>> /\ (Begun => Begun')
    BY <1>11 DEF Rest, vars, pageVars, taskVars, restVars, Begun
  <2> QED
    BY <2>1, SoundUntouched
<1> QED
  BY <1>1, <1>2, <1>3, <1>4, <1>5, <1>6, <1>7, <1>8, <1>9, <1>10, <1>11 DEF Next

LEMMA SoundIsAccounted == Spec => []SoundInv
<1>1. Init => SoundInv
  <2> SUFFICES ASSUME Init PROVE SoundInv
    OBVIOUS
  <2>1. Len(toPage) = 0 /\ Len(toWorklet) = 0
    BY DEF Init
  <2> QED
    BY <2>1 DEF Init, SoundInv, Counters, Numbered, Fresh, Accounted, Stopping
<1>2. RInv /\ SoundInv /\ [Next]_vars => SoundInv'
  BY SoundKept DEF RInv
<1>3. QED
  BY <1>1, <1>2, InvariantHolds, PTL DEF Spec

\* When a stop asks the client to save, everything the worklet took was handed over, whatever
\* pauses, resumes and stops were begun, answered late or given up before.
THEOREM AllSoundIsHandedOver == Spec => []NothingLeftBehind
<1>1. SoundInv => NothingLeftBehind
  BY DEF SoundInv, Stopping, Accounted, NothingLeftBehind
<1>2. QED
  BY <1>1, SoundIsAccounted, PTL

=============================================================================
