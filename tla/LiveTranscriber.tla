-------------------------- MODULE LiveTranscriber --------------------------
(***************************************************************************)
(* The live transcript of one epoch (hattama/live/transcriber.py) and the  *)
(* loop that feeds it and stores what it says (workers/live_asr.py).       *)
(*                                                                         *)
(* Sound is a script: words with their times, in tenths of a second. The   *)
(* recogniser and the voice detector are external: a word is heard right   *)
(* when it lies in the window with some sound after it, else it is heard   *)
(* wrong or not at all. The transcriber itself is a record and one pure    *)
(* operator, Step. Partial texts are shown and forgotten, so only the      *)
(* stable segments are kept.                                               *)
(***************************************************************************)
EXTENDS Integers, Sequences, FiniteSets, SequencesExt

CONSTANTS
  Scripts,      \* the recordings: sequences of words
  Chunks,       \* how much sound becomes durable between two ticks
  StepLen,      \* LiveConfig.step_s
  MinFirst,     \* min_first_window_s
  MaxWindow,    \* max_window_s
  PhraseEnd,    \* phrase_end_silence_s
  PauseSplit,   \* pause_split_s
  MaxUtterance, \* max_utterance_s
  MaxRead,      \* MAX_READ_S
  MaxFaults     \* bound: failures of the recogniser, of a transaction, restarts

MinBuffer     == 2   \* SR // 5
KeptSilence   == 5
SpeechPad     == 2
TailSlack     == 3
SentencePause == 6
SameStart     == 10

\* External: what the recogniser needs after a word, and the shortest sound
\* the voice detector takes for speech.
Context   == 3
MinSpeech == 2

Word == [id : Nat, start : Nat, end : Nat, stop : BOOLEAN, form : Nat]
Whole(w) == w.form = 0

\* Words that follow each other in time.
InOrder(ws) == \A k, l \in 1..Len(ws) : k < l => ws[k].end <= ws[l].start

ASSUME LiveAssumption ==
  /\ \A s \in Scripts :
       /\ s \in Seq(Word) /\ s # <<>> /\ InOrder(s)
       /\ \A i \in 1..Len(s) : Whole(s[i]) /\ s[i].end >= s[i].start + MinSpeech
  /\ Chunks \subseteq Nat \ {0}
  /\ {StepLen, MinFirst, MaxWindow, PhraseEnd, PauseSplit, MaxUtterance, MaxRead} \subseteq Nat
  /\ StepLen > 0 /\ PhraseEnd >= Context + TailSlack
  /\ MaxFaults \in 0..3

VARIABLES
  script,     \* what is said (never changes)
  durable,    \* SourceEpoch.durable_samples
  closed,     \* SourceEpoch.closed_at is set
  t,          \* the LiveTranscriber in the worker's memory
  segments,   \* the STABLE TranscriptSegments of the epoch
  checkpoint, \* SourceEpoch.live_processed_samples
  liveDone,   \* SourceEpoch.live_done
  faults      \* history: what went wrong

stored == <<segments, checkpoint, liveDone>>
vars   == <<script, durable, closed, t, stored, faults>>

Least(a, b)  == IF a < b THEN a ELSE b
Most(a, b)   == IF a < b THEN b ELSE a

\* The epoch ends some time after its last word.
Total == Last(script).end + Context + 1

Transcriber ==
  [from : Nat, to : Nat, committed : Nat, prev : Seq(Word), utterance : Seq(Word),
   fresh : Nat, forced : BOOLEAN]

\* A transcriber that starts at a position of the epoch.
Opened(pos) ==
  [from |-> pos, to |-> pos, committed |-> pos, prev |-> <<>>, utterance |-> <<>>,
   fresh |-> 0, forced |-> FALSE]

Init ==
  /\ script \in Scripts
  /\ durable = 0
  /\ closed = FALSE
  /\ t = Opened(0)
  /\ segments = <<>>
  /\ checkpoint = 0
  /\ liveDone = FALSE
  /\ faults = {}

-----------------------------------------------------------------------------
(* What the recogniser and the voice detector make of a window. *)

\* The part of a word in the window; cut or too close to the edge it is heard
\* wrong, in a way that depends on the window.
Heard(w, from, to) ==
  [w EXCEPT !.start = Most(@, from), !.end = Least(@, to),
            !.form = IF w.start >= from /\ w.end <= to - Context THEN 0 ELSE to]

\* [w for w in ws if w in good]
Keep(ws, good) ==
  LET kept[n \in 0..Len(ws)] ==
        IF n = 0 THEN <<>>
        ELSE IF ws[n] \in good THEN Append(kept[n - 1], ws[n]) ELSE kept[n - 1]
  IN  kept[Len(ws)]

InWindow(from, to) == Keep(script, {w \in ToSet(script) : w.end > from /\ w.start < to})

\* Words that are wrong at the far edge may also be missing.
Hypotheses(from, to) ==
  LET h == [i \in 1..Len(InWindow(from, to)) |-> Heard(InWindow(from, to)[i], from, to)]
  IN  {SubSeq(h, 1, n) : n \in {m \in 0..Len(h) : \A i \in m + 1..Len(h) : ~Whole(h[i])}}

\* Intervals of speech. (Neighbours that the detector would join stay apart.)
Speech(from, to) ==
  {iv \in {<<Most(w.start, from), Least(w.end, to)>> : w \in ToSet(InWindow(from, to))} :
     iv[2] - iv[1] >= MinSpeech}

-----------------------------------------------------------------------------
(* LiveTranscriber. *)

Push(x, to) == [x EXCEPT !.to = to, !.fresh = @ + to - x.to]

Ready(x) == x.fresh >= StepLen /\ x.to - x.from >= MinFirst

\* Mutant: the bounds of the cut are mixed up.
TrimToStart(x, pos) == [x EXCEPT !.from = Least(Least(pos, @), x.to)]

\* _trim_to
TrimTo(x, pos) == [x EXCEPT !.from = Least(Most(pos, @), x.to)]

\* _in_speech
InSpeech(w, speech) ==
  \E iv \in speech : w.end > iv[1] - SpeechPad /\ w.start < iv[2] + SpeechPad

\* _agree: the common prefix of two hypotheses.
SameWord(a, b) == a.id = b.id /\ a.form = b.form /\ a.start - b.start \in -SameStart..SameStart

Agreed(prev, hyp) ==
  LET Agree(n) == \A i \in 1..n : SameWord(prev[i], hyp[i])
  IN  SubSeq(hyp, 1, CHOOSE n \in 0..Least(Len(prev), Len(hyp)) :
                       Agree(n) /\ (n < Least(Len(prev), Len(hyp)) => ~Agree(n + 1)))

Gap(u, i) == u[i].start - u[i - 1].end

Unbridged(u) == \A k \in 2..Len(u) : Gap(u, k) < PauseSplit

\* Mutant: only pauses after a sentence end a segment.
PausesAfterSentences(u) == {i \in 2..Len(u) : u[i - 1].stop /\ Gap(u, i) >= SentencePause}

\* Where _split_utterance_if_needed must split ...
Pauses(u) == {i \in 2..Len(u) : \/ Gap(u, i) >= PauseSplit
                                \/ u[i - 1].stop /\ Gap(u, i) >= SentencePause}

\* ... and where it does: at the first pause, or at the widest gap (the last of
\* them) of an utterance that is too long.
SplitAt(u) ==
  IF Pauses(u) # {} THEN {CHOOSE i \in Pauses(u) : \A k \in Pauses(u) : i <= k}
  ELSE IF Last(u).end - Head(u).start > MaxUtterance
  THEN {i \in 2..Len(u) : \A k \in 2..Len(u) :
          Gap(u, k) < Gap(u, i) \/ (Gap(u, k) = Gap(u, i) /\ k <= i)}
  ELSE {}

\* A round of the loop cuts the last piece, if there is a reason to.
CutLast(ps) ==
  LET u == Last(ps)
      i == CHOOSE k \in SplitAt(u) : TRUE
  IN  IF u = <<>> \/ SplitAt(u) = {} THEN ps
      ELSE Front(ps) \o <<SubSeq(u, 1, i - 1), SubSeq(u, i, Len(u))>>

\* The pieces of an utterance; all but the last are finished.
Pieces(u) ==
  LET round[n \in 0..Len(u)] == IF n = 0 THEN <<u>> ELSE CutLast(round[n - 1])
  IN  round[Len(u)]

\* _stable_from: the reasons go to the first segment that is made.
Segment == [words : Seq(Word), forced : BOOLEAN]

Stable(ws, forced) == [words |-> ws, forced |-> forced]

\* _split_utterance_if_needed and, if asked, _close_utterance.
Emit(x, close) ==
  LET ps    == Pieces(x.utterance)
      ready == IF close /\ Last(ps) # <<>> THEN ps ELSE Front(ps)
  IN  [t   |-> [x EXCEPT !.utterance = IF close THEN <<>> ELSE Last(ps),
                         !.forced = @ /\ ready = <<>>],
       out |-> [i \in 1..Len(ready) |-> Stable(ready[i], x.forced /\ i = 1)]]

Commit(x, ws) ==
  [x EXCEPT !.utterance = @ \o ws,
            !.committed = IF ws = <<>> THEN @ ELSE Most(@, Last(ws).end)]

\* Nothing to recognise: close a phrase that ended and drop old silence.
Quiet(x) == x.prev = <<>> /\ \A iv \in Speech(x.from, x.to) : iv[2] <= x.committed

\* Mutant: all the silence is dropped.
DropAllSilence(x, final) ==
  LET over == x.utterance # <<>> /\ x.to - Last(x.utterance).end >= PhraseEnd
      r    == Emit(x, final \/ over)
  IN  [r EXCEPT !.t = TrimTo(@, x.to)]

DropSilence(x, final) ==
  LET over == x.utterance # <<>> /\ x.to - Last(x.utterance).end >= PhraseEnd
      r    == Emit(x, final \/ over)
  IN  [r EXCEPT !.t = TrimTo(@, Most(x.committed, x.to - KeptSilence))]

\* The words of a hypothesis that are speech and not committed yet (the margin
\* of 0.02 s is below the resolution of the model).
NewWords(x, heard) ==
  Keep(heard, {w \in ToSet(heard) : InSpeech(w, Speech(x.from, x.to)) /\ w.end > x.committed})

\* Did the phrase end, and up to where is its rest committed?
SpeechEnd(x) == {iv[2] : iv \in Speech(x.from, x.to)}

PhraseFinished(x) == SpeechEnd(x) # {} /\ \A e \in SpeechEnd(x) : x.to - e >= PhraseEnd

TailEnd(x, final) ==
  IF final THEN x.to ELSE (CHOOSE e \in SpeechEnd(x) : \A f \in SpeechEnd(x) : f <= e) + TailSlack

\* What is committed now: what two windows agree on, the rest of a finished
\* phrase, or everything if a window that is too long brought nothing.
Decide(x, heard, final) ==
  LET hyp    == NewWords(x, heard)
      agreed == Agreed(x.prev, hyp)
      rest   == SubSeq(hyp, Len(agreed) + 1, Len(hyp))
      tail   == IF final \/ PhraseFinished(x)
                THEN Keep(rest, {w \in ToSet(rest) : w.end <= TailEnd(x, final)}) ELSE <<>>
      now    == agreed \o tail
      forced == now = <<>> /\ x.to - x.from > MaxWindow /\ rest # <<>>
  IN  [now    |-> IF forced THEN rest ELSE now,
       rest   |-> IF forced THEN <<>> ELSE SubSeq(rest, Len(tail) + 1, Len(rest)),
       forced |-> forced]

Recognise(x, heard, final) ==
  LET d     == Decide(x, heard, final)
      all   == IF final THEN d.now \o d.rest ELSE d.now
      y     == [Commit(x, all) EXCEPT !.prev = IF final THEN <<>> ELSE d.rest,
                                      !.forced = @ \/ d.forced]
      r     == Emit(y, final \/ (PhraseFinished(x) /\ d.rest = <<>>))
  IN  [r EXCEPT !.t = IF x.to - x.from > MaxWindow THEN TrimTo(@, r.t.committed) ELSE @]

\* step: a recognition pass; the last one commits all that is left.
Calls(x) == x.to - x.from >= MinBuffer /\ ~Quiet(x)

Step(x, heard, final) ==
  LET y == [x EXCEPT !.fresh = 0]
  IN  IF x.to - x.from < MinBuffer THEN Emit(y, final)
      ELSE IF Quiet(x) THEN DropSilence(y, final)
      ELSE Recognise(y, heard, final)

-----------------------------------------------------------------------------
(* LiveAsrLoop.tick: read what became durable, step, store. *)

\* Sound that was made durable since the last tick (nobody else looks at it).
Arrived(n) == Least(durable + n, Total)

Read(n) == Push(t, Least(Arrived(n), t.to + MaxRead))

CaughtUp(n) == closed /\ Read(n).to = Arrived(n)
Due(n)      == CaughtUp(n) \/ Ready(Read(n))

\* A tick that has something to do, before the stream is closed for good.
Ticks(n) ==
  /\ ~liveDone
  /\ n = 0 => closed \/ t.to < durable
  /\ n > 0 => durable < Total
  /\ durable' = Arrived(n)

Results(n) == {Step(Read(n), h, CaughtUp(n)) : h \in Hypotheses(Read(n).from, Read(n).to)}

\* Mutant: the checkpoint is the start of the window.
WriteWindow(r, n) ==
  /\ segments'   = segments \o r.out
  /\ checkpoint' = r.t.from
  /\ liveDone'   = CaughtUp(n)

\* _write: segments, checkpoint and the end of the stream in one transaction.
Write(r, n) ==
  /\ segments'   = segments \o r.out
  /\ checkpoint' = r.t.committed
  /\ liveDone'   = CaughtUp(n)

\* Without a text to show, a tick writes only if the metrics are due.
Silent(r, n) ==
  /\ r.out = <<>>
  /\ ~CaughtUp(n)
  /\ Calls(Read(n)) => r.t.utterance \o r.t.prev = <<>>

\* History: a forced commit among the results of a step.
Forced(r) == IF r.t.forced \/ \E i \in 1..Len(r.out) : r.out[i].forced THEN {"forced"} ELSE {}

MayFail(fault) == fault \notin faults /\ Cardinality(faults \ {"forced"}) < MaxFaults

Note(fault) == faults' = faults \cup fault

TickStep(n) ==
  /\ Ticks(n)
  /\ Due(n)
  /\ \E r \in Results(n) :
       /\ t' = r.t
       /\ Write(r, n) \/ (Silent(r, n) /\ UNCHANGED stored)
       /\ Note(Forced(r))
  /\ UNCHANGED <<script, closed>>

\* Not enough new sound; the metrics are written from time to time.
TickIdle(n) ==
  /\ Ticks(n)
  /\ ~Due(n)
  /\ t' = Read(n)
  /\ checkpoint' \in {checkpoint, t.committed}
  /\ UNCHANGED <<script, closed, segments, liveDone, faults>>

\* The recogniser fails: asr_worker.run logs it and goes on with the same
\* stream; the sound stays in the window.
AsrFails(n) ==
  /\ MayFail("asr")
  /\ Ticks(n)
  /\ Due(n)
  /\ Calls(Read(n))
  /\ t' = [Read(n) EXCEPT !.fresh = 0]
  /\ Note({"asr"})
  /\ UNCHANGED <<script, closed, stored>>

\* The transaction fails: the transcriber has moved on, its output is lost.
WriteFails(n) ==
  /\ MayFail("write")
  /\ Ticks(n)
  /\ Due(n)
  /\ \E r \in Results(n) : t' = r.t /\ Note({"write"} \cup Forced(r))
  /\ UNCHANGED <<script, closed, stored>>

\* The worker starts again: _open_stream resumes at the checkpoint.
Restart ==
  /\ MayFail("crash")
  /\ ~liveDone
  /\ t' = Opened(checkpoint)
  /\ Note({"crash"})
  /\ UNCHANGED <<script, durable, closed, stored>>

CloseEpoch ==
  /\ durable = Total
  /\ ~closed
  /\ closed' = TRUE
  /\ UNCHANGED <<script, durable, t, stored, faults>>

Next ==
  \/ \E n \in Chunks \cup {0} : TickStep(n) \/ TickIdle(n) \/ AsrFails(n) \/ WriteFails(n)
  \/ Restart
  \/ CloseEpoch

Spec == Init /\ [][Next]_vars

-----------------------------------------------------------------------------
(* Properties. *)

\* The runs of words in some segments, and the words of some runs.
Texts(segs) == [i \in 1..Len(segs) |-> segs[i].words]
WordsOf(ss) == UNION {ToSet(ss[i]) : i \in 1..Len(ss)}

Earlier(V, W) == \A v \in V, w \in W : v.end <= w.start

\* Runs of words that follow each other.
Consecutive(ss) ==
  /\ \A i \in 1..Len(ss) : InOrder(ss[i])
  /\ \A i, j \in 1..Len(ss) : i < j => Earlier(ToSet(ss[i]), ToSet(ss[j]))

\* Every variable has its type.
TypeOK ==
  /\ script \in Scripts
  /\ t \in Transcriber
  /\ {durable, checkpoint, t.from, t.to, t.committed, t.fresh} \subseteq 0..Total
  /\ {closed, liveDone} \subseteq BOOLEAN
  /\ segments \in Seq(Segment)
  /\ faults \subseteq {"forced", "asr", "write", "crash"}

\* Whatever the chunks, cuts, wrong hypotheses and failures of the recogniser,
\* every word is committed once, in order, with its own times
\* (test_every_word_committed_once_in_order_without_seam_duplicates).
OnceInOrder ==
  faults \subseteq {"asr"} =>
    /\ Consecutive(Texts(segments) \o <<t.utterance>>)
    /\ WordsOf(Texts(segments) \o <<t.utterance>>) = {w \in ToSet(script) : w.end <= t.committed}
    /\ liveDone => WordsOf(Texts(segments)) = ToSet(script)

\* A restart and a lost transaction may leave words out of the live transcript,
\* but never repeat one or store one that was heard wrong.
NothingTwice ==
  "forced" \notin faults =>
    /\ Consecutive(Texts(segments))
    /\ WordsOf(Texts(segments)) \subseteq ToSet(script)

\* No segment bridges a long pause (test_utterances_split_at_pause...).
NoBridgedPause ==
  \A i \in 1..Len(segments) : Unbridged(segments[i].words)

\* The window does not grow with the meeting: it is cut at the committed point,
\* which follows the speech with a delay of at most two passes (three if one of
\* them failed).
WindowBounded ==
  t.to - t.from <= MaxWindow + (IF "asr" \in faults THEN 3 ELSE 2) * StepLen
=============================================================================
