------------------------------ MODULE FinalPass ------------------------------
(***************************************************************************)
(* The final transcript of one meeting: the pass of a speech worker over   *)
(* the whole recording, which writes a revision chunk by chunk, and the    *)
(* diarization that follows it, which names speakers and makes the         *)
(* revision the active one, while a person may already edit.               *)
(*                                                                         *)
(* Workers crash and come back under another name; a lease lapses when its *)
(* holder is gone, or when a living worker is held up (a computer that     *)
(* sleeps), which the model remembers in stalled.  A chunk stands for the  *)
(* rows written for it; sources of sound and texts are left out.           *)
(***************************************************************************)
EXTENDS Naturals, Sequences

CONSTANTS
  Workers,      \* speech workers
  None,         \* no worker
  Gone,         \* a worker that crashed
  Chunks,       \* chunks of the recording
  MaxAttempts,  \* Job.max_attempts
  MaxFaults     \* bound: crashes, faults and lapsed leases of the living

ASSUME FinalPassAssumption ==
  /\ {None, Gone} \cap Workers = {} /\ None # Gone
  /\ Chunks \in Nat \ {0} /\ MaxAttempts \in Nat \ {0} /\ MaxFaults \in Nat

VARIABLES
  pass,      \* the job final_asr: its state, owner, attempts, and whether its lease lapsed
  lock,      \* holder of the lock "heavy", and whether its time to live is over
  phase,     \* what a speech worker does next
  at,        \* the chunk it transcribes next
  status,    \* TranscriptRevision.status of the job's revision, "none" before it exists
  rows,      \* chunks of the stored segments, in the order they were stored
  diarize,   \* the job diarize: its state and attempts, and whether the worker still owns it
  dPhase,    \* what the pipeline worker does next
  speakers,  \* how often the speakers of the sources were added
  speakerOf, \* who named the speaker of a chunk's segments last: nobody, a pass or a person
  edited,    \* chunks with a text edited by a person
  active,    \* Meeting.active_transcript_revision_id: none, that of an earlier recording, or this one
  priorEdits, \* the revision that the page shows before this one has a segment edited by a person
  faults,    \* crashes, faults and lapsed leases of the living so far
  stalled    \* a living worker has lost its lease

passVars == <<pass, lock, phase, at, status, rows>>
diarVars == <<diarize, dPhase, speakers>>
editVars == <<speakerOf, edited, active, priorEdits>>
vars     == <<passVars, diarVars, editVars, faults, stalled>>

AllChunks == 1..Chunks

Init ==
  /\ pass = [state |-> "queued", owner |-> None, attempts |-> 0, lapsed |-> FALSE]
  /\ lock = [holder |-> None, lapsed |-> FALSE]
  /\ phase = [w \in Workers |-> "idle"]
  /\ at = [w \in Workers |-> 1]
  /\ status = "none" /\ rows = <<>>
  /\ diarize = [state |-> "absent", attempts |-> 0, owned |-> FALSE]
  /\ dPhase = "idle" /\ speakers = 0
  /\ speakerOf = [c \in AllChunks |-> "nobody"]
  /\ edited = {} /\ active \in {"none", "earlier"} /\ priorEdits = FALSE
  /\ faults = 0 /\ stalled = FALSE

Goes(w, from, to) == phase[w] = from /\ phase' = [phase EXCEPT ![w] = to]

Owns(w) == pass.state = "running" /\ pass.owner = w

\* a row that carries the job back to the queue, or ends it when its attempts are used up
Requeued(job) == IF job.attempts < MaxAttempts THEN "queued" ELSE "failed"

-----------------------------------------------------------------------------
(* The pass of a speech worker. *)

Claim(w) ==
  /\ pass.state = "queued"
  /\ Goes(w, "idle", "claimed")
  /\ pass' = [state |-> "running", owner |-> w, attempts |-> pass.attempts + 1, lapsed |-> FALSE]
  /\ UNCHANGED <<lock, at, status, rows, diarVars, editVars, faults, stalled>>

LockFree(w) == lock.holder \in {None, w} \/ lock.lapsed

EnterLock(w) ==
  /\ LockFree(w)
  /\ Goes(w, "claimed", "locked")
  /\ lock' = [holder |-> w, lapsed |-> FALSE]
  /\ UNCHANGED <<pass, at, status, rows, diarVars, editVars, faults, stalled>>

\* fail of a job that may be tried again, which only its owner can report
FailRetryable(w) ==
  pass' = IF Owns(w) THEN [pass EXCEPT !.state = Requeued(pass), !.owner = None] ELSE pass

\* Mutant: an attempt that finds the lock busy is not counted.
LockBusyUncounted(w) ==
  /\ ~LockFree(w)
  /\ Goes(w, "claimed", "idle")
  /\ pass' = IF Owns(w) THEN [pass EXCEPT !.state = "queued", !.owner = None, !.attempts = @ - 1] ELSE pass
  /\ UNCHANGED <<lock, at, status, rows, diarVars, editVars, faults, stalled>>

LockBusy(w) ==
  /\ ~LockFree(w)
  /\ Goes(w, "claimed", "idle")
  /\ FailRetryable(w)
  /\ UNCHANGED <<lock, at, status, rows, diarVars, editVars, faults, stalled>>

\* Mutant: every attempt writes the revision anew.
BeginAnew(w) ==
  /\ at' = [at EXCEPT ![w] = 1]
  /\ Goes(w, "locked", "chunks")
  /\ status' = "building" /\ rows' = <<>>
  /\ UNCHANGED <<pass, lock, diarVars, editVars, faults, stalled>>

\* a complete revision is used again; an unfinished one loses its segments
Begin(w) ==
  /\ at' = [at EXCEPT ![w] = 1]
  /\ \/ /\ status = "complete"
        /\ Goes(w, "locked", "completed")
        /\ UNCHANGED <<status, rows>>
     \/ /\ status # "complete"
        /\ Goes(w, "locked", "chunks")
        /\ status' = "building" /\ rows' = <<>>
  /\ UNCHANGED <<pass, lock, diarVars, editVars, faults, stalled>>

\* Mutant: a worker that has lost the job stores its chunk nevertheless.
StoreChunkUnowned(w) ==
  /\ at[w] <= Chunks
  /\ Goes(w, "chunks", IF Owns(w) THEN "chunks" ELSE "cancelled")
  /\ rows' = Append(rows, at[w])
  /\ at' = [at EXCEPT ![w] = @ + 1]
  /\ pass' = IF Owns(w) THEN [pass EXCEPT !.lapsed = FALSE] ELSE pass
  /\ UNCHANGED <<lock, status, diarVars, editVars, faults, stalled>>

\* the segments of a chunk and the heartbeat are one transaction, undone when the job is not owned
StoreChunk(w) ==
  /\ at[w] <= Chunks
  /\ \/ /\ Owns(w)
        /\ Goes(w, "chunks", "chunks")
        /\ rows' = Append(rows, at[w])
        /\ at' = [at EXCEPT ![w] = @ + 1]
        /\ pass' = [pass EXCEPT !.lapsed = FALSE]
     \/ /\ ~Owns(w)
        /\ Goes(w, "chunks", "cancelled")
        /\ UNCHANGED <<rows, at, pass>>
  /\ UNCHANGED <<lock, status, diarVars, editVars, faults, stalled>>

\* Mutant: the last chunk is left out.
MarkCompleteEarly(w) ==
  /\ at[w] >= Chunks
  /\ Goes(w, "chunks", "completed")
  /\ status' = "complete"
  /\ UNCHANGED <<pass, lock, at, rows, diarVars, editVars, faults, stalled>>

MarkComplete(w) ==
  /\ at[w] > Chunks
  /\ Goes(w, "chunks", "completed")
  /\ status' = "complete"
  /\ UNCHANGED <<pass, lock, at, rows, diarVars, editVars, faults, stalled>>

\* the speech model cannot be loaded: found out after the revision was begun
ModelMissing(w) ==
  /\ at[w] = 1 /\ faults < MaxFaults
  /\ Goes(w, "chunks", "unavailable")
  /\ faults' = faults + 1
  /\ UNCHANGED <<pass, lock, at, status, rows, diarVars, editVars, stalled>>

\* an exception of another kind leaves the job to its lease
Fault(w) ==
  /\ faults < MaxFaults
  /\ Goes(w, "chunks", "faulty")
  /\ faults' = faults + 1
  /\ UNCHANGED <<pass, lock, at, status, rows, diarVars, editVars, stalled>>

Released(w) == IF lock.holder = w THEN [holder |-> None, lapsed |-> FALSE] ELSE lock

\* the lock is given back however the pass ended
Unlock(w) ==
  /\ \/ Goes(w, "completed", "reporting")
     \/ Goes(w, "cancelled", "refusing")
     \/ Goes(w, "unavailable", "failing")
     \/ Goes(w, "faulty", "idle")
  /\ lock' = Released(w)
  /\ UNCHANGED <<pass, at, status, rows, diarVars, editVars, faults, stalled>>

\* the job ends if it is still owned; the next job is queued in either case, once
Report(w) ==
  /\ Goes(w, "reporting", "idle")
  /\ pass' = IF Owns(w) THEN [pass EXCEPT !.state = "succeeded", !.owner = None] ELSE pass
  /\ diarize' = IF diarize.state = "absent" THEN [diarize EXCEPT !.state = "queued"] ELSE diarize
  /\ UNCHANGED <<lock, at, status, rows, dPhase, speakers, editVars, faults, stalled>>

ReportCancelled(w) ==
  /\ Goes(w, "refusing", "idle")
  /\ pass' = IF Owns(w) THEN [pass EXCEPT !.state = "failed", !.owner = None] ELSE pass
  /\ UNCHANGED <<lock, at, status, rows, diarVars, editVars, faults, stalled>>

ReportUnavailable(w) ==
  /\ Goes(w, "failing", "idle")
  /\ FailRetryable(w)
  /\ UNCHANGED <<lock, at, status, rows, diarVars, editVars, faults, stalled>>

\* the process ends and another one starts
Crash(w) ==
  /\ faults < MaxFaults /\ phase[w] # "idle"
  /\ faults' = faults + 1
  /\ phase' = [phase EXCEPT ![w] = "idle"]
  /\ pass' = IF Owns(w) THEN [pass EXCEPT !.owner = Gone] ELSE pass
  /\ lock' = IF lock.holder = w THEN [lock EXCEPT !.holder = Gone] ELSE lock
  /\ UNCHANGED <<at, status, rows, diarVars, editVars, stalled>>

-----------------------------------------------------------------------------
(* Time. *)

\* nobody prolongs the lease: the worker is gone, or its pass has ended in a fault
Orphaned == pass.owner = Gone \/ (pass.owner \in Workers /\ phase[pass.owner] = "idle")

LeaseLapses ==
  /\ pass.state = "running" /\ ~pass.lapsed /\ Orphaned
  /\ pass' = [pass EXCEPT !.lapsed = TRUE]
  /\ UNCHANGED <<lock, phase, at, status, rows, diarVars, editVars, faults, stalled>>

\* a living worker is held up for longer than its lease
LeaseLost ==
  /\ pass.state = "running" /\ ~pass.lapsed /\ ~Orphaned /\ faults < MaxFaults
  /\ pass' = [pass EXCEPT !.lapsed = TRUE]
  /\ faults' = faults + 1 /\ stalled' = TRUE
  /\ UNCHANGED <<lock, phase, at, status, rows, diarVars, editVars>>

LockLapses ==
  /\ lock.holder # None /\ ~lock.lapsed
  /\ lock' = [lock EXCEPT !.lapsed = TRUE]
  /\ UNCHANGED <<pass, phase, at, status, rows, diarVars, editVars, faults, stalled>>

Recover ==
  /\ pass.state = "running" /\ pass.lapsed
  /\ pass' = [pass EXCEPT !.state = Requeued(pass), !.owner = None]
  /\ UNCHANGED <<lock, phase, at, status, rows, diarVars, editVars, faults, stalled>>

-----------------------------------------------------------------------------
(* The diarization, by the one pipeline worker. *)

DGoes(from, to) == dPhase = from /\ dPhase' = to

DClaim ==
  /\ diarize.state = "queued"
  /\ DGoes("idle", "speakers")
  /\ diarize' = [state |-> "running", attempts |-> diarize.attempts + 1, owned |-> TRUE]
  /\ UNCHANGED <<passVars, speakers, editVars, faults, stalled>>

Stored == {rows[i] : i \in DOMAIN rows}

\* every stored segment gets the speaker of its source, or of the turn it overlaps most
NameSpeakers ==
  /\ speakerOf' = [c \in AllChunks |-> IF c \in Stored THEN "pass" ELSE speakerOf[c]]
  /\ speakers' = speakers + 1

NameBySource ==
  /\ DGoes("speakers", "turns")
  /\ NameSpeakers
  /\ UNCHANGED <<passVars, diarize, edited, active, priorEdits, faults, stalled>>

\* the turns of the diarization model, when it is installed
NameByTurns ==
  /\ DGoes("turns", "activate")
  /\ \/ NameSpeakers
     \/ UNCHANGED <<speakerOf, speakers>>
  /\ UNCHANGED <<passVars, diarize, edited, active, priorEdits, faults, stalled>>

\* asked of the active revision alone: the live one, which the page shows when there is none, is not
EditsInTheWay == active = "earlier" /\ priorEdits

\* the revision becomes the active one, unless an active one was edited; the extraction is queued
Activate ==
  /\ DGoes("activate", "report")
  /\ active' = IF EditsInTheWay THEN active ELSE "final"
  /\ UNCHANGED <<passVars, diarize, speakers, speakerOf, edited, priorEdits, faults, stalled>>

DReport ==
  /\ DGoes("report", "idle")
  /\ diarize' = IF diarize.owned THEN [diarize EXCEPT !.state = "succeeded", !.owned = FALSE]
                ELSE diarize
  /\ UNCHANGED <<passVars, speakers, editVars, faults, stalled>>

\* an exception, or a crash and the lease that lapses after it: the stage is repeated from its start
DFault ==
  /\ faults < MaxFaults
  /\ dPhase \in {"speakers", "turns", "activate", "report"}
  /\ dPhase' = "idle"
  /\ diarize' = IF diarize.owned THEN [diarize EXCEPT !.state = Requeued(diarize), !.owned = FALSE]
                ELSE diarize
  /\ faults' = faults + 1
  /\ UNCHANGED <<passVars, speakers, editVars, stalled>>

\* the lease of half an hour has no heartbeat: a long stage outlives it and is queued again
DLeaseLost ==
  /\ diarize.owned /\ faults < MaxFaults
  /\ diarize' = [diarize EXCEPT !.state = Requeued(diarize), !.owned = FALSE]
  /\ faults' = faults + 1
  /\ UNCHANGED <<passVars, dPhase, speakers, editVars, stalled>>

-----------------------------------------------------------------------------
(* The secretary edits the transcript on the page: the active revision, or *)
(* the live one as long as none is active.                                 *)

EditPrior ==
  /\ active # "final" /\ ~priorEdits
  /\ priorEdits' = TRUE
  /\ UNCHANGED <<passVars, diarVars, speakerOf, edited, active, faults, stalled>>

EditText(c) ==
  /\ active = "final" /\ c \in Stored \ edited
  /\ edited' = edited \cup {c}
  /\ UNCHANGED <<passVars, diarVars, speakerOf, active, priorEdits, faults, stalled>>

EditSpeaker(c) ==
  /\ active = "final" /\ c \in Stored /\ speakerOf[c] # "person"
  /\ speakerOf' = [speakerOf EXCEPT ![c] = "person"]
  /\ UNCHANGED <<passVars, diarVars, edited, active, priorEdits, faults, stalled>>

\* bind_speaker: all segments of a speaker are given to a participant, or to another speaker
BindSpeaker(cs) ==
  /\ active = "final" /\ cs \subseteq Stored
  /\ \E c \in cs : speakerOf[c] # "person"
  /\ speakerOf' = [c \in AllChunks |-> IF c \in cs THEN "person" ELSE speakerOf[c]]
  /\ UNCHANGED <<passVars, diarVars, edited, active, priorEdits, faults, stalled>>

-----------------------------------------------------------------------------
WorkerStep(w) ==
  \/ Claim(w) \/ EnterLock(w) \/ LockBusy(w) \/ Begin(w) \/ StoreChunk(w) \/ MarkComplete(w)
  \/ Unlock(w) \/ Report(w) \/ ReportCancelled(w) \/ ReportUnavailable(w)

PipelineStep == DClaim \/ NameBySource \/ NameByTurns \/ Activate \/ DReport

Trouble == LeaseLost \/ DFault \/ DLeaseLost
           \/ \E w \in Workers : ModelMissing(w) \/ Fault(w) \/ Crash(w)

Edit == \/ EditPrior
        \/ \E c \in AllChunks : EditText(c) \/ EditSpeaker(c)
        \/ \E cs \in SUBSET AllChunks : BindSpeaker(cs)

Ended == {"succeeded", "failed"}

Settled == /\ pass.state \in Ended /\ diarize.state \in Ended \cup {"absent"}
           /\ \A w \in Workers : phase[w] = "idle"
           /\ dPhase = "idle"

Rest == Settled /\ UNCHANGED vars

Next ==
  \/ \E w \in Workers : WorkerStep(w)
  \/ LeaseLapses \/ LockLapses \/ Recover
  \/ PipelineStep \/ Trouble \/ Edit \/ Rest

\* living workers go on, time passes, and recover_expired is called by either worker
Fairness ==
  /\ \A w \in Workers : WF_vars(WorkerStep(w))
  /\ WF_vars(LeaseLapses) /\ WF_vars(Recover) /\ WF_vars(PipelineStep)

Spec == Init /\ [][Next]_vars /\ Fairness

-----------------------------------------------------------------------------
(* Correctness. *)

(* The variables have the declared shape. *)
TypeOK ==
  /\ pass.state \in Ended \cup {"queued", "running"}
  /\ pass.owner \in Workers \cup {None, Gone} /\ pass.attempts \in 0..MaxAttempts
  /\ pass.owner = None <=> pass.state # "running"
  /\ lock.holder \in Workers \cup {None, Gone}
  /\ at \in [Workers -> 1..Chunks + 1]
  /\ status \in {"none", "building", "complete"}
  /\ Stored \subseteq AllChunks /\ edited \subseteq AllChunks
  /\ speakerOf \in [AllChunks -> {"nobody", "pass", "person"}]
  /\ diarize.state \in Ended \cup {"absent", "queued", "running"}
  /\ diarize.attempts \in 0..MaxAttempts
  /\ active \in {"none", "earlier", "final"} /\ priorEdits \in BOOLEAN

(* final_asr.py:4, :197-211: whatever leases are lost, a revision never holds a chunk twice, nor an *)
(* earlier chunk behind a later one: what a worker without the job stores is undone.                *)
NoChunkTwice == \A i, j \in DOMAIN rows : i < j => rows[i] < rows[j]

(* final_asr.py:214-224: as long as only the leases of crashed workers lapse, a revision that is    *)
(* marked complete, and one that is diarized or shown, holds every chunk.                           *)
CompleteIsWhole ==
  (~stalled /\ (status = "complete" \/ diarize.state # "absent" \/ active = "final"))
    => Stored = AllChunks

(* stages.py:118-137: neither a late or repeated pass nor its activation discards a text that a     *)
(* person edited in a final revision, or hides it behind another.  (The edits of the live revision  *)
(* are hidden by the first activation.)                                                             *)
EditedTextStays ==
  [][/\ edited \subseteq edited'
     /\ edited \subseteq Stored'
     /\ active = "final" \/ (active = "earlier" /\ priorEdits) => active' = active]_vars

(* The pass and the diarization end, one way or the other, for every crash and fault.               *)
PassEnds == <>Settled
===============================================================================
