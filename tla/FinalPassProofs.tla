-------------------------- MODULE FinalPassProofs --------------------------
(***************************************************************************)
(* Proofs about FinalPass, for any workers, chunks and faults.             *)
(*                                                                         *)
(* NoChunkTwice is not inductive: that a stored chunk follows all others   *)
(* needs that the worker that owns the job stands behind every stored      *)
(* chunk, whoever wrote it (Written).  EditedTextStays is about steps; it  *)
(* rests on the chain that leads from a complete revision over its         *)
(* diarization to an edit (Chain): what an edit can reach is complete, and *)
(* a complete revision is not emptied.  CompleteIsWhole needs, besides the *)
(* chain, that while no living worker was held up every worker at work     *)
(* owns the job, so that only one writes (Alone).                          *)
(***************************************************************************)
EXTENDS FinalPass, TLAPS

Phases == {"idle", "claimed", "locked", "chunks", "completed", "cancelled", "unavailable", "faulty",
           "reporting", "refusing", "failing"}

\* the types the argument needs
Shape ==
  /\ pass \in [state : Ended \cup {"queued", "running"}, owner : Workers \cup {None, Gone},
               attempts : Nat, lapsed : BOOLEAN]
  /\ phase \in [Workers -> Phases]
  /\ at \in [Workers -> Nat]
  /\ rows \in Seq(Nat)

\* the worker that owns the job stands behind every stored chunk
Written ==
  \A w \in Workers :
    Owns(w) /\ phase[w] = "chunks" => \A i \in DOMAIN rows : rows[i] < at[w]

WrittenInv == Shape /\ Written /\ NoChunkTwice

-----------------------------------------------------------------------------
\* an ascending sequence stays one when something larger is appended
LEMMA AppendAscends ==
  ASSUME NEW s \in Seq(Nat), NEW c \in Nat,
         \A i, j \in DOMAIN s : i < j => s[i] < s[j],
         \A i \in DOMAIN s : s[i] < c
  PROVE  /\ \A i, j \in DOMAIN Append(s, c) : i < j => Append(s, c)[i] < Append(s, c)[j]
         /\ \A i \in DOMAIN Append(s, c) : Append(s, c)[i] < c + 1
<1>1. /\ Append(s, c) \in Seq(Nat)
      /\ DOMAIN Append(s, c) = 1..Len(s) + 1
      /\ Append(s, c)[Len(s) + 1] = c
      /\ \A i \in 1..Len(s) : Append(s, c)[i] = s[i]
  OBVIOUS
<1>2. DOMAIN s = 1..Len(s) /\ Len(s) \in Nat /\ \A i \in DOMAIN s : s[i] \in Nat
  OBVIOUS
<1>3. ASSUME NEW i \in DOMAIN Append(s, c)
      PROVE  Append(s, c)[i] < c + 1
  <2>1. CASE i = Len(s) + 1
    BY <1>1, <2>1
  <2>2. CASE i \in 1..Len(s)
    BY <1>1, <1>2, <2>2
  <2>3. QED
    BY <1>1, <1>2, <2>1, <2>2
<1>4. ASSUME NEW i \in DOMAIN Append(s, c), NEW j \in DOMAIN Append(s, c), i < j
      PROVE  Append(s, c)[i] < Append(s, c)[j]
  <2>1. i \in 1..Len(s)
    BY <1>1, <1>2, <1>4
  <2>2. CASE j = Len(s) + 1
    BY <1>1, <1>2, <2>1, <2>2
  <2>3. CASE j \in 1..Len(s)
    BY <1>1, <1>2, <1>4, <2>1, <2>3
  <2>4. QED
    BY <1>1, <1>2, <2>2, <2>3
<1>5. QED
  BY <1>3, <1>4

\* A step that leaves the rows alone, and brings no worker behind them, keeps them in order.
LEMMA RowsUntouched ==
  ASSUME WrittenInv, Shape', UNCHANGED <<rows, at>>,
         \A w \in Workers : Owns(w)' /\ phase'[w] = "chunks" => Owns(w) /\ phase[w] = "chunks"
  PROVE  WrittenInv'
<1>1. Written'
  BY DEF WrittenInv, Written
<1>2. NoChunkTwice'
  BY DEF WrittenInv, NoChunkTwice
<1>3. QED
  BY <1>1, <1>2 DEF WrittenInv

LEMMA WrittenStep ==
  ASSUME WrittenInv, [Next]_vars
  PROVE  WrittenInv'
<1> USE FinalPassAssumption DEF Goes, Owns, Shape, Phases, Ended
<1>s. Shape
  BY DEF WrittenInv
<1>1. ASSUME NEW w \in Workers, Claim(w) PROVE WrittenInv'
  <2>1. Shape' /\ UNCHANGED <<rows, at>>
    BY <1>s, <1>1 DEF Claim
  <2>2. ASSUME NEW v \in Workers, Owns(v)', phase'[v] = "chunks" PROVE FALSE
    BY <1>s, <1>1, <2>2 DEF Claim
  <2>3. QED
    BY <2>1, <2>2, RowsUntouched
<1>2. ASSUME NEW w \in Workers, EnterLock(w) PROVE WrittenInv'
  BY <1>s, <1>2, RowsUntouched DEF EnterLock
<1>3. ASSUME NEW w \in Workers, LockBusy(w) PROVE WrittenInv'
  BY <1>s, <1>3, RowsUntouched DEF LockBusy, FailRetryable, Requeued
<1>4. ASSUME NEW w \in Workers, Begin(w) PROVE WrittenInv'
  <2>1. Shape'
    <3>1. UNCHANGED pass /\ at' \in [Workers -> Nat]
      BY <1>s, <1>4 DEF Begin
    <3>2. phase' \in [Workers -> Phases]
      BY <1>s, <1>4 DEF Begin
    <3>3. rows' \in Seq(Nat)
      <4>1. rows' = rows \/ rows' = <<>>
        BY <1>4 DEF Begin
      <4>2. <<>> \in Seq(Nat)
        OBVIOUS
      <4>3. QED
        BY <1>s, <4>1, <4>2
    <3>4. QED
      BY <1>s, <3>1, <3>2, <3>3
  <2>2. CASE rows' = <<>>
    BY <2>1, <2>2 DEF WrittenInv, Written, NoChunkTwice
  <2>3. CASE phase' = [phase EXCEPT ![w] = "completed"] /\ UNCHANGED rows
    <3>1. Written'
      BY <1>s, <1>4, <2>3 DEF WrittenInv, Written, Begin
    <3>2. NoChunkTwice'
      BY <2>3 DEF WrittenInv, NoChunkTwice
    <3>3. QED
      BY <2>1, <3>1, <3>2 DEF WrittenInv
  <2>4. QED
    BY <1>4, <2>2, <2>3 DEF Begin
<1>5. ASSUME NEW w \in Workers, StoreChunk(w) PROVE WrittenInv'
  <2>1. CASE ~Owns(w)
    BY <1>s, <1>5, <2>1, RowsUntouched DEF StoreChunk
  <2>2. CASE Owns(w)
    <3>1. /\ rows' = Append(rows, at[w])
          /\ at' = [at EXCEPT ![w] = @ + 1]
          /\ phase[w] = "chunks" /\ phase' = phase
          /\ pass' = [pass EXCEPT !.lapsed = FALSE]
      BY <1>s, <1>5, <2>2 DEF StoreChunk
    <3>2. Shape'
      <4>1. at[w] \in Nat /\ at' \in [Workers -> Nat]
        BY <1>s, <3>1
      <4>2. Append(rows, at[w]) \in Seq(Nat)
        BY <1>s, <4>1
      <4>3. pass' \in [state : Ended \cup {"queued", "running"}, owner : Workers \cup {None, Gone},
                       attempts : Nat, lapsed : BOOLEAN]
        BY <1>s, <3>1
      <4>4. QED
        BY <1>s, <3>1, <4>1, <4>2, <4>3
    <3>3. /\ \A i, j \in DOMAIN rows' : i < j => rows'[i] < rows'[j]
          /\ \A i \in DOMAIN rows' : rows'[i] < at[w] + 1
      BY <1>s, <2>2, <3>1, AppendAscends DEF WrittenInv, Written, NoChunkTwice
    <3>4. \A v \in Workers : Owns(v)' => v = w
      BY <1>s, <2>2, <3>1
    <3>5. Written'
      BY <1>s, <3>1, <3>3, <3>4 DEF Written
    <3>6. QED
      BY <3>2, <3>3, <3>5 DEF WrittenInv, NoChunkTwice
  <2>3. QED
    BY <2>1, <2>2
<1>6. ASSUME NEW w \in Workers, MarkComplete(w) PROVE WrittenInv'
  BY <1>s, <1>6, RowsUntouched DEF MarkComplete
<1>7. ASSUME NEW w \in Workers, Unlock(w) PROVE WrittenInv'
  <2>1. phase'[w] # "chunks" /\ UNCHANGED <<pass, rows, at>> /\ phase' \in [Workers -> Phases]
        /\ \A v \in Workers : v # w => phase'[v] = phase[v]
    BY <1>s, <1>7 DEF Unlock
  <2>2. QED
    BY <1>s, <2>1, RowsUntouched
<1>8. ASSUME NEW w \in Workers, Report(w) PROVE WrittenInv'
  <2>1. phase[w] # "chunks" /\ phase' = [phase EXCEPT ![w] = "idle"] /\ UNCHANGED <<rows, at>>
    BY <1>8 DEF Report
  <2>2. pass' = pass \/ pass' = [pass EXCEPT !.state = "succeeded", !.owner = None]
    BY <1>8 DEF Report
  <2>3. Shape'
    BY <1>s, <2>1, <2>2
  <2>4. ASSUME NEW v \in Workers, Owns(v)', phase'[v] = "chunks"
        PROVE  Owns(v) /\ phase[v] = "chunks"
    BY <1>s, <2>1, <2>2, <2>4
  <2>5. QED
    BY <2>1, <2>3, <2>4, RowsUntouched
<1>8a. ASSUME NEW w \in Workers, ReportCancelled(w) PROVE WrittenInv'
  <2>1. phase[w] # "chunks" /\ phase' = [phase EXCEPT ![w] = "idle"] /\ UNCHANGED <<rows, at>>
    BY <1>8a DEF ReportCancelled
  <2>2. pass' = pass \/ pass' = [pass EXCEPT !.state = "failed", !.owner = None]
    BY <1>8a DEF ReportCancelled
  <2>3. Shape'
    BY <1>s, <2>1, <2>2
  <2>4. ASSUME NEW v \in Workers, Owns(v)', phase'[v] = "chunks"
        PROVE  Owns(v) /\ phase[v] = "chunks"
    BY <1>s, <2>1, <2>2, <2>4
  <2>5. QED
    BY <2>1, <2>3, <2>4, RowsUntouched
<1>9. ASSUME NEW w \in Workers, ReportUnavailable(w) PROVE WrittenInv'
  BY <1>s, <1>9, RowsUntouched DEF ReportUnavailable, FailRetryable, Requeued
<1>10. ASSUME NEW w \in Workers, ModelMissing(w) \/ Fault(w) PROVE WrittenInv'
  BY <1>s, <1>10, RowsUntouched DEF ModelMissing, Fault
<1>11. ASSUME NEW w \in Workers, Crash(w) PROVE WrittenInv'
  <2>1. Shape' /\ UNCHANGED <<rows, at>>
    BY <1>s, <1>11 DEF Crash
  <2>2. ASSUME NEW v \in Workers, Owns(v)', phase'[v] = "chunks"
        PROVE  Owns(v) /\ phase[v] = "chunks"
    BY <1>s, <1>11, <2>2 DEF Crash
  <2>3. QED
    BY <2>1, <2>2, RowsUntouched
<1>12. CASE LeaseLapses \/ LeaseLost \/ LockLapses
  BY <1>s, <1>12, RowsUntouched DEF LeaseLapses, LeaseLost, LockLapses
<1>13. CASE Recover
  BY <1>s, <1>13, RowsUntouched DEF Recover, Requeued
<1>14. CASE UNCHANGED passVars
  BY <1>s, <1>14, RowsUntouched DEF passVars
<1>15. PipelineStep \/ DFault \/ DLeaseLost \/ Edit \/ Rest \/ UNCHANGED vars => UNCHANGED passVars
  BY DEF PipelineStep, DClaim, NameBySource, NameByTurns, Activate, DReport, DFault, DLeaseLost,
         Edit, EditPrior, EditText, EditSpeaker, BindSpeaker, Rest, vars
<1>16. QED
  BY <1>1, <1>2, <1>3, <1>4, <1>5, <1>6, <1>7, <1>8, <1>8a, <1>9, <1>10, <1>11, <1>12, <1>13, <1>14, <1>15
  DEF Next, WorkerStep, Trouble

-----------------------------------------------------------------------------
\* from a complete revision over its diarization to the edits of a person
Chain ==
  /\ diarize \in [state : Ended \cup {"absent", "queued", "running"}, attempts : Nat, owned : BOOLEAN]
  /\ \A w \in Workers : phase[w] \in {"completed", "reporting"} => status = "complete"
  /\ diarize.state # "absent" => status = "complete"
  /\ dPhase # "idle" \/ diarize.owned => diarize.state # "absent"
  /\ active \in {"none", "earlier", "final"}
  /\ active = "final" => status = "complete"
  /\ edited # {} => active = "final"
  /\ edited \subseteq Stored

ChainInv == WrittenInv /\ Chain

\* What is appended is stored besides what was stored before.
LEMMA AppendStores ==
  ASSUME NEW s \in Seq(Nat), NEW c \in Nat
  PROVE  {Append(s, c)[i] : i \in DOMAIN Append(s, c)} = {s[i] : i \in DOMAIN s} \cup {c}
<1> DEFINE t == Append(s, c)
<1>1. /\ DOMAIN t = 1..Len(s) + 1 /\ DOMAIN s = 1..Len(s) /\ Len(s) \in Nat
      /\ t[Len(s) + 1] = c
      /\ \A i \in 1..Len(s) : t[i] = s[i]
  OBVIOUS
<1> HIDE DEF t
<1>2. \A i \in DOMAIN t : t[i] = c \/ \E k \in DOMAIN s : t[i] = s[k]
  BY <1>1
<1>3. \A i \in DOMAIN s : i \in DOMAIN t /\ t[i] = s[i]
  BY <1>1
<1>4. Len(s) + 1 \in DOMAIN t
  BY <1>1
<1>5. {t[i] : i \in DOMAIN t} = {s[i] : i \in DOMAIN s} \cup {c}
  BY <1>1, <1>2, <1>3, <1>4
<1>6. QED
  BY <1>5 DEF t

\* The edits and the choice of the revision, when only the pass of a worker takes a step.
LEMMA ChainByWorker ==
  ASSUME ChainInv, NEW w \in Workers, WorkerStep(w) \/ ModelMissing(w) \/ Fault(w) \/ Crash(w)
  PROVE  /\ Chain'
         /\ edited \subseteq Stored'
         /\ UNCHANGED <<edited, active, priorEdits, dPhase>>
<1> USE FinalPassAssumption DEF Goes, Owns, Phases, Ended
<1>s. Shape /\ Chain
  BY DEF ChainInv, WrittenInv
<1> DEFINE Kept == UNCHANGED <<status, rows, diarVars, editVars>>
<1>1. ASSUME Kept, \A v \in Workers : phase'[v] \in {"completed", "reporting"} =>
                                     phase[v] \in {"completed", "reporting"}
      PROVE  Chain' /\ edited \subseteq Stored' /\ UNCHANGED <<edited, active, priorEdits, dPhase>>
  BY <1>s, <1>1 DEF Chain, Stored, diarVars, editVars
<1>2. CASE Claim(w) \/ EnterLock(w) \/ LockBusy(w) \/ ReportCancelled(w) \/ ReportUnavailable(w)
           \/ ModelMissing(w) \/ Fault(w) \/ Crash(w)
  <2>1. Kept
    BY <1>2 DEF Claim, EnterLock, LockBusy, ReportCancelled, ReportUnavailable, ModelMissing, Fault, Crash
  <2>2. \E p \in Phases \ {"completed", "reporting"} : phase' = [phase EXCEPT ![w] = p]
    BY <1>2 DEF Claim, EnterLock, LockBusy, ReportCancelled, ReportUnavailable, ModelMissing, Fault, Crash
  <2>3. QED
    BY <1>s, <1>1, <2>1, <2>2 DEF Shape
<1>3. CASE Begin(w)
  <2>1. CASE status = "complete"
    <3>1. UNCHANGED <<status, rows, diarize, dPhase, edited, active, priorEdits>>
      BY <1>3, <2>1 DEF Begin, diarVars, editVars
    <3>2. QED
      BY <1>s, <2>1, <3>1 DEF Chain, Stored
  <2>2. CASE status # "complete"
    <3>1. /\ edited = {} /\ active # "final" /\ diarize.state = "absent" /\ dPhase = "idle"
          /\ \A v \in Workers : phase[v] \notin {"completed", "reporting"}
      BY <1>s, <2>2 DEF Chain
    <3>2. /\ UNCHANGED <<diarize, dPhase, edited, active, priorEdits>>
          /\ phase' = [phase EXCEPT ![w] = "chunks"]
      BY <1>3, <2>2 DEF Begin, diarVars, editVars
    <3>3. \A v \in Workers : phase'[v] \notin {"completed", "reporting"}
      BY <1>s, <3>1, <3>2 DEF Shape
    <3>4. QED
      BY <1>s, <3>1, <3>2, <3>3 DEF Chain
  <2>3. QED
    BY <2>1, <2>2
<1>4. CASE StoreChunk(w)
  <2>1. CASE ~Owns(w)
    <3>1. Kept /\ phase' = [phase EXCEPT ![w] = "cancelled"]
      BY <1>4, <2>1 DEF StoreChunk
    <3>2. QED
      BY <1>s, <1>1, <3>1 DEF Shape
  <2>2. CASE Owns(w)
    <3>1. /\ rows' = Append(rows, at[w]) /\ phase[w] = "chunks"
          /\ phase' = [phase EXCEPT ![w] = "chunks"]
          /\ UNCHANGED <<status, diarize, dPhase, edited, active, priorEdits>>
      BY <1>4, <2>2 DEF StoreChunk, diarVars, editVars
    <3>2. Stored' = Stored \cup {at[w]}
      <4>1. rows \in Seq(Nat) /\ at[w] \in Nat
        BY <1>s DEF Shape
      <4>2. {Append(rows, at[w])[i] : i \in DOMAIN Append(rows, at[w])}
              = {rows[i] : i \in DOMAIN rows} \cup {at[w]}
        BY ONLY <4>1, AppendStores
      <4>3. QED
        BY <3>1, <4>2 DEF Stored
    <3>3. \A v \in Workers : phase'[v] = phase[v]
      BY <1>s, <3>1 DEF Shape
    <3>4. QED
      BY <1>s, <3>1, <3>2, <3>3 DEF Chain
  <2>3. QED
    BY <2>1, <2>2
<1>5. CASE MarkComplete(w)
  <2>1. status' = "complete" /\ UNCHANGED <<rows, diarize, dPhase, edited, active, priorEdits>>
    BY <1>5 DEF MarkComplete, diarVars, editVars
  <2>2. QED
    BY <1>s, <2>1 DEF Chain, Stored
<1>6. CASE Unlock(w)
  <2>1. Kept
    BY <1>6 DEF Unlock
  <2>2. PICK p \in Phases : /\ phase' = [phase EXCEPT ![w] = p]
                            /\ p \in {"completed", "reporting"} => phase[w] = "completed"
    BY <1>6 DEF Unlock
  <2>3. \A v \in Workers : phase'[v] \in {"completed", "reporting"} =>
                            phase[v] \in {"completed", "reporting"}
    BY <1>s, <2>2 DEF Shape
  <2>4. QED
    BY <1>1, <2>1, <2>3
<1>7. CASE Report(w)
  <2>1. /\ phase[w] = "reporting" /\ phase' = [phase EXCEPT ![w] = "idle"]
        /\ diarize' \in {diarize, [diarize EXCEPT !.state = "queued"]}
        /\ UNCHANGED <<status, rows, dPhase, edited, active, priorEdits>>
    BY <1>7 DEF Report, editVars
  <2>2. status = "complete"
    BY <1>s, <2>1 DEF Chain
  <2>3. diarize' \in [state : Ended \cup {"absent", "queued", "running"}, attempts : Nat, owned : BOOLEAN]
        /\ (diarize.state # "absent" => diarize'.state # "absent")
    BY <1>s, <2>1 DEF Chain
  <2>4. Stored' = Stored
    BY <2>1 DEF Stored
  <2>5. QED
    BY <1>s, <2>1, <2>2, <2>3, <2>4 DEF Chain
<1>8. QED
  BY <1>2, <1>3, <1>4, <1>5, <1>6, <1>7 DEF WorkerStep

EditKept ==
  /\ edited \subseteq edited'
  /\ edited \subseteq Stored'
  /\ active = "final" \/ (active = "earlier" /\ priorEdits) => active' = active

\* One step keeps the chain, the edits and the revision that shows them.
LEMMA ChainStep ==
  ASSUME ChainInv, [Next]_vars
  PROVE  Chain' /\ EditKept
<1> USE FinalPassAssumption DEF DGoes, Requeued, Ended
<1>s. Chain
  BY DEF ChainInv
<1>1. ASSUME NEW w \in Workers, WorkerStep(w) \/ ModelMissing(w) \/ Fault(w) \/ Crash(w)
      PROVE  Chain' /\ EditKept
  BY <1>1, ChainByWorker DEF EditKept
<1>2. CASE LeaseLapses \/ LeaseLost \/ LockLapses \/ Recover \/ Rest \/ UNCHANGED vars
  <2>1. UNCHANGED <<phase, status, rows, diarVars, editVars>>
    BY <1>2 DEF LeaseLapses, LeaseLost, LockLapses, Recover, Rest, vars, passVars
  <2>2. QED
    BY <1>s, <2>1 DEF Chain, EditKept, Stored, diarVars, editVars
<1>3. CASE Edit
  <2>1. UNCHANGED <<phase, status, rows, diarize, dPhase>>
    BY <1>3 DEF Edit, EditPrior, EditText, EditSpeaker, BindSpeaker, passVars, diarVars
  <2>2. Stored' = Stored
    BY <2>1 DEF Stored
  <2>3. /\ active' = active
        /\ edited' = edited \/ (active = "final" /\ edited \subseteq edited' /\ edited' \subseteq Stored)
    BY <1>s, <1>3 DEF Chain, Edit, EditPrior, EditText, EditSpeaker, BindSpeaker
  <2>4. QED
    BY <1>s, <2>1, <2>2, <2>3 DEF Chain, EditKept
<1>4. CASE PipelineStep \/ DFault \/ DLeaseLost
  <2>1. UNCHANGED <<phase, status, rows, edited, priorEdits>>
    BY <1>4 DEF PipelineStep, DClaim, NameBySource, NameByTurns, Activate, DReport, DFault, DLeaseLost,
                passVars, editVars
  <2>2. Stored' = Stored
    BY <2>1 DEF Stored
  <2>3. active' = active \/ (dPhase # "idle" /\ active' = "final" /\ ~EditsInTheWay)
    BY <1>4 DEF PipelineStep, DClaim, NameBySource, NameByTurns, Activate, DReport, DFault, DLeaseLost,
                editVars
  <2>4. /\ diarize' \in [state : Ended \cup {"absent", "queued", "running"}, attempts : Nat, owned : BOOLEAN]
        /\ diarize.state = "absent" <=> diarize'.state = "absent"
        /\ dPhase' # "idle" \/ diarize'.owned => diarize'.state # "absent"
    <3>1. CASE DClaim
      BY <1>s, <3>1 DEF Chain, DClaim
    <3>2. CASE NameBySource \/ NameByTurns \/ Activate
      BY <1>s, <3>2 DEF Chain, NameBySource, NameByTurns, Activate
    <3>3. CASE DReport
      BY <1>s, <3>3 DEF Chain, DReport
    <3>4. CASE DFault
      BY <1>s, <3>4 DEF Chain, DFault
    <3>5. CASE DLeaseLost
      BY <1>s, <3>5 DEF Chain, DLeaseLost
    <3>6. QED
      BY <1>4, <3>1, <3>2, <3>3, <3>4, <3>5 DEF PipelineStep
  <2>5. QED
    BY <1>s, <2>1, <2>2, <2>3, <2>4 DEF Chain, EditKept, EditsInTheWay
<1>5. QED
  BY <1>1, <1>2, <1>3, <1>4 DEF Next, Trouble

-----------------------------------------------------------------------------
\* Nobody was held up: one worker is at work, and what it has written is all there is.
Undisturbed ==
  /\ \A w \in Workers : phase[w] # "idle" => Owns(w)
  /\ pass.state = "running" /\ pass.lapsed => Orphaned
  /\ \A w \in Workers :
       phase[w] = "chunks" => at[w] \in 1..Chunks + 1 /\ Stored = 1..at[w] - 1
  /\ status = "complete" => Stored = AllChunks

Alone == stalled \in BOOLEAN /\ (~stalled => Undisturbed)

\* Steps that leave the segments alone, and after which every worker at work still owns the job.
LEMMA UndisturbedBesides ==
  ASSUME Undisturbed, UNCHANGED <<status, rows, at>>,
         \A w \in Workers : phase'[w] = "chunks" => phase[w] = "chunks",
         \A w \in Workers : phase'[w] # "idle" => Owns(w)',
         (pass.state = "running" /\ pass.lapsed => Orphaned)'
  PROVE  Undisturbed'
<1>1. Stored' = Stored
  BY DEF Stored
<1>2. QED
  BY <1>1 DEF Undisturbed

LEMMA AloneStep ==
  ASSUME Shape, Alone, [Next]_vars
  PROVE  Alone'
<1> USE FinalPassAssumption DEF Goes, Owns, Phases, Ended
<1>s. Shape /\ stalled \in BOOLEAN
  BY DEF Alone
<1>t. stalled' \in BOOLEAN /\ (stalled => stalled')
  BY <1>s DEF Next, WorkerStep, PipelineStep, Trouble, Edit, Rest, vars, Claim, EnterLock, LockBusy, Begin,
     StoreChunk, MarkComplete, Unlock, Report, ReportCancelled, ReportUnavailable, DClaim, NameBySource,
     NameByTurns, Activate, DReport, LeaseLost, DFault, DLeaseLost, ModelMissing, Fault, Crash, EditPrior,
     EditText, EditSpeaker, BindSpeaker, LeaseLapses, LockLapses, Recover
<1> SUFFICES ASSUME ~stalled, ~stalled' PROVE Undisturbed'
  BY <1>t DEF Alone
<1>u. Undisturbed
  BY DEF Alone
<1>o. \A v, w \in Workers : phase[v] # "idle" /\ phase[w] # "idle" => v = w
  BY <1>u DEF Undisturbed
<1>1. ASSUME NEW w \in Workers, Claim(w) PROVE Undisturbed'
  <2>1. \A v \in Workers : phase[v] = "idle"
    BY <1>u, <1>1 DEF Claim, Undisturbed
  <2>2. phase' = [phase EXCEPT ![w] = "claimed"] /\ UNCHANGED <<status, rows, at>>
    BY <1>1 DEF Claim
  <2>3. pass'.state = "running" /\ pass'.owner = w /\ ~pass'.lapsed
    BY <1>1 DEF Claim
  <2>4. QED
    BY <1>s, <1>u, <2>1, <2>2, <2>3, UndisturbedBesides DEF Shape
<1>2. ASSUME NEW w \in Workers, NEW p \in Phases \ {"idle", "chunks"}, phase[w] # "idle",
             phase' = [phase EXCEPT ![w] = p], UNCHANGED <<pass, status, rows, at>>
      PROVE  Undisturbed'
  <2>1. \A v \in Workers : phase'[v] # "idle" => Owns(v)'
    BY <1>s, <1>u, <1>2 DEF Undisturbed, Shape
  <2>2. (pass.state = "running" /\ pass.lapsed => Orphaned)'
    BY <1>s, <1>u, <1>2 DEF Undisturbed, Shape, Orphaned
  <2>3. \A v \in Workers : phase'[v] = "chunks" => phase[v] = "chunks"
    BY <1>s, <1>2 DEF Shape
  <2>4. QED
    BY <1>u, <1>2, <2>1, <2>2, <2>3, UndisturbedBesides
\* the worker leaves, and the job stays with it, goes back to the queue, ends or is an orphan
<1>3. ASSUME NEW w \in Workers, phase[w] # "idle", phase' = [phase EXCEPT ![w] = "idle"],
             UNCHANGED <<status, rows, at>>,
             pass' = pass \/ pass'.state # "running" \/ pass'.owner = Gone
      PROVE  Undisturbed'
  <2>1. \A v \in Workers : phase'[v] = "idle"
    BY <1>s, <1>o, <1>3 DEF Shape
  <2>2. pass.owner = w
    BY <1>u, <1>3 DEF Undisturbed
  <2>3. (pass.state = "running" /\ pass.lapsed => Orphaned)'
    BY <1>3, <2>1, <2>2 DEF Orphaned
  <2>4. QED
    BY <1>u, <1>3, <2>1, <2>3, UndisturbedBesides
<1>4. ASSUME NEW w \in Workers, EnterLock(w) PROVE Undisturbed'
  BY <1>2, <1>4 DEF EnterLock
<1>5. ASSUME NEW w \in Workers, LockBusy(w) \/ ReportUnavailable(w) PROVE Undisturbed'
  <2>1. /\ phase[w] # "idle" /\ phase' = [phase EXCEPT ![w] = "idle"]
        /\ UNCHANGED <<status, rows, at>> /\ FailRetryable(w)
    BY <1>5 DEF LockBusy, ReportUnavailable
  <2>2. pass' = pass \/ pass'.state # "running"
    BY <1>s, <2>1 DEF FailRetryable, Requeued, Shape
  <2>3. QED
    BY <1>3, <2>1, <2>2
<1>6. ASSUME NEW w \in Workers, Begin(w) PROVE Undisturbed'
  <2>1. CASE status = "complete"
    <3>1. phase' = [phase EXCEPT ![w] = "completed"] /\ phase[w] # "idle"
          /\ UNCHANGED <<pass, status, rows>> /\ \A v \in Workers : v # w => at'[v] = at[v]
      BY <1>s, <1>6, <2>1 DEF Begin, Shape
    <3>2. Stored' = Stored
      BY <3>1 DEF Stored
    <3>3. \A v \in Workers : phase'[v] # "chunks"
      BY <1>s, <1>o, <3>1 DEF Shape
    <3>4. QED
      BY <1>s, <1>u, <3>1, <3>2, <3>3 DEF Undisturbed, Shape, Orphaned
  <2>2. CASE status # "complete"
    <3>1. phase' = [phase EXCEPT ![w] = "chunks"] /\ phase[w] # "idle" /\ rows' = <<>>
          /\ at' = [at EXCEPT ![w] = 1] /\ status' = "building" /\ UNCHANGED pass
      BY <1>6, <2>2 DEF Begin
    <3>2. Stored' = {}
      BY <3>1 DEF Stored
    <3>3. \A v \in Workers : phase'[v] = "chunks" => v = w
      BY <1>s, <1>o, <3>1 DEF Shape
    <3>4. at'[w] = 1 /\ 1..1 - 1 = {} /\ 1 \in 1..Chunks + 1
      BY <1>s, <3>1 DEF Shape
    <3>5. \A v \in Workers : phase'[v] # "idle" => Owns(v)'
      BY <1>s, <1>u, <3>1 DEF Undisturbed, Shape
    <3>6. (pass.state = "running" /\ pass.lapsed => Orphaned)'
      BY <1>s, <1>u, <3>1 DEF Undisturbed, Shape, Orphaned
    <3>7. QED
      BY <3>1, <3>2, <3>3, <3>4, <3>5, <3>6 DEF Undisturbed
  <2>3. QED
    BY <2>1, <2>2
<1>7. ASSUME NEW w \in Workers, StoreChunk(w) PROVE Undisturbed'
  <2>1. Owns(w) /\ phase[w] = "chunks"
    BY <1>u, <1>7 DEF StoreChunk, Undisturbed
  <2>2. /\ rows' = Append(rows, at[w]) /\ at' = [at EXCEPT ![w] = @ + 1] /\ at[w] <= Chunks
        /\ phase' = [phase EXCEPT ![w] = "chunks"] /\ UNCHANGED status
        /\ pass' = [pass EXCEPT !.lapsed = FALSE]
    BY <1>7, <2>1 DEF StoreChunk
  <2>3. phase' = phase
    BY <1>s, <2>1, <2>2 DEF Shape
  <2>4. Stored' = Stored \cup {at[w]}
    <3>1. rows \in Seq(Nat) /\ at[w] \in Nat
      BY <1>s DEF Shape
    <3>2. {Append(rows, at[w])[i] : i \in DOMAIN Append(rows, at[w])}
            = {rows[i] : i \in DOMAIN rows} \cup {at[w]}
      BY ONLY <3>1, AppendStores
    <3>3. QED
      BY <2>2, <3>2 DEF Stored
  <2>5. at[w] \in 1..Chunks /\ Stored = 1..at[w] - 1 /\ at'[w] = at[w] + 1
    BY <1>s, <1>u, <2>1, <2>2 DEF Undisturbed, Shape
  <2>6. Stored' = 1..at'[w] - 1
    BY <2>4, <2>5
  <2>7. status # "complete"
    <3>1. at[w] \in AllChunks /\ at[w] \notin Stored
      BY <2>5 DEF AllChunks
    <3>2. QED
      BY <1>u, <3>1 DEF Undisturbed
  <2>8. \A v \in Workers : phase'[v] = "chunks" => v = w
    BY <1>o, <2>1, <2>3
  <2>9. pass'.state = pass.state /\ pass'.owner = pass.owner /\ ~pass'.lapsed
    BY <1>s, <2>2 DEF Shape
  <2>10. QED
    BY <1>u, <2>2, <2>3, <2>5, <2>6, <2>7, <2>8, <2>9 DEF Undisturbed
<1>8. ASSUME NEW w \in Workers, MarkComplete(w) PROVE Undisturbed'
  <2>1. phase[w] = "chunks" /\ phase' = [phase EXCEPT ![w] = "completed"] /\ at[w] > Chunks
        /\ UNCHANGED <<pass, rows, at>>
    BY <1>8 DEF MarkComplete
  <2>2. Stored = AllChunks
    <3>1. at[w] \in 1..Chunks + 1 /\ Stored = 1..at[w] - 1
      BY <1>u, <2>1 DEF Undisturbed
    <3>2. at[w] - 1 = Chunks
      BY <2>1, <3>1
    <3>3. QED
      BY <3>1, <3>2 DEF AllChunks
  <2>3. Stored' = Stored
    BY <2>1 DEF Stored
  <2>4. \A v \in Workers : phase'[v] # "chunks"
    BY <1>s, <1>o, <2>1 DEF Shape
  <2>5. QED
    BY <1>s, <1>u, <2>1, <2>2, <2>3, <2>4 DEF Undisturbed, Shape, Orphaned
<1>9. ASSUME NEW w \in Workers, Unlock(w) PROVE Undisturbed'
  <2>1. phase[w] # "idle" /\ UNCHANGED <<pass, status, rows, at>>
        /\ \E p \in Phases \ {"chunks"} : phase' = [phase EXCEPT ![w] = p]
    BY <1>9 DEF Unlock
  <2>2. QED
    BY <1>2, <1>3, <2>1
<1>10. ASSUME NEW w \in Workers, Report(w) PROVE Undisturbed'
  <2>1. pass' = pass \/ pass'.state # "running"
    BY <1>s, <1>10 DEF Report, Shape
  <2>2. QED
    BY <1>3, <1>10, <2>1 DEF Report
<1>11. ASSUME NEW w \in Workers, ReportCancelled(w) PROVE Undisturbed'
  <2>1. pass' = pass \/ pass'.state # "running"
    BY <1>s, <1>11 DEF ReportCancelled, Shape
  <2>2. QED
    BY <1>3, <1>11, <2>1 DEF ReportCancelled
<1>12. ASSUME NEW w \in Workers, ModelMissing(w) \/ Fault(w) PROVE Undisturbed'
  <2>1. phase[w] # "idle" /\ UNCHANGED <<pass, status, rows, at>>
        /\ \E p \in Phases \ {"idle", "chunks"} : phase' = [phase EXCEPT ![w] = p]
    BY <1>12 DEF ModelMissing, Fault
  <2>2. QED
    BY <1>2, <2>1
<1>13. ASSUME NEW w \in Workers, Crash(w) PROVE Undisturbed'
  <2>1. pass' = pass \/ pass'.owner = Gone
    BY <1>s, <1>13 DEF Crash, Shape
  <2>2. QED
    BY <1>3, <1>13, <2>1 DEF Crash
<1>14. CASE LeaseLapses
  <2>1. /\ UNCHANGED <<phase, status, rows, at>> /\ Orphaned
        /\ pass' = [pass EXCEPT !.lapsed = TRUE]
    BY <1>14 DEF LeaseLapses
  <2>2. pass'.state = pass.state /\ pass'.owner = pass.owner
    BY <1>s, <2>1 DEF Shape
  <2>3. QED
    BY <1>u, <2>1, <2>2, UndisturbedBesides DEF Undisturbed, Orphaned
<1>15. CASE Recover
  <2>1. /\ UNCHANGED <<phase, status, rows, at>> /\ pass.state = "running" /\ pass.lapsed
        /\ pass'.state # "running"
    BY <1>s, <1>15 DEF Recover, Requeued, Shape
  <2>2. \A v \in Workers : phase[v] = "idle"
    BY <1>u, <2>1 DEF Undisturbed, Orphaned
  <2>3. QED
    BY <1>u, <2>1, <2>2, UndisturbedBesides
<1>16. CASE UNCHANGED <<pass, phase, at, status, rows>>
  BY <1>u, <1>16, UndisturbedBesides DEF Undisturbed, Orphaned
<1>17. LockLapses \/ PipelineStep \/ DFault \/ DLeaseLost \/ Edit \/ Rest \/ UNCHANGED vars
         => UNCHANGED <<pass, phase, at, status, rows>>
  BY DEF PipelineStep, DClaim, NameBySource, NameByTurns, Activate, DReport, DFault, DLeaseLost,
         Edit, EditPrior, EditText, EditSpeaker, BindSpeaker, Rest, vars, passVars, LockLapses
<1>18. ~LeaseLost
  BY DEF LeaseLost
<1>19. QED
  BY <1>1, <1>4, <1>5, <1>6, <1>7, <1>8, <1>9, <1>10, <1>11, <1>12, <1>13, <1>14, <1>15, <1>16,
     <1>17, <1>18 DEF Next, WorkerStep, Trouble

-----------------------------------------------------------------------------
IInv == ChainInv /\ Alone

LEMMA Invariance == Spec => []IInv
<1>1. Init => IInv
  <2> SUFFICES ASSUME Init PROVE IInv
    OBVIOUS
  <2>1. rows \in Seq(Nat) /\ DOMAIN rows = {} /\ Stored = {}
    BY DEF Init, Stored
  <2>2. Shape
    BY <2>1, FinalPassAssumption DEF Init, Shape, Phases, Ended
  <2>3. Written /\ NoChunkTwice
    BY <2>1 DEF Written, NoChunkTwice
  <2>4. Chain
    BY <2>1 DEF Init, Chain, Ended
  <2>5. Alone
    BY <2>1 DEF Init, Alone, Undisturbed
  <2>6. QED
    BY <2>2, <2>3, <2>4, <2>5 DEF IInv, ChainInv, WrittenInv
<1>2. IInv /\ [Next]_vars => IInv'
  BY WrittenStep, ChainStep, AloneStep DEF IInv, ChainInv, WrittenInv
<1>3. QED
  BY <1>1, <1>2, PTL DEF Spec

\* No revision ever holds a chunk twice or out of order, however often the job changes hands.
THEOREM ChunksAscend == Spec => []NoChunkTwice
<1>1. IInv => NoChunkTwice
  BY DEF IInv, ChainInv, WrittenInv
<1>2. QED
  BY Invariance, <1>1, PTL

\* While only crashed workers lose their lease, what is called complete, is diarized or shown
\* holds every chunk.
THEOREM CompleteHoldsAll == Spec => []CompleteIsWhole
<1>1. IInv => CompleteIsWhole
  BY DEF IInv, ChainInv, Chain, Alone, Undisturbed, CompleteIsWhole
<1>2. QED
  BY Invariance, <1>1, PTL

\* No step of a late, repeated or concurrent pass discards what a person edited in a final
\* revision, its own or an earlier one, or hides it behind another.
THEOREM EditsSurvive == Spec => EditedTextStays
<1>1. IInv /\ [Next]_vars =>
        [/\ edited \subseteq edited'
         /\ edited \subseteq Stored'
         /\ active = "final" \/ (active = "earlier" /\ priorEdits) => active' = active]_vars
  BY ChainStep DEF IInv, EditKept
<1>2. QED
  BY Invariance, <1>1, PTL DEF Spec, EditedTextStays
=============================================================================
