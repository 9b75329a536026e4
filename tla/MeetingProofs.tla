---------------------------- MODULE MeetingProofs ----------------------------
(***************************************************************************)
(* Proofs about Meeting, for any sessions, pages, attempts and versions,   *)
(* as long as no lease ends under a handler that still works: the          *)
(* assumption ~LeaseLapses.  (An attempt that has lost its lease queues    *)
(* the next stage nevertheless, and could do so behind an approval.)       *)
(*                                                                         *)
(* That an approved meeting is quiet is not inductive: a running attempt   *)
(* could queue another job.  What excludes it is that every attempt that   *)
(* still works owns its job (Fenced), so that the job is running, which    *)
(* an approved meeting excludes; and that needs that no two records of     *)
(* running stand for the same attempt.                                     *)
(*                                                                         *)
(* That a meeting in PROCESSING is driven needs to know which job carries  *)
(* it: one that waits or runs and has not queued its successor yet         *)
(* (Carries, Driven), and the order in which jobs are queued (Chain).      *)
(*                                                                         *)
(* The last section is about ActionCard, one card of the protocol.         *)
(***************************************************************************)
EXTENDS Meeting, ActionCard, TLAPS

JobStates == {"absent", "queued", "running", "succeeded", "failed"}
Places    == {"claimed", "started", "empty", "gave up", "done"}

QueueTypes ==
  /\ job \in [Jobs -> JobStates]
  /\ tries \in [Jobs -> Nat]
  /\ running \subseteq [job : Jobs, try : Nat, at : Places]

\* An attempt at work owns its job, and it is recorded once.
Fenced ==
  \A h \in running :
    /\ h.try <= tries[h.job]
    /\ h.at # "gave up" => Owner(h)
    /\ \A g \in running : g.job = h.job /\ g.try = h.try => g = h

QueueInv == QueueTypes /\ Fenced

VersionTypes ==
  /\ protocol \in 1..MaxProtocols
  /\ approval = [v \in 1..MaxProtocols |-> approval[v]]
  /\ reports \in Nat

\* The signature is under the transcript, the summary and the cards that the meeting
\* holds; progress was reported and questions were settled since, at most.
Signed ==
  LET signed == approval[protocol] IN
  /\ signed = [transcript |-> active, summary |-> summary.by, changes |-> changes,
               reports |-> signed.reports, questions |-> signed.questions]
  /\ signed.reports \in Nat /\ signed.reports <= reports
  /\ open \subseteq signed.questions

\* What an approved meeting is: at rest, without blocking issues, and signed.
Settled ==
  /\ Pending = {}
  /\ \A s \in Sessions : ~InProgress(s)
  /\ Blockers = {}
  /\ ~LateLivePass => Signed

ApprovedInv == VersionTypes /\ (status = "APPROVED" => Settled)

IInv == QueueInv /\ ApprovedInv

-----------------------------------------------------------------------------
\* A transition ends where it was aimed at, or where it began.
LEMMA TransitionEffect ==
  ASSUME NEW target, Transition(target)
  PROVE  status' \in {status, target}
BY DEF Transition

\* A handler that goes on owning its job, or leaves, keeps the attempts fenced: what it
\* does to other jobs ends none of them.
LEMMA HandlerKeepsFence ==
  ASSUME QueueInv, NEW h \in running,
         job' \in [Jobs -> JobStates], tries' = tries,
         \A k \in Jobs : k # h.job /\ job[k] = "running" => job'[k] = "running",
         \/ Leave(h) /\ (job'[h.job] = "running" \/ Owner(h))
         \/ \E place \in Places : /\ Goto(h, place)
                                  /\ place # "gave up" => Owner(h) /\ job'[h.job] = "running"
                                  /\ Owner(h)
  PROVE  QueueInv'
<1>s. QueueTypes /\ Fenced
  BY DEF QueueInv
<1>h. h \in [job : Jobs, try : Nat, at : Places] /\ h.job \in Jobs
  BY <1>s DEF QueueTypes
\* the other attempts
<1>1. ASSUME NEW g \in running, g # h, g.at # "gave up"
      PROVE  job'[g.job] = "running" /\ tries'[g.job] = g.try
  <2>1. Owner(g) /\ g.job \in Jobs
    BY <1>s, <1>1 DEF Fenced, QueueTypes
  <2>2. CASE g.job # h.job
    BY <2>1, <2>2 DEF Owner
  <2>3. CASE g.job = h.job
    <3>1. g.try # h.try
      BY <1>s, <1>1, <2>3 DEF Fenced
    <3>2. ~Owner(h)
      BY <2>1, <2>3, <3>1 DEF Owner
    <3>3. QED
      BY <2>1, <2>3, <3>2 DEF Owner
  <2>4. QED
    BY <2>2, <2>3
<1>2. CASE Leave(h)
  <2>1. running' \subseteq running /\ h \notin running'
    BY <1>2 DEF Leave
  <2>2. QueueTypes'
    BY <1>s, <2>1 DEF QueueTypes
  <2>3. Fenced'
    BY <1>s, <1>1, <2>1 DEF Fenced, Owner
  <2>4. QED
    BY <2>2, <2>3 DEF QueueInv
<1>3. ASSUME NEW place \in Places, Goto(h, place),
             place # "gave up" => Owner(h) /\ job'[h.job] = "running"
      PROVE  QueueInv'
  <2> DEFINE k == [h EXCEPT !.at = place]
  <2>1. k \in [job : Jobs, try : Nat, at : Places] /\ k.job = h.job /\ k.try = h.try /\ k.at = place
    BY <1>h
  <2>2. running' = (running \ {h}) \cup {k}
    BY <1>3 DEF Goto
  <2> HIDE DEF k
  <2>3. QueueTypes'
    BY <1>s, <2>1, <2>2 DEF QueueTypes
  <2>4. k.try <= tries'[k.job] /\ (k.at # "gave up" => Owner(k)')
    BY <1>s, <1>3, <2>1 DEF Fenced, Owner
  <2>5. \A g \in running \ {h} : ~(g.job = k.job /\ g.try = k.try)
    BY <1>s, <2>1 DEF Fenced
  <2>6. Fenced'
    BY <1>s, <1>1, <2>2, <2>4, <2>5, ZenonT(30) DEF Fenced, Owner
  <2>7. QED
    BY <2>3, <2>6 DEF QueueInv
<1>4. QED
  BY <1>2, <1>3

\* The steps of an attempt.
LEMMA HandlingKeepsFence ==
  ASSUME QueueInv, NEW h \in running, Handling(h)
  PROVE  QueueInv'
<1> USE DEF JobStates, Places
<1>s. QueueTypes /\ Fenced
  BY DEF QueueInv
<1>h. h.job \in Jobs /\ (h.at # "gave up" => Owner(h) /\ job[h.job] = "running")
  BY <1>s DEF QueueTypes, Fenced, Owner
<1>1. CASE WorkerCrash(h) \/ AsrCancelled(h) \/ MarkLlmFailed(h)
  <2>1. Leave(h) /\ UNCHANGED <<job, tries>>
    BY <1>1 DEF WorkerCrash, AsrCancelled, MarkLlmFailed
  <2>2. running' \subseteq running
    BY <2>1 DEF Leave
  <2>3. QED
    BY <1>s, <2>1, <2>2 DEF QueueInv, QueueTypes, Fenced, Owner
<1>2. CASE Fault(h) \/ LlmFails(h)
  <2>1. h.at # "gave up" /\ job' = [job EXCEPT ![h.job] = Retried(h.job)] /\ tries' = tries
    BY <1>h, <1>2 DEF Fault, LlmFails, Failed
  <2>2. Retried(h.job) \in JobStates
    BY DEF Retried
  <2>3. Leave(h) \/ Goto(h, "gave up")
    BY <1>2 DEF Fault, LlmFails
  <2>4. QED
    BY <1>s, <1>h, <2>1, <2>2, <2>3, HandlerKeepsFence DEF QueueTypes
<1>3. CASE Report(h)
  <2>1. h.at # "gave up" /\ job' = [job EXCEPT ![h.job] = "succeeded"] /\ tries' = tries /\ Leave(h)
    BY <1>h, <1>3 DEF Report, Completed
  <2>2. QED
    BY <1>s, <1>h, <2>1, HandlerKeepsFence DEF QueueTypes
<1>4. CASE AsrReport(h)
  <2> DEFINE next == <<"diarize", Session(h.job), 0>>
             ended == [job EXCEPT ![h.job] = "succeeded"]
  <2>1. h.at # "gave up" /\ job' = [ended EXCEPT ![next] = Enqueued(next)[next]]
        /\ tries' = tries /\ Leave(h)
    BY <1>h, <1>4 DEF AsrReport, Completed
  <2>2. ended \in [Jobs -> JobStates] /\ Enqueued(next) \in [Jobs -> JobStates]
    BY <1>s DEF QueueTypes, Enqueued
  <2>3. next \in Jobs => Enqueued(next)[next] = IF job[next] = "absent" THEN "queued" ELSE job[next]
    BY <1>s DEF QueueTypes, Enqueued
  <2> HIDE DEF next
  <2>4. job' \in [Jobs -> JobStates]
    BY <2>1, <2>2
  <2>5. \A k \in Jobs : k # h.job /\ job[k] = "running" => job'[k] = "running"
    BY <1>s, <2>1, <2>2, <2>3 DEF QueueTypes
  <2>6. QED
    BY <1>h, <2>1, <2>4, <2>5, HandlerKeepsFence
<1>5. ASSUME NEW next, job' = Enqueued(next), tries' = tries, Goto(h, "done"), h.at # "gave up"
      PROVE  QueueInv'
  <2>1. job' \in [Jobs -> JobStates] /\ \A k \in Jobs : job[k] = "running" => job'[k] = "running"
    BY <1>s, <1>5 DEF QueueTypes, Enqueued
  <2>2. QED
    BY <1>h, <1>5, <2>1, HandlerKeepsFence
<1>6. ASSUME NEW place \in Places, UNCHANGED <<job, tries>>, Goto(h, place), h.at # "gave up"
      PROVE  QueueInv'
  BY <1>s, <1>h, <1>6, HandlerKeepsFence DEF QueueTypes
<1>7. CASE StageFinalize(h) \/ ActivateRevision(h)
  BY <1>5, <1>7 DEF StageFinalize, ActivateRevision
<1>8. CASE AsrStart(h) \/ AsrComplete(h)
  BY <1>6, <1>8 DEF AsrStart, AsrComplete
<1>9. CASE ExtractStart(h)
  BY <1>6, <1>9 DEF ExtractStart
<1>10. CASE ExtractEmpty(h)
  BY <1>6, <1>10 DEF ExtractEmpty
<1>11. CASE \E failed, says \in BOOLEAN : ExtractDone(h, failed, says)
  BY <1>6, <1>11 DEF ExtractDone
<1>12. CASE DiarizationUnavailable(h)
  BY <1>12, <1>s DEF DiarizationUnavailable, queueVars, QueueInv, QueueTypes, Fenced, Owner
<1>13. QED
  BY <1>1, <1>2, <1>3, <1>4, <1>7, <1>8, <1>9, <1>10, <1>11, <1>12 DEF Handling

\* Whoever only queues jobs leaves the attempts alone.
LEMMA QueueingKeepsFence ==
  ASSUME QueueInv, UNCHANGED <<tries, running>>,
         job' = job \/ \E next : job' = Enqueued(next)
  PROVE  QueueInv'
<1>s. QueueTypes /\ Fenced
  BY DEF QueueInv
<1>1. job' \in [Jobs -> JobStates] /\ \A k \in Jobs : job[k] = "running" => job'[k] = "running"
  BY <1>s DEF QueueTypes, Enqueued, JobStates
<1>2. QED
  BY <1>s, <1>1 DEF QueueInv, QueueTypes, Fenced, Owner

LEMMA FenceStep ==
  ASSUME ~LeaseLapses, QueueInv, [Next]_vars
  PROVE  QueueInv'
<1>s. QueueTypes /\ Fenced
  BY DEF QueueInv
<1>1. ASSUME NEW s \in Sessions, Recording(s) PROVE QueueInv'
  <2>1. /\ UNCHANGED <<tries, running>>
        /\ job' = job \/ job' = Enqueued(<<"finalize", s, 0>>)
    BY <1>1 DEF Recording, CreateCapture, Hello, MarkConnected, OpenSource, PersistProgress, CloseEpoch,
       Disconnect, RequestStop, StopUnconnected, LeaveStopped, FinishStop, SuperviseStop, FinalizeStop,
       Stopped, queueVars
  <2>2. QED
    BY <2>1, QueueingKeepsFence
<1>2. ASSUME NEW j \in Jobs, Claim(j) PROVE QueueInv'
  <2>t. tries[j] \in Nat /\ tries[j] + 1 \in Nat
    BY <1>s DEF QueueTypes
  <2>0. PICK k : k = [job |-> j, try |-> tries[j] + 1, at |-> "claimed"]
    OBVIOUS
  <2>1. job[j] = "queued" /\ job' = [job EXCEPT ![j] = "running"]
        /\ tries' = [tries EXCEPT ![j] = tries[j] + 1] /\ running' = running \cup {k}
    BY <1>2, <2>0 DEF Claim
  <2>2. k \in [job : Jobs, try : Nat, at : Places] /\ k.job = j /\ k.try = tries[j] + 1
    BY <2>t, <2>0 DEF Places
  <2>3. QueueTypes'
    BY <1>s, <2>t, <2>1, <2>2 DEF QueueTypes, JobStates
  <2>4. Owner(k)' /\ k.try <= tries'[k.job]
    BY <1>s, <2>t, <2>1, <2>2 DEF QueueTypes, Owner
  <2>5. ASSUME NEW h \in running PROVE h.try <= tries'[h.job] /\ (h.at # "gave up" => Owner(h)')
    <3>1. h.job \in Jobs /\ h.try \in Nat /\ tries[h.job] \in Nat /\ h.try <= tries[h.job]
      BY <1>s DEF QueueTypes, Fenced
    <3>2. h.at # "gave up" => Owner(h) /\ h.job # j
      BY <1>s, <2>1 DEF Fenced, Owner
    <3>3. CASE h.job = j
      <4>1. tries'[j] = tries[j] + 1
        BY <1>s, <2>1 DEF QueueTypes
      <4>2. h.try <= tries'[h.job]
        BY <2>t, <3>1, <3>3, <4>1
      <4>3. QED
        BY <3>2, <3>3, <4>2
    <3>4. CASE h.job # j
      <4>1. tries'[h.job] = tries[h.job] /\ job'[h.job] = job[h.job]
        BY <1>s, <2>1, <3>1, <3>4 DEF QueueTypes
      <4>2. QED
        BY <3>1, <3>2, <4>1 DEF Owner
    <3>5. QED
      BY <3>3, <3>4
  <2>6. \A h \in running : ~(h.job = k.job /\ h.try = k.try)
    <3>1. ASSUME NEW h \in running, h.job = j PROVE h.try # tries[j] + 1
      <4>1. h.try \in Nat /\ h.try <= tries[j]
        BY <1>s, <3>1 DEF QueueTypes, Fenced
      <4>2. QED
        BY <2>t, <4>1
    <3>2. QED
      BY <2>2, <3>1
  <2>7. Fenced'
    BY <1>s, <2>1, <2>4, <2>5, <2>6 DEF Fenced
  <2>8. QED
    BY <2>3, <2>7 DEF QueueInv
\* a lease lapses only when nobody works on the job any more
<1>3. ASSUME NEW j \in Jobs, Recover(j) PROVE QueueInv'
  <2>1. /\ \A h \in running : h.job = j => ~Owner(h)
        /\ job' = [job EXCEPT ![j] = Retried(j)] /\ UNCHANGED <<tries, running>>
    BY <1>3 DEF Recover
  <2>2. \A h \in running : h.at # "gave up" => h.job # j
    BY <1>s, <2>1 DEF Fenced
  <2>3. QED
    BY <1>s, <2>1, <2>2 DEF QueueInv, QueueTypes, Fenced, Owner, Retried, JobStates
<1>4. ASSUME NEW h \in running, Handling(h) PROVE QueueInv'
  BY <1>4, HandlingKeepsFence
<1>5. ASSUME NEW p \in Pages, Watching(p) PROVE QueueInv'
  <2>1. UNCHANGED <<job, tries, running>>
    BY <1>5 DEF Watching, Route, LoadMeeting, LoadReadiness, PollStatus, PollReadiness, serverVars, queueVars
  <2>2. QED
    BY <2>1, QueueingKeepsFence
<1>6. ASSUME NEW p \in Pages, Reviewing(p) PROVE QueueInv'
  <2>1. UNCHANGED <<tries, running>> /\ (job' = job \/ \E next : job' = Enqueued(next))
    <3>1. CASE RetryAnalysis(p)
      BY <3>1 DEF RetryAnalysis
    <3>2. CASE ~RetryAnalysis(p)
      BY <1>6, <3>2 DEF Reviewing, PatchMeeting, ConfirmConsent, Approve, NewVersion, queueVars
    <3>3. QED
      BY <3>1, <3>2
  <2>2. QED
    BY <2>1, QueueingKeepsFence
<1>7. ASSUME \/ \E s \in Sessions : EditSegment(s)
             \/ \E p \in Pages \cup {None} : PatchAction(p) \/ ReportProgress(p) \/ \E i \in open : ResolveIssue(p, i)
             \/ LiveExtract \/ UNCHANGED vars
      PROVE  QueueInv'
  <2>1. UNCHANGED <<job, tries, running>>
    BY <1>7 DEF EditSegment, PatchAction, ReportProgress, ResolveIssue, LiveExtract, vars, queueVars
  <2>2. QED
    BY <2>1, QueueingKeepsFence
<1>8. QED
  BY <1>1, <1>2, <1>3, <1>4, <1>5, <1>6, <1>7 DEF Next

-----------------------------------------------------------------------------
\* While anybody owns a job, or records, the meeting is not approved.
LEMMA ApprovedExcludes ==
  ASSUME IInv, status = "APPROVED"
  PROVE  /\ \A h \in running : h.at = "gave up"
         /\ \A j \in Jobs : job[j] \notin {"queued", "running"}
         /\ \A s \in Sessions : ~InProgress(s)
         /\ Blockers = {}
<1>1. Pending = {}
  BY DEF IInv, ApprovedInv, Settled
<1>2. \A j \in Jobs : job[j] \notin {"queued", "running"}
  BY <1>1 DEF Pending
<1>3. \A h \in running : h.job \in Jobs /\ (h.at # "gave up" => Owner(h))
  BY DEF IInv, QueueInv, QueueTypes, Fenced
<1>4. QED
  BY <1>2, <1>3 DEF IInv, ApprovedInv, Settled, Owner

\* A step that ends elsewhere, or leaves alone what was approved.
LEMMA NotApproved ==
  ASSUME VersionTypes, UNCHANGED <<protocol, approval>>, reports' \in {reports, reports + 1}, status' # "APPROVED"
  PROVE  ApprovedInv'
BY DEF ApprovedInv, VersionTypes

LEMMA ApprovedKept ==
  ASSUME ApprovedInv, UNCHANGED <<status, protocol, approval, job, active, summary>>,
         LateLivePass \/ changes' = changes, reports' \in {reports, reports + 1}, open' \subseteq open,
         \A s \in Sessions : InProgress(s)' => InProgress(s)
  PROVE  ApprovedInv'
<1>1. VersionTypes'
  BY DEF ApprovedInv, VersionTypes
<1>2. ASSUME status = "APPROVED" PROVE Settled'
  <2>1. Settled /\ reports \in Nat
    BY <1>2 DEF ApprovedInv, VersionTypes
  <2>2. Pending' = {} /\ \A s \in Sessions : ~InProgress(s)'
    BY <2>1 DEF Settled, Pending
  <2>3. Blockers' = {}
    BY <2>1 DEF Settled, Blockers
  <2>4. approval'[protocol'] = approval[protocol]
    OBVIOUS
  <2>5. ASSUME ~LateLivePass PROVE Signed'
    <3>1. Signed /\ UNCHANGED <<active, summary, changes>>
      BY <2>1, <2>5 DEF Settled
    <3>2. QED
      BY <2>1, <2>4, <3>1 DEF Signed
  <2>6. QED
    BY <2>2, <2>3, <2>5 DEF Settled
<1>3. QED
  BY <1>1, <1>2 DEF ApprovedInv

LEMMA ApprovedByRecording ==
  ASSUME IInv, NEW s \in Sessions, Recording(s)
  PROVE  ApprovedInv'
<1> USE DEF captureVars, queueVars, resultVars, reviewVars, issueVars
<1>v. VersionTypes /\ ApprovedInv
  BY DEF IInv, ApprovedInv
<1>1. CASE status = "APPROVED"
  <2>1. ~InProgress(s) /\ capture[s] \notin {"CREATED", "ACTIVE", "STOPPING"}
    BY <1>1, ApprovedExcludes DEF InProgress
  <2>2. CASE MarkConnected(s)
    <3>1. capture' = [capture EXCEPT ![s] = capture[s]]
      BY <2>1, <2>2 DEF MarkConnected
    <3>2. \A t \in Sessions : InProgress(t)' => InProgress(t)
      BY <3>1 DEF InProgress
    <3>3. status' \in {"APPROVED", "LIVE"}
      BY <1>1, <2>2, TransitionEffect DEF MarkConnected
    <3>4. UNCHANGED <<protocol, approval, job, active, summary, changes, reports, open>>
      BY <2>2 DEF MarkConnected
    <3>5. QED
      BY <1>1, <1>v, <3>2, <3>3, <3>4, ApprovedKept, NotApproved
  <2>3. CASE Hello(s) \/ OpenSource(s) \/ PersistProgress(s) \/ CloseEpoch(s) \/ Disconnect(s) \/ LeaveStopped(s)
    <3>1. UNCHANGED <<status, protocol, approval, job, active, summary, changes, reports, open, capture>>
      BY <2>3 DEF Hello, OpenSource, PersistProgress, CloseEpoch, Disconnect, LeaveStopped
    <3>2. QED
      BY <1>v, <3>1, ApprovedKept DEF InProgress
  <2>4. ~(CreateCapture(s) \/ RequestStop(s) \/ StopUnconnected(s)
          \/ \E expired \in BOOLEAN : FinishStop(s, expired) \/ SuperviseStop(s, expired))
    BY <1>1, <2>1 DEF CreateCapture, RequestStop, StopUnconnected, FinishStop, SuperviseStop, FinalizeStop
  <2>5. QED
    BY <2>2, <2>3, <2>4 DEF Recording
<1>2. CASE status # "APPROVED"
  <2>1. status' \in {status, "LIVE", "PROCESSING", "READY"} /\ UNCHANGED <<protocol, approval, reports>>
    BY TransitionEffect DEF Recording, CreateCapture, Hello, MarkConnected, OpenSource, PersistProgress, CloseEpoch,
       Disconnect, RequestStop, StopUnconnected, LeaveStopped, FinishStop, SuperviseStop, FinalizeStop,
       Stopped
  <2>2. QED
    BY <1>v, <1>2, <2>1, NotApproved
<1>3. QED
  BY <1>1, <1>2

LEMMA ApprovedByHandling ==
  ASSUME IInv, NEW h \in running, Handling(h)
  PROVE  ApprovedInv'
<1> USE DEF queueVars, resultVars, reviewVars, issueVars
<1>v. VersionTypes /\ ApprovedInv
  BY DEF IInv, ApprovedInv
<1>1. UNCHANGED <<protocol, approval, reports>>
  BY DEF Handling, WorkerCrash, Fault, StageFinalize, AsrStart, AsrComplete, AsrCancelled, AsrReport,
     DiarizationUnavailable, ActivateRevision, ExtractStart, ExtractEmpty, ExtractDone, LlmFails, MarkLlmFailed, Report
<1>2. CASE status # "APPROVED"
  <2>1. status' \in {status, "FAILED", "NEEDS_REVIEW"}
    BY TransitionEffect DEF Handling, WorkerCrash, Fault, StageFinalize, AsrStart, AsrComplete, AsrCancelled, AsrReport,
       DiarizationUnavailable, ActivateRevision, ExtractStart, ExtractEmpty, ExtractDone, LlmFails, MarkLlmFailed, Report
  <2>2. QED
    BY <1>v, <1>1, <1>2, <2>1, NotApproved
\* behind an approval only an attempt that has given up is left: it reopens the meeting
<1>3. CASE status = "APPROVED"
  <2>1. h.at = "gave up"
    BY <1>3, ApprovedExcludes
  <2>2. CASE WorkerCrash(h)
    <3>1. UNCHANGED <<status, protocol, approval, job, active, summary, changes, reports, open, capture>>
      BY <2>2 DEF WorkerCrash, captureVars
    <3>2. QED
      BY <1>v, <3>1, ApprovedKept DEF InProgress
  <2>3. CASE MarkLlmFailed(h)
    <3>1. "NEEDS_REVIEW" \in Allowed["APPROVED"]
      BY DEF Allowed
    <3>2. status' = "NEEDS_REVIEW"
      BY <1>3, <2>3, <3>1 DEF MarkLlmFailed, Transition
    <3>3. QED
      BY <1>v, <1>1, <3>2, NotApproved
  <2>4. QED
    BY <2>1, <2>2, <2>3 DEF Handling, Fault, StageFinalize, AsrStart, AsrComplete, AsrCancelled, AsrReport,
       DiarizationUnavailable, ActivateRevision, ExtractStart, ExtractEmpty, ExtractDone, LlmFails, Report
<1>4. QED
  BY <1>2, <1>3

LEMMA ApprovedByReviewing ==
  ASSUME IInv, NEW p \in Pages, Reviewing(p)
  PROVE  ApprovedInv'
<1> USE DEF captureVars, queueVars, resultVars, reviewVars, issueVars
<1>v. VersionTypes /\ ApprovedInv
  BY DEF IInv, ApprovedInv
<1>1. CASE PatchMeeting(p) \/ ConfirmConsent(p)
  <2>1. /\ UNCHANGED <<protocol, approval, job, active, summary, changes, reports, open, capture>>
        /\ status' \in {status, "READY"}
    BY <1>1 DEF PatchMeeting, ConfirmConsent
  <2>2. QED
    BY <1>v, <2>1, ApprovedKept, NotApproved DEF InProgress
<1>2. CASE RetryAnalysis(p)
  <2>1. status' \in {"NEEDS_REVIEW", "FAILED", "PROCESSING"} /\ UNCHANGED <<protocol, approval, reports>>
    BY <1>2, TransitionEffect DEF RetryAnalysis
  <2>2. QED
    BY <1>v, <2>1, NotApproved
<1>3. CASE Approve(p)
  <2>1. CanApprove /\ approval' = [approval EXCEPT ![protocol] = Snapshot]
        /\ UNCHANGED <<protocol, job, active, summary, changes, reports, open, capture>>
    BY <1>3 DEF Approve
  <2>2. Pending' = Pending /\ Snapshot' = Snapshot /\ Blockers' = Blockers
    BY <2>1 DEF Pending, Snapshot, Blockers
  <2>3. VersionTypes' /\ approval'[protocol'] = Snapshot'
    BY <1>v, <2>1, <2>2 DEF VersionTypes
  <2>4. Signed'
    BY <2>3 DEF Signed, Snapshot, VersionTypes
  <2>5. Settled'
    BY <2>1, <2>2, <2>4 DEF Settled, CanApprove, InProgress
  <2>6. QED
    BY <2>3, <2>5 DEF ApprovedInv
<1>4. CASE NewVersion(p)
  <2>1. "NEEDS_REVIEW" \in Allowed["APPROVED"]
    BY DEF Allowed
  <2>2. status' = "NEEDS_REVIEW" /\ protocol' = protocol + 1 /\ protocol < MaxProtocols
        /\ UNCHANGED <<approval, reports>>
    BY <1>4, <2>1 DEF NewVersion, Transition
  <2>3. QED
    BY <1>v, <2>2, MeetingAssumption DEF ApprovedInv, VersionTypes
<1>5. QED
  BY <1>1, <1>2, <1>3, <1>4 DEF Reviewing

\* Behind an approval, the steps on cards and issues can only report progress and settle questions.
LEMMA ApprovedByEditing ==
  ASSUME IInv, NEW p \in Pages \cup {None},
         \/ PatchAction(p) \/ LiveExtract
         \/ ReportProgress(p) \/ \E i \in open : ResolveIssue(p, i)
  PROVE  ApprovedInv'
<1> USE DEF captureVars, queueVars, resultVars, reviewVars, issueVars
<1>v. VersionTypes /\ ApprovedInv
  BY DEF IInv, ApprovedInv
<1>1. CASE PatchAction(p)
  <2>1. status # "APPROVED" /\ UNCHANGED <<status, protocol, approval, reports>>
    BY <1>1 DEF PatchAction
  <2>2. QED
    BY <1>v, <2>1, NotApproved
<1>2. CASE ReportProgress(p)
  <2>1. /\ UNCHANGED <<status, protocol, approval, job, active, summary, changes, open, capture>>
        /\ reports' = reports + 1
    BY <1>2 DEF ReportProgress
  <2>2. QED
    BY <1>v, <2>1, ApprovedKept DEF InProgress
<1>3. CASE \E i \in open : ResolveIssue(p, i)
  <2>1. /\ UNCHANGED <<status, protocol, approval, job, active, summary, changes, reports, capture>>
        /\ open' \subseteq open
    BY <1>3 DEF ResolveIssue
  <2>2. QED
    BY <1>v, <2>1, ApprovedKept DEF InProgress
<1>4. CASE LiveExtract
  <2>1. /\ UNCHANGED <<status, protocol, approval, job, active, summary, reports, open, capture>>
        /\ LateLivePass \/ status # "APPROVED"
    BY <1>4 DEF LiveExtract
  <2>2. QED
    BY <1>v, <2>1, ApprovedKept, NotApproved DEF InProgress
<1>5. QED
  BY <1>1, <1>2, <1>3, <1>4

LEMMA ApprovedStep ==
  ASSUME IInv, [Next]_vars
  PROVE  ApprovedInv'
<1>v. VersionTypes /\ ApprovedInv
  BY DEF IInv, ApprovedInv
<1>1. ASSUME NEW s \in Sessions, Recording(s) PROVE ApprovedInv'
  BY <1>1, ApprovedByRecording
<1>2. ASSUME NEW j \in Jobs, Claim(j) \/ Recover(j) PROVE ApprovedInv'
  <2>1. status # "APPROVED"
    BY <1>2, ApprovedExcludes DEF Claim, Recover
  <2>2. UNCHANGED <<status, protocol, approval, reports>>
    BY <1>2 DEF Claim, Recover, resultVars, reviewVars
  <2>3. QED
    BY <1>v, <2>1, <2>2, NotApproved
<1>3. ASSUME NEW h \in running, Handling(h) PROVE ApprovedInv'
  BY <1>3, ApprovedByHandling
<1>4. ASSUME NEW p \in Pages, Reviewing(p) PROVE ApprovedInv'
  BY <1>4, ApprovedByReviewing
<1>5. ASSUME \/ \E p \in Pages \cup {None} : PatchAction(p) \/ ReportProgress(p) \/ \E i \in open : ResolveIssue(p, i)
             \/ LiveExtract
      PROVE  ApprovedInv'
  BY <1>5, ApprovedByEditing
<1>6. ASSUME (\E p \in Pages : Watching(p)) \/ (\E s \in Sessions : EditSegment(s)) \/ UNCHANGED vars
      PROVE  ApprovedInv'
  <2>1. UNCHANGED <<status, protocol, approval, job, active, summary, changes, reports, open, capture>>
    BY <1>6 DEF Watching, Route, LoadMeeting, LoadReadiness, PollStatus, PollReadiness, serverVars,
       EditSegment, vars, captureVars, queueVars, resultVars, reviewVars, issueVars
  <2>2. QED
    BY <1>v, <2>1, ApprovedKept DEF InProgress
<1>7. QED
  BY <1>1, <1>2, <1>3, <1>4, <1>5, <1>6 DEF Next

LEMMA Invariance ==
  ASSUME ~LeaseLapses
  PROVE  Spec => []IInv
<1>1. Init => IInv
  BY MeetingAssumption
  DEF Init, IInv, QueueInv, QueueTypes, JobStates, Places, Fenced, ApprovedInv, VersionTypes
<1>2. IInv /\ [Next]_vars => IInv'
  BY FenceStep, ApprovedStep DEF IInv
<1>3. QED
  BY <1>1, <1>2, PTL DEF Spec

\* However the meeting came to be approved, nothing records and no job of it waits or runs.
THEOREM ApprovalIsAtRest ==
  ASSUME ~LeaseLapses
  PROVE  Spec => []ApprovedIsQuiet
<1>1. IInv => ApprovedIsQuiet
  BY DEF IInv, ApprovedInv, Settled, ApprovedIsQuiet
<1>2. QED
  BY Invariance, <1>1, PTL

\* A meeting is exported as approved exactly while it is approved, and then with the transcript,
\* the summary and the cards that it holds, though progress is reported and questions are
\* settled behind the signature.  (None is the content of no protocol.)
THEOREM ExportMatchesApproval ==
  ASSUME ~LeaseLapses, ~LateLivePass,
         \A t, s, c, r, q :
           [transcript |-> t, summary |-> s, changes |-> c, reports |-> r, questions |-> q] # None
  PROVE  Spec => []SignedVersionIsClosed
<1>1. IInv => SignedVersionIsClosed
  <2> SUFFICES ASSUME IInv PROVE SignedVersionIsClosed
    OBVIOUS
  <2>r. reports \in Nat
    BY DEF IInv, ApprovedInv, VersionTypes
  <2>1. CASE status # "APPROVED"
    <3>1. Export = [draft |-> TRUE, content |-> Snapshot]
      BY <2>1 DEF Export
    <3>2. QED
      BY <2>r, <2>1, <3>1 DEF SignedVersionIsClosed, Snapshot
  <2>2. CASE status = "APPROVED"
    <3> DEFINE signed == approval[protocol]
    <3>1. Signed
      BY <2>2 DEF IInv, ApprovedInv, Settled
    <3>2. signed = [transcript |-> active, summary |-> summary.by, changes |-> changes,
                    reports |-> signed.reports, questions |-> signed.questions]
      BY <3>1 DEF Signed
    <3>3. Export = [draft |-> FALSE, content |-> signed]
      BY <2>2, <3>2 DEF Export
    <3>4. signed.reports <= reports /\ open \subseteq signed.questions
      BY <3>1 DEF Signed
    <3> HIDE DEF signed
    <3>5. QED
      BY <2>2, <3>2, <3>3, <3>4 DEF SignedVersionIsClosed, Snapshot
  <2>3. QED
    BY <2>1, <2>2
<1>2. QED
  BY Invariance, <1>1, PTL

-----------------------------------------------------------------------------
(* A meeting in PROCESSING is driven by a job that carries it: a stage of  *)
(* the pipeline behind which the next is not queued yet, or an extraction  *)
(* whose outcome has not reached the meeting.                              *)

Waits(j) == job[j] \in {"queued", "running"}

Stages == {j \in Jobs : Kind(j) # "extract"}

After(j) ==
  <<[finalize |-> "asr", asr |-> "diarize", diarize |-> "extract"][Kind(j)], Session(j), 0>>

Undecided(j) == run[j] # "succeeded" /\ \A h \in running : h.job = j => h.at # "done"

Carries(j) ==
  /\ Waits(j)
  /\ IF j \in Stages THEN job[After(j)] = "absent" ELSE Undecided(j)

Driven == status = "PROCESSING" => \E j \in Jobs : job[j] = "failed" \/ Carries(j)

ResultTypes ==
  /\ capture \in [Sessions -> {"none", "CREATED", "ACTIVE", "STOPPING", "STOPPED"}]
  /\ active \in Sessions \cup {None}
  /\ run \in [Extracts -> {"none", "running", "succeeded", "failed"}]

\* The order in which the jobs of a session are queued.
Chain ==
  /\ \A j \in Extracts : job[j] = "absent" => run[j] = "none"
  /\ \A j \in Jobs : Kind(j) = "finalize" /\ job[j] # "absent" => capture[Session(j)] = "STOPPED"
  /\ \A j \in Stages : job[j] = "absent" => job[After(j)] = "absent"
  /\ \A h \in running : h.at = "done" /\ Kind(h.job) \in {"finalize", "diarize"} =>
       job[After(h.job)] # "absent"
  /\ \A h \in running : h.at = "empty" => Kind(h.job) = "extract"

DriveInv == QueueInv /\ ResultTypes /\ Chain /\ Driven

\* Which job is behind which.
LEMMA JobOrder ==
  /\ \A j \in Jobs : Session(j) \in Sessions /\ Kind(j) \in {"finalize", "asr", "diarize", "extract"}
  /\ \A j \in Stages : /\ j \in Jobs /\ After(j) \in Jobs
                       /\ Kind(After(j)) # "finalize"
                       /\ Kind(j) = "finalize" => Kind(After(j)) = "asr"
                       /\ Kind(j) = "asr" => Kind(After(j)) = "diarize"
                       /\ Kind(j) = "diarize" => Kind(After(j)) = "extract" /\ After(j) \notin Stages
  /\ \A i, j \in Stages : After(i) = After(j) => i = j
  /\ \A s \in Sessions : /\ <<"finalize", s, 0>> \in Stages
                         /\ Kind(<<"finalize", s, 0>>) = "finalize" /\ Session(<<"finalize", s, 0>>) = s
  /\ \A s \in Sessions, n \in 1..MaxRetries :
       /\ <<"extract", s, n>> \in Extracts /\ <<"extract", s, n>> \notin Stages
       /\ \A j \in Stages : After(j) # <<"extract", s, n>>
  /\ \A j \in Jobs : j \in Extracts <=> j \notin Stages
<1>m. MaxRetries \in Nat /\ 0 \in 0..MaxRetries
  BY MeetingAssumption
<1>1. ASSUME NEW j \in Jobs
      PROVE  \/ Kind(j) \in {"finalize", "asr", "diarize"} /\ Session(j) \in Sessions /\ j = <<Kind(j), Session(j), 0>>
             \/ Kind(j) = "extract" /\ Session(j) \in Sessions
  BY DEF Jobs, Kind, Session
<1>2. ASSUME NEW j \in Stages
      PROVE  /\ j \in Jobs /\ After(j) \in Jobs /\ Session(After(j)) = Session(j)
             /\ Kind(j) = "finalize" => Kind(After(j)) = "asr"
             /\ Kind(j) = "asr" => Kind(After(j)) = "diarize"
             /\ Kind(j) = "diarize" => Kind(After(j)) = "extract"
             /\ After(j)[3] = 0
  <2>1. j \in Jobs /\ Kind(j) \in {"finalize", "asr", "diarize"} /\ Session(j) \in Sessions
    BY <1>1 DEF Stages
  <2>2. /\ Kind(j) = "finalize" => After(j) = <<"asr", Session(j), 0>>
        /\ Kind(j) = "asr" => After(j) = <<"diarize", Session(j), 0>>
        /\ Kind(j) = "diarize" => After(j) = <<"extract", Session(j), 0>>
    BY DEF After
  <2>3. <<"asr", Session(j), 0>> \in Jobs /\ <<"diarize", Session(j), 0>> \in Jobs /\ <<"extract", Session(j), 0>> \in Jobs
    BY <1>m, <2>1 DEF Jobs
  <2>4. QED
    BY <2>1, <2>2, <2>3 DEF Kind, Session
<1>3. ASSUME NEW i \in Stages, NEW j \in Stages, After(i) = After(j) PROVE i = j
  <2>1. Session(i) = Session(j) /\ Kind(i) = Kind(j)
    BY <1>1, <1>2, <1>3 DEF Stages
  <2>2. QED
    BY <1>1, <2>1 DEF Stages
<1>4. \A s \in Sessions : <<"finalize", s, 0>> \in Jobs /\ Kind(<<"finalize", s, 0>>) = "finalize"
                          /\ Session(<<"finalize", s, 0>>) = s
  BY DEF Jobs, Kind, Session
<1>5. ASSUME NEW s \in Sessions, NEW n \in 1..MaxRetries
      PROVE  <<"extract", s, n>> \in Jobs /\ Kind(<<"extract", s, n>>) = "extract" /\ <<"extract", s, n>>[3] # 0
  <2>1. n \in 0..MaxRetries /\ n # 0
    BY <1>m
  <2>2. QED
    BY <2>1 DEF Jobs, Kind
<1>6. QED
  BY <1>1, <1>2, <1>3, <1>4, <1>5 DEF Stages, Extracts
-----------------------------------------------------------------------------
\* The chain holds together when whatever is newly queued comes behind something.
LEMMA ChainKept ==
  ASSUME QueueInv, Chain, QueueInv', ResultTypes',
         \A s \in Sessions : capture[s] = "STOPPED" => capture'[s] = "STOPPED",
         \A k \in Extracts : job'[k] = "absent" => run'[k] = run[k],
         \A k \in Jobs : job[k] # "absent" => job'[k] # "absent",
         \A k \in Jobs : job[k] = "absent" /\ job'[k] # "absent" =>
            /\ Kind(k) = "finalize" => capture'[Session(k)] = "STOPPED"
            /\ \A j \in Stages : After(j) = k => job[j] # "absent",
         \A h \in running' : h.at = "done" /\ Kind(h.job) \in {"finalize", "diarize"} =>
            h \in running \/ job'[After(h.job)] # "absent",
         \A h \in running' : h.at = "empty" => h \in running \/ Kind(h.job) = "extract"
  PROVE  Chain'
<1>1. \A k \in Extracts : job'[k] = "absent" => run'[k] = "none"
  BY DEF Chain, Extracts
<1>2. \A k \in Jobs : Kind(k) = "finalize" /\ job'[k] # "absent" => capture'[Session(k)] = "STOPPED"
  BY JobOrder DEF Chain
<1>3. \A j \in Stages : job'[j] = "absent" => job'[After(j)] = "absent"
  BY JobOrder DEF Chain
<1>4. ASSUME NEW h \in running', h.at = "done", Kind(h.job) \in {"finalize", "diarize"}
      PROVE  job'[After(h.job)] # "absent"
  <2>1. CASE h \in running
    <3>1. h.job \in Stages
      BY <1>4, <2>1 DEF QueueInv, QueueTypes, Stages
    <3>2. job[After(h.job)] # "absent" /\ After(h.job) \in Jobs
      BY <1>4, <2>1, <3>1, JobOrder DEF Chain
    <3>3. QED
      BY <3>2
  <2>2. QED
    BY <1>4, <2>1
<1>5. \A h \in running' : h.at = "empty" => Kind(h.job) = "extract"
  BY DEF Chain
<1>6. QED
  BY <1>1, <1>2, <1>3, <1>4, <1>5 DEF Chain, Stages, Extracts, After, Kind, Session

\* Steps that queue nothing and end no attempt.
LEMMA DriveUndisturbed ==
  ASSUME DriveInv, QueueInv', ResultTypes',
         \A s \in Sessions : capture[s] = "STOPPED" => capture'[s] = "STOPPED",
         UNCHANGED <<job, running, run>>,
         status' = "PROCESSING" => status = "PROCESSING"
  PROVE  DriveInv'
<1>1. Chain'
  BY ChainKept DEF DriveInv
<1>2. \A k \in Jobs : Carries(k) => Carries(k)'
  BY DEF Carries, Waits, Undecided, Stages, After, Kind, Session
<1>3. Driven'
  BY <1>2 DEF DriveInv, Driven
<1>4. QED
  BY <1>1, <1>3 DEF DriveInv

LEMMA DriveByRecording ==
  ASSUME DriveInv, QueueInv', NEW s \in Sessions, Recording(s)
  PROVE  DriveInv'
<1> USE DEF queueVars, resultVars, captureVars
<1>t. QueueInv /\ ResultTypes /\ Chain /\ Driven
  BY DEF DriveInv
<1>1. CASE CreateCapture(s) \/ Hello(s) \/ MarkConnected(s) \/ OpenSource(s) \/ PersistProgress(s)
           \/ CloseEpoch(s) \/ Disconnect(s) \/ RequestStop(s) \/ LeaveStopped(s)
  <2>1. UNCHANGED <<job, running, run, active>> /\ status' \in {status, "LIVE"}
    BY <1>1, TransitionEffect DEF CreateCapture, Hello, MarkConnected, OpenSource, PersistProgress, CloseEpoch,
       Disconnect, RequestStop, LeaveStopped
  <2>2. \/ capture' = capture
        \/ capture[s] # "STOPPED" /\ \E c \in {"CREATED", "STOPPING"} : capture' = [capture EXCEPT ![s] = c]
        \/ capture' = [capture EXCEPT ![s] = IF @ = "CREATED" THEN "ACTIVE" ELSE @]
    BY <1>1 DEF CreateCapture, Hello, MarkConnected, OpenSource, PersistProgress, CloseEpoch,
       Disconnect, RequestStop, LeaveStopped
  <2>3. /\ capture' \in [Sessions -> {"none", "CREATED", "ACTIVE", "STOPPING", "STOPPED"}]
        /\ \A t \in Sessions : capture[t] = "STOPPED" => capture'[t] = "STOPPED"
    BY <1>t, <2>2 DEF ResultTypes
  <2>4. ResultTypes'
    BY <1>t, <2>1, <2>3 DEF ResultTypes, Extracts, Jobs, Kind
  <2>5. QED
    BY <2>1, <2>3, <2>4, DriveUndisturbed
<1>2. CASE StopUnconnected(s) \/ \E expired \in BOOLEAN : FinishStop(s, expired) \/ SuperviseStop(s, expired)
  <2>0. Stopped(s) /\ capture[s] # "STOPPED"
    BY <1>2 DEF StopUnconnected, FinishStop, SuperviseStop, FinalizeStop
  <2>1. /\ capture' \in [Sessions -> {"none", "CREATED", "ACTIVE", "STOPPING", "STOPPED"}]
        /\ \A t \in Sessions : capture[t] = "STOPPED" => capture'[t] = "STOPPED"
        /\ capture'[s] = "STOPPED"
        /\ UNCHANGED <<tries, running, run, active>>
    BY <1>t, <2>0 DEF ResultTypes, Stopped
  <2>2. ResultTypes'
    BY <1>t, <2>1 DEF ResultTypes, Extracts, Jobs, Kind
  <2>3. CASE ~sound[s]
    <3>1. job' = job /\ status' \in {status, "READY"}
      BY <2>0, <2>3, TransitionEffect DEF Stopped
    <3>2. QED
      BY <2>1, <2>2, <3>1, DriveUndisturbed
  \* the recording is handed to its first stage, which carries the meeting on
  <2>4. CASE sound[s]
    <3> DEFINE fin == <<"finalize", s, 0>>
    <3>1. fin \in Stages /\ fin \in Jobs /\ Kind(fin) = "finalize" /\ Session(fin) = s
      BY JobOrder DEF Stages
    <3>2. job[fin] = "absent" /\ job[After(fin)] = "absent" /\ After(fin) \in Jobs /\ After(fin) # fin
      BY <1>t, <2>0, <3>1, JobOrder DEF Chain
    <3> HIDE DEF fin
    <3>3. job' = [job EXCEPT ![fin] = "queued"]
      BY <2>0, <2>4, <3>2 DEF Stopped, Enqueued, fin
    <3>4. job'[fin] = "queued" /\ \A k \in Jobs \ {fin} : job'[k] = job[k]
      BY <1>t, <3>1, <3>3 DEF QueueInv, QueueTypes
    <3>5. Chain'
      <4>1. \A j \in Stages : After(j) # fin
        BY <3>1, JobOrder
      <4>2. QED
        BY <1>t, <2>1, <2>2, <3>1, <3>4, <4>1, ChainKept
    <3>6. Carries(fin)'
      BY <3>1, <3>2, <3>4 DEF Carries, Waits, Stages, After, Kind, Session
    <3>7. Driven'
      BY <3>1, <3>6 DEF Driven
    <3>8. QED
      BY <2>2, <3>5, <3>7 DEF DriveInv
  <2>5. QED
    BY <2>3, <2>4
<1>3. QED
  BY <1>1, <1>2 DEF Recording

\* Steps that queue nothing new: a job that carries the meeting goes on carrying it, or
\* fails for good.
LEMMA DriveHeld ==
  ASSUME DriveInv, QueueInv', ResultTypes', UNCHANGED capture,
         status' = "PROCESSING" => status = "PROCESSING",
         \A k \in Jobs : /\ job'[k] = "absent" <=> job[k] = "absent"
                         /\ job[k] = "failed" => job'[k] = "failed"
                         /\ Waits(k) => Waits(k)' \/ job'[k] = "failed",
         \A k \in Extracts : run'[k] = run[k] \/ (job[k] # "absent" /\ run'[k] # "succeeded"),
         \A h \in running' : h.at = "done" =>
            \/ h \in running
            \/ Kind(h.job) = "asr"
            \/ h.job \in Extracts /\ run[h.job] = "succeeded",
         \A h \in running' : h.at = "empty" => h \in running \/ Kind(h.job) = "extract"
  PROVE  DriveInv'
<1>t. QueueInv /\ ResultTypes /\ Chain /\ Driven
  BY DEF DriveInv
<1>1. Chain'
  <2>1. \A h \in running' : h.at = "done" /\ Kind(h.job) \in {"finalize", "diarize"} => h \in running
    BY DEF Extracts
  <2>2. \A k \in Extracts : job'[k] = "absent" => run'[k] = run[k]
    BY DEF Extracts
  <2>3. QED
    BY <1>t, <2>1, <2>2, ChainKept
<1>2. ASSUME NEW k \in Jobs, Carries(k) PROVE Carries(k)' \/ job'[k] = "failed"
  <2>1. CASE k \in Stages
    <3>1. After(k) \in Jobs
      BY <2>1, JobOrder
    <3>2. QED
      BY <1>2, <2>1, <3>1 DEF Carries, Stages, After, Kind, Session
  <2>2. CASE k \notin Stages
    <3>1. k \in Extracts /\ Kind(k) = "extract"
      BY <2>2 DEF Stages, Extracts
    <3>2. run[k] # "succeeded" /\ \A h \in running : h.job = k => h.at # "done"
      BY <1>2, <2>2 DEF Carries, Undecided
    <3>3. Undecided(k)'
      BY <3>1, <3>2 DEF Undecided
    <3>4. QED
      BY <1>2, <2>2, <3>3 DEF Carries, Stages
  <2>3. QED
    BY <2>1, <2>2
<1>3. Driven'
  BY <1>t, <1>2 DEF Driven, Jobs
<1>4. QED
  BY <1>1, <1>3 DEF DriveInv

\* A stage hands the meeting to the stage behind it, unless it has done so before.
LEMMA BatonPassed ==
  ASSUME DriveInv, QueueInv', ResultTypes', UNCHANGED <<capture, run>>,
         status' = "PROCESSING" => status = "PROCESSING",
         NEW h \in running, h.job \in Stages, job[h.job] = "running",
         job'[After(h.job)] = IF job[After(h.job)] = "absent" THEN "queued" ELSE job[After(h.job)],
         job'[h.job] \in {"running", "succeeded"},
         \A k \in Jobs \ {h.job, After(h.job)} : job'[k] = job[k],
         \A g \in running' : g \in running \/ (g.job = h.job /\ g.at = "done")
  PROVE  DriveInv'
<1> DEFINE next == After(h.job)
<1>t. QueueInv /\ ResultTypes /\ Chain /\ Driven
  BY DEF DriveInv
<1>n. next \in Jobs /\ h.job \in Jobs /\ next # h.job /\ \A j \in Stages : After(j) = next => j = h.job
  <2>1. h.job \in Jobs /\ Kind(h.job) \in {"finalize", "asr", "diarize"}
    BY JobOrder DEF Stages
  <2>2. Kind(next) # Kind(h.job)
    BY <2>1, JobOrder
  <2>3. QED
    BY <2>1, <2>2, JobOrder
<1>w. job'[next] # "absent"
  BY <1>t, <1>n DEF QueueInv, QueueTypes
<1>1. Chain'
  <2>1. Kind(next) # "finalize"
    BY JobOrder
  <2>2. \A k \in Extracts : run'[k] = run[k]
    OBVIOUS
  <2>3. \A k \in Jobs : job[k] # "absent" => job'[k] # "absent"
    BY <1>n, <1>w
  <2>4. \A k \in Jobs : job[k] = "absent" /\ job'[k] # "absent" =>
            /\ Kind(k) = "finalize" => capture'[Session(k)] = "STOPPED"
            /\ \A j \in Stages : After(j) = k => job[j] # "absent"
    BY <1>n, <2>1
  <2>5. \A g \in running' : g.at = "done" /\ Kind(g.job) \in {"finalize", "diarize"} =>
            g \in running \/ job'[After(g.job)] # "absent"
    BY <1>w
  <2> HIDE DEF next
  <2>6. QED
    BY <1>t, <2>2, <2>3, <2>4, <2>5, ChainKept
<1>2. ASSUME job[next] = "absent" PROVE Carries(next)'
  <2>1. job'[next] = "queued"
    BY <1>2
  <2>2. CASE next \in Stages
    <3>0. Kind(h.job) \in {"finalize", "asr"} /\ Kind(next) \in {"asr", "diarize"}
      BY <2>2, JobOrder DEF Stages
    <3>1. After(next) \in Jobs /\ After(next) # h.job /\ After(next) # next
      BY <2>2, <3>0, JobOrder
    <3>2. job[After(next)] = "absent"
      BY <1>t, <1>2, <2>2 DEF Chain
    <3>3. job'[After(next)] = "absent"
      BY <3>1, <3>2
    <3>4. QED
      BY <2>1, <2>2, <3>3 DEF Carries, Waits, Stages, After, Kind, Session
  <2>3. CASE next \notin Stages
    <3>1. next \in Extracts
      BY <1>n, <2>3 DEF Stages, Extracts
    <3>2. run'[next] = "none"
      BY <1>t, <1>2, <3>1 DEF Chain
    <3>3. \A g \in running : g.job = next => g.at # "done"
      BY <1>t, <1>2 DEF QueueInv, Fenced, Owner
    <3>4. \A g \in running' : g.job = next => g.at # "done"
      BY <1>n, <3>3
    <3>5. QED
      BY <2>1, <2>3, <3>2, <3>4 DEF Carries, Waits, Undecided, Stages, After, Kind, Session
  <2>4. QED
    BY <2>2, <2>3
<1>3. ASSUME job[next] # "absent", NEW k \in Jobs, Carries(k) PROVE Carries(k)'
  <2>1. k # h.job
    BY <1>3 DEF Carries
  <2>2. job'[k] = job[k]
    BY <1>3, <2>1
  <2>3. CASE k \in Stages
    <3>1. After(k) \in Jobs /\ After(k) # next /\ job[After(k)] = "absent"
      BY <1>n, <1>3, <2>1, <2>3, JobOrder DEF Carries
    <3>2. job'[After(k)] = "absent"
      BY <3>1
    <3>3. QED
      BY <1>3, <2>2, <2>3, <3>2 DEF Carries, Waits, Stages, After, Kind, Session
  <2>4. CASE k \notin Stages
    <3>1. Undecided(k)'
      BY <1>3, <2>1, <2>4 DEF Carries, Undecided
    <3>2. QED
      BY <1>3, <2>2, <2>4, <3>1 DEF Carries, Waits, Stages
  <2>5. QED
    BY <2>3, <2>4
<1>4. \A k \in Jobs : job[k] = "failed" => job'[k] = "failed"
  BY <1>n
<1>5. Jobs' = Jobs
  BY DEF Jobs
<1> HIDE DEF next
<1>6. Driven'
  BY <1>t, <1>n, <1>2, <1>3, <1>4, <1>5 DEF Driven
<1>7. QED
  BY <1>1, <1>6 DEF DriveInv

LEMMA DriveByHandling ==
  ASSUME DriveInv, QueueInv', NEW h \in running, Handling(h)
  PROVE  DriveInv'
<1> USE DEF queueVars, captureVars, resultVars, reviewVars
<1>t. QueueInv /\ QueueTypes /\ Fenced /\ ResultTypes /\ Chain /\ Driven
  BY DEF DriveInv, QueueInv
<1>h. /\ h.job \in Jobs
      /\ h.at # "gave up" => Owner(h) /\ job[h.job] = "running"
  BY <1>t DEF QueueTypes, Fenced, Owner
<1>f. \A r : run' = [run EXCEPT ![h.job] = r] /\ r \in {"none", "running", "succeeded", "failed"}
               => run' \in [Extracts -> {"none", "running", "succeeded", "failed"}]
  BY <1>t DEF ResultTypes, Extracts
<1>r. \A place \in Places : [h EXCEPT !.at = place].at = place /\ [h EXCEPT !.at = place].job = h.job
  BY <1>t DEF QueueTypes, Places
\* steps that may end the attempt, and do not end its job well
<1>1. CASE WorkerCrash(h) \/ AsrCancelled(h) \/ MarkLlmFailed(h) \/ Fault(h) \/ LlmFails(h)
  <2>1. /\ UNCHANGED <<capture, active, run>> /\ status' \in {status, "NEEDS_REVIEW"}
        /\ \A g \in running' : g.at \in {"done", "empty"} => g \in running
    BY <1>r, <1>1, TransitionEffect DEF WorkerCrash, AsrCancelled, MarkLlmFailed, Fault, LlmFails, Leave, Goto, Places
  <2>2. job' = job \/ (job' = [job EXCEPT ![h.job] = Retried(h.job)] /\ job[h.job] = "running")
    <3>1. CASE WorkerCrash(h) \/ AsrCancelled(h) \/ MarkLlmFailed(h)
      BY <3>1 DEF WorkerCrash, AsrCancelled, MarkLlmFailed
    <3>2. CASE Fault(h) \/ LlmFails(h)
      <4>1. h.at # "gave up" /\ job' = Failed(h)
        BY <3>2 DEF Fault, LlmFails
      <4>2. QED
        BY <1>h, <4>1 DEF Failed
    <3>3. QED
      BY <1>1, <3>1, <3>2
  <2>3. Retried(h.job) \in {"queued", "failed"}
    BY DEF Retried
  <2>4. \A k \in Jobs : /\ job'[k] = "absent" <=> job[k] = "absent"
                        /\ job[k] = "failed" => job'[k] = "failed"
                        /\ Waits(k) => Waits(k)' \/ job'[k] = "failed"
    BY <1>t, <2>2, <2>3 DEF QueueTypes, Waits
  <2>5. ResultTypes'
    BY <1>t, <2>1 DEF ResultTypes, Extracts, Jobs, Kind
  <2>6. QED
    BY <2>1, <2>4, <2>5, DriveHeld
\* the recognition
<1>2. CASE AsrStart(h) \/ AsrComplete(h)
  <2>1. /\ UNCHANGED <<capture, active, run, job, status>>
        /\ \A g \in running' : /\ g.at = "done" => g \in running \/ Kind(g.job) = "asr"
                               /\ g.at = "empty" => g \in running
    <3>1. Kind(h.job) = "asr" /\ UNCHANGED <<capture, active, run, job, status>>
      BY <1>2 DEF AsrStart, AsrComplete
    <3>2. Goto(h, "done") \/ Goto(h, "started")
      BY <1>2 DEF AsrStart, AsrComplete
    <3>3. QED
      BY <1>r, <3>1, <3>2 DEF Goto, Places
  <2>2. ResultTypes'
    BY <1>t, <2>1 DEF ResultTypes, Extracts, Jobs, Kind
  <2>3. QED
    BY <2>1, <2>2, DriveHeld DEF Waits
\* the hand-overs
<1>3. CASE StageFinalize(h) \/ ActivateRevision(h) \/ AsrReport(h)
  <2> DEFINE next == After(h.job)
             ended == [job EXCEPT ![h.job] = "succeeded"]
  <2>1. /\ h.at # "gave up" /\ h.job \in Stages /\ UNCHANGED <<capture, run, status>>
        /\ active' \in Sessions \cup {None}
    <3>1. /\ h.at # "gave up" /\ Kind(h.job) \in {"finalize", "asr", "diarize"}
          /\ UNCHANGED <<capture, run, status>> /\ active' \in {active, Session(h.job)}
      BY <1>3 DEF StageFinalize, ActivateRevision, AsrReport
    <3>2. QED
      BY <1>t, <1>h, <3>1, JobOrder DEF Stages, ResultTypes
  <2>2. \/ job' = Enqueued(next)
        \/ job' = [ended EXCEPT ![next] = Enqueued(next)[next]]
    <3>1. CASE StageFinalize(h)
      <4>1. next = <<"asr", Session(h.job), 0>>
        BY <3>1 DEF StageFinalize, After
      <4>2. QED
        BY <3>1, <4>1 DEF StageFinalize
    <3>2. CASE ActivateRevision(h)
      <4>1. next = <<"extract", Session(h.job), 0>>
        BY <3>2 DEF ActivateRevision, After
      <4>2. QED
        BY <3>2, <4>1 DEF ActivateRevision
    <3>3. CASE AsrReport(h)
      <4>1. next = <<"diarize", Session(h.job), 0>>
        BY <3>3 DEF AsrReport, After
      <4>2. Completed(h) = ended
        BY <1>h, <2>1 DEF Completed
      <4> HIDE DEF next, ended
      <4>3. QED
        BY <3>3, <4>1, <4>2 DEF AsrReport
    <3>4. QED
      BY <1>3, <3>1, <3>2, <3>3
  <2>3. next \in Jobs /\ next # h.job
    <3>1. Kind(h.job) \in {"finalize", "asr", "diarize"}
      BY <2>1, JobOrder DEF Stages
    <3>2. QED
      BY <2>1, <3>1, JobOrder
  <2>4. \A g \in running' : g \in running \/ (g.job = h.job /\ g.at = "done")
    BY <1>r, <1>3 DEF StageFinalize, ActivateRevision, AsrReport, Goto, Leave, Places
  <2>5. ResultTypes'
    BY <1>t, <2>1 DEF ResultTypes, Extracts, Jobs, Kind
  <2> HIDE DEF next
  <2>6. job \in [Jobs -> JobStates] /\ ended \in [Jobs -> JobStates]
    BY <1>t, <1>h DEF QueueTypes, JobStates
  <2>7. Enqueued(next) \in [Jobs -> JobStates]
        /\ Enqueued(next)[next] = (IF job[next] = "absent" THEN "queued" ELSE job[next])
        /\ \A k \in Jobs \ {next} : Enqueued(next)[k] = job[k]
    BY <2>3, <2>6 DEF Enqueued, JobStates
  <2>8. /\ job'[next] = (IF job[next] = "absent" THEN "queued" ELSE job[next])
        /\ job'[h.job] \in {"running", "succeeded"}
        /\ \A k \in Jobs \ {h.job, next} : job'[k] = job[k]
    BY <1>h, <2>1, <2>2, <2>3, <2>6, <2>7
  <2>9. QED
    BY <1>h, <2>1, <2>4, <2>5, <2>8, BatonPassed DEF next
<1>4. CASE ExtractStart(h)
  <2>1. /\ h.at # "gave up" /\ h.job \in Extracts /\ UNCHANGED <<capture, active, job, status>>
    BY <1>h, <1>4 DEF ExtractStart, Extracts
  <2>2. \/ run' = run
        \/ run' = [run EXCEPT ![h.job] = IF @ = "none" THEN "running" ELSE @] /\ run[h.job] # "succeeded"
    BY <1>4 DEF ExtractStart
  <2>p. /\ Kind(h.job) = "extract"
        /\ (Goto(h, "done") /\ run[h.job] = "succeeded") \/ Goto(h, "started") \/ Goto(h, "empty")
    BY <1>4 DEF ExtractStart
  <2>3. \A g \in running' : g.at = "done" =>
          g \in running \/ (g.job = h.job /\ run[h.job] = "succeeded")
    BY <1>r, <2>p DEF Goto, Places
  <2>e. \A g \in running' : g.at = "empty" => g \in running \/ Kind(g.job) = "extract"
    BY <1>r, <2>p DEF Goto, Places
  <2>4. \A k \in Extracts : run'[k] = run[k] \/ (job[k] # "absent" /\ run'[k] # "succeeded")
    BY <1>t, <1>h, <2>1, <2>2 DEF ResultTypes
  <2>5. ResultTypes'
    <3>1. run' \in [Extracts -> {"none", "running", "succeeded", "failed"}]
      BY <1>t, <2>2 DEF ResultTypes
    <3>2. QED
      BY <1>t, <2>1, <3>1 DEF ResultTypes, Extracts, Jobs, Kind
  <2>6. QED
    BY <2>1, <2>3, <2>e, <2>4, <2>5, DriveHeld DEF Waits
\* the outcome of an extraction takes the meeting out of PROCESSING
<1>5. CASE ExtractEmpty(h) \/ \E failed, says \in BOOLEAN : ExtractDone(h, failed, says)
  <2>1. /\ UNCHANGED <<capture, active, job>> /\ Goto(h, "done") /\ h.at # "gave up"
        /\ \E r \in {"succeeded", "failed"} : run' = [run EXCEPT ![h.job] = r]
        /\ Transition("FAILED") \/ Transition("NEEDS_REVIEW")
    BY <1>5 DEF ExtractEmpty, ExtractDone
  <2>2. status' # "PROCESSING"
    <3>1. {"FAILED", "NEEDS_REVIEW"} \subseteq Allowed["PROCESSING"]
      BY DEF Allowed
    <3>2. QED
      BY <2>1, <3>1 DEF Transition
  <2>3. ResultTypes'
    <3>1. run' \in [Extracts -> {"none", "running", "succeeded", "failed"}]
      BY <1>f, <2>1
    <3>2. QED
      BY <1>t, <2>1, <3>1 DEF ResultTypes, Extracts, Jobs, Kind
  <2>4. Chain'
    <3>1. \A k \in Extracts : job'[k] = "absent" => run'[k] = run[k]
      BY <1>t, <1>h, <2>1 DEF ResultTypes
    <3>2. Kind(h.job) = "extract"
      BY <1>t, <1>5 DEF ExtractEmpty, ExtractDone, Chain
    <3>4. \A g \in running' : g \in running \/ (g.at = "done" /\ Kind(g.job) = "extract")
      BY <1>r, <2>1, <3>2 DEF Goto, Places
    <3>5. QED
      BY <1>t, <2>1, <2>3, <3>1, <3>4, ChainKept
  <2>5. QED
    BY <2>2, <2>3, <2>4 DEF DriveInv, Driven
\* a job that ends well has carried the meeting no longer
<1>6. CASE Report(h)
  <2>1. /\ h.at = "done" /\ Kind(h.job) # "asr" /\ UNCHANGED <<capture, active, run, status>>
        /\ job' = [job EXCEPT ![h.job] = "succeeded"] /\ job[h.job] = "running" /\ running' \subseteq running
    BY <1>h, <1>6 DEF Report, Completed, Leave
  <2>2. ~Carries(h.job)
    <3>1. CASE h.job \in Stages
      <4>1. Kind(h.job) \in {"finalize", "diarize"}
        BY <2>1, <3>1, JobOrder DEF Stages
      <4>2. job[After(h.job)] # "absent"
        BY <1>t, <2>1, <4>1 DEF Chain
      <4>3. QED
        BY <3>1, <4>2 DEF Carries
    <3>2. CASE h.job \notin Stages
      BY <2>1, <3>2 DEF Carries, Undecided
    <3>3. QED
      BY <3>1, <3>2
  <2>3. \A k \in Jobs : /\ job'[k] = "absent" <=> job[k] = "absent"
                        /\ job[k] = "failed" => job'[k] = "failed"
                        /\ k # h.job => job'[k] = job[k]
    BY <1>t, <1>h, <2>1 DEF QueueTypes
  <2>4. ResultTypes'
    BY <1>t, <2>1 DEF ResultTypes, Extracts, Jobs, Kind
  <2>5. Chain'
    BY <1>t, <2>1, <2>3, <2>4, ChainKept
  <2>6. ASSUME NEW k \in Jobs, Carries(k) PROVE Carries(k)'
    <3>1. job'[k] = job[k]
      BY <2>2, <2>3, <2>6
    <3>2. CASE k \in Stages
      <4>1. After(k) \in Jobs /\ job[After(k)] = "absent"
        BY <2>6, <3>2, JobOrder DEF Carries
      <4>2. job'[After(k)] = "absent"
        BY <2>3, <4>1
      <4>3. QED
        BY <2>6, <3>1, <3>2, <4>2 DEF Carries, Waits, Stages, After, Kind, Session
    <3>3. CASE k \notin Stages
      BY <2>1, <2>6, <3>1, <3>3 DEF Carries, Waits, Undecided, Stages, Kind, Jobs
    <3>4. QED
      BY <3>2, <3>3
  <2>7. Driven'
    BY <1>t, <2>1, <2>3, <2>6 DEF Driven, Jobs
  <2>8. QED
    BY <2>4, <2>5, <2>7 DEF DriveInv
<1>7. CASE DiarizationUnavailable(h)
  <2>1. UNCHANGED <<capture, active, run, job, running, status>>
    BY <1>7 DEF DiarizationUnavailable
  <2>2. ResultTypes'
    BY <1>t, <2>1 DEF ResultTypes, Extracts, Jobs, Kind
  <2>3. QED
    BY <2>1, <2>2, DriveUndisturbed
<1>8. QED
  BY <1>1, <1>2, <1>3, <1>4, <1>5, <1>6, <1>7 DEF Handling

LEMMA DriveByReviewing ==
  ASSUME DriveInv, QueueInv', NEW p \in Pages, Reviewing(p)
  PROVE  DriveInv'
<1> USE DEF queueVars, captureVars, resultVars, reviewVars
<1>t. QueueInv /\ QueueTypes /\ Fenced /\ ResultTypes /\ Chain /\ Driven
  BY DEF DriveInv, QueueInv
<1>0. ASSUME UNCHANGED <<capture, active, run>> PROVE ResultTypes'
  BY <1>t, <1>0 DEF ResultTypes, Extracts, Jobs, Kind
\* the repeated analysis carries the meeting
<1>1. CASE RetryAnalysis(p)
  <2>1. PICK n \in 1..MaxRetries : /\ job[<<"extract", active, n>>] = "absent"
                                   /\ job' = Enqueued(<<"extract", active, n>>)
    BY <1>1 DEF RetryAnalysis
  <2>2. active \in Sessions /\ UNCHANGED <<capture, active, run, running>>
    BY <1>t, <1>1 DEF RetryAnalysis, TranscriptReady, ResultTypes
  <2>e. PICK ext : ext = <<"extract", active, n>>
    OBVIOUS
  <2>3. ext \in Jobs /\ ext \in Extracts /\ ext \notin Stages /\ \A j \in Stages : After(j) # ext
    BY <2>2, <2>e, JobOrder DEF Extracts
  <2>4. job[ext] = "absent" /\ job' = [job EXCEPT ![ext] = "queued"]
    BY <2>1, <2>e DEF Enqueued
  <2>5. Kind(ext) = "extract"
    BY <2>3 DEF Extracts
  <2>6. job'[ext] = "queued" /\ \A k \in Jobs \ {ext} : job'[k] = job[k]
    BY <1>t, <2>3, <2>4 DEF QueueTypes
  <2>7. ResultTypes'
    BY <1>0, <2>2
  <2>8. Chain'
    BY <1>t, <2>2, <2>3, <2>4, <2>5, <2>6, <2>7, ChainKept
  <2>9. Carries(ext)'
    <3>1. run'[ext] = "none"
      BY <1>t, <2>2, <2>3, <2>4 DEF Chain
    <3>2. \A g \in running' : g.job = ext => g.at # "done"
      BY <1>t, <2>2, <2>4 DEF Fenced, Owner
    <3>3. Undecided(ext)'
      BY <3>1, <3>2 DEF Undecided
    <3>4. QED
      BY <2>3, <2>6, <3>3 DEF Carries, Waits, Stages, Kind, Jobs
  <2>10. Driven'
    BY <2>3, <2>9 DEF Driven, Jobs
  <2>11. QED
    BY <2>7, <2>8, <2>10 DEF DriveInv
<1>2. CASE PatchMeeting(p) \/ ConfirmConsent(p)
           \/ Approve(p) \/ NewVersion(p)
  <2>1. /\ UNCHANGED <<capture, active, run, job, running>>
        /\ status' \in {status, "READY", "APPROVED", "NEEDS_REVIEW"}
    BY <1>2, TransitionEffect DEF PatchMeeting, ConfirmConsent, Approve, NewVersion
  <2>2. QED
    BY <1>0, <2>1, DriveUndisturbed
<1>3. QED
  BY <1>1, <1>2 DEF Reviewing

LEMMA DriveStep ==
  ASSUME DriveInv, QueueInv', [Next]_vars
  PROVE  DriveInv'
<1> USE DEF queueVars, captureVars, resultVars, reviewVars
<1>t. QueueInv /\ QueueTypes /\ ResultTypes /\ Chain /\ Driven
  BY DEF DriveInv, QueueInv
<1>0. ASSUME UNCHANGED <<capture, active, run>> PROVE ResultTypes'
  BY <1>t, <1>0 DEF ResultTypes, Extracts, Jobs, Kind
<1>1. ASSUME NEW s \in Sessions, Recording(s) PROVE DriveInv'
  BY <1>1, DriveByRecording
<1>2. ASSUME NEW j \in Jobs, Claim(j) \/ Recover(j) PROVE DriveInv'
  <2>1. UNCHANGED <<capture, active, run, status>>
    BY <1>2 DEF Claim, Recover
  <2>2. \E new \in {"running", "queued", "failed"} :
          job[j] \in {"queued", "running"} /\ job' = [job EXCEPT ![j] = new]
    BY <1>2 DEF Claim, Recover, Retried
  <2>3. \A h \in running' : h.at \in {"done", "empty"} => h \in running
    BY <1>2 DEF Claim, Recover
  <2>4. \A k \in Jobs : /\ job'[k] = "absent" <=> job[k] = "absent"
                        /\ job[k] = "failed" => job'[k] = "failed"
                        /\ Waits(k) => Waits(k)' \/ job'[k] = "failed"
    BY <1>t, <2>2 DEF QueueTypes, Waits
  <2>5. QED
    BY <1>0, <2>1, <2>3, <2>4, DriveHeld
<1>3. ASSUME NEW h \in running, Handling(h) PROVE DriveInv'
  BY <1>3, DriveByHandling
<1>4. ASSUME NEW p \in Pages, Reviewing(p) PROVE DriveInv'
  BY <1>4, DriveByReviewing
<1>5. ASSUME \/ \E p \in Pages : Watching(p)
             \/ \E s \in Sessions : EditSegment(s)
             \/ \E p \in Pages \cup {None} : PatchAction(p) \/ ReportProgress(p) \/ \E i \in open : ResolveIssue(p, i)
             \/ LiveExtract \/ UNCHANGED vars
      PROVE  DriveInv'
  <2>1. UNCHANGED <<capture, active, run, job, running, status>>
    BY <1>5 DEF Watching, Route, LoadMeeting, LoadReadiness, PollStatus, PollReadiness, serverVars,
       EditSegment, PatchAction, ReportProgress, ResolveIssue, LiveExtract, vars
  <2>2. QED
    BY <1>0, <2>1, DriveUndisturbed
<1>6. QED
  BY <1>1, <1>2, <1>3, <1>4, <1>5 DEF Next

\* Between the stages of the pipeline, and when one is repeated, the chain never breaks: a
\* meeting in PROCESSING has a job that waits or runs, or one that has failed for good.
THEOREM ProcessingHasADriver ==
  ASSUME ~LeaseLapses
  PROVE  Spec => []ProcessingIsDriven
<1>1. Init => DriveInv
  <2> SUFFICES ASSUME Init PROVE DriveInv
    OBVIOUS
  <2>1. QueueInv /\ ResultTypes
    BY MeetingAssumption DEF Init, QueueInv, QueueTypes, JobStates, Places, Fenced, ResultTypes
  <2>2. Chain
    BY JobOrder DEF Init, Chain, Extracts
  <2>3. QED
    BY <2>1, <2>2 DEF Init, DriveInv, Driven
<1>2. DriveInv /\ [Next]_vars => DriveInv'
  BY FenceStep, DriveStep DEF DriveInv
<1>3. DriveInv => ProcessingIsDriven
  BY DEF DriveInv, Driven, Carries, Waits, ProcessingIsDriven, Pending
<1>4. QED
  BY <1>1, <1>2, <1>3, PTL DEF Spec

-----------------------------------------------------------------------------
(* One card, for any accounts, participants, dates and kinds of reminders.  *)
(* ProtectedSchedule is inductive as it stands, for the reason the code     *)
(* has: a card comes into human hands by a request, every request that      *)
(* changes what its reminders depend on plans them anew from what it leaves *)
(* behind, and the passes, which do not, never touch such a card.           *)

\* What is scheduled after a card was planned anew suits the card.
LEMMA RescheduleSuits ==
  ASSUME Reschedule
  PROVE  {k \in Keys : note'[k] = "scheduled"} \subseteq Suitable'
<1>1. ASSUME NEW k \in Keys, note'[k] = "scheduled"
      PROVE  k \in Wanted'
  BY <1>1 DEF Reschedule
<1>2. Wanted' \subseteq Suitable'
  BY DEF Wanted
<1>3. QED
  BY <1>1, <1>2

\* Steps after which no more is scheduled than before, of a card whose plan is the same.
LEMMA PlanUntouched ==
  ASSUME ProtectedSchedule, UNCHANGED <<review, execution, due, confirmed, waiting>>,
         \A k \in Keys : note'[k] = "scheduled" => note[k] = "scheduled"
  PROVE  ProtectedSchedule'
<1>1. Suitable' = Suitable /\ Keys' = Keys
  BY DEF Suitable, Planned, Keys
<1>2. QED
  BY <1>1 DEF ProtectedSchedule, Protected

LEMMA ScheduleStep ==
  ASSUME ProtectedSchedule, [CardNext]_allVars
  PROVE  ProtectedSchedule'
<1>1. ASSUME NEW kind, PersistCard(kind) PROVE ProtectedSchedule'
  BY <1>1 DEF PersistCard, ProtectedSchedule, Protected
<1>2. CASE Supersede
  BY <1>2 DEF Supersede, ProtectedSchedule, Protected
<1>3. ASSUME NEW u, NEW date, NEW who, NEW verdict, NEW confirm, Patch(u, date, who, verdict, confirm)
      PROVE  ProtectedSchedule'
  BY <1>3, RescheduleSuits DEF Patch, ProtectedSchedule, Keys
<1>4. ASSUME NEW u, NEW progress, SetExecution(u, progress) PROVE ProtectedSchedule'
  BY <1>4, RescheduleSuits DEF SetExecution, ProtectedSchedule, Keys
<1>5. ASSUME NEW u, NEW p, NEW a, LinkUser(u, p, a) PROVE ProtectedSchedule'
  BY <1>5, PlanUntouched DEF LinkUser
<1>6. CASE DeliverDue
  <2>1. ASSUME NEW k \in Keys, note'[k] = "scheduled" PROVE note[k] = "scheduled"
    BY <1>6, <2>1 DEF DeliverDue
  <2>2. QED
    BY <1>6, <2>1, PlanUntouched DEF DeliverDue, cardVars
<1>7. CASE NineOClock \/ UNCHANGED allVars
  BY <1>7, PlanUntouched DEF NineOClock, cardVars, allVars
<1>8. QED
  BY <1>1, <1>2, <1>3, <1>4, <1>5, <1>6, <1>7 DEF CardNext

\* A card in human hands is never reminded of by a deadline it no longer has, nor when it
\* asks for no reminders.
THEOREM ScheduleIsItsOwn == CardSpec => []ProtectedSchedule
<1>1. CardInit => ProtectedSchedule
  BY DEF CardInit, ProtectedSchedule, Protected
<1>2. QED
  BY <1>1, ScheduleStep, PTL DEF CardSpec
=============================================================================
