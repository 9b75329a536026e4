------------------------------ MODULE Meeting ------------------------------
(***************************************************************************)
(* The life of one meeting: its recording sessions, the jobs that process  *)
(* a recording, the review of the protocol on a secretary's page, and its  *)
(* approval.                                                               *)
(*                                                                         *)
(* A database transaction (they are serialised: BEGIN IMMEDIATE) is one    *)
(* action; what happens between the transactions of one handler can be     *)
(* anything.  The queue is JobQueue seen from outside: a job is claimed,   *)
(* an attempt of it runs, and only the latest attempt may report           *)
(* (JobQueue!FencedOwner), so that an attempt needs no worker's name.      *)
(* The sound of a session is "none yet" or "some"; a transcript has words  *)
(* or not.  Consent is confirmed once the meeting has left DRAFT.  Of the  *)
(* blocking issues only those of the pipeline are kept: the questions about *)
(* a card can only keep a protocol from being approved.  A page learns of  *)
(* the server by requests, which are answered; one that fails shows an     *)
(* error until the page is loaded again.                                   *)
(***************************************************************************)
EXTENDS Naturals, FiniteSets

CONSTANTS
  Sessions,      \* recording sessions
  Pages,         \* secretaries' pages that show the protocol
  None,
  MaxAttempts,   \* Job.max_attempts
  Handlers,      \* bound: job handlers that run at once
  MaxRepeated,   \* bound: jobs that are attempted more than once
  MaxRetries,    \* bound: repeated analyses of one transcript
  MaxProtocols,  \* bound: protocol versions
  MaxChanges,    \* bound: changes of cards, reports of progress and questions, together
  LeaseLapses,   \* environment: a lease may end while its handler still works
  LateLivePass,  \* environment: a live extraction may still run behind an approval
  PromptLoads    \* environment: the answers of one load are not a whole job apart

ASSUME MeetingAssumption ==
  /\ None \notin Sessions \cup Pages
  /\ {MaxAttempts, Handlers, MaxProtocols} \subseteq Nat \ {0}
  /\ {MaxRepeated, MaxRetries, MaxChanges} \subseteq Nat
  /\ {LeaseLapses, LateLivePass, PromptLoads} \subseteq BOOLEAN

VARIABLES
  status,     \* Meeting.status
  protocol,   \* Meeting.protocol_version
  capture,    \* CaptureSession.state of a session
  link,       \* its connection: "down", "hello" (authenticated), "up"
  epoch,      \* its source epoch: "none", "open", "closed"
  sound,      \* some of its sound is durable
  job,        \* Job.state, "absent" before the enqueue
  tries,      \* Job.attempts
  running,    \* the attempts some worker is executing
  revision,   \* TranscriptRevision of a session's final pass
  words,      \* it has recognised speech
  edited,     \* it has manual edits
  active,     \* Meeting.active_transcript_revision_id
  run,        \* ExtractionRun.status of an extract job
  latest,     \* the last extract job that created a run, per transcript
  summary,    \* the active summary: the job that wrote it, and whether it says anything
  changes,    \* how often a card was changed: by a person, or by a live extraction
  reports,    \* how often somebody reported the progress of a card
  approval,   \* ProtocolApproval.snapshot of a protocol version
  open,       \* open issues of the pipeline
  issued,     \* the dedupe keys of all its issues so far
  page        \* what a page has fetched of the meeting (its status and whether
              \* its version is still the current one) and of its readiness

captureVars == <<capture, link, epoch, sound>>
queueVars   == <<job, tries, running>>
reviewVars  == <<changes, reports, approval>>
resultVars  == <<revision, words, edited, active, run, latest, summary, reviewVars>>
issueVars   == <<open, issued>>
vars == <<status, protocol, captureVars, queueVars, resultVars, issueVars, page>>

-----------------------------------------------------------------------------
(* Status, jobs and issues. *)

Allowed ==
  [DRAFT        |-> {"READY"},
   READY        |-> {"LIVE", "PROCESSING", "DRAFT"},
   LIVE         |-> {"PROCESSING", "READY", "FAILED"},
   PROCESSING   |-> {"NEEDS_REVIEW", "FAILED", "LIVE"},
   NEEDS_REVIEW |-> {"APPROVED", "PROCESSING"},
   APPROVED     |-> {"NEEDS_REVIEW"},
   FAILED       |-> {"PROCESSING", "NEEDS_REVIEW"}]

Statuses == DOMAIN Allowed

\* A compare-and-set: where it is not allowed, nothing happens.
Transition(target) == status' = IF target \in Allowed[status] THEN target ELSE status

Loading == [meeting |-> None, readiness |-> None]
Outdated(view) == IF view.meeting = None THEN view ELSE [view EXCEPT !.meeting.current = FALSE]

\* Every successful transition bumps Meeting.version; so do other writes of the row.
Bump(always) ==
  page' = IF always \/ status' # status THEN [p \in Pages |-> Outdated(page[p])] ELSE page

\* The page that made the request is loaded again when it is answered.
Refresh(p, always) ==
  page' = [q \in Pages |-> IF q = p THEN Loading
                           ELSE IF always \/ status' # status THEN Outdated(page[q]) ELSE page[q]]

Jobs == ({"finalize", "asr", "diarize"} \X Sessions \X {0})
        \cup ({"extract"} \X Sessions \X (0..MaxRetries))
Kind(j)    == j[1]
Session(j) == j[2]
Extracts   == {j \in Jobs : Kind(j) = "extract"}
Pending    == {j \in Jobs : job[j] \in {"queued", "running"}}

Enqueued(j) == [job EXCEPT ![j] = IF @ = "absent" THEN "queued" ELSE @]

Owner(h) == job[h.job] = "running" /\ tries[h.job] = h.try
Retried(j) == IF tries[j] < MaxAttempts THEN "queued" ELSE "failed"

\* The reports of an attempt have no effect once it has lost the lease.
Completed(h) == IF Owner(h) THEN [job EXCEPT ![h.job] = "succeeded"] ELSE job
Failed(h)    == IF Owner(h) THEN [job EXCEPT ![h.job] = Retried(h.job)] ELSE job

Goto(h, place) == running' = (running \ {h}) \cup {[h EXCEPT !.at = place]}
Leave(h)       == running' = running \ {h}

\* add_issue: one row per dedupe key, whatever became of it.
Raise(keys) ==
  /\ open'   = open \cup (keys \ issued)
  /\ issued' = issued \cup keys

\* The issues of the pipeline that must be settled before the approval.
Blocking == {"empty_transcript", "analysis_incomplete", "llm_unavailable"}
Blockers == {i \in open : i[1] \in Blocking}

MayChange == changes + reports + Cardinality({i \in issued : i[1] \notin Blocking}) < MaxChanges

InProgress(s) == capture[s] \in {"CREATED", "ACTIVE", "STOPPING"}

-----------------------------------------------------------------------------
(* Recording. *)

Init ==
  /\ status = "DRAFT" /\ protocol = 1
  /\ capture = [s \in Sessions |-> "none"]
  /\ link    = [s \in Sessions |-> "down"]
  /\ epoch   = [s \in Sessions |-> "none"]
  /\ sound   = [s \in Sessions |-> FALSE]
  /\ job     = [j \in Jobs |-> "absent"]
  /\ tries   = [j \in Jobs |-> 0]
  /\ running = {}
  /\ revision = [s \in Sessions |-> "none"]
  /\ words    = [s \in Sessions |-> FALSE]
  /\ edited   = [s \in Sessions |-> FALSE]
  /\ active = None
  /\ run    = [j \in Extracts |-> "none"]
  /\ latest = [s \in Sessions |-> None]
  /\ summary = [by |-> None, says |-> FALSE]
  /\ changes = 0 /\ reports = 0
  /\ approval = [v \in 1..MaxProtocols |-> None]
  /\ open = {} /\ issued = {}
  /\ page = [p \in Pages |-> Loading]

Shown(p)  == page[p].meeting # None /\ page[p].readiness # None
Shows(p, statuses) == Shown(p) /\ page[p].meeting.status \in statuses

\* The preparation form of an online meeting stores its link, then confirms
\* the consent; the page is loaded again after the second.
PatchMeeting(p) ==
  /\ Shows(p, {"DRAFT", "READY"})
  /\ page[p].meeting.current
  /\ status # "APPROVED"
  /\ status' = status
  /\ Bump(TRUE)
  /\ UNCHANGED <<protocol, captureVars, queueVars, resultVars, issueVars>>

ConfirmConsent(p) ==
  /\ Shows(p, {"DRAFT"})
  /\ status' = IF status = "DRAFT" THEN "READY" ELSE status
  /\ Refresh(p, TRUE)
  /\ UNCHANGED <<protocol, captureVars, queueVars, resultVars, issueVars>>

CreateCapture(s) ==
  /\ status \in {"READY", "LIVE"}
  /\ capture[s] = "none"
  /\ \A t \in Sessions : ~InProgress(t)
  /\ capture' = [capture EXCEPT ![s] = "CREATED"]
  /\ UNCHANGED <<status, protocol, link, epoch, sound, queueVars, resultVars, issueVars, page>>

\* authenticate_hello reads the session's state in a transaction of its own.
Hello(s) ==
  /\ link[s] = "down"
  /\ InProgress(s)
  /\ link' = [link EXCEPT ![s] = "hello"]
  /\ UNCHANGED <<status, protocol, capture, epoch, sound, queueVars, resultVars, issueVars, page>>

MarkConnected(s) ==
  /\ link[s] = "hello"
  /\ link' = [link EXCEPT ![s] = "up"]
  /\ capture' = [capture EXCEPT ![s] = IF @ = "CREATED" THEN "ACTIVE" ELSE @]
  /\ Transition("LIVE")
  /\ Bump(FALSE)
  /\ UNCHANGED <<protocol, epoch, sound, queueVars, resultVars, issueVars>>

\* A new epoch; the source goes on in an epoch that is still open.  What a
\* connection does after its session has STOPPED is left out, here and below:
\* nothing in this module looks at the sources of such a session again.
OpenSource(s) ==
  /\ link[s] = "up"
  /\ epoch[s] # "open"
  /\ capture[s] \notin {"STOPPING", "STOPPED"}
  /\ epoch' = [epoch EXCEPT ![s] = "open"]
  /\ UNCHANGED <<status, protocol, capture, link, sound, queueVars, resultVars, issueVars, page>>

PersistProgress(s) ==
  /\ link[s] = "up"
  /\ epoch[s] = "open"
  /\ sound' = [sound EXCEPT ![s] = TRUE]
  /\ UNCHANGED <<status, protocol, capture, link, epoch, queueVars, resultVars, issueVars, page>>

CloseEpoch(s) ==
  /\ link[s] = "up"
  /\ epoch[s] = "open"
  /\ epoch' = [epoch EXCEPT ![s] = "closed"]
  /\ UNCHANGED <<status, protocol, capture, link, sound, queueVars, resultVars, issueVars, page>>

\* The socket is gone, or the API process: the epoch waits for the next connection.
Disconnect(s) ==
  /\ link[s] # "down"
  /\ link' = [link EXCEPT ![s] = "down"]
  /\ UNCHANGED <<status, protocol, capture, epoch, sound, queueVars, resultVars, issueVars, page>>

\* The consequences of a session that has stopped.
Stopped(s) ==
  /\ capture' = [capture EXCEPT ![s] = "STOPPED"]
  /\ IF sound[s]
     THEN Transition("PROCESSING") /\ job' = Enqueued(<<"finalize", s, 0>>)
     ELSE Transition("READY") /\ job' = job
  /\ Bump(FALSE)
  /\ UNCHANGED <<protocol, sound, tries, running, resultVars, issueVars>>

\* The client or the user asks for the stop.
RequestStop(s) ==
  /\ capture[s] \in {"CREATED", "ACTIVE"}
  /\ capture' = [capture EXCEPT ![s] = "STOPPING"]
  /\ UNCHANGED <<status, protocol, link, epoch, sound, queueVars, resultVars, issueVars, page>>

\* The user's stop of a session without a connection ends it at once, when no
\* source is open.  (After a crash of the API the row still says "connected",
\* and the stop is an ordinary RequestStop.)
StopUnconnected(s) ==
  /\ capture[s] \in {"CREATED", "ACTIVE"}
  /\ link[s] # "up" /\ epoch[s] # "open"
  /\ Stopped(s)
  /\ UNCHANGED <<epoch, link>>

\* finalize_stop_if_ready: once no epoch is open, or the grace period has ended.
FinalizeStop(s, expired) ==
  /\ capture[s] = "STOPPING"
  /\ epoch[s] = "open" => expired
  /\ epoch' = [epoch EXCEPT ![s] = IF @ = "open" THEN "closed" ELSE @]
  /\ Stopped(s)

\* The connection asks after every closed source and every second; it closes
\* the socket of a session that has stopped.
FinishStop(s, expired) ==
  /\ link[s] = "up"
  /\ link' = [link EXCEPT ![s] = "down"]
  /\ FinalizeStop(s, expired)

\* _check_session_state: the second look of a connection at a session that has stopped.
LeaveStopped(s) ==
  /\ link[s] = "up"
  /\ capture[s] = "STOPPED"
  /\ link' = [link EXCEPT ![s] = "down"]
  /\ UNCHANGED <<status, protocol, capture, epoch, sound, queueVars, resultVars, issueVars, page>>

\* stop_supervisor: a session that no connection of this process is registered for.
SuperviseStop(s, expired) ==
  /\ link[s] # "up"
  /\ FinalizeStop(s, expired)
  /\ UNCHANGED link

-----------------------------------------------------------------------------
(* Processing. *)

HalfLoaded(p) == (page[p].meeting = None) # (page[p].readiness = None)

Claim(j) ==
  /\ job[j] = "queued"
  /\ PromptLoads => \A p \in Pages : ~HalfLoaded(p)
  /\ Cardinality(running) < Handlers
  /\ Cardinality({i \in Jobs : tries[i] > 1} \cup ({j} \cap {i \in Jobs : tries[i] > 0})) <= MaxRepeated
  /\ job'   = [job EXCEPT ![j] = "running"]
  /\ tries' = [tries EXCEPT ![j] = @ + 1]
  /\ running' = running \cup {[job |-> j, try |-> tries[j] + 1, at |-> "claimed"]}
  /\ UNCHANGED <<status, protocol, captureVars, resultVars, issueVars, page>>

WorkerCrash(h) ==
  /\ Leave(h)
  /\ UNCHANGED <<status, protocol, captureVars, job, tries, resultVars, issueVars, page>>

Recover(j) ==
  /\ job[j] = "running"
  /\ LeaseLapses \/ \A h \in running : h.job = j => ~Owner(h)
  /\ job' = [job EXCEPT ![j] = Retried(j)]
  /\ UNCHANGED <<status, protocol, captureVars, tries, running, resultVars, issueVars, page>>

\* A busy heavy lock, an absent speech model or any other exception.
Fault(h) ==
  /\ h.at \in {"claimed", "started"}
  /\ Leave(h)
  /\ job' = Failed(h)
  /\ UNCHANGED <<status, protocol, captureVars, tries, resultVars, issueVars, page>>

StageFinalize(h) ==
  /\ h.at = "claimed" /\ Kind(h.job) = "finalize"
  /\ job' = Enqueued(<<"asr", Session(h.job), 0>>)
  /\ Goto(h, "done")
  /\ UNCHANGED <<status, protocol, captureVars, tries, resultVars, issueVars, page>>

\* The revision of a job: reused when it is complete, emptied when it is not.
AsrStart(h) ==
  LET s == Session(h.job) IN
  /\ h.at = "claimed" /\ Kind(h.job) = "asr"
  /\ IF revision[s] = "complete"
     THEN Goto(h, "done") /\ UNCHANGED <<revision, edited>>
     ELSE /\ Goto(h, "started")
          /\ revision' = [revision EXCEPT ![s] = "building"]
          /\ edited'   = [edited EXCEPT ![s] = FALSE]
  /\ UNCHANGED <<status, protocol, captureVars, job, tries, words, active, run, latest, summary, reviewVars, issueVars, page>>

AsrComplete(h) ==
  LET s == Session(h.job) IN
  /\ h.at = "started" /\ Kind(h.job) = "asr"
  /\ revision' = [revision EXCEPT ![s] = "complete"]
  /\ \E heard \in BOOLEAN : words' = [words EXCEPT ![s] = heard]
  /\ Goto(h, "done")
  /\ UNCHANGED <<status, protocol, captureVars, job, tries, edited, active, run, latest, summary, reviewVars, issueVars, page>>

\* The heartbeat after a chunk finds the lease lost.
AsrCancelled(h) ==
  /\ h.at = "started" /\ Kind(h.job) = "asr"
  /\ ~Owner(h)
  /\ Leave(h)
  /\ UNCHANGED <<status, protocol, captureVars, job, tries, resultVars, issueVars, page>>

\* The next stage is queued whether or not the report counted.
AsrReport(h) ==
  /\ h.at = "done" /\ Kind(h.job) = "asr"
  /\ LET next == <<"diarize", Session(h.job), 0>>
     IN  job' = [Completed(h) EXCEPT ![next] = Enqueued(next)[next]]
  /\ Leave(h)
  /\ UNCHANGED <<status, protocol, captureVars, tries, resultVars, issueVars, page>>

\* There is no model that tells voices apart, or it fails: a question, and the stage goes on.
DiarizationUnavailable(h) ==
  LET issue == <<"diarization_unavailable", Session(h.job)>> IN
  /\ h.at = "claimed" /\ Kind(h.job) = "diarize"
  /\ MayChange
  /\ issue \notin issued
  /\ Raise({issue})
  /\ UNCHANGED <<status, protocol, captureVars, queueVars, resultVars, page>>

\* activate_final_revision keeps an active transcript that was edited by hand, and asks.
ActivateRevision(h) ==
  LET s    == Session(h.job)
      keep == active \notin {None, s} /\ edited[active]
  IN
  /\ h.at = "claimed" /\ Kind(h.job) = "diarize"
  /\ active' = IF keep THEN active ELSE s
  /\ job' = Enqueued(<<"extract", s, 0>>)
  /\ Goto(h, "done")
  /\ Raise({<<"final_revision_available", t>> : t \in {u \in {s} : keep}})
  /\ status' = status
  /\ Bump(~keep)
  /\ UNCHANGED <<protocol, captureVars, tries, revision, words, edited, run, latest, summary, reviewVars>>

ExtractStart(h) ==
  LET j == h.job IN
  /\ h.at = "claimed" /\ Kind(j) = "extract"
  /\ IF run[j] = "succeeded"
     THEN Goto(h, "done") /\ UNCHANGED <<run, latest>>
     ELSE /\ Goto(h, IF words[Session(j)] THEN "started" ELSE "empty")
          /\ run'    = [run EXCEPT ![j] = IF @ = "none" THEN "running" ELSE @]
          /\ latest' = [latest EXCEPT ![Session(j)] = IF run[j] = "none" THEN j ELSE @]
  /\ UNCHANGED <<status, protocol, captureVars, job, tries, revision, words, edited, active, summary, reviewVars, issueVars, page>>

ExtractEmpty(h) ==
  /\ h.at = "empty"
  /\ run' = [run EXCEPT ![h.job] = "failed"]
  /\ Raise({<<"empty_transcript", Session(h.job)>>})
  /\ Transition("FAILED")
  /\ Bump(FALSE)
  /\ Goto(h, "done")
  /\ UNCHANGED <<protocol, captureVars, job, tries, revision, words, edited, active, latest, summary, reviewVars>>

\* The cards are stored and the summary is replaced.  An analysis is complete when no
\* window of the transcript failed and the summary says anything; it settles the
\* blocking issues that earlier attempts left, and no other.
ExtractDone(h, failed, says) ==
  LET complete == says /\ ~failed
      left     == {"analysis_incomplete"} \cup {k \in {"extraction_window_failed"} : failed}
  IN
  /\ h.at = "started" /\ Kind(h.job) = "extract"
  /\ failed => MayChange
  /\ run' = [run EXCEPT ![h.job] = IF complete THEN "succeeded" ELSE "failed"]
  /\ summary' = [by |-> h.job, says |-> says]
  /\ IF complete
     THEN open' = open \ Blockers /\ issued' = issued /\ Transition("NEEDS_REVIEW")
     ELSE Raise({<<k, h.job>> : k \in left}) /\ Transition("FAILED")
  /\ Bump(TRUE)
  /\ Goto(h, "done")
  /\ UNCHANGED <<protocol, captureVars, job, tries, revision, words, edited, active, latest, reviewVars>>

\* The language model does not answer: the job is retried, and when it has
\* failed for good the meeting is handed to the secretary.
LlmFails(h) ==
  /\ h.at = "started" /\ Kind(h.job) = "extract"
  /\ job' = Failed(h)
  /\ IF Owner(h) /\ job'[h.job] = "failed" THEN Goto(h, "gave up") ELSE Leave(h)
  /\ UNCHANGED <<status, protocol, captureVars, tries, resultVars, issueVars, page>>

MarkLlmFailed(h) ==
  /\ h.at = "gave up"
  /\ Raise({<<"llm_unavailable", None>>})
  /\ Transition("NEEDS_REVIEW")
  /\ Bump(FALSE)
  /\ Leave(h)
  /\ UNCHANGED <<protocol, captureVars, job, tries, resultVars>>

Report(h) ==
  /\ h.at = "done" /\ Kind(h.job) # "asr"
  /\ job' = Completed(h)
  /\ Leave(h)
  /\ UNCHANGED <<status, protocol, captureVars, tries, resultVars, issueVars, page>>

-----------------------------------------------------------------------------
(* Review. *)

TranscriptReady ==
  active # None /\ revision[active] = "complete" /\ words[active]

SummaryReady == summary.by # None /\ Session(summary.by) = active /\ summary.says

\* Mutant: the waiting and running jobs are not looked at.
CanApproveEagerly ==
  /\ status = "NEEDS_REVIEW"
  /\ \A s \in Sessions : ~InProgress(s)
  /\ TranscriptReady
  /\ SummaryReady
  /\ latest[active] # None /\ run[latest[active]] = "succeeded"
  /\ Blockers = {}

\* approval_readiness
CanApprove ==
  /\ status = "NEEDS_REVIEW"
  /\ \A s \in Sessions : ~InProgress(s)
  /\ Pending = {}
  /\ TranscriptReady
  /\ SummaryReady
  /\ latest[active] # None /\ run[latest[active]] = "succeeded"
  /\ Blockers = {}

\* Mutant: the jobs are not looked at.
ProcessingByStatus == status = "PROCESSING"

Processing == Pending # {} \/ status = "PROCESSING"
Readiness  == [ready |-> CanApprove, processing |-> Processing]

serverVars == <<status, protocol, captureVars, queueVars, resultVars, issueVars>>

\* The page is opened, reloaded, or told by its recorder that a recording has
\* started or is saved.
Route(p) ==
  /\ page' = [page EXCEPT ![p] = Loading]
  /\ UNCHANGED serverVars

\* The two requests of a load that matter here, in any order; the page is
\* shown when both are answered.
LoadMeeting(p) ==
  /\ page[p].meeting = None
  /\ page' = [page EXCEPT ![p].meeting = [status |-> status, current |-> TRUE]]
  /\ UNCHANGED serverVars

LoadReadiness(p) ==
  /\ page[p].readiness = None
  /\ page' = [page EXCEPT ![p].readiness = Readiness]
  /\ UNCHANGED serverVars

\* The timer of a page.
Polling(p) ==
  \/ Shows(p, {"READY", "LIVE", "PROCESSING"})
  \/ Shows(p, {"NEEDS_REVIEW"}) /\ page[p].readiness.processing

PollStatus(p) ==
  /\ Polling(p)
  /\ page[p].meeting.status # status
  /\ Route(p)

PollReadiness(p) ==
  /\ Polling(p)
  /\ Shows(p, {"NEEDS_REVIEW"})
  /\ page[p].readiness # Readiness
  /\ Route(p)

\* Edits may come from the page or from another tab (None) that shows an older
\* state of the protocol.  A page shows an edited text without another request.
EditSegment(s) ==
  /\ status # "APPROVED"
  /\ revision[s] # "none" /\ words[s]
  /\ edited' = [edited EXCEPT ![s] = TRUE]
  /\ UNCHANGED <<status, protocol, captureVars, queueVars, revision, words, active, run, latest, summary, reviewVars, issueVars, page>>

CardsMayChange == summary.by # None /\ MayChange

\* Mutant: the cards of an approved protocol can be edited.
PatchActionAnyTime(p) ==
  /\ p # None => Shows(p, {"NEEDS_REVIEW"})
  /\ CardsMayChange
  /\ changes' = changes + 1
  /\ status' = status
  /\ Refresh(p, FALSE)
  /\ UNCHANGED <<protocol, captureVars, queueVars, revision, words, edited, active, run, latest, summary, reports, approval, issueVars>>

\* An edit of a card leaves Meeting.version as it is.
PatchAction(p) ==
  /\ p # None => Shows(p, {"NEEDS_REVIEW"})
  /\ status # "APPROVED"
  /\ CardsMayChange
  /\ changes' = changes + 1
  /\ status' = status
  /\ Refresh(p, FALSE)
  /\ UNCHANGED <<protocol, captureVars, queueVars, revision, words, edited, active, run, latest, summary, reports, approval, issueVars>>

\* Progress is reported in every status, on a page or in the list of tasks (None).
ReportProgress(p) ==
  /\ p # None => Shown(p)
  /\ CardsMayChange
  /\ reports' = reports + 1
  /\ status' = status
  /\ Refresh(p, FALSE)
  /\ UNCHANGED <<protocol, captureVars, queueVars, revision, words, edited, active, run, latest, summary, changes, approval, issueVars>>

\* A live extraction writes its cards whatever the status is, and no approval waits for
\* it.  (What it writes before the final one is superseded by that; what it asks is left out.)
LiveExtract ==
  /\ LateLivePass \/ status # "APPROVED"
  /\ CardsMayChange
  /\ changes' = changes + 1
  /\ UNCHANGED <<status, protocol, captureVars, queueVars, revision, words, edited, active, run, latest, summary, reports, approval, issueVars, page>>

\* Issues are resolved in every status.  A tab that resolves a blocking one is one of Pages.
ResolveIssue(p, i) ==
  /\ IF p = None THEN i \notin Blockers ELSE Shows(p, {"NEEDS_REVIEW"})
  /\ i \in open
  /\ open' = open \ {i}
  /\ status' = status
  /\ Refresh(p, FALSE)
  /\ UNCHANGED <<protocol, captureVars, queueVars, resultVars, issued>>

\* Mutant: the repeated analysis has the key of the first.
RetryAnalysisSameKey(p) ==
  /\ Shows(p, {"NEEDS_REVIEW", "FAILED"}) /\ ~page[p].readiness.ready
  /\ status \in {"NEEDS_REVIEW", "FAILED"}
  /\ TranscriptReady
  /\ Pending \cap Extracts = {}
  /\ job' = Enqueued(<<"extract", active, 0>>)
  /\ Transition("PROCESSING")
  /\ Refresh(p, FALSE)
  /\ UNCHANGED <<protocol, captureVars, tries, running, resultVars, issueVars>>

RetryAnalysis(p) ==
  /\ Shows(p, {"NEEDS_REVIEW", "FAILED"}) /\ ~page[p].readiness.ready
  /\ status \in {"NEEDS_REVIEW", "FAILED"}
  /\ TranscriptReady
  /\ Pending \cap Extracts = {}
  /\ \E n \in 1..MaxRetries :
       /\ job[<<"extract", active, n>>] = "absent"
       /\ \A m \in 1..n - 1 : job[<<"extract", active, m>>] # "absent"
       /\ job' = Enqueued(<<"extract", active, n>>)
  /\ Transition("PROCESSING")
  /\ Refresh(p, FALSE)
  /\ UNCHANGED <<protocol, captureVars, tries, running, resultVars, issueVars>>

\* build_snapshot: what a protocol is made of: the revisions, the cards with their
\* execution state and version, and the open issues.  The text of the transcript is no
\* part of it; title and date of the meeting and the list of participants are left out.
Snapshot ==
  [transcript |-> active, summary |-> summary.by, changes |-> changes, reports |-> reports, questions |-> open]

\* One approval per version of the protocol: protocol_approvals has a unique key.
Approve(p) ==
  /\ Shows(p, {"NEEDS_REVIEW"}) /\ page[p].readiness.ready
  /\ page[p].meeting.current
  /\ CanApprove
  /\ approval[protocol] = None
  /\ approval' = [approval EXCEPT ![protocol] = Snapshot]
  /\ Transition("APPROVED")
  /\ Refresh(p, FALSE)
  /\ UNCHANGED <<protocol, captureVars, queueVars, revision, words, edited, active, run, latest, summary, changes, reports, issueVars>>

NewVersion(p) ==
  /\ Shows(p, {"APPROVED"})
  /\ status = "APPROVED"
  /\ protocol < MaxProtocols
  /\ protocol' = protocol + 1
  /\ Transition("NEEDS_REVIEW")
  /\ Refresh(p, FALSE)
  /\ UNCHANGED <<captureVars, queueVars, resultVars, issueVars>>

\* create_export: the approved snapshot, or a draft of what the meeting holds now.
Export ==
  IF status = "APPROVED" /\ approval[protocol] # None
  THEN [draft |-> FALSE, content |-> approval[protocol]]
  ELSE [draft |-> TRUE, content |-> Snapshot]

-----------------------------------------------------------------------------

Recording(s) ==
  \/ CreateCapture(s) \/ Hello(s) \/ MarkConnected(s)
  \/ OpenSource(s) \/ PersistProgress(s) \/ CloseEpoch(s) \/ Disconnect(s)
  \/ RequestStop(s) \/ StopUnconnected(s) \/ LeaveStopped(s)
  \/ \E expired \in BOOLEAN : FinishStop(s, expired) \/ SuperviseStop(s, expired)

Handling(h) ==
  \/ WorkerCrash(h) \/ Fault(h)
  \/ StageFinalize(h)
  \/ AsrStart(h) \/ AsrComplete(h) \/ AsrCancelled(h) \/ AsrReport(h)
  \/ DiarizationUnavailable(h) \/ ActivateRevision(h)
  \/ ExtractStart(h) \/ ExtractEmpty(h)
  \/ \E failed, says \in BOOLEAN : ExtractDone(h, failed, says)
  \/ LlmFails(h) \/ MarkLlmFailed(h)
  \/ Report(h)

Watching(p) ==
  \/ Route(p) \/ LoadMeeting(p) \/ LoadReadiness(p)
  \/ PollStatus(p) \/ PollReadiness(p)

Reviewing(p) ==
  \/ PatchMeeting(p) \/ ConfirmConsent(p)
  \/ RetryAnalysis(p)
  \/ Approve(p) \/ NewVersion(p)

Next ==
  \/ \E s \in Sessions : Recording(s)
  \/ \E j \in Jobs : Claim(j) \/ Recover(j)
  \/ \E h \in running : Handling(h)
  \/ \E p \in Pages : Watching(p) \/ Reviewing(p)
  \/ \E s \in Sessions : EditSegment(s)
  \/ \E p \in Pages \cup {None} : PatchAction(p) \/ ReportProgress(p) \/ \E i \in open : ResolveIssue(p, i)
  \/ LiveExtract

Spec == Init /\ [][Next]_vars

-----------------------------------------------------------------------------
(* Properties. *)

Issues == ({"empty_transcript", "diarization_unavailable", "final_revision_available"} \X Sessions)
          \cup ({"analysis_incomplete", "extraction_window_failed"} \X Extracts)
          \cup {<<"llm_unavailable", None>>}

\* Every variable has its type.
TypeOK ==
  /\ status \in Statuses
  /\ protocol \in 1..MaxProtocols
  /\ capture \in [Sessions -> {"none", "CREATED", "ACTIVE", "STOPPING", "STOPPED"}]
  /\ link \in [Sessions -> {"down", "hello", "up"}]
  /\ epoch \in [Sessions -> {"none", "open", "closed"}]
  /\ sound \in [Sessions -> BOOLEAN]
  /\ job \in [Jobs -> {"absent", "queued", "running", "succeeded", "failed"}]
  /\ tries \in [Jobs -> 0..MaxAttempts]
  /\ running \subseteq [job : Jobs, try : 1..MaxAttempts,
                        at : {"claimed", "started", "empty", "gave up", "done"}]
  /\ revision \in [Sessions -> {"none", "building", "complete"}]
  /\ words \in [Sessions -> BOOLEAN]
  /\ edited \in [Sessions -> BOOLEAN]
  /\ active \in Sessions \cup {None}
  /\ run \in [Extracts -> {"none", "running", "succeeded", "failed"}]
  /\ latest \in [Sessions -> Extracts \cup {None}]
  /\ summary \in [by : Extracts \cup {None}, says : BOOLEAN]
  /\ changes \in 0..MaxChanges /\ reports \in 0..MaxChanges
  /\ approval \in [1..MaxProtocols ->
       {None} \cup [transcript : Sessions, summary : Extracts, changes : 0..MaxChanges, reports : 0..MaxChanges,
                    questions : SUBSET {i \in Issues : i[1] \notin Blocking}]]
  /\ open \subseteq issued /\ issued \subseteq Issues
  /\ page \in [Pages -> [meeting : {None} \cup [status : Statuses, current : BOOLEAN],
                         readiness : {None} \cup [ready : BOOLEAN, processing : BOOLEAN]]]

\* An approved protocol rests on finished work: no session records and no
\* job of the pipeline is waiting or running, however the meeting came there
\* and whatever late connections, retries and lost workers do afterwards.
ApprovedIsQuiet ==
  status = "APPROVED" => Pending = {} /\ \A s \in Sessions : ~InProgress(s)

\* What can be downloaded bears an approval if and only if the meeting is
\* approved: a new version does not inherit the old one.  It has the transcript,
\* the summary and the cards that the meeting holds; under an approval only the
\* progress of the cards goes on, and open questions are settled, none are added:
\* the approved protocol keeps what they were when it was signed.
SignedVersionIsClosed ==
  /\ Export.draft <=> status # "APPROVED"
  /\ \A part \in {"transcript", "summary", "changes"} : Export.content[part] = Snapshot[part]
  /\ Export.content.reports <= Snapshot.reports
  /\ Snapshot.questions \subseteq Export.content.questions

\* Nobody waits in vain: a page that shows a protocol under review which
\* cannot be approved, though it can be now or the meeting has moved on, is
\* still polling and will find out.  This is about the only page of a meeting
\* that is recorded once: what another page approves or repeats, and a second
\* recording, go unnoticed.
PageFollows ==
  \A p \in Pages :
    Shows(p, {"NEEDS_REVIEW"}) /\ ~page[p].readiness.ready /\ (CanApprove \/ status # "NEEDS_REVIEW")
      => Polling(p)

\* A meeting in PROCESSING is being processed: some job of the pipeline is
\* queued or running, or one has failed for good.  Between the stages, and
\* when a stage is repeated after a crash, the chain never breaks.
ProcessingIsDriven ==
  status = "PROCESSING" => Pending # {} \/ \E j \in Jobs : job[j] = "failed"
=============================================================================
