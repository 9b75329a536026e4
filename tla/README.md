# Verification of the meeting recorder

TLA+ models of the system in `src/`: a service that records meetings in the browser, stores the sound
durably, transcribes it, extracts tasks ("cards") from the transcript, and lets a secretary review and
approve the protocol. Every definition is translated from the code; `PROJECT.json` ("map") names the lines.

Conventions: a module per component; `MC…` modules only give constants for TLC; `…Proofs` modules hold
theorems. A definition whose comment starts with *Mutant* is a plausible bug of the definition next to it.
No specification uses it: replacing the correct definition by it shows that a property can fail.

Run `tlc -config Meeting.cfg MCMeeting` (or any other row of the table of runs) and `tlapm JobQueueProofs.tla`.
Every state machine has a type invariant `TypeOK` (except `IngestOpen`, which shares the variables of `Ingest`, and
`Deadlines`, whose state is the result of a function). It is not a property of the runs; add it to the
`INVARIANTS` of a cfg when a module is changed. It holds on the instances of all runs.

## 1. Inventory

Paths are below `src/apps/api/hattama/` unless they say otherwise.

| component | state | operations | hard behaviour | what makes it correct |
| --- | --- | --- | --- | --- |
| Audio client `src/packages/audio-client/uploader.js` | unacknowledged frames, pending overflow report, socket and source flags | `pushPcm`, `closeSource`, socket callbacks | reconnection, overflow, resume | a frame leaves the buffer only when it is durable or reported lost; a stop completes |
| Ingest connection `ingest/ws.py` | registry, per source a tracker, a file, the last ACK | handshake, frame, gap report, source_close, ticker, clean-up | two coroutines interleaved at every `await`; overlapping connections; process crash | ACKs are honest, gaps are true, nothing is lost silently |
| Ingest store `ingest/store.py` | received ranges, watermark, reorder set, unsynced bytes | `accept`, `report_lost`, `expire`, `write`, `sync` | duplicates, reordering, late frames, ranges cut to nothing | watermark never passes a hole that is neither stored nor declared |
| Ingest transactions `ingest/service.py` | sessions, sources, epochs, gaps (database) | hello, open, checkpoint, gap, close, stop, finalise | each transaction reads what another may change between two of them | checkpoints are monotone; a stop settles the meeting |
| Job queue `jobs/queue.py` | jobs with state, attempts, owner, lease; the named lock | enqueue, claim, heartbeat, complete, fail, recover, cancel, lock | several workers, lost leases, crashes, a lock that times out | fencing, bounded retries, final verdicts, exclusion |
| Workers `workers/*.py` | none of their own but the job in hand | loop: recover, claim, run, report | crash between any two transactions | every job is settled |
| Final pass, pipeline `pipeline/*.py` | transcript revision, segments, speakers, extraction run, summary | chunk loop; finalize, diarize, extract | stages are chained by jobs; each may be repeated | the chain never breaks; human edits survive |
| Meeting status, readiness `domain/meeting_status.py`, `domain/readiness.py` | `Meeting.status`, `version` | compare-and-set transition; approval conditions | asked in the middle of concurrent processing | only finished work is approved |
| Review `api/routes/review.py` | segments, cards, issues, approvals | edit, resolve, retry, approve, new version | several pages with stale data | what was approved is what was seen, and stays |
| Cards `extraction/persist.py` | cards, revisions, issues | a pass creates, overwrites or proposes | passes and people write the same rows | people's data is kept |
| Reminders `notifications/scheduler.py` | notifications by dedupe key | reschedule, deliver | late workers, deadlines that change and change back | the schedule follows the card |
| Live transcriber `workers/live_asr.py`, `live/transcriber.py` | sliding window, agreed words, utterance | push, step, finish | overlapping windows, restart at a checkpoint | each word committed once, in order |
| Extraction `extraction/pipeline.py`, `linker.py` | position in the transcript, registry of tasks, references of a window | windows, calls, retries; one handler per type of event; cards | events in any order, references to nothing, answers that cannot be used | consent before agreement; doubts reach the card; no segment is passed over |
| Text algorithms `domain/deadlines.py`, `names.py`, `numbers.py` | none | normalisation | month ends, weekends, ambiguity | agreement with the calendar |
| Recorder `src/apps/web/static/recorder.js`, `src/packages/audio-client/pcm-worklet.js` | status, clock, three promises; chunker; the ports between page and worklet | start, pause, resume, stop, retry; chunks and acknowledgments | every step waits for another thread that may answer late or never, while others act | the clock tells the truth; a stop is complete and final |
| Pages `src/apps/web/static/app.js`, `recording-ui.js` | what was fetched of a meeting | load, poll, edit, approve | decisions from answers that are older than they look | a page that waits finds out |
| Extension `src/apps/extension/src/` | tab, stream, status | start, stop, microphone by messages between its scripts | a service worker that is suspended | no leak after a stop |
| Infrastructure: ASR, diarisation and LLM providers, model store, diagnostics, security, export, configuration, migrations, command line | files, settings, tokens | I/O | – | – |

Interaction: the browser talks to the connection over a WebSocket; connections, HTTP requests and
workers share one SQLite database, written in transactions that exclude each other (`BEGIN IMMEDIATE`,
`db/session.py`); the final pass and the pipeline are started only through rows of the job queue; pages learn
of changes through an outbox of events and by reloading. There is one API process, an ASR worker process and a
pipeline worker process; all of them may die at any point and be started again.

`PROJECT.json` lists all components with what is left out of each, and the hazards: what is hard to test
in this code, at its line, with the property that watches it.

## 2. Modules

| module | models | state and actions |
| --- | --- | --- |
| `JobQueue`, `MCJobQueue` | `jobs/queue.py` and the loops of both workers | rows of `jobs` and of the lock; one action per transaction (`Enqueue`, `Claim`, `Heartbeat`, `Complete`, `Fail` in `ReportBusy`/`AsrBusy`/`ReportFailure`, `Recover`, `RequestCancel`, `EnterHeavy`, `Finish`); `Crash`, `LeaseExpire`, `TtlExpire`, `BecomeDue` are the environment |
| `Link` | the WebSockets | ordered queues per direction, a broken socket is seen by each side when it looks |
| `SequenceTracker` | the class of that name in `ingest/store.py` | pure operators, one per method |
| `IngestServer` | `IngestConnection`, `ConnectionRegistry`, `EpochWriter`, ingest transactions | the receive loop (`rx`) and the ticker (`tk`) of a connection as program counters; an action is the code from one `await` to the next |
| `Uploader` | `IngestClient` with one source | an action per callback |
| `Ingest` | composes `Link`, `IngestServer`, `Uploader` with faults and fairness | – |
| `IngestOpen` | composes `IngestServer` with an arbitrary client | messages in any order, duplicates, arbitrary gap reports |
| `DurableRecording` | what an upload promises, without protocol | refined by `Ingest` (`captured <- next`, `held <- lo..next-1`, `stored <- disk`, `lost <- dropped`, `done <- closeAcked`) |
| `Meeting`, `MCMeeting` | status, sessions, jobs, stages, transcript, issues, review, approval and export of one meeting; what the pages that show it know | an action per transaction, and per request of a page; job attempts are records `[job, try, at]` |
| `FinalPass` | `pipeline/final_asr.py` under its worker and the queue, `stage_diarize`, the edits of a transcript | an action per transaction: `Claim`, `EnterLock`, `Begin`, `StoreChunk`, `MarkComplete`, … of a speech worker, `DClaim`, `NameBySource`, `NameByTurns`, `Activate`, … of the pipeline worker, `EditPrior`, `EditText`, `EditSpeaker`, `BindSpeaker` of a person |
| `Linker` | `extraction/linker.py` | the registry as a sequence of tasks; one operator per handler (`OnAssign`, `OnPropose`, …) and `Apply` for an event; `Cards` are what the registry becomes |
| `Extraction`, `MCExtraction` | `extraction/pipeline.py` around `Linker` | the loop as a program counter; an action per call of the model, per event applied, per error |
| `ActionCard`, `MCActionCard` | one card: passes, edits, progress, accounts, reminders | an action per transaction, and the clock |
| `Deadlines`, `MCDeadlines` | `domain/deadlines.py`, `domain/numbers.py` on the calendar | pure operators with the names of the functions; behaviours only repeat a wording from day to day |
| `LiveTranscriber`, `MCLiveTranscriber` | `live/transcriber.py` and the loop of `workers/live_asr.py` for one epoch | the transcriber is a record, `Step` a pure operator; an action per tick (`TickStep`, `TickIdle`), `AsrFails`, `WriteFails`, `Restart` |
| `Recorder` | `BrowserRecorder` of `recorder.js`, `PcmChunker` of `pcm-worklet.js` | a promise is the number of the request it waits for; an action per task of page or worklet; the two ports are sequences |
| `JobQueueProofs`, `MeetingProofs`, `FinalPassProofs`, `ExtractionProofs`, `RecorderProofs`, `LiveTranscriberProofs` | – | theorems about the module they are named after (section 4); `MeetingProofs` also holds the one about `ActionCard` |
| `IngestServerProofs`, `IngestProofs` | – | theorems about `Ingest`: lemmas about `SequenceTracker`, the inductive invariant with the steps of the server; then the steps of the client and what follows |

`Meeting` uses the queue only through what `JobQueue` establishes: an attempt carries no worker's name, because
the owner in a row is always the worker of the latest attempt (`FencedOwner`, proved). Its `sound` stands for
what `Ingest` guarantees about a checkpoint, and its `revision = "complete"` for what `FinalPass` says about it.
`Recorder` ends where `Uploader` begins, at `pushPcm` and `client.stop`. The cards of `Linker` are what
`PersistCard` of `ActionCard` writes.

### Abstractions worth knowing

* *Ingest.* A frame is one sample long, so that sequence number and sample position coincide, and a file is a
  set of positions. A crash keeps any subset of what was written and not fsynced. The reorder timeout is any set
  of pending items "late enough". `Register` follows the order in which authentications return
  (`StaleHello`); `SupersedeTimeout` lets the five-second wait for the old connection run out; `SlowServer`
  lets a buffer overflow while its source is open. Level meters, status messages and error replies are left out.
* *JobQueue.* Time is abstract: a lease or a TTL may end at any moment; `lapsed` and `ttlLapsed` remember it.
* *Meeting.* Of the issues those raised by the stages of the pipeline are followed, blocking ones and others; questions about
  single cards, which can only prevent an approval and lengthen the list of open ones, are left out. What a connection does after its session is STOPPED is left out, nothing reads it
  again. A page fetches the meeting and its readiness by two requests in any order and is shown when both are
  answered; `current` says whether the version it would send is still the meeting's. An edit of a card may come from
  the page or from another tab that shows an older state. `PromptLoads` excludes that a whole job passes between
  the two answers of one load: without it a page may show a protocol under review with a readiness from before, and
  does not poll. `Snapshot` is what `build_snapshot` puts into a protocol: the two revisions, the cards and the open issues.
  Of the cards it holds how often they were changed (`changes`: content, review state, version) and how often progress was
  reported (`reports`: the execution state), in place of their fields; `MaxChanges` bounds both and the questions that are not
  blocking, together. Title and date of the meeting and its participants are left out; the names of participants may be changed
  under an approval. Of the live transcript only the extraction remains, as `LiveExtract`; `LateLivePass` lets it end behind an
  approval. Tokens are left out.
* *FinalPass.* `active` is what the meeting names as its active revision: none, that of an earlier recording, or that of this one.
  With none, the page shows the live revision. `priorEdits` are edits of the revision the page showed before this one. A chunk stands for the rows written for it. A worker that crashes is `Gone` and comes back as another.
  `stalled` remembers that a living worker lost its lease (a computer that sleeps). Who named the speaker of a segment
  is kept, not which speaker.
* *Linker.* Of texts it keeps what the code compares: whether two wordings of an action are alike (0.6) or unlike (0.3),
  what `normalize_deadline` reads in the wording of a deadline, what `match_participant` finds for a name, and whether a quote is
  found in its segment, next to it, elsewhere or nowhere. They are constants, so that a run chooses a vocabulary
  in which the thresholds are met and missed.
* *Extraction.* How many segments a window takes and how many of them fit into the context are free choices.
* *ActionCard.* Review states that the code treats alike are merged. A card is tied to a participant only by an edit of a
  person, and to the account this participant has at that moment; a reminder keeps its recipient. Texts and revisions
  are left out.
* *Deadlines.* A date is its ordinal number, and a wording the sequence of its mentions with their positions: the
  regular expressions that find them are left out, the numbers they contain are not.
* *LiveTranscriber.* Times are tenths of a second. What is said is a variable that never changes. The recogniser hears
  a word right when 0.3 s of sound follow it in the window, else wrong, differently in every window, or not at all;
  words have exact times. The detector misses less than 0.2 s of speech. The sound that becomes durable is part
  of the tick that reads it. An utterance is split by rounds that cut its last piece, as many as it has words: the loop of the code
  ends no later. `faults` remembers what went wrong: a forced commit (possible because the window
  is small) makes no promise about the words.
* *Recorder.* Sound comes in units of half a chunk, so that a partial chunk exists. What a settled promise runs belongs to
  the task that settles it; only a stop that waited for a pause or a resume goes on in a step of its own, before any
  other task. `late` counts requests that timed out before they were answered.

## 3. Runs

| run | bounds | shows |
| --- | --- | --- |
| `job_queue` | jobs `final1` (ASR) and `diar1` (heavy), two ASR workers and one pipeline worker, 2 attempts | `RetryBudget`, `SingleLease`, `FencedOwner`, `HeavyExclusion`, `TerminalIsFinal`, `NoStaleVerdict` |
| `job_queue_live` | one heavy and one light pipeline job, two workers | `AllSettle`: every enqueued job reaches a terminal state |
| `ingest` | 3 frames, buffer of 1, 2 connections, one crash, overflow, stale hellos, superseding with timeout | `ReleasedIsSafe`, `AckHonest`, `NoFalseGap`, `NoSilentLossAtRest`, `CheckpointMonotone`, the refinement of `DurableRecording`, `StopCompletes` |
| `ingest_open` | sequence numbers 0..2, four messages, one connection (`SpecOpen`) | `NoSilentLossWhileOpen` against any client |
| `meeting` | one session, one page, 2 handlers at once, 2 attempts (one job repeated), one repeated analysis, 2 protocol versions, one change of a card, report of progress or question that is not blocking | `ApprovedIsQuiet`, `ProcessingIsDriven`, `SignedVersionIsClosed`, `PageFollows` |
| `final_pass` | 2 speech workers, 2 chunks, 2 attempts, 3 faults | `NoChunkTwice`, `CompleteIsWhole`, `EditedTextStays`, `PassEnds` |
| `extraction` | 2 segments, one retry, 3 events of any of ten types about at most 2 tasks | `CleanCardIsSettled`, `AgreementNeedsConsent`, `EverySegmentOnce`, `LoopEnds` |
| `action_card` | a secretary and another account, one participant, deadlines on days 1 and 3 around a weekend, one kind of reminder | `ProtectedSchedule`, `EachReminderEnds` |
| `deadlines` | every meeting day from December 2023 to March 2025, 31 mentions alone (also as events) and 200 pairs of them, five holidays | `NotBeforeTheMeeting`, `AgreesWithTheCalendar`, `LaterMeetingLaterDeadline` |
| `live_transcript` | 64 recordings of 4 words and 3 pauses (0.1, 0.7 after a sentence, 0.9 and 1.3 s), sound in chunks of 0.5 and 1.1 s, a window of 3 s, one fault | `OnceInOrder`, `NothingTwice`, `NoBridgedPause`, `WindowBounded` |
| `recorder` | 5 half chunks of sound, 7 requests to the worklet, 3 timeouts | `ClockShowsCapture`, `NothingLeftBehind`, `StopIsDefinitive`, `SavingEnds` |
| `crash_loss` | 4 frames, buffer of 2, 3 connections, one crash | the finding below |

Why the bounds are enough: two workers and two attempts already give a worker that reports on a job
claimed again by another, and a third worker the lock taken over; two connections of which the
first breaks, is superseded or crashes give every overlap of a dying and a starting connection; three frames and a
window of two give a hole with sound on both sides. The proofs of section 4 are for any number of all of these. `meeting` has one
session and one page: three of its invariants are proved for any number of both and of changes, and another tab's edits are actions of their own. One
change, report or question is enough to make what is signed differ from what the meeting holds.
`PageFollows` is a promise to the only page of a meeting that is recorded once, and TLC shows that it needs both: with two pages,
one approves while the other, which saw the protocol blocked and idle, does not poll; with two sessions, a
connection that is marked late brings the meeting from PROCESSING back to LIVE, a second recording is made, and its stop takes the
protocol a page shows back to PROCESSING. Two chunks are the fewest of which
one can be missing, repeated or out of order. In `extraction` the first event makes a task, the second opens a question about it
and the third answers it or must not; the vocabulary has a person under two names, a group, two wordings of one
day and one that names no day. Two deadlines with a weekend between them give a reminder that moves before
the weekend, is missed, and is overtaken by an edit. Seven requests allow a pause that is overtaken by a resume and both by
a stop that is repeated. In `live_transcript` four
words with all pauses cover cut words at both ends of a window, agreement that is delayed, phrases that end, segments split
twice, and several trims; a second fault in one behaviour gave 650,000 states and nothing new. Constants that are bounds say so
in the module that declares them. The last connection is spared from faults, so that a bounded behaviour can still end.

`CHECK_DEADLOCK FALSE`: at the bounds, and when all work is done, these systems do stop. `Extraction`, `FinalPass` and `Recorder`
say in a step of their own (`Done`, `Rest`) where they may stop, and deadlock is checked.

Fairness. `JobQueue`: the loops of a live worker go round, a handler returns (every model call has a timeout), retry
delays end, and so does the lease of a job nobody works on any more (both are wall-clock times). The last worker of a
pool does not crash: the deployment restarts it. No fairness on producers, cancellations, heartbeats, crashes, or leases that
lapse under a working handler. `Ingest`: the event loops of page and server run what is runnable, and the server's
ticker finds every hole of a hopeless age in the end. No fairness on captures, the end of the recording, broken sockets,
overflows or crashes; `StopCompletes` speaks of pages that did ask for the stop and dropped no sound. `FinalPass`: as `JobQueue`; a lease that is not
renewed ends. No fairness on the lock's time to live, faults or edits. `Extraction`: the loop runs on its own, and a call of the model
returns or raises (it has a timeout). `ActionCard`: the worker looks for due
reminders every minute, and time passes. `Recorder`: tasks that are due run, and timers fire. No fairness on anything a
person does, on sound, or on what the server answers.

### Finding

**A gap may be forgotten by a crash** (`ingest/ws.py:334`, run `crash_loss`). The watermark moves past a gap before the gap is
recorded; the ticker may persist it in between. After a crash in that moment the sound of the gap is neither stored nor declared,
although `src/packages/contracts/audio-frame-v1.md:54-57` says that the server records both kinds of gap.

### Seen while modelling, and not stated by a run

The models contain these behaviours, and no property above excludes them. In a property that would, the exception is
named (`dropped # {}`, `congested`, `late`, `stalled`, …).

Sound:

* A stop may never complete once sound was dropped (`ingest/ws.py:429`, `uploader.js:119`): the overflow report is sent once and
  forgotten. If the socket breaks before the server reads it, or after the server handled it and before the ACK, the next
  connection starts its tracker at the stored checkpoint and hears of no report; the hole is then given up by a timeout that
  moves the watermark but leaves `dirty` unset, so no ACK is sent and the client never sends `source_close`.
* Two overflows around an acknowledged frame are merged into one report whose length counts only the dropped
  samples (`uploader.js:51`); cut at the stored part it covers nothing (`congested`).
* A late frame in the middle of a recorded gap does not split the row (`narrow_gap`); the row then covers a
  stored sample. `NoFalseGap` is therefore about what the client dropped.
* `mark_connected` (`ingest/service.py:107`) does not look at the session again that `authenticate_hello` saw; if it was
  stopped in between, the meeting becomes LIVE without a session. A crash of the API process leaves `connected` set, so that
  a stop waits for its grace period.
* A stop whose grace period ended closes epochs while the connection may still write (`ingest/service.py:288`).
* A pause by a full buffer, or a fatal error, under way when the server ends the session: the pause times out afterwards and sets
  `recoverable` on a recorder that is `stopped` (`recorder.js:249`, `:253`).

Transcript:

* A forced commit is decided per pass: after a window of `max_window_s` a pass that confirms nothing makes even the cut
  word at the edge stable, although everything before was committed (`live/transcriber.py:169`). Its mark for review
  goes to the first segment split from the utterance (`_stable_from`), which may not hold that word.
* A restart of the ASR worker loses the committed words that wait for the end of their phrase: the checkpoint is
  already behind them (`live_asr.py:201`). The final pass hears them again.
* The live extraction is queued once per bucket of 30 seconds (`live_asr.py:203`): what is stable after the bucket's job
  read the transcript waits for the next bucket, also at the end of a stream.
* The first activation hides what a person edited in the live transcript. No revision is active before it, the page shows the live
  one instead (`review.py:59`), and `activate_final_revision` looks for edits of the active revision only (`stages.py:125-130`): the
  question about edits at `:131-135` is asked when the final transcript of an earlier recording was edited, never then.
  `EditedTextStays` is therefore about final revisions.
* A diarization that is repeated adds its speakers a second time and names the speakers of segments anew, also those a person
  chose (`pipeline/stages.py:89`, `:105`); the head of the file calls every stage idempotent.
* A living worker that was held up until its lease lapsed does not look at it before it marks the revision complete
  (`final_asr.py:218`); chunks its successor removed are then missing until the successor has written them
  again, and for good if it crashes, because the next attempt takes a complete revision as it is. `CompleteIsWhole` excludes `stalled`, `NoChunkTwice` does not.
* A heavy stage that outlives the TTL of its lock overlaps the next one; `HeavyExclusion` says exactly that.

Tasks:

* A suspension under a new reference that names a task known already goes on as a repetition, and the hold is lost
  (`linker.py:443`); the head of the file says that suspensions put a task on hold.
* An acceptance that quotes a deadline found nowhere makes it the agreed one with the evidence of the
  acceptance (`linker.py:335`); the card then shows no concern about its evidence (`:607`).
* A task repeated under another form of a person's name escapes the search for duplicates, which compares stems
  (`linker.py:267`), while conflicts are found by `match_participant` (`:478`).
* `depends_on` may name the task itself (`linker.py:236`; `parent` is checked one line before). Of two participants with one first
  name the first in the list is meant.
* A pass overwrites an execution state reported by the assignee, the verdict "rejected", and the deadline of a card taken back to
  `needs_review`, which stays confirmed (`extraction/persist.py:73`).
* A reminder that was cancelled is never scheduled again. A card that gets another assignee and keeps its deadline keeps the
  reminder of the first; another account of a participant changes no reminder. `read_notification` takes any notification of one's own, also one that is
  scheduled (`review.py:544`). The date of a meeting may change after the deadlines were resolved with it (`meetings.py:219`).

Review:

* A page may approve what it never showed: edits of segments and cards do not
  change `Meeting.version`, the only thing `approve` compares (`review.py:103`, `:214`, `:401`).
* A second failure of the language model is silent: its issue has the dedupe key of
  the first one, which was settled (`extraction/persist.py:28`; `stages.py:252` promises an explicit issue).
* `mark_llm_failed` or an extraction whose lease of 1800 s lapsed may reopen an approved protocol,
  because `NEEDS_REVIEW` may follow `APPROVED` for any caller; its version stays, so that it cannot be approved again
  (the approval of a version is unique). An attempt that lost its lease also queues its next stage. Both need
  `LeaseLapses = TRUE` or a worker that stops between two transactions.
* A stage that fails for good for another reason than the language model leaves the meeting in PROCESSING.
* Bindings of speakers and names of participants can be changed in an approved meeting. So can the execution state of a card
  (`set_execution`, `review.py:277`) and the open questions (`resolve_issue`, `:333`), which the snapshot holds: an approved protocol is
  exported as it was signed, with the progress and the questions of that moment (`SignedVersionIsClosed`).
* A live extraction may end after the approval, because `approval_readiness` waits for the jobs of the final pass only
  (`readiness.py:20`): its cards appear in an approved meeting (`LateLivePass = TRUE`).
* A page that shows FAILED or APPROVED never polls (`recording-ui.js:168`), and a page that does not poll learns nothing of the
  issues another tab resolves or the analysis it repeats. The server refuses what such a page may still offer.

## 4. Proofs

Each theorem is for every value of the constants that their assumptions allow; `tlapm <module>.tla` checks it.

`JobQueueProofs` proves, for any finite set of jobs, any set of workers, any priorities and any number of
attempts: `TypeCorrect`, `RetriesBounded`, `AtMostOneLease`, `Fencing`, `HeavyLockExcludes`, `SettledForGood` and
`OnlyTheOwnerReports`.
None of the invariants is inductive alone. The budget needs to know that an absent row has no attempts. That two
live leases exclude each other needs: a row is `running` iff it has an owner and a lease (`RowInv`); a worker whose
lease never lapsed is the owner of its row and that lease is live, or `Recover` could take it away; the
owner of a row that is executing the job holds its latest attempt (`WorkerInv`); and the lock's holder whose TTL did not
run out is its owner (`LockInv`). `IInv` is `TypeOK` and these three; its proof has a step per action, with the
failed report, which three actions make, as a lemma. The action properties follow from it and one more case split.
`Heartbeat` is the delicate step: it clears `lapsed` and may do so only because the row is still the worker's own.

`IngestServerProofs` first proves what `accept()` and `report_lost()` do to a tracker, for any window, any set of
pending items and any choice of what is late (`AcceptKeeps`, `ReportLostKeeps`). With `D` the sound the client dropped: a
tracker is `WellFormed` when its items lie apart, behind the watermark; it is `Truthful` when what it takes as passed without having
received it is in `D`; it is `Exact` when its end in samples agrees with its sequence numbers. The two methods keep these,
count as received what they are given and nothing else (`Upto`), and every gap they return lies in `D`. `_absorb` and
`_expire_gaps` are recursive functions; that a property of a round is a property of the loop is proved by hand for each of them
(`AbsorbRounds`, `ExpireRounds`), from the existence of a least natural number.

`IngestServerProofs` and `IngestProofs` then prove, for any number of connections, frames and crashes, any window and any limit of the buffer,
with and without `SlowServer`, `StaleHello` and `SupersedeTimeout`: `TypeCorrect`, `NothingNeededIsReleased`, `AcksAreHonest`, `GapsAreReal`,
`CheckpointStays`, `NothingIsLostSilently`, `Implements`, the refinement of `DurableRecording`, and `EverythingIsAccounted`: a captured frame is in the client's
buffer, on the disk or was dropped, and a recording that the client takes for closed is stored but for what was dropped
(`NothingVanishes` says this of the abstract recording, for any protocol that implements it). None of these is inductive: `NothingNeededIsReleased` depends on a number in an ACK that the ticker read from a tracker several
steps earlier, and that the tracker may name only because of the order in which frames were sent. `Inv` says

* of the client (`Client`): what was dropped lies before the buffer and, until it is reported, within the report (`Sound`); a close is sent
  only when everything is released;
* of the database (`Database`): everything up to the checkpoint is on the disk or was dropped;
* of each connection: whose it is while its socket is open (`Socket`) and what it may hold in its phase (`Phase`); welcome,
  open, ready and ACKs come in this order, and no number in an answer is above the checkpoint (`Handshake`); what the tracker counts as
  received is written or was dropped, and what was acknowledged is on the disk (`Tracking`); what each loop read before its last `await`
  still holds (`ReceiveLoop`, `TickLoop`); frames on their way ascend, and what is missing between them and the tracker was dropped
  (`InOrder`); a report of an overflow comes first (`Reports`), a close last (`Closing`); the connection in use resumed behind what the
  client has released, and every frame captured since is received or on its way (`Resuming`).

A report may name a range of which a part is stored; the end of the tracker then lags behind its watermark until the next frame, which
follows the report in the queue (`Lagging`). This is why `Exact` alone is not an invariant, and why the order of report and frames is
part of it. The proof has a lemma per action. A step of one connection leaves what is known of the others alone (`Aside`), although it
may move the checkpoint, the disk and the gaps they all share.

`NothingIsLostSilently` proves `NoSilentLossAtRest` from `Inv` and a second invariant, `CoverInv`, which holds until the process crashes or
an open source overflows. `Seen` is the sound that is on the disk, covered by a row, or covered by a gap that a receive loop is recording:
only a crash keeps that loop from it. The decisions of a ticker are not part of it, because a broken socket cancels the ticker; what
was acknowledged is therefore required to be seen without them (`KeptTracker`, `KeptTicker`), and what a tracker counts as received
to be seen with the help of its own unsynced frames and its ticker's decisions (`SeenAll`, `Known`). Until an open source overflows, every frame in a
reported range was dropped (`TrueReports`, `Overflow`). This is what makes the gap of a report cover the whole range, and rules out `Lagging`;
`congested` stands for the one place where it fails.

`NoSilentLossWithAnyClient` proves `NoSilentLossWhileOpen` of `IngestOpen`, for any number of connections and any set of sequence numbers. Nothing
of `Inv` helps here, because a client that repeats, reorders and declares what it likes leaves no relation between its buffer and what
the server has. `OpenInv` speaks of the sound before a position instead: while the epoch is open (`Voices`), every checkpoint, acknowledged or about to be, has all
sound before its end in `Safe`, on the disk, covered by a row, written, or in the hands of a loop that will record it (`Settled`), and a
tracker has it with the help of its ticker's decisions (`Tracked`). The end must not fall behind the watermark (`InStep`), or the next
frame would be counted where nothing lies: the one exception is what was missing at the close, for which no samples are known; it is harmless because
the client sends nothing above the number its close named (`AsFar`), and the loop that closes has emptied the tracker first. `AcceptInStep` and
`ReportInStep` are the lemmas about the tracker, with the same hand-made induction over its loops.

`MeetingProofs` proves `ApprovalIsAtRest`, `ExportMatchesApproval` and `ProcessingHasADriver` under the assumption that no lease lapses
under a handler (`~LeaseLapses`, see the list above for what happens otherwise); the second also assumes that no live extraction ends
behind an approval (`~LateLivePass`) and that `None` is no record of a snapshot. That an approved meeting is quiet needs that every attempt at work owns its job (`Fenced`), so that the job
is running, which an approval excludes. That the export is what was approved needs
that every step which changes the transcript, the summary or a card happens outside APPROVED, and that under an approval progress is
only added and questions are only settled (`Signed`). That processing is driven
needs which job *carries* the meeting: one that waits or runs and whose successor in the chain is not queued yet, or
whose result is undecided (`Carries`, `Driven`), and the order in which the jobs are queued (`Chain`).

`FinalPassProofs` proves `ChunksAscend`, `CompleteHoldsAll` and `EditsSurvive`, the last about final revisions of any recording. The worker that owns the job stands behind every stored
chunk (`Written`): a worker without the job undoes what it stored in the same transaction, and an attempt begins with an empty
revision or with a complete one, to which it adds nothing. A complete revision is whole as long as no living worker lost its lease because then whoever is in the pass owns it
(`Alone`). That edits survive needs that a text of the final revision is edited only when that revision is active, and that
an active revision is complete (`Chain`), so that a later pass finds nothing to do.

`MeetingProofs` also proves `ScheduleIsItsOwn` of `ActionCard`; the property is inductive because every transaction on a card in human hands
computes the schedule anew or leaves the card's deadline and state alone. `ExtractionProofs` proves `NothingPassedOver` from `LoopInv`: a window is never
empty and never reaches behind the transcript.

For the linker it proves `OnlyConsentChanges`, `CleanCardsAreSettled` and `TypeCorrect`, for any vocabulary of names, values and
references and any sequence of events. `LinkInv` says that the tasks stay within the vocabulary (`Tasks`) and are `Sound`: no pending
proposal is dated ahead of the clock, and a task that is put off, or of which the status, the deadline or the assignee is only
proposed, has a reason to review it. Each handler
of an event has a lemma of its own (`ProposedKeeps`, `AssignedKeeps`, ..., `AcceptedKeeps`) that it keeps `Sound` and takes only a step
that its type consents to (`Consents`); `ApplyKeeps` puts them together for whichever task an event is found to be
about. The acceptance is the hard one: it takes over the latest proposals, at most one per field because a batch comes from one
event (`LatestIsOne`, `LeastNatural`). That a clean card is settled follows from `Sound` and from what the card reads off the task. The one
assumption is that `None` differs from everything it stands in for.

`RecorderProofs` proves `NoWayBack`, `ClockTellsTheTruth` and `AllSoundIsHandedOver`. The first is a fact about single steps: two of them
make a recording run, and both look at the status. The second needs `RInv`: as long as no request timed out, at most one request to pause or to resume is under way,
either in the port to the worklet or answered by the one acknowledgment in the port to the page, its number is that of the promise that
waits for it, and the worklet is paused as the last request said (`Ports`); together with the shape of the page in each
status (`Shape`). The third adds up the sound: what was heard is what the client got, what is in the port to the page and the partial chunk
(`Accounted`; `Total` sums up a queue without recursion), and the request of a stop is the last one in the port to the worklet, or was
obeyed and is answered by the last acknowledgment in the port to the page (`LastWord`), whatever late answers are still before it. That is
so because a stop begins only when no pause or resume runs, and nothing asks the worklet anything while it waits.

`LiveTranscriberProofs` proves `EveryWordOnce`, `NothingIsToldTwice`, `PausesSplit` and `TypeCorrect`, for any recordings, any chunks, any
lengths of steps, windows and pauses and every outcome the recogniser may have. `IInv` has one part for each thing that may go wrong.
`Sane` holds in any case. As long as nothing was committed by force, `Sound` says: the window and the committed point cut no word,
and no word before the window is left to commit (`Fit`); a word of the last window that was heard wrong carries the end of that window, and the
window has grown since by at least the sound that is new, so that two windows that differ never agree on it; what is stored and what is about to be
stored follow each other and lie before the checkpoint and the committed point. As long as at most recognitions failed, `Complete` adds that every word before
the committed point is among them. None of the properties is inductive alone: that a committed word is whole depends on the window it was
heard in, and on the one before.
The lemmas go from the inside out: the two loops (`KeepSelects`, `PiecesGood`), what a window may be heard as (`HypothesisGood`), what a pass
makes of it (`NewGood`, `AgreedGood`, `TailGood`, `DecideGood`), and a step, which commits exactly the words between the old and the new
committed point (`StepGood`). Inductions over the loops are done by hand (`Climb`), from the existence of a least natural number. `LiveAssumption` holds
what is assumed: the words of a recording follow each other and are long enough for the voice detector; a step has a length; and the pause that ends
a phrase is no shorter than the sound the recogniser needs after a word and the slack of 0.3 s with which the rest of the phrase is
committed (`live/transcriber.py:163`). Without the last one a word at the end of a phrase could be committed as it was misheard.

Only model-checked: every liveness property (fairness and ENABLED are outside the prover's reach); the invariants of `Deadlines`, which
are arithmetic on a calendar; and `WindowBounded`, whose bound needs steps and reads that suit each other: a tick that reads `MaxRead` after a stall
may exceed it, and the run's chunks do not. `PageFollows` has no theorem because it does not hold for more than one page or recording (section 3).

## 5. Not modelled

Providers of speech recognition, diarisation and language models, the model store, diagnostics, rendering of documents, passwords
and tokens, configuration, migrations, command line, evaluation and fixtures: wrappers, I/O or rendering
without a protocol of their own. Regular expressions and the comparison of words in `domain/` and `extraction/` are replaced by what
they find. Signal processing in `audio/` works on floating-point data. The database driver and SQLite are taken at their word. Each
component's note in `PROJECT.json` gives the reason and says what of a modelled component is left out.

## 6. Plan

The upload of sound, the queue, the life of a meeting, the final pass, the extraction of tasks, the cards, the deadlines, the live transcript
and the recorder are modelled. What is left, in this order:

1. Several sources in `Recorder` and `Uploader`: controls that are awaited together, a microphone that is muted or exchanged.
2. The browser extension: start and stop of a tab recording by messages between a suspended service worker, the offscreen document and the
   popup.
3. `live_asr.py`: bucketed extraction jobs, live cards and the pass that supersedes them; recordings with noise for `LiveTranscriber`.
4. Proofs: the invariants of `Deadlines`; for `WindowBounded`, the bound in terms of `MaxRead`.
5. `Meeting` with `LeaseLapses`: which promises remain when an extraction outlives its lease.
