------------------------------ MODULE JobQueue ------------------------------
(***************************************************************************)
(* The database-backed job queue (hattama/jobs/queue.py) and the two       *)
(* worker loops that drive it (workers/pipeline_worker.py and the final    *)
(* pass of pipeline/final_asr.py).                                         *)
(*                                                                         *)
(* Every session_scope() is one serialised SQLite transaction (BEGIN       *)
(* IMMEDIATE), so every transaction is one action; between two of them a   *)
(* worker may be descheduled for any time, lose its lease or die.          *)
(*                                                                         *)
(* Time is abstract: a lease, the TTL of the named lock and a retry delay  *)
(* are running until an environment action ends them.                      *)
(***************************************************************************)
EXTENDS Integers, FiniteSets

CONSTANTS
  Jobs,         \* unique job keys that are ever enqueued
  AsrJobs,      \* those of the "asr" queue (kind final_asr)
  HeavyJobs,    \* those of the "pipeline" queue whose kind is in HEAVY
  Priority,     \* Priority[j]: smaller is claimed first
  MaxAttempts,  \* Job.max_attempts
  Workers,      \* worker process incarnations (the worker id holds the pid)
  AsrWorkers,   \* those that run asr_worker.py
  Exclusive,    \* the profile's heavy_stages_exclusive
  None          \* no owner / no job

ASSUME JobQueueAssumption ==
  /\ IsFiniteSet(Jobs)
  /\ AsrJobs \subseteq Jobs
  /\ HeavyJobs \subseteq Jobs \ AsrJobs
  /\ Priority \in [Jobs -> Nat]
  /\ MaxAttempts \in Nat \ {0}
  /\ AsrWorkers \subseteq Workers
  /\ Exclusive \in BOOLEAN
  /\ None \notin Jobs \cup Workers

VARIABLES
  state,      \* Job.state, "absent" before the row exists
  attempts,   \* Job.attempts
  owner,      \* Job.lease_owner
  lease,      \* Job.lease_expires_at: "none", "live" or "expired"
  due,        \* Job.run_after <= now
  cancel,     \* Job.cancel_requested
  born,       \* Job.created_at, as the order of insertion (0: no row)
  lockOwner,  \* ResourceLock("heavy").owner
  lockTtl,    \* its expires_at: "none", "live" or "expired"
  phase,      \* where a worker is in its loop
  cur,        \* the job it took from the queue
  try,        \* attempts of that job when it was claimed
  holds,      \* it is between try_acquire_lock and release_lock
  outcome,    \* how the handler ended
  lapsed,     \* history: the lease expired since the worker last owned it
  ttlLapsed   \* history: the lock's TTL ended while the worker held it

jobVars    == <<state, attempts, owner, lease, due, cancel, born>>
lockVars   == <<lockOwner, lockTtl>>
workerVars == <<phase, cur, try, holds, outcome>>
history    == <<lapsed, ttlLapsed>>
vars       == <<jobVars, lockVars, workerVars, history>>

Terminal  == {"succeeded", "failed", "cancelled"}
JobStates == {"absent", "queued", "running"} \cup Terminal
Clock     == {"none", "live", "expired"}
Phases    == {"off", "idle", "claimed", "busy", "working", "report", "dead"}
Outcomes  == {"none", "ok", "retry", "cancelled"}

TakesLock(j)  == j \in AsrJobs \/ (j \in HeavyJobs /\ Exclusive)
Executing(w)  == phase[w] \in {"claimed", "busy", "working", "report"}
Serves(w, j)  == (w \in AsrWorkers) <=> (j \in AsrJobs)

Init ==
  /\ state     = [j \in Jobs |-> "absent"]
  /\ attempts  = [j \in Jobs |-> 0]
  /\ owner     = [j \in Jobs |-> None]
  /\ lease     = [j \in Jobs |-> "none"]
  /\ due       = [j \in Jobs |-> FALSE]
  /\ cancel    = [j \in Jobs |-> FALSE]
  /\ born      = [j \in Jobs |-> 0]
  /\ lockOwner = None
  /\ lockTtl   = "none"
  /\ phase     = [w \in Workers |-> "off"]
  /\ cur       = [w \in Workers |-> None]
  /\ try       = [w \in Workers |-> 0]
  /\ holds     = [w \in Workers |-> FALSE]
  /\ outcome   = [w \in Workers |-> "none"]
  /\ lapsed    = [w \in Workers |-> FALSE]
  /\ ttlLapsed = [w \in Workers |-> FALSE]

-----------------------------------------------------------------------------
(* Producers. *)

\* enqueue: a key that already has a row returns that row and changes nothing.
Enqueue(j) ==
  /\ state[j] = "absent"
  /\ state' = [state EXCEPT ![j] = "queued"]
  /\ due'   = [due EXCEPT ![j] = TRUE]
  /\ born'  = [born EXCEPT ![j] = 1 + Cardinality({k \in Jobs : born[k] # 0})]
  /\ UNCHANGED <<attempts, owner, lease, cancel, lockVars, workerVars, history>>

\* Mutant: a finished job is cancelled too.
RequestCancelFinished(j) ==
  /\ state[j] # "absent"
  /\ ~cancel[j]
  /\ cancel' = [cancel EXCEPT ![j] = TRUE]
  /\ state'  = [state EXCEPT ![j] = IF @ # "running" THEN "cancelled" ELSE @]
  /\ UNCHANGED <<attempts, owner, lease, due, born, lockVars, workerVars, history>>

RequestCancel(j) ==
  /\ state[j] # "absent"
  /\ ~cancel[j]
  /\ cancel' = [cancel EXCEPT ![j] = TRUE]
  /\ state'  = [state EXCEPT ![j] = IF @ = "queued" THEN "cancelled" ELSE @]
  /\ UNCHANGED <<attempts, owner, lease, due, born, lockVars, workerVars, history>>

-----------------------------------------------------------------------------
(* Worker loop. *)

Start(w) ==
  /\ phase[w] = "off"
  /\ phase' = [phase EXCEPT ![w] = "idle"]
  /\ UNCHANGED <<jobVars, lockVars, cur, try, holds, outcome, history>>

Claimable(w) == {j \in Jobs : /\ state[j] = "queued"
                              /\ due[j]
                              /\ ~cancel[j]
                              /\ Serves(w, j)}

\* ORDER BY priority, created_at
Before(j, k) == \/ Priority[j] < Priority[k]
                \/ Priority[j] = Priority[k] /\ born[j] <= born[k]

Claim(w) ==
  /\ phase[w] = "idle"
  /\ \E j \in Claimable(w) :
       /\ \A k \in Claimable(w) : Before(j, k)
       /\ state'    = [state EXCEPT ![j] = "running"]
       /\ attempts' = [attempts EXCEPT ![j] = @ + 1]
       /\ owner'    = [owner EXCEPT ![j] = w]
       /\ lease'    = [lease EXCEPT ![j] = "live"]
       /\ cur'      = [cur EXCEPT ![w] = j]
       /\ try'      = [try EXCEPT ![w] = attempts[j] + 1]
  /\ phase'  = [phase EXCEPT ![w] = "claimed"]
  /\ UNCHANGED <<due, cancel, born, lockVars, holds, outcome, history>>

\* try_acquire_lock succeeds on a free, an own or an expired lock.
LockAvailable(w) == lockOwner \in {None, w} \/ lockTtl = "expired"

EnterHeavy(w) ==
  /\ phase[w] = "claimed"
  /\ TakesLock(cur[w])
  /\ LockAvailable(w)
  /\ lockOwner' = w
  /\ lockTtl'   = "live"
  /\ phase'     = [phase EXCEPT ![w] = "working"]
  /\ holds'     = [holds EXCEPT ![w] = TRUE]
  /\ UNCHANGED <<jobVars, cur, try, outcome, history>>

EnterLight(w) ==
  /\ phase[w] = "claimed"
  /\ ~TakesLock(cur[w])
  /\ phase' = [phase EXCEPT ![w] = "working"]
  /\ UNCHANGED <<jobVars, lockVars, cur, try, holds, outcome, history>>

\* Mutant: one attempt too many.
FailOffByOne(w, retryable) ==
  LET j     == cur[w]
      again == retryable /\ attempts[j] <= MaxAttempts
  IN  /\ IF owner[j] # w
         THEN UNCHANGED <<state, owner, lease, due>>
         ELSE /\ state' = [state EXCEPT ![j] =
                             IF cancel[j] THEN "cancelled"
                             ELSE IF again THEN "queued" ELSE "failed"]
              /\ owner' = [owner EXCEPT ![j] = None]
              /\ lease' = [lease EXCEPT ![j] = "none"]
              /\ due'   = [due EXCEPT ![j] = IF ~cancel[j] /\ again THEN FALSE ELSE @]
      /\ UNCHANGED <<attempts, cancel, born>>

\* queue.fail: only the owner's report counts ("lost" otherwise).
Fail(w, retryable) ==
  LET j     == cur[w]
      again == retryable /\ attempts[j] < MaxAttempts
  IN  /\ IF owner[j] # w
         THEN UNCHANGED <<state, owner, lease, due>>
         ELSE /\ state' = [state EXCEPT ![j] =
                             IF cancel[j] THEN "cancelled"
                             ELSE IF again THEN "queued" ELSE "failed"]
              /\ owner' = [owner EXCEPT ![j] = None]
              /\ lease' = [lease EXCEPT ![j] = "none"]
              /\ due'   = [due EXCEPT ![j] = IF ~cancel[j] /\ again THEN FALSE ELSE @]
      /\ UNCHANGED <<attempts, cancel, born>>

BackToIdle(w) ==
  /\ phase'   = [phase EXCEPT ![w] = "idle"]
  /\ cur'     = [cur EXCEPT ![w] = None]
  /\ try'     = [try EXCEPT ![w] = 0]
  /\ outcome' = [outcome EXCEPT ![w] = "none"]
  /\ lapsed'  = [lapsed EXCEPT ![w] = FALSE]
  /\ UNCHANGED <<holds, lockVars, ttlLapsed>>

\* pipeline_worker raises _Busy here and reports it in a later transaction.
FindBusy(w) ==
  /\ w \notin AsrWorkers
  /\ phase[w] = "claimed"
  /\ TakesLock(cur[w])
  /\ ~LockAvailable(w)
  /\ phase' = [phase EXCEPT ![w] = "busy"]
  /\ UNCHANGED <<jobVars, lockVars, cur, try, holds, outcome, history>>

ReportBusy(w) ==
  /\ phase[w] = "busy"
  /\ Fail(w, TRUE)
  /\ BackToIdle(w)

\* FinalAsrRunner.tick fails the job in the transaction that found the lock busy.
AsrBusy(w) ==
  /\ w \in AsrWorkers
  /\ phase[w] = "claimed"
  /\ ~LockAvailable(w)
  /\ Fail(w, TRUE)
  /\ BackToIdle(w)

\* Mutant: a heartbeat that takes the row back without checking the owner.
HeartbeatStealing(w) ==
  /\ w \in AsrWorkers
  /\ phase[w] = "working"
  /\ outcome[w] = "none"
  /\ owner' = [owner EXCEPT ![cur[w]] = w]
  /\ lease' = [lease EXCEPT ![cur[w]] = "live"]
  /\ UNCHANGED <<state, attempts, due, cancel, born, lockVars, workerVars, history>>

\* heartbeat in the final pass: the lease is extended if the row is still ours;
\* otherwise, or after a cancellation, JobCancelledError leaves the transaction
\* (which rolls the extension back) and the pass stops.
Heartbeat(w) ==
  /\ w \in AsrWorkers
  /\ phase[w] = "working"
  /\ outcome[w] = "none"
  /\ LET j    == cur[w]
         ours == owner[j] = w /\ state[j] = "running"
     IN  /\ lease'   = [lease EXCEPT ![j] = IF ours /\ ~cancel[j] THEN "live" ELSE @]
         /\ lapsed'  = [lapsed EXCEPT ![w] = IF ours /\ ~cancel[j] THEN FALSE ELSE @]
         /\ outcome' = [outcome EXCEPT ![w] = IF ours /\ ~cancel[j] THEN @ ELSE "cancelled"]
  /\ UNCHANGED <<state, attempts, owner, due, cancel, born, lockVars, phase, cur, try,
                 holds, ttlLapsed>>

\* Mutant: release_lock without the owner in its WHERE clause.
FinishUnguarded(w, result) ==
  /\ phase[w] = "working"
  /\ outcome[w] = "none" \/ outcome[w] = result
  /\ result = "cancelled" => outcome[w] = "cancelled"
  /\ outcome' = [outcome EXCEPT ![w] = result]
  /\ phase'   = [phase EXCEPT ![w] = "report"]
  /\ holds'   = [holds EXCEPT ![w] = FALSE]
  /\ ttlLapsed' = [ttlLapsed EXCEPT ![w] = FALSE]
  /\ IF holds[w]
     THEN lockOwner' = None /\ lockTtl' = "none"
     ELSE UNCHANGED lockVars
  /\ UNCHANGED <<jobVars, cur, try, lapsed>>

\* The handler returns or raises; its finally block releases the lock in a
\* transaction of its own, guarded by the owner.
Finish(w, result) ==
  /\ phase[w] = "working"
  /\ outcome[w] = "none" \/ outcome[w] = result
  /\ result = "cancelled" => outcome[w] = "cancelled"
  /\ outcome' = [outcome EXCEPT ![w] = result]
  /\ phase'   = [phase EXCEPT ![w] = "report"]
  /\ holds'   = [holds EXCEPT ![w] = FALSE]
  /\ ttlLapsed' = [ttlLapsed EXCEPT ![w] = FALSE]
  /\ IF holds[w] /\ lockOwner = w
     THEN lockOwner' = None /\ lockTtl' = "none"
     ELSE UNCHANGED lockVars
  /\ UNCHANGED <<jobVars, cur, try, lapsed>>

\* Mutant: complete without the owner guard.
CompleteUnguarded(w) ==
  /\ phase[w] = "report"
  /\ outcome[w] = "ok"
  /\ state' = [state EXCEPT ![cur[w]] = "succeeded"]
  /\ owner' = [owner EXCEPT ![cur[w]] = None]
  /\ lease' = [lease EXCEPT ![cur[w]] = "none"]
  /\ UNCHANGED <<attempts, due, cancel, born>>
  /\ BackToIdle(w)

Complete(w) ==
  /\ phase[w] = "report"
  /\ outcome[w] = "ok"
  /\ LET j == cur[w]
     IN  IF owner[j] # w
         THEN UNCHANGED <<state, owner, lease>>
         ELSE /\ state' = [state EXCEPT ![j] = "succeeded"]
              /\ owner' = [owner EXCEPT ![j] = None]
              /\ lease' = [lease EXCEPT ![j] = "none"]
  /\ UNCHANGED <<attempts, due, cancel, born>>
  /\ BackToIdle(w)

\* "retry": an unavailable model or any other error of a pipeline handler;
\* "cancelled": JobCancelledError of the final pass.
ReportFailure(w) ==
  /\ phase[w] = "report"
  /\ outcome[w] \in {"retry", "cancelled"}
  /\ Fail(w, outcome[w] = "retry")
  /\ BackToIdle(w)

\* FinalAsrRunner.tick catches only cancellation and AsrUnavailableError: any
\* other exception reaches asr_worker.run, which leaves the job running.
AbandonAsr(w) ==
  /\ w \in AsrWorkers
  /\ phase[w] = "report"
  /\ outcome[w] = "retry"
  /\ UNCHANGED jobVars
  /\ BackToIdle(w)

\* Mutants: recovery that ignores the lease; that forgets jobs without attempts left.
ExpiredAlways(j) == state[j] = "running"

ExpiredRetryable(j) == state[j] = "running" /\ lease[j] = "expired" /\ attempts[j] < MaxAttempts

\* recover_expired, called at the head of both worker loops.
Expired(j) == state[j] = "running" /\ lease[j] = "expired"

Recover ==
  /\ \E w \in Workers : phase[w] = "idle"
  /\ \E j \in Jobs : Expired(j)
  /\ state' = [j \in Jobs |-> IF ~Expired(j) THEN state[j]
                              ELSE IF cancel[j] THEN "cancelled"
                              ELSE IF attempts[j] >= MaxAttempts THEN "failed"
                              ELSE "queued"]
  /\ owner' = [j \in Jobs |-> IF Expired(j) THEN None ELSE owner[j]]
  /\ lease' = [j \in Jobs |-> IF Expired(j) THEN "none" ELSE lease[j]]
  /\ UNCHANGED <<attempts, due, cancel, born, lockVars, workerVars, history>>

-----------------------------------------------------------------------------
(* Environment: time and crashes. *)

BecomeDue(j) ==
  /\ state[j] = "queued"
  /\ ~due[j]
  /\ due' = [due EXCEPT ![j] = TRUE]
  /\ UNCHANGED <<state, attempts, owner, lease, cancel, born, lockVars, workerVars, history>>

LeaseExpire(j) ==
  /\ lease[j] = "live"
  /\ lease'  = [lease EXCEPT ![j] = "expired"]
  /\ lapsed' = [w \in Workers |-> lapsed[w] \/ (Executing(w) /\ cur[w] = j /\ owner[j] = w)]
  /\ UNCHANGED <<state, attempts, owner, due, cancel, born, lockVars, workerVars, ttlLapsed>>

TtlExpire ==
  /\ lockTtl = "live"
  /\ lockTtl'   = "expired"
  /\ ttlLapsed' = [w \in Workers |-> ttlLapsed[w] \/ (holds[w] /\ lockOwner = w)]
  /\ UNCHANGED <<jobVars, lockOwner, workerVars, lapsed>>

\* A dead process keeps its rows: only the lease and the TTL free them. The
\* last worker of a pool is kept alive (the operator restarts the service).
Crash(w) ==
  /\ phase[w] \notin {"off", "dead"}
  /\ \E v \in Workers \ {w} : /\ phase[v] # "dead"
                              /\ (v \in AsrWorkers) = (w \in AsrWorkers)
  /\ phase'   = [phase EXCEPT ![w] = "dead"]
  /\ cur'     = [cur EXCEPT ![w] = None]
  /\ try'     = [try EXCEPT ![w] = 0]
  /\ holds'   = [holds EXCEPT ![w] = FALSE]
  /\ outcome' = [outcome EXCEPT ![w] = "none"]
  /\ lapsed'  = [lapsed EXCEPT ![w] = FALSE]
  /\ ttlLapsed' = [ttlLapsed EXCEPT ![w] = FALSE]
  /\ UNCHANGED <<jobVars, lockVars>>

-----------------------------------------------------------------------------
WorkerStep(w) ==
  \/ Start(w)
  \/ Claim(w)
  \/ EnterHeavy(w)
  \/ EnterLight(w)
  \/ FindBusy(w)
  \/ ReportBusy(w)
  \/ AsrBusy(w)
  \/ Heartbeat(w)
  \/ \E r \in {"ok", "retry", "cancelled"} : Finish(w, r)
  \/ Complete(w)
  \/ ReportFailure(w)
  \/ AbandonAsr(w)
  \/ Crash(w)

JobStep(j) == Enqueue(j) \/ RequestCancel(j) \/ BecomeDue(j) \/ LeaseExpire(j)

Next ==
  \/ \E w \in Workers : WorkerStep(w)
  \/ \E j \in Jobs : JobStep(j)
  \/ Recover
  \/ TtlExpire

Spec == Init /\ [][Next]_vars

(***************************************************************************)
(* Fairness. The loops poll forever, a handler returns (every model call   *)
(* has a timeout), and time passes: a retry delay ends, and so does the    *)
(* lease of a job whose worker no longer works on it.                      *)
(***************************************************************************)
Orphaned(j) == lease[j] = "live" /\ ~\E w \in Workers : Executing(w) /\ cur[w] = j /\ owner[j] = w

Fairness ==
  /\ \A w \in Workers :
       /\ WF_vars(Start(w))
       /\ WF_vars(EnterHeavy(w) \/ EnterLight(w) \/ FindBusy(w) \/ AsrBusy(w))
       /\ WF_vars(\E r \in {"ok", "retry", "cancelled"} : Finish(w, r))
       /\ WF_vars(ReportBusy(w) \/ Complete(w) \/ ReportFailure(w))
       /\ WF_vars(Claim(w))
  /\ WF_vars(Recover)
  /\ \A j \in Jobs : WF_vars(BecomeDue(j)) /\ WF_vars(Orphaned(j) /\ LeaseExpire(j))

FairSpec == Spec /\ Fairness

-----------------------------------------------------------------------------
(* Properties. *)

\* Every variable has its type.
TypeOK ==
  /\ state \in [Jobs -> JobStates]
  /\ attempts \in [Jobs -> Nat]
  /\ owner \in [Jobs -> Workers \cup {None}]
  /\ lease \in [Jobs -> Clock]
  /\ due \in [Jobs -> BOOLEAN]
  /\ cancel \in [Jobs -> BOOLEAN]
  /\ born \in [Jobs -> Nat]
  /\ lockOwner \in Workers \cup {None}
  /\ lockTtl \in Clock
  /\ phase \in [Workers -> Phases]
  /\ cur \in [Workers -> Jobs \cup {None}]
  /\ try \in [Workers -> Nat]
  /\ holds \in [Workers -> BOOLEAN]
  /\ outcome \in [Workers -> Outcomes]
  /\ lapsed \in [Workers -> BOOLEAN]
  /\ ttlLapsed \in [Workers -> BOOLEAN]

\* Attempts are bounded across crashes, busy locks, errors and recoveries: no
\* path puts a job back in the queue once its attempts are used up, and none
\* puts back a job whose cancellation was requested (queue.py: claim, fail,
\* recover_expired, request_cancel).
RetryBudget ==
  \A j \in Jobs :
    /\ attempts[j] <= MaxAttempts
    /\ state[j] = "queued" => attempts[j] < MaxAttempts /\ ~cancel[j]

\* At most one running lease per job: two workers may execute the same job only
\* if the lease of all of them but one expired while they were at it, and the
\* one whose lease never lapsed is the owner in the database.
SingleLease ==
  \A w \in Workers :
    Executing(w) /\ ~lapsed[w] =>
      /\ state[cur[w]] = "running"
      /\ owner[cur[w]] = w
      /\ \A v \in Workers \ {w} : Executing(v) /\ cur[v] = cur[w] => lapsed[v]

\* A report that the owner guard lets through belongs to the latest claim: the
\* owner in the row is never a worker that holds an older attempt of the job.
FencedOwner ==
  \A w \in Workers :
    Executing(w) /\ owner[cur[w]] = w => try[w] = attempts[cur[w]]

\* The heavy lock excludes: two workers are in a heavy stage together only if
\* the TTL of the earlier one ran out under it.
HeavyExclusion ==
  \A w \in Workers :
    holds[w] /\ ~ttlLapsed[w] =>
      /\ lockOwner = w
      /\ \A v \in Workers \ {w} : holds[v] => ttlLapsed[v]

\* A job that reached a terminal state stays there: no late report, heartbeat,
\* recovery or cancellation reopens it or changes its verdict.
TerminalIsFinal ==
  [][\A j \in Jobs : state[j] \in Terminal => state'[j] = state[j] /\ owner'[j] = None]_vars

\* A running job leaves that state only by a report of the worker whose attempt
\* is the current one, or because its lease expired.
NoStaleVerdict ==
  [][\A j \in Jobs :
       state[j] = "running" /\ state'[j] # "running" =>
         \/ lease[j] = "expired"
         \/ \E w \in Workers : /\ Executing(w) /\ cur[w] = j
                               /\ try[w] = attempts[j] /\ owner[j] = w
                               /\ phase'[w] = "idle"]_vars

\* Every enqueued job is settled, whatever crashes, busy locks and lost leases
\* happen on the way (bounded attempts, recovery of expired leases).
AllSettle == \A j \in Jobs : state[j] # "absent" ~> state[j] \in Terminal
=============================================================================
