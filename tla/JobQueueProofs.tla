--------------------------- MODULE JobQueueProofs ---------------------------
(***************************************************************************)
(* Proofs about JobQueue, for any jobs, workers and number of attempts.    *)
(*                                                                         *)
(* The safety invariants are not inductive one by one: the budget needs to *)
(* know that an absent row has no attempts, the single lease needs to know *)
(* that a lease which never lapsed is still live in its row (or Recover    *)
(* could take it away), and the fencing needs both. IInv is their common   *)
(* strengthening.                                                          *)
(***************************************************************************)
EXTENDS JobQueue, FiniteSetTheorems, TLAPS

\* Rows: a lease exists exactly while the job runs.
RowInv ==
  \A j \in Jobs :
    /\ attempts[j] <= MaxAttempts
    /\ state[j] = "queued" => attempts[j] < MaxAttempts /\ ~cancel[j]
    /\ state[j] = "absent" => attempts[j] = 0 /\ ~cancel[j]
    /\ state[j] = "running" <=> owner[j] # None
    /\ state[j] = "running" <=> lease[j] # "none"

\* Workers: a lease that did not lapse is live in the row, and whoever owns the
\* row of its job holds the latest attempt.
WorkerInv ==
  \A w \in Workers :
    /\ Executing(w) => cur[w] \in Jobs
    /\ Executing(w) /\ ~lapsed[w] => owner[cur[w]] = w /\ lease[cur[w]] = "live"
    /\ Executing(w) /\ owner[cur[w]] = w => try[w] = attempts[cur[w]]

\* The lock: a holder whose TTL did not run out is its owner.
LockInv ==
  \A w \in Workers :
    /\ holds[w] => phase[w] = "working"
    /\ holds[w] /\ ~ttlLapsed[w] => lockOwner = w /\ lockTtl = "live"
    /\ ~Executing(w) => ~lapsed[w]
    /\ ~holds[w] => ~ttlLapsed[w]

IInv == TypeOK /\ RowInv /\ WorkerInv /\ LockInv

-----------------------------------------------------------------------------
\* What a failed report may do to the rows: nothing, or it ends the lease of
\* the worker's own job, which returns to the queue only within the budget.
ReportLost == UNCHANGED <<state, attempts, owner, lease, due, cancel, born>>

ReportEnds(w, v, d) ==
  /\ owner[cur[w]] = w
  /\ v = "queued" => attempts[cur[w]] < MaxAttempts /\ ~cancel[cur[w]]
  /\ state' = [state EXCEPT ![cur[w]] = v]
  /\ due'   = [due EXCEPT ![cur[w]] = d]
  /\ owner' = [owner EXCEPT ![cur[w]] = None]
  /\ lease' = [lease EXCEPT ![cur[w]] = "none"]
  /\ UNCHANGED <<attempts, cancel, born>>

LEMMA FailEffect ==
  ASSUME TypeOK, NEW w \in Workers, cur[w] \in Jobs, NEW retryable \in BOOLEAN,
         Fail(w, retryable)
  PROVE  \/ ReportLost
         \/ \E v \in {"cancelled", "queued", "failed"}, d \in BOOLEAN : ReportEnds(w, v, d)
<1> DEFINE j     == cur[w]
           again == retryable /\ attempts[j] < MaxAttempts
           v     == IF cancel[j] THEN "cancelled" ELSE IF again THEN "queued" ELSE "failed"
           d     == IF ~cancel[j] /\ again THEN FALSE ELSE due[j]
<1>1. CASE owner[j] # w
  BY <1>1 DEF Fail, ReportLost
<1>2. CASE owner[j] = w
  <2>1. /\ state' = [state EXCEPT ![j] = v]
        /\ owner' = [owner EXCEPT ![j] = None]
        /\ lease' = [lease EXCEPT ![j] = "none"]
    BY <1>2 DEF Fail
  <2>2. due' = [due EXCEPT ![j] = d]
    BY <1>2 DEF Fail
  <2>3. v \in {"cancelled", "queued", "failed"} /\ d \in BOOLEAN
    BY DEF TypeOK
  <2>4. v = "queued" => attempts[j] < MaxAttempts /\ ~cancel[j]
    OBVIOUS
  <2>5. UNCHANGED <<attempts, cancel, born>>
    BY DEF Fail
  <2> HIDE DEF v, d
  <2>6. ReportEnds(w, v, d)
    BY <1>2, <2>1, <2>2, <2>4, <2>5 DEF ReportEnds
  <2>7. QED
    BY <2>3, <2>6
<1>3. QED
  BY <1>1, <1>2

LEMMA TypeOKStep ==
  ASSUME TypeOK, WorkerInv, [Next]_vars
  PROVE  TypeOK'
<1> USE JobQueueAssumption DEF TypeOK, JobStates, Terminal, Clock, Phases, Outcomes, jobVars, lockVars, workerVars, history
<1>1. ASSUME NEW w \in Workers, Start(w) PROVE TypeOK'
  BY <1>1 DEF Start
<1>2. ASSUME NEW w \in Workers, Claim(w) PROVE TypeOK'
  BY <1>2 DEF Claim, Claimable
<1>3. ASSUME NEW w \in Workers, EnterHeavy(w) PROVE TypeOK'
  BY <1>3 DEF EnterHeavy, LockAvailable
<1>4. ASSUME NEW w \in Workers, EnterLight(w) PROVE TypeOK'
  BY <1>4 DEF EnterLight
<1>5. ASSUME NEW w \in Workers, FindBusy(w) PROVE TypeOK'
  BY <1>5 DEF FindBusy
<1>6. ASSUME NEW w \in Workers, ReportBusy(w) PROVE TypeOK'
  <2>1. cur[w] \in Jobs /\ Fail(w, TRUE) /\ BackToIdle(w) /\ Executing(w)
        /\ phase[w] # "working"
    BY <1>6 DEF WorkerInv, Executing, ReportBusy
  <2>2. \/ ReportLost
        \/ \E v \in {"cancelled", "queued", "failed"}, d \in BOOLEAN : ReportEnds(w, v, d)
    BY ONLY TypeOK, <2>1, FailEffect
  <2>3. CASE ReportLost
    BY <2>1, <2>3 DEF ReportLost, BackToIdle
  <2>4. ASSUME NEW v \in {"cancelled", "queued", "failed"}, NEW d \in BOOLEAN,
               ReportEnds(w, v, d)
        PROVE  TypeOK'
    BY <2>1, <2>4 DEF ReportEnds, BackToIdle
  <2>5. QED
    BY <2>2, <2>3, <2>4
<1>7. ASSUME NEW w \in Workers, AsrBusy(w) PROVE TypeOK'
  <2>1. cur[w] \in Jobs /\ Fail(w, TRUE) /\ BackToIdle(w) /\ Executing(w)
        /\ phase[w] # "working"
    BY <1>7 DEF WorkerInv, Executing, AsrBusy
  <2>2. \/ ReportLost
        \/ \E v \in {"cancelled", "queued", "failed"}, d \in BOOLEAN : ReportEnds(w, v, d)
    BY ONLY TypeOK, <2>1, FailEffect
  <2>3. CASE ReportLost
    BY <2>1, <2>3 DEF ReportLost, BackToIdle
  <2>4. ASSUME NEW v \in {"cancelled", "queued", "failed"}, NEW d \in BOOLEAN,
               ReportEnds(w, v, d)
        PROVE  TypeOK'
    BY <2>1, <2>4 DEF ReportEnds, BackToIdle
  <2>5. QED
    BY <2>2, <2>3, <2>4
<1>8. ASSUME NEW w \in Workers, Heartbeat(w) PROVE TypeOK'
  BY <1>8 DEF Heartbeat
<1>9. ASSUME NEW w \in Workers, NEW r \in {"ok", "retry", "cancelled"}, Finish(w, r)
      PROVE  TypeOK'
  BY <1>9 DEF Finish
<1>10. ASSUME NEW w \in Workers, Complete(w) PROVE TypeOK'
  BY <1>10 DEF Complete, BackToIdle
<1>11. ASSUME NEW w \in Workers, ReportFailure(w) PROVE TypeOK'
  <2>1. cur[w] \in Jobs /\ Fail(w, outcome[w] = "retry") /\ BackToIdle(w) /\ Executing(w)
        /\ phase[w] # "working"
    BY <1>11 DEF WorkerInv, Executing, ReportFailure
  <2>2. \/ ReportLost
        \/ \E v \in {"cancelled", "queued", "failed"}, d \in BOOLEAN : ReportEnds(w, v, d)
    BY ONLY TypeOK, <2>1, FailEffect
  <2>3. CASE ReportLost
    BY <2>1, <2>3 DEF ReportLost, BackToIdle
  <2>4. ASSUME NEW v \in {"cancelled", "queued", "failed"}, NEW d \in BOOLEAN,
               ReportEnds(w, v, d)
        PROVE  TypeOK'
    BY <2>1, <2>4 DEF ReportEnds, BackToIdle
  <2>5. QED
    BY <2>2, <2>3, <2>4
<1>12. ASSUME NEW w \in Workers, AbandonAsr(w) PROVE TypeOK'
  BY <1>12 DEF AbandonAsr, BackToIdle
<1>13. ASSUME NEW w \in Workers, Crash(w) PROVE TypeOK'
  BY <1>13 DEF Crash
<1>14. ASSUME NEW j \in Jobs, Enqueue(j) PROVE TypeOK'
  <2>1. Cardinality({k \in Jobs : born[k] # 0}) \in Nat
    BY FS_Subset, FS_CardinalityType
  <2>2. QED
    BY <1>14, <2>1 DEF Enqueue
<1>15. ASSUME NEW j \in Jobs, RequestCancel(j) PROVE TypeOK'
  BY <1>15 DEF RequestCancel
<1>16. ASSUME NEW j \in Jobs, BecomeDue(j) PROVE TypeOK'
  BY <1>16 DEF BecomeDue
<1>17. ASSUME NEW j \in Jobs, LeaseExpire(j) PROVE TypeOK'
  BY <1>17 DEF LeaseExpire
<1>18. CASE Recover
  BY <1>18 DEF Recover, Expired
<1>19. CASE TtlExpire
  BY <1>19 DEF TtlExpire
<1>20. CASE UNCHANGED vars
  BY <1>20 DEF vars
<1>99. QED
  BY <1>1, <1>2, <1>3, <1>4, <1>5, <1>6, <1>7, <1>8, <1>9, <1>10, <1>11, <1>12, <1>13, <1>14, <1>15, <1>16, <1>17, <1>18, <1>19, <1>20 DEF Next, WorkerStep, JobStep

LEMMA RowInvStep ==
  ASSUME TypeOK, RowInv, WorkerInv, LockInv, [Next]_vars
  PROVE  RowInv'
<1> USE JobQueueAssumption DEF TypeOK, RowInv, WorkerInv, LockInv, Executing, Terminal, jobVars, lockVars, workerVars, history
<1>1. ASSUME NEW w \in Workers, Start(w) PROVE RowInv'
  BY <1>1 DEF Start
<1>2. ASSUME NEW w \in Workers, Claim(w) PROVE RowInv'
  BY <1>2 DEF Claim, Claimable
<1>3. ASSUME NEW w \in Workers, EnterHeavy(w) PROVE RowInv'
  BY <1>3 DEF EnterHeavy, LockAvailable
<1>4. ASSUME NEW w \in Workers, EnterLight(w) PROVE RowInv'
  BY <1>4 DEF EnterLight
<1>5. ASSUME NEW w \in Workers, FindBusy(w) PROVE RowInv'
  BY <1>5 DEF FindBusy
<1>6. ASSUME NEW w \in Workers, ReportBusy(w) PROVE RowInv'
  <2>1. cur[w] \in Jobs /\ Fail(w, TRUE) /\ BackToIdle(w) /\ Executing(w)
        /\ phase[w] # "working"
    BY <1>6 DEF WorkerInv, Executing, ReportBusy
  <2>2. \/ ReportLost
        \/ \E v \in {"cancelled", "queued", "failed"}, d \in BOOLEAN : ReportEnds(w, v, d)
    BY ONLY TypeOK, <2>1, FailEffect
  <2>3. CASE ReportLost
    BY <2>1, <2>3 DEF ReportLost, BackToIdle
  <2>4. ASSUME NEW v \in {"cancelled", "queued", "failed"}, NEW d \in BOOLEAN,
               ReportEnds(w, v, d)
        PROVE  RowInv'
    BY <2>1, <2>4 DEF ReportEnds, BackToIdle
  <2>5. QED
    BY <2>2, <2>3, <2>4
<1>7. ASSUME NEW w \in Workers, AsrBusy(w) PROVE RowInv'
  <2>1. cur[w] \in Jobs /\ Fail(w, TRUE) /\ BackToIdle(w) /\ Executing(w)
        /\ phase[w] # "working"
    BY <1>7 DEF WorkerInv, Executing, AsrBusy
  <2>2. \/ ReportLost
        \/ \E v \in {"cancelled", "queued", "failed"}, d \in BOOLEAN : ReportEnds(w, v, d)
    BY ONLY TypeOK, <2>1, FailEffect
  <2>3. CASE ReportLost
    BY <2>1, <2>3 DEF ReportLost, BackToIdle
  <2>4. ASSUME NEW v \in {"cancelled", "queued", "failed"}, NEW d \in BOOLEAN,
               ReportEnds(w, v, d)
        PROVE  RowInv'
    BY <2>1, <2>4 DEF ReportEnds, BackToIdle
  <2>5. QED
    BY <2>2, <2>3, <2>4
<1>8. ASSUME NEW w \in Workers, Heartbeat(w) PROVE RowInv'
  BY <1>8 DEF Heartbeat
<1>9. ASSUME NEW w \in Workers, NEW r \in {"ok", "retry", "cancelled"}, Finish(w, r)
      PROVE  RowInv'
  BY <1>9 DEF Finish
<1>10. ASSUME NEW w \in Workers, Complete(w) PROVE RowInv'
  BY <1>10 DEF Complete, BackToIdle
<1>11. ASSUME NEW w \in Workers, ReportFailure(w) PROVE RowInv'
  <2>1. cur[w] \in Jobs /\ Fail(w, outcome[w] = "retry") /\ BackToIdle(w) /\ Executing(w)
        /\ phase[w] # "working"
    BY <1>11 DEF WorkerInv, Executing, ReportFailure
  <2>2. \/ ReportLost
        \/ \E v \in {"cancelled", "queued", "failed"}, d \in BOOLEAN : ReportEnds(w, v, d)
    BY ONLY TypeOK, <2>1, FailEffect
  <2>3. CASE ReportLost
    BY <2>1, <2>3 DEF ReportLost, BackToIdle
  <2>4. ASSUME NEW v \in {"cancelled", "queued", "failed"}, NEW d \in BOOLEAN,
               ReportEnds(w, v, d)
        PROVE  RowInv'
    BY <2>1, <2>4 DEF ReportEnds, BackToIdle
  <2>5. QED
    BY <2>2, <2>3, <2>4
<1>12. ASSUME NEW w \in Workers, AbandonAsr(w) PROVE RowInv'
  BY <1>12 DEF AbandonAsr, BackToIdle
<1>13. ASSUME NEW w \in Workers, Crash(w) PROVE RowInv'
  BY <1>13 DEF Crash
<1>14. ASSUME NEW j \in Jobs, Enqueue(j) PROVE RowInv'
  BY <1>14 DEF Enqueue
<1>15. ASSUME NEW j \in Jobs, RequestCancel(j) PROVE RowInv'
  BY <1>15 DEF RequestCancel
<1>16. ASSUME NEW j \in Jobs, BecomeDue(j) PROVE RowInv'
  BY <1>16 DEF BecomeDue
<1>17. ASSUME NEW j \in Jobs, LeaseExpire(j) PROVE RowInv'
  BY <1>17 DEF LeaseExpire
<1>18. CASE Recover
  BY <1>18 DEF Recover, Expired
<1>19. CASE TtlExpire
  BY <1>19 DEF TtlExpire
<1>20. CASE UNCHANGED vars
  BY <1>20 DEF vars
<1>99. QED
  BY <1>1, <1>2, <1>3, <1>4, <1>5, <1>6, <1>7, <1>8, <1>9, <1>10, <1>11, <1>12, <1>13, <1>14, <1>15, <1>16, <1>17, <1>18, <1>19, <1>20 DEF Next, WorkerStep, JobStep

LEMMA WorkerInvStep ==
  ASSUME TypeOK, RowInv, WorkerInv, LockInv, [Next]_vars
  PROVE  WorkerInv'
<1> USE JobQueueAssumption DEF TypeOK, RowInv, WorkerInv, LockInv, Executing, jobVars, lockVars, workerVars, history
<1>1. ASSUME NEW w \in Workers, Start(w) PROVE WorkerInv'
  BY <1>1 DEF Start
<1>2. ASSUME NEW w \in Workers, Claim(w) PROVE WorkerInv'
  BY <1>2 DEF Claim, Claimable
<1>3. ASSUME NEW w \in Workers, EnterHeavy(w) PROVE WorkerInv'
  BY <1>3 DEF EnterHeavy, LockAvailable
<1>4. ASSUME NEW w \in Workers, EnterLight(w) PROVE WorkerInv'
  BY <1>4 DEF EnterLight
<1>5. ASSUME NEW w \in Workers, FindBusy(w) PROVE WorkerInv'
  BY <1>5 DEF FindBusy
<1>6. ASSUME NEW w \in Workers, ReportBusy(w) PROVE WorkerInv'
  <2>1. cur[w] \in Jobs /\ Fail(w, TRUE) /\ BackToIdle(w) /\ Executing(w)
        /\ phase[w] # "working"
    BY <1>6 DEF WorkerInv, Executing, ReportBusy
  <2>2. \/ ReportLost
        \/ \E v \in {"cancelled", "queued", "failed"}, d \in BOOLEAN : ReportEnds(w, v, d)
    BY ONLY TypeOK, <2>1, FailEffect
  <2>3. CASE ReportLost
    BY <2>1, <2>3 DEF ReportLost, BackToIdle
  <2>4. ASSUME NEW v \in {"cancelled", "queued", "failed"}, NEW d \in BOOLEAN,
               ReportEnds(w, v, d)
        PROVE  WorkerInv'
    BY <2>1, <2>4 DEF ReportEnds, BackToIdle
  <2>5. QED
    BY <2>2, <2>3, <2>4
<1>7. ASSUME NEW w \in Workers, AsrBusy(w) PROVE WorkerInv'
  <2>1. cur[w] \in Jobs /\ Fail(w, TRUE) /\ BackToIdle(w) /\ Executing(w)
        /\ phase[w] # "working"
    BY <1>7 DEF WorkerInv, Executing, AsrBusy
  <2>2. \/ ReportLost
        \/ \E v \in {"cancelled", "queued", "failed"}, d \in BOOLEAN : ReportEnds(w, v, d)
    BY ONLY TypeOK, <2>1, FailEffect
  <2>3. CASE ReportLost
    BY <2>1, <2>3 DEF ReportLost, BackToIdle
  <2>4. ASSUME NEW v \in {"cancelled", "queued", "failed"}, NEW d \in BOOLEAN,
               ReportEnds(w, v, d)
        PROVE  WorkerInv'
    BY <2>1, <2>4 DEF ReportEnds, BackToIdle
  <2>5. QED
    BY <2>2, <2>3, <2>4
<1>8. ASSUME NEW w \in Workers, Heartbeat(w) PROVE WorkerInv'
  BY <1>8 DEF Heartbeat
<1>9. ASSUME NEW w \in Workers, NEW r \in {"ok", "retry", "cancelled"}, Finish(w, r)
      PROVE  WorkerInv'
  BY <1>9 DEF Finish
<1>10. ASSUME NEW w \in Workers, Complete(w) PROVE WorkerInv'
  BY <1>10 DEF Complete, BackToIdle
<1>11. ASSUME NEW w \in Workers, ReportFailure(w) PROVE WorkerInv'
  <2>1. cur[w] \in Jobs /\ Fail(w, outcome[w] = "retry") /\ BackToIdle(w) /\ Executing(w)
        /\ phase[w] # "working"
    BY <1>11 DEF WorkerInv, Executing, ReportFailure
  <2>2. \/ ReportLost
        \/ \E v \in {"cancelled", "queued", "failed"}, d \in BOOLEAN : ReportEnds(w, v, d)
    BY ONLY TypeOK, <2>1, FailEffect
  <2>3. CASE ReportLost
    BY <2>1, <2>3 DEF ReportLost, BackToIdle
  <2>4. ASSUME NEW v \in {"cancelled", "queued", "failed"}, NEW d \in BOOLEAN,
               ReportEnds(w, v, d)
        PROVE  WorkerInv'
    BY <2>1, <2>4 DEF ReportEnds, BackToIdle
  <2>5. QED
    BY <2>2, <2>3, <2>4
<1>12. ASSUME NEW w \in Workers, AbandonAsr(w) PROVE WorkerInv'
  BY <1>12 DEF AbandonAsr, BackToIdle
<1>13. ASSUME NEW w \in Workers, Crash(w) PROVE WorkerInv'
  BY <1>13 DEF Crash
<1>14. ASSUME NEW j \in Jobs, Enqueue(j) PROVE WorkerInv'
  BY <1>14 DEF Enqueue
<1>15. ASSUME NEW j \in Jobs, RequestCancel(j) PROVE WorkerInv'
  BY <1>15 DEF RequestCancel
<1>16. ASSUME NEW j \in Jobs, BecomeDue(j) PROVE WorkerInv'
  BY <1>16 DEF BecomeDue
<1>17. ASSUME NEW j \in Jobs, LeaseExpire(j) PROVE WorkerInv'
  <2> SUFFICES ASSUME NEW w \in Workers
               PROVE  /\ Executing(w)' => cur'[w] \in Jobs
                      /\ Executing(w)' /\ ~lapsed'[w]
                           => owner'[cur'[w]] = w /\ lease'[cur'[w]] = "live"
                      /\ Executing(w)' /\ owner'[cur'[w]] = w => try'[w] = attempts'[cur'[w]]
    OBVIOUS
  <2>1. UNCHANGED <<phase, cur, owner, try, attempts>>
    BY <1>17 DEF LeaseExpire
  <2>2. lapsed'[w] = (lapsed[w] \/ (Executing(w) /\ cur[w] = j /\ owner[j] = w))
    BY <1>17 DEF LeaseExpire
  <2>3. \A k \in Jobs \ {j} : lease'[k] = lease[k]
    BY <1>17 DEF LeaseExpire
  <2>4. Executing(w)' <=> Executing(w)
    BY <2>1
  <2>5. ASSUME Executing(w), ~lapsed'[w]
        PROVE  owner[cur[w]] = w /\ lease'[cur[w]] = "live"
    <3>1. ~lapsed[w] /\ ~(cur[w] = j /\ owner[j] = w)
      BY <2>2, <2>5
    <3>2. cur[w] \in Jobs /\ owner[cur[w]] = w /\ lease[cur[w]] = "live"
      BY <2>5, <3>1
    <3>3. QED
      BY <2>3, <3>1, <3>2
  <2>6. QED
    BY <2>1, <2>4, <2>5
<1>18. CASE Recover
  BY <1>18 DEF Recover, Expired
<1>19. CASE TtlExpire
  BY <1>19 DEF TtlExpire
<1>20. CASE UNCHANGED vars
  BY <1>20 DEF vars
<1>99. QED
  BY <1>1, <1>2, <1>3, <1>4, <1>5, <1>6, <1>7, <1>8, <1>9, <1>10, <1>11, <1>12, <1>13, <1>14, <1>15, <1>16, <1>17, <1>18, <1>19, <1>20 DEF Next, WorkerStep, JobStep

LEMMA LockInvStep ==
  ASSUME TypeOK, RowInv, WorkerInv, LockInv, [Next]_vars
  PROVE  LockInv'
<1> USE JobQueueAssumption DEF TypeOK, RowInv, WorkerInv, LockInv, Executing, jobVars, lockVars, workerVars, history
<1>1. ASSUME NEW w \in Workers, Start(w) PROVE LockInv'
  BY <1>1 DEF Start
<1>2. ASSUME NEW w \in Workers, Claim(w) PROVE LockInv'
  BY <1>2 DEF Claim, Claimable
<1>3. ASSUME NEW w \in Workers, EnterHeavy(w) PROVE LockInv'
  BY <1>3 DEF EnterHeavy, LockAvailable
<1>4. ASSUME NEW w \in Workers, EnterLight(w) PROVE LockInv'
  BY <1>4 DEF EnterLight
<1>5. ASSUME NEW w \in Workers, FindBusy(w) PROVE LockInv'
  BY <1>5 DEF FindBusy
<1>6. ASSUME NEW w \in Workers, ReportBusy(w) PROVE LockInv'
  <2>1. cur[w] \in Jobs /\ Fail(w, TRUE) /\ BackToIdle(w) /\ Executing(w)
        /\ phase[w] # "working"
    BY <1>6 DEF WorkerInv, Executing, ReportBusy
  <2>2. \/ ReportLost
        \/ \E v \in {"cancelled", "queued", "failed"}, d \in BOOLEAN : ReportEnds(w, v, d)
    BY ONLY TypeOK, <2>1, FailEffect
  <2>3. CASE ReportLost
    BY <2>1, <2>3 DEF ReportLost, BackToIdle
  <2>4. ASSUME NEW v \in {"cancelled", "queued", "failed"}, NEW d \in BOOLEAN,
               ReportEnds(w, v, d)
        PROVE  LockInv'
    BY <2>1, <2>4 DEF ReportEnds, BackToIdle
  <2>5. QED
    BY <2>2, <2>3, <2>4
<1>7. ASSUME NEW w \in Workers, AsrBusy(w) PROVE LockInv'
  <2>1. cur[w] \in Jobs /\ Fail(w, TRUE) /\ BackToIdle(w) /\ Executing(w)
        /\ phase[w] # "working"
    BY <1>7 DEF WorkerInv, Executing, AsrBusy
  <2>2. \/ ReportLost
        \/ \E v \in {"cancelled", "queued", "failed"}, d \in BOOLEAN : ReportEnds(w, v, d)
    BY ONLY TypeOK, <2>1, FailEffect
  <2>3. CASE ReportLost
    BY <2>1, <2>3 DEF ReportLost, BackToIdle
  <2>4. ASSUME NEW v \in {"cancelled", "queued", "failed"}, NEW d \in BOOLEAN,
               ReportEnds(w, v, d)
        PROVE  LockInv'
    BY <2>1, <2>4 DEF ReportEnds, BackToIdle
  <2>5. QED
    BY <2>2, <2>3, <2>4
<1>8. ASSUME NEW w \in Workers, Heartbeat(w) PROVE LockInv'
  BY <1>8 DEF Heartbeat
<1>9. ASSUME NEW w \in Workers, NEW r \in {"ok", "retry", "cancelled"}, Finish(w, r)
      PROVE  LockInv'
  BY <1>9 DEF Finish
<1>10. ASSUME NEW w \in Workers, Complete(w) PROVE LockInv'
  BY <1>10 DEF Complete, BackToIdle
<1>11. ASSUME NEW w \in Workers, ReportFailure(w) PROVE LockInv'
  <2>1. cur[w] \in Jobs /\ Fail(w, outcome[w] = "retry") /\ BackToIdle(w) /\ Executing(w)
        /\ phase[w] # "working"
    BY <1>11 DEF WorkerInv, Executing, ReportFailure
  <2>2. \/ ReportLost
        \/ \E v \in {"cancelled", "queued", "failed"}, d \in BOOLEAN : ReportEnds(w, v, d)
    BY ONLY TypeOK, <2>1, FailEffect
  <2>3. CASE ReportLost
    BY <2>1, <2>3 DEF ReportLost, BackToIdle
  <2>4. ASSUME NEW v \in {"cancelled", "queued", "failed"}, NEW d \in BOOLEAN,
               ReportEnds(w, v, d)
        PROVE  LockInv'
    BY <2>1, <2>4 DEF ReportEnds, BackToIdle
  <2>5. QED
    BY <2>2, <2>3, <2>4
<1>12. ASSUME NEW w \in Workers, AbandonAsr(w) PROVE LockInv'
  BY <1>12 DEF AbandonAsr, BackToIdle
<1>13. ASSUME NEW w \in Workers, Crash(w) PROVE LockInv'
  BY <1>13 DEF Crash
<1>14. ASSUME NEW j \in Jobs, Enqueue(j) PROVE LockInv'
  BY <1>14 DEF Enqueue
<1>15. ASSUME NEW j \in Jobs, RequestCancel(j) PROVE LockInv'
  BY <1>15 DEF RequestCancel
<1>16. ASSUME NEW j \in Jobs, BecomeDue(j) PROVE LockInv'
  BY <1>16 DEF BecomeDue
<1>17. ASSUME NEW j \in Jobs, LeaseExpire(j) PROVE LockInv'
  BY <1>17 DEF LeaseExpire
<1>18. CASE Recover
  BY <1>18 DEF Recover, Expired
<1>19. CASE TtlExpire
  BY <1>19 DEF TtlExpire
<1>20. CASE UNCHANGED vars
  BY <1>20 DEF vars
<1>99. QED
  BY <1>1, <1>2, <1>3, <1>4, <1>5, <1>6, <1>7, <1>8, <1>9, <1>10, <1>11, <1>12, <1>13, <1>14, <1>15, <1>16, <1>17, <1>18, <1>19, <1>20 DEF Next, WorkerStep, JobStep

-----------------------------------------------------------------------------
LEMMA InitInv == Init => IInv
BY JobQueueAssumption
   DEF Init, IInv, TypeOK, RowInv, WorkerInv, LockInv, Executing, JobStates, Terminal,
       Clock, Phases, Outcomes

LEMMA StepInv == IInv /\ [Next]_vars => IInv'
BY TypeOKStep, RowInvStep, WorkerInvStep, LockInvStep DEF IInv

LEMMA Invariance == Spec => []IInv
BY InitInv, StepInv, PTL DEF Spec

\* The variables of the queue, the lock and the workers always have their types.
THEOREM TypeCorrect == Spec => []TypeOK
BY Invariance, PTL DEF IInv

\* Attempts never exceed max_attempts, and whatever returns a job to the queue
\* (a failed report, a busy lock, an expired lease) leaves it an attempt.
THEOREM RetriesBounded == Spec => []RetryBudget
<1>1. IInv => RetryBudget
  BY DEF IInv, RowInv, RetryBudget
<1>2. QED
  BY <1>1, Invariance, PTL

\* A worker whose lease never lapsed owns the running row of its job, and
\* everybody else who executes that job lost its lease.
THEOREM AtMostOneLease == Spec => []SingleLease
<1>1. IInv => SingleLease
  <2> SUFFICES ASSUME IInv, NEW w \in Workers, Executing(w), ~lapsed[w]
               PROVE  /\ state[cur[w]] = "running"
                      /\ owner[cur[w]] = w
                      /\ \A v \in Workers \ {w} :
                           Executing(v) /\ cur[v] = cur[w] => lapsed[v]
    BY DEF SingleLease
  <2>1. cur[w] \in Jobs /\ owner[cur[w]] = w
    BY DEF IInv, WorkerInv
  <2>2. state[cur[w]] = "running"
    BY <2>1, JobQueueAssumption DEF IInv, RowInv
  <2>3. \A v \in Workers \ {w} : Executing(v) /\ cur[v] = cur[w] => lapsed[v]
    BY <2>1 DEF IInv, WorkerInv
  <2>4. QED
    BY <2>1, <2>2, <2>3
<1>2. QED
  BY <1>1, Invariance, PTL

\* The owner recorded in a row holds the latest attempt of the job.
THEOREM Fencing == Spec => []FencedOwner
<1>1. IInv => FencedOwner
  BY DEF IInv, WorkerInv, FencedOwner
<1>2. QED
  BY <1>1, Invariance, PTL

\* Two workers share the heavy section only after a TTL ran out.
THEOREM HeavyLockExcludes == Spec => []HeavyExclusion
<1>1. IInv => HeavyExclusion
  BY DEF IInv, LockInv, HeavyExclusion
<1>2. QED
  BY <1>1, Invariance, PTL

-----------------------------------------------------------------------------
\* How a row can leave "running": its lease had expired, or the worker that
\* holds its latest attempt reports.
Verdict(j) ==
  \/ lease[j] = "expired"
  \/ \E w \in Workers : /\ Executing(w) /\ cur[w] = j
                        /\ try[w] = attempts[j] /\ owner[j] = w
                        /\ phase'[w] = "idle"

\* A report (successful or not) changes only the row of its own job, and only
\* as the owner of its latest attempt.
LEMMA FailTouches ==
  ASSUME IInv, NEW w \in Workers, Executing(w), NEW retryable \in BOOLEAN,
         Fail(w, retryable), BackToIdle(w), NEW j \in Jobs,
         state'[j] # state[j] \/ owner'[j] # owner[j]
  PROVE  state[j] = "running" /\ Verdict(j)
<1>1. cur[w] \in Jobs
  BY DEF IInv, WorkerInv
<1>2. ~ReportLost
  BY DEF ReportLost
<1>3. PICK v \in {"cancelled", "queued", "failed"}, d \in BOOLEAN : ReportEnds(w, v, d)
  BY <1>1, <1>2, FailEffect DEF IInv
<1>4. j = cur[w] /\ owner[j] = w
  BY <1>1, <1>3 DEF ReportEnds, IInv, TypeOK
<1>5. state[j] = "running"
  BY <1>4, JobQueueAssumption DEF IInv, RowInv
<1>6. try[w] = attempts[j]
  BY <1>4 DEF IInv, WorkerInv
<1>7. phase'[w] = "idle"
  BY DEF BackToIdle, IInv, TypeOK
<1>8. QED
  BY <1>4, <1>5, <1>6, <1>7 DEF Verdict

\* Every step that changes the state or the owner of a row either starts from a
\* row that is not settled, or leaves "running" as Verdict says.
LEMMA RowStep ==
  ASSUME IInv, [Next]_vars, NEW j \in Jobs
  PROVE  /\ state[j] \in Terminal => state'[j] = state[j] /\ owner'[j] = None
         /\ state[j] = "running" /\ state'[j] # "running" => Verdict(j)
<1> USE DEF Terminal
<1> DEFINE Goal == /\ state[j] \in Terminal => state'[j] = state[j] /\ owner'[j] = None
                   /\ state[j] = "running" /\ state'[j] # "running" => Verdict(j)
<1>1. state[j] \in Terminal => owner[j] = None
  BY DEF IInv, RowInv
<1>2. (state'[j] = state[j] /\ owner'[j] = owner[j]) => Goal
  BY <1>1
<1> HIDE DEF Goal
<1>3. ASSUME NEW w \in Workers, NEW retryable \in BOOLEAN, Executing(w),
             Fail(w, retryable), BackToIdle(w)
      PROVE  Goal
  <2>1. CASE state'[j] = state[j] /\ owner'[j] = owner[j]
    BY <1>2, <2>1
  <2>2. CASE state'[j] # state[j] \/ owner'[j] # owner[j]
    BY <1>3, <2>2, FailTouches DEF Goal
  <2>3. QED
    BY <2>1, <2>2
<1>4. ASSUME NEW w \in Workers, WorkerStep(w)
      PROVE  Goal
  <2>1. CASE Start(w) \/ EnterHeavy(w) \/ EnterLight(w) \/ FindBusy(w) \/ Heartbeat(w)
             \/ (\E r \in {"ok", "retry", "cancelled"} : Finish(w, r))
             \/ AbandonAsr(w) \/ Crash(w)
    <3>1. UNCHANGED <<state, owner>>
      BY <2>1 DEF Start, EnterHeavy, EnterLight, FindBusy, Heartbeat, Finish, AbandonAsr,
                  Crash, jobVars
    <3>2. QED
      BY <1>2, <3>1
  <2>2. CASE Claim(w)
    BY <1>1, <2>2 DEF Claim, Claimable, Goal, IInv, TypeOK
  <2>3. CASE ReportBusy(w)
    BY <1>3, <2>3 DEF ReportBusy, Executing
  <2>4. CASE AsrBusy(w)
    BY <1>3, <2>4 DEF AsrBusy, Executing
  <2>5. CASE ReportFailure(w)
    <3>1. Executing(w) /\ Fail(w, outcome[w] = "retry") /\ BackToIdle(w)
      BY <2>5 DEF ReportFailure, Executing
    <3>2. (outcome[w] = "retry") \in BOOLEAN
      OBVIOUS
    <3>3. QED
      BY <1>3, <3>1, <3>2
  <2>6. CASE Complete(w)
    <3>1. cur[w] \in Jobs /\ Executing(w)
      BY <2>6 DEF Complete, Executing, IInv, WorkerInv
    <3>2. CASE owner[cur[w]] # w \/ cur[w] # j
      <4>1. state'[j] = state[j] /\ owner'[j] = owner[j]
        BY <2>6, <3>1, <3>2 DEF Complete, IInv, TypeOK
      <4>2. QED
        BY <1>2, <4>1
    <3>3. CASE owner[cur[w]] = w /\ cur[w] = j
      <4>1. state[j] = "running" /\ try[w] = attempts[j]
        BY <3>1, <3>3, JobQueueAssumption DEF IInv, RowInv, WorkerInv
      <4>2. phase'[w] = "idle"
        BY <2>6 DEF Complete, BackToIdle, IInv, TypeOK
      <4>3. QED
        BY <3>1, <3>3, <4>1, <4>2 DEF Goal, Verdict
    <3>4. QED
      BY <3>2, <3>3
  <2>7. QED
    BY <1>4, <2>1, <2>2, <2>3, <2>4, <2>5, <2>6 DEF WorkerStep
<1>5. ASSUME NEW k \in Jobs, JobStep(k)
      PROVE  Goal
  BY <1>1, <1>5 DEF JobStep, Enqueue, RequestCancel, BecomeDue, LeaseExpire, Goal, IInv, TypeOK
<1>6. ASSUME Recover PROVE Goal
  BY <1>1, <1>6 DEF Recover, Expired, Goal, Verdict, IInv, TypeOK
<1>7. ASSUME TtlExpire PROVE Goal
  <2>1. UNCHANGED <<state, owner>>
    BY <1>7 DEF TtlExpire, jobVars
  <2>2. QED
    BY <1>2, <2>1
<1>8. ASSUME UNCHANGED vars PROVE Goal
  <2>1. UNCHANGED <<state, owner>>
    BY <1>8 DEF jobVars, vars
  <2>2. QED
    BY <1>2, <2>1
<1>9. Goal
  BY <1>4, <1>5, <1>6, <1>7, <1>8 DEF Next
<1>10. QED
  BY <1>9 DEF Goal

\* No late report, heartbeat, recovery or cancellation reopens a settled job.
THEOREM SettledForGood == Spec => TerminalIsFinal
<1>1. IInv /\ [Next]_vars =>
        [\A j \in Jobs : state[j] \in Terminal => state'[j] = state[j] /\ owner'[j] = None]_vars
  BY RowStep
<1>2. QED
  BY <1>1, Invariance, PTL DEF Spec, TerminalIsFinal

\* A running job is settled or requeued only by the worker that holds its
\* latest attempt, or after its lease expired.
THEOREM OnlyTheOwnerReports == Spec => NoStaleVerdict
<1>1. IInv /\ [Next]_vars =>
        [\A j \in Jobs :
           state[j] = "running" /\ state'[j] # "running" =>
             \/ lease[j] = "expired"
             \/ \E w \in Workers : /\ Executing(w) /\ cur[w] = j
                                   /\ try[w] = attempts[j] /\ owner[j] = w
                                   /\ phase'[w] = "idle"]_vars
  BY RowStep DEF Verdict
<1>2. QED
  BY <1>1, Invariance, PTL DEF Spec, NoStaleVerdict
=============================================================================
