----------------------------- MODULE MCJobQueue -----------------------------
(* Instances of JobQueue for TLC. *)
EXTENDS JobQueue

CONSTANTS final1, diar1, extr1, p1, p2, a1, a2

MCJobs     == {final1, diar1}
MCAsrJobs  == {final1}
MCHeavy    == {diar1}
MCPriority == [j \in MCJobs |-> IF j = final1 THEN 50 ELSE 60]
MCWorkers  == {p1, a1, a2}
MCAsr      == {a1, a2}

\* Two jobs of one queue, one of them without the heavy lock.
PipeJobs     == {diar1, extr1}
PipeHeavy    == {extr1}
PipePriority == [j \in PipeJobs |-> 60]
NoAsr        == {}
PipeWorkers  == {p1, p2}
=============================================================================
