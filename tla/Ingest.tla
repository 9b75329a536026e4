------------------------------- MODULE Ingest -------------------------------
(***************************************************************************)
(* The audio client and the server of one capture source together, over    *)
(* links that break and a server process that crashes.                     *)
(***************************************************************************)
EXTENDS IngestServer, Uploader

vars == <<linkVars, serverVars, clientVars>>

Init == InitLink /\ InitServer /\ InitClient

\* Faults are bounded: the last connection is left alone.
Fault ==
  \/ \E k \in Conns : k < MaxConns /\ Drop(k)
  \/ ws < MaxConns /\ CrashServer

Next ==
  \/ ClientStep /\ UNCHANGED serverVars
  \/ (\E k \in Conns : ServerStep(k)) /\ UNCHANGED clientVars
  \/ Fault /\ UNCHANGED clientVars

Spec == Init /\ [][Next]_vars

\* The event loops run what is runnable: the browser delivers messages and
\* close events and fires the reconnect timer, the server resumes coroutines
\* and its ticker finds every hole of a hopeless age in the end.
Fairness ==
  /\ WF_vars((Connect \/ OnSocketClose) /\ UNCHANGED serverVars)
  /\ WF_vars(OnMessage /\ UNCHANGED serverVars)
  /\ \A k \in Conns :
       /\ WF_vars((Receiving(k) \/ Handling(k) \/ Welcome(k) \/ Ending(k)) /\ UNCHANGED clientVars)
       /\ WF_vars(TickLate(k) /\ UNCHANGED clientVars)

FairSpec == Spec /\ Fairness

-----------------------------------------------------------------------------
(* Properties. *)

\* Every variable has its type.
TypeOK ==
  /\ up \in [Conns -> BOOLEAN]
  /\ ph \in [Conns -> {"off", "joining", "on", "closing", "leaving", "done"}]
  /\ prev \in [Conns -> 0..MaxConns]
  /\ buf \in [Conns -> SUBSET Nat]
  /\ dirty \in [Conns -> BOOLEAN]
  /\ closed \in [Conns -> BOOLEAN]
  /\ registry \in 0..MaxConns
  /\ disk \subseteq 0..(MaxFrames - 1)
  /\ db \in [seq : -1..MaxFrames, end : 0..MaxFrames, closed : BOOLEAN]
  /\ gaps \subseteq (0..MaxFrames) \X (0..MaxFrames)
  /\ ws \in 0..MaxConns
  /\ next \in 0..MaxFrames
  /\ lo \in 0..next
  /\ {live, connected, ready, fatal, stopped, closeSent, closeAcked} \subseteq BOOLEAN

\* A frame leaves the client's buffer only if it is fsynced and the checkpoint
\* in the database is past it, or if an overflow dropped it: whatever breaks,
\* the next connection never needs a frame that the client no longer has.
ReleasedIsSafe ==
  \A p \in 0..(lo - 1) : p \in dropped \/ (p \in disk /\ p <= db.seq)

\* A gap is declared only for sound that the client dropped.
NoFalseGap ==
  \A g \in gaps : \A p \in g[1]..(g[2] - 1) : p \in dropped

\* No sound is lost silently as long as the API process does not crash and the
\* client's buffer does not overflow on an open source (CrashLoss.cfg shows the
\* first; the second is described in the README).
NoSilentLossAtRest == crashes = 0 /\ ~congested => NoSilentLoss

\* A stopped source is closed on the server in the end, unless the person is
\* told that it failed (a superseded connection), any of its sound was dropped,
\* or the bound on connections is used up. After a drop there may be nothing to
\* acknowledge, and the client waits for ever before its source_close: the
\* report was lost with the socket, or it was handled on a connection that broke
\* before the ACK (uploader.js:119, ws.py:429).
StopCompletes ==
  stopped ~> (closeAcked \/ fatal \/ dropped # {} \/ (ws = MaxConns /\ ~live))

Recording == INSTANCE DurableRecording
  WITH captured <- next, held <- lo..(next - 1), stored <- disk, lost <- dropped,
       done <- closeAcked

\* The protocol implements the abstract durable recording.
ImplementsRecording == Recording!Spec
=============================================================================
