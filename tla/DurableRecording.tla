-------------------------- MODULE DurableRecording --------------------------
(***************************************************************************)
(* What uploading a recording promises, without connections, ACKs or       *)
(* crashes. Sound that was captured is held by the client until it is      *)
(* stored; only a full buffer makes the client give up the oldest frame it *)
(* holds. The recording is done when nothing is held any more.             *)
(***************************************************************************)
EXTENDS Integers

VARIABLES
  captured,  \* number of frames captured
  held,      \* frames in the client's buffer
  stored,    \* frames on the server's disk
  lost,      \* frames given up
  done       \* the client was told that the recording is closed

rvars == <<captured, held, stored, lost, done>>

Init ==
  /\ captured = 0
  /\ held = {}
  /\ stored = {}
  /\ lost = {}
  /\ done = FALSE

Capture ==
  /\ ~done
  /\ captured' = captured + 1
  /\ held' = held \cup {captured}
  /\ UNCHANGED <<stored, lost, done>>

\* The buffer is full: the new frame takes the place of the oldest one.
CaptureFull ==
  /\ ~done
  /\ \E oldest \in held :
       /\ \A p \in held : oldest <= p
       /\ held' = (held \cup {captured}) \ {oldest}
       /\ lost' = lost \cup {oldest}
  /\ captured' = captured + 1
  /\ UNCHANGED <<stored, done>>

\* Frames reach the disk, some of them perhaps after the client gave them up.
Store ==
  /\ stored' \in SUBSET (0..(captured - 1))
  /\ stored \subseteq stored'
  /\ UNCHANGED <<captured, held, lost, done>>

\* Only stored frames are released, from the oldest on.
Release ==
  /\ \E n \in 0..captured :
       /\ \A p \in held : p < n => p \in stored
       /\ held' = {p \in held : p >= n}
  /\ UNCHANGED <<captured, stored, lost, done>>

Finish ==
  /\ held \subseteq stored
  /\ held' = {}
  /\ done' = TRUE
  /\ UNCHANGED <<captured, stored, lost>>

Next == Capture \/ CaptureFull \/ Store \/ Release \/ Finish

Spec == Init /\ [][Next]_rvars

-----------------------------------------------------------------------------
\* Every captured frame is held by the client, stored by the server, or known to
\* be lost; when the recording is done the client holds nothing, so what is not
\* lost is stored.
Accounted ==
  /\ 0..(captured - 1) \subseteq held \cup stored \cup lost
  /\ done => held = {}
=============================================================================
