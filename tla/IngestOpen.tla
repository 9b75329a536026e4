----------------------------- MODULE IngestOpen -----------------------------
(***************************************************************************)
(* The ingest server against any client that speaks the protocol: frames   *)
(* in any order, again and again, gap reports of any range, source_close   *)
(* at any time, naming a final sequence that nothing it sends exceeds.     *)
(***************************************************************************)
EXTENDS IngestServer

CONSTANTS
  Seqs,     \* 0..n: the sequence numbers used
  Budget    \* bound: frames, reports and closes sent in a behaviour

ASSUME IngestOpenAssumption == Seqs \subseteq Nat /\ Budget \in Nat

VARIABLES
  spoken, \* messages sent
  top,    \* the highest sequence number named (-1: none)
  final   \* the final sequence of source_close (-1: not closed)

speakerVars == <<spoken, top, final>>
openVars    == <<linkVars, serverVars, speakerVars>>

Messages ==
  [type : {"open"}] \cup [type : {"frame", "close"}, n : Seqs]
  \cup {[type |-> "gap", from |-> r[1], to |-> r[2], start |-> r[1], lost |-> r[2] - r[1] + 1] :
          r \in {q \in Seqs \X Seqs : q[1] <= q[2]}}

Highest(m) == IF m.type = "open" THEN -1 ELSE IF m.type = "gap" THEN m.to ELSE m.n

InitOpen == InitLink /\ InitServer /\ spoken = 0 /\ top = -1 /\ final = -1

Dial(k) ==
  /\ ph[k] = "off"
  /\ ~up[k]
  /\ toSrv[k] = <<>>
  /\ \A c \in Conns : c < k => up[c] \/ ph[c] # "off"
  /\ up'    = [up EXCEPT ![k] = TRUE]
  /\ toSrv' = [toSrv EXCEPT ![k] = <<[type |-> "hello"]>>]
  /\ UNCHANGED <<toCli, serverVars, speakerVars>>

Say(k, m) ==
  /\ up[k]
  /\ ph[k] = "on"
  /\ toSrv[k] = <<>> /\ toCli[k] = <<>>
  /\ (~Opened(k) /\ closedSeq[k] = -2) => m.type = "open"
  /\ final # -1 => Highest(m) <= final
  /\ m.type = "close" => m.n >= top /\ final \in {-1, m.n}
  /\ m.type = "open" \/ spoken < Budget
  /\ spoken'  = IF m.type = "open" THEN spoken ELSE spoken + 1
  /\ top'   = Max({top, Highest(m)})
  /\ final' = IF m.type = "close" THEN m.n ELSE final
  /\ toSrv' = Queued(k, toSrv, <<m>>)
  /\ UNCHANGED <<up, toCli, serverVars>>

Hear(k) ==
  /\ toCli[k] # <<>>
  /\ toCli' = [toCli EXCEPT ![k] = <<>>]
  /\ UNCHANGED <<up, toSrv, serverVars, speakerVars>>

StepOpen(k) ==
  \/ Dial(k)
  \/ \E m \in Messages : Say(k, m)
  \/ Hear(k)
  \/ (ServerStep(k) \/ Drop(k)) /\ UNCHANGED speakerVars

NextOpen == \E k \in Conns : StepOpen(k)

SpecOpen == InitOpen /\ [][NextOpen]_openVars

-----------------------------------------------------------------------------
\* Until the epoch is closed no sound is lost silently, whatever the order of
\* frames and reports, the broken sockets and the connections that overlap.
NoSilentLossWhileOpen == db.closed \/ NoSilentLoss
=============================================================================
