------------------------------ MODULE Uploader ------------------------------
(***************************************************************************)
(* IngestClient of packages/audio-client/uploader.js with one source: the  *)
(* bounded buffer of unacknowledged frames, reconnection and resume, the   *)
(* report of an overflow, the closing of the source.                       *)
(*                                                                         *)
(* The code is single-threaded: an action is one callback. Frames are one  *)
(* sample long, so a frame's sequence number is also its start sample, and *)
(* unacked, from which only the head is ever removed, is lo..next-1.       *)
(***************************************************************************)
EXTENDS Link, FiniteSetsExt

CONSTANTS
  MaxFrames,   \* bound: frames captured
  Limit,       \* maxBufferSeconds, in frames
  SlowServer   \* the server may leave a full buffer unacknowledged

ASSUME UploaderAssumption ==
  MaxFrames \in Nat /\ Limit \in Nat \ {0} /\ SlowServer \in BOOLEAN

VARIABLES
  ws,         \* the current socket (0: none yet)
  live,       \* it has not fired onclose
  connected, ready, fatal,
  next,       \* seq of the next frame
  lo,         \* seq of the first unacknowledged frame
  pendingGap, \* the overflow to report, or NoGap
  stopped,    \* s.closed: the source produces no more frames
  closeSent, closeAcked,
  dropped,    \* history: frames removed from the buffer by an overflow
  congested   \* history: it overflowed while the source was open on the server

sourceVars == <<next, lo, pendingGap, stopped, closeSent, closeAcked, dropped, congested>>
clientVars == <<ws, live, connected, ready, fatal, sourceVars>>

NoGap == [from |-> -1]

InitClient ==
  /\ ws = 0
  /\ live = FALSE
  /\ connected = FALSE
  /\ ready = FALSE
  /\ fatal = FALSE
  /\ next = 0
  /\ lo = 0
  /\ pendingGap = NoGap
  /\ stopped = FALSE
  /\ closeSent = FALSE
  /\ closeAcked = FALSE
  /\ dropped = {}
  /\ congested = FALSE

Frames(from, to) == [i \in 1..(to - from + 1) |-> [type |-> "frame", n |-> from + i - 1]]

Close(final) == [type |-> "close", n |-> final]

Send(msgs) == toSrv' = Queued(ws, toSrv, msgs)

Gets(type) == live /\ toCli[ws] # <<>> /\ Head(toCli[ws]).type = type

Received == toCli' = [toCli EXCEPT ![ws] = Tail(@)]

\* _release: a cumulative ACK.
Released(n) == Max({lo, Min({n + 1, next})})

\* _maybeStop, for the source: everything is durable and reported.
MayClose(conn, isReady, isStopped, first, gap, sent) ==
  conn /\ ~fatal /\ isStopped /\ isReady /\ ~sent /\ first = next /\ gap = NoGap

-----------------------------------------------------------------------------
Connect ==
  /\ ~live
  /\ ~fatal
  /\ ws < MaxConns
  /\ ws'   = ws + 1
  /\ live' = TRUE
  /\ up'    = [up EXCEPT ![ws + 1] = TRUE]
  /\ toSrv' = [toSrv EXCEPT ![ws + 1] = <<[type |-> "hello"]>>]
  /\ UNCHANGED <<toCli, connected, ready, fatal, sourceVars>>

\* Mutant: a source_close that was lost with the socket is not sent again.
OnSocketCloseForgetful ==
  /\ live
  /\ ~up[ws]
  /\ live' = FALSE
  /\ connected' = FALSE
  /\ ready' = FALSE
  /\ toCli' = [toCli EXCEPT ![ws] = <<>>]
  /\ UNCHANGED <<up, toSrv, ws, fatal, next, lo, pendingGap, stopped, closeSent, closeAcked, dropped, congested>>

\* onclose; what the server sent and was not handled is lost.
OnSocketClose ==
  /\ live
  /\ ~up[ws]
  /\ live' = FALSE
  /\ connected' = FALSE
  /\ ready' = FALSE
  /\ closeSent' = (closeSent /\ closeAcked)
  /\ toCli' = [toCli EXCEPT ![ws] = <<>>]
  /\ UNCHANGED <<up, toSrv, ws, fatal, next, lo, pendingGap, stopped, closeAcked, dropped, congested>>

OnWelcome ==
  /\ Gets("welcome")
  /\ Received
  /\ connected' = TRUE
  /\ Send(IF closeAcked THEN <<>> ELSE <<[type |-> "open"]>>)
  /\ UNCHANGED <<up, ws, live, ready, fatal, sourceVars>>

\* source_ready: report the overflow, release what is durable, replay the rest.
OnReady ==
  /\ Gets("ready")
  /\ Received
  /\ ready' = TRUE
  /\ pendingGap' = NoGap
  /\ lo' = Released(Head(toCli[ws]).n - 1)
  /\ closeSent' = (closeSent \/ MayClose(connected, TRUE, stopped, lo', NoGap, closeSent))
  /\ Send((IF pendingGap = NoGap THEN <<>> ELSE <<pendingGap>>)
          \o Frames(lo', next - 1)
          \o (IF closeSent' # closeSent THEN <<Close(next - 1)>> ELSE <<>>))
  /\ UNCHANGED <<up, ws, live, connected, fatal, next, stopped, closeAcked, dropped, congested>>

\* Mutant: an ACK after the stop is taken for the confirmation of the close.
OnDurableAny(type) ==
  /\ Gets(type)
  /\ Received
  /\ lo' = Released(Head(toCli[ws]).n)
  /\ closeAcked' = (closeAcked \/ stopped)
  /\ closeSent' = (closeSent \/ MayClose(connected, ready, stopped, lo', pendingGap, closeSent))
  /\ Send(IF closeSent' # closeSent THEN <<Close(next - 1)>> ELSE <<>>)
  /\ UNCHANGED <<up, ws, live, connected, ready, fatal, next, pendingGap, stopped, dropped, congested>>

\* ack and source_closed
OnDurable(type) ==
  /\ Gets(type)
  /\ Received
  /\ lo' = Released(Head(toCli[ws]).n)
  /\ closeAcked' = (closeAcked \/ type = "closed")
  /\ closeSent' = (closeSent \/ MayClose(connected, ready, stopped, lo', pendingGap, closeSent))
  /\ Send(IF closeSent' # closeSent THEN <<Close(next - 1)>> ELSE <<>>)
  /\ UNCHANGED <<up, ws, live, connected, ready, fatal, next, pendingGap, stopped, dropped, congested>>

OnAck == OnDurable("ack")

OnClosed == OnDurable("closed")

\* A fatal error: the client gives up for good.
OnFatal ==
  /\ Gets("superseded")
  /\ Received
  /\ fatal' = TRUE
  /\ UNCHANGED <<up, toSrv, ws, live, connected, ready, sourceVars>>

\* pushPcm: the oldest frame leaves a full buffer; a frame is sent at once when
\* the source is open on the server.
PushPcm ==
  /\ ~stopped
  /\ next < MaxFrames
  /\ LET full == next + 1 - lo > Limit /\ next > lo
     IN  /\ full /\ connected /\ ready => SlowServer
         /\ congested' = (congested \/ (full /\ connected /\ ready))
         /\ lo' = IF full THEN lo + 1 ELSE lo
         /\ dropped' = IF full THEN dropped \cup {lo} ELSE dropped
         /\ pendingGap' =
              IF ~full THEN pendingGap
              ELSE IF pendingGap = NoGap
                   THEN [type |-> "gap", from |-> lo, to |-> lo, start |-> lo, lost |-> 1]
                   ELSE [pendingGap EXCEPT !.to = lo, !.lost = @ + 1]
  /\ next' = next + 1
  /\ Send(IF connected /\ ready THEN <<[type |-> "frame", n |-> next]>> ELSE <<>>)
  /\ UNCHANGED <<up, toCli, ws, live, connected, ready, fatal, stopped, closeSent, closeAcked>>

CloseSource ==
  /\ ~stopped
  /\ stopped' = TRUE
  /\ closeSent' = (closeSent \/ MayClose(connected, ready, TRUE, lo, pendingGap, closeSent))
  /\ Send(IF closeSent' # closeSent THEN <<Close(next - 1)>> ELSE <<>>)
  /\ UNCHANGED <<up, toCli, ws, live, connected, ready, fatal, next, lo, pendingGap,
                 closeAcked, dropped, congested>>

-----------------------------------------------------------------------------
OnMessage == OnWelcome \/ OnReady \/ OnAck \/ OnClosed \/ OnFatal

ClientStep == Connect \/ OnSocketClose \/ OnMessage \/ PushPcm \/ CloseSource
=============================================================================
