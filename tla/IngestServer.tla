---------------------------- MODULE IngestServer ----------------------------
(***************************************************************************)
(* The server side of hattama.audio.v1 for one capture session with one    *)
(* source and one epoch: IngestConnection and ConnectionRegistry of        *)
(* ingest/ws.py, EpochWriter of ingest/store.py and the transactions of    *)
(* ingest/service.py they make.                                            *)
(*                                                                         *)
(* A connection is two coroutines of one event loop, the receive loop (rx) *)
(* and the ticker (tk), and its shutdown. A coroutine runs undisturbed     *)
(* between two awaits, so an action is the code from one await to the      *)
(* next; every thread call (file, database) is an await.                   *)
(*                                                                         *)
(* A frame is one sample long: frame n carries sample n. What is stored at *)
(* a position is always the same sound, so a file is a set of positions.   *)
(***************************************************************************)
EXTENDS Link, SequenceTracker

CONSTANTS
  SupersedeTimeout,  \* a superseded connection may need more than 5 s to end
  StaleHello,        \* an old connection's hello may be authenticated after a newer one's
  MaxCrashes         \* bound: crashes of the API process

ASSUME IngestServerAssumption ==
  SupersedeTimeout \in BOOLEAN /\ StaleHello \in BOOLEAN /\ MaxCrashes \in Nat

VARIABLES
  ph,       \* "off", "joining", "on", "closing", "leaving" or "done"
  prev,     \* the connection it superseded (0: none)
  rx,       \* what the receive loop is doing: [op, n, todo]
  tk,       \* what the ticker is doing: [op, n, end, todo]
  trk,      \* the tracker of the open source, or NoTracker
  buf,      \* positions its EpochWriter has written and not fsynced
  dirty,    \* SourceRuntime.dirty
  closed,   \* SourceRuntime.closed
  closedSeq,\* closed_sources: the answer to a repeated source_close, or -2
  acked,    \* [seq, end]: acked_seq, acked_end
  registry, \* the registered connection (0: none)
  disk,     \* positions that are fsynced
  db,       \* SourceEpoch: [seq, end, closed]
  gaps,     \* unresolved AudioGap rows, as pairs <<start, end>>
  crashes

connVars   == <<ph, prev, rx, tk, trk, buf, dirty, closed, closedSeq, acked, registry>>
dbVars     == <<db, gaps>>
serverVars == <<connVars, disk, dbVars, crashes>>

NoTracker == [seq |-> -2]
Idle      == [op |-> "idle", n |-> 0, todo |-> <<>>]
Rest      == [op |-> "idle", n |-> 0, end |-> 0, todo |-> <<>>]

InitServer ==
  /\ ph        = [k \in Conns |-> "off"]
  /\ prev      = [k \in Conns |-> 0]
  /\ rx        = [k \in Conns |-> Idle]
  /\ tk        = [k \in Conns |-> Rest]
  /\ trk       = [k \in Conns |-> NoTracker]
  /\ buf       = [k \in Conns |-> {}]
  /\ dirty     = [k \in Conns |-> FALSE]
  /\ closed    = [k \in Conns |-> FALSE]
  /\ closedSeq = [k \in Conns |-> -2]
  /\ acked     = [k \in Conns |-> [seq |-> -1, end |-> 0]]
  /\ registry  = 0
  /\ disk      = {}
  /\ db        = [seq |-> -1, end |-> 0, closed |-> FALSE]
  /\ gaps      = {}
  /\ crashes   = 0

Opened(k) == trk[k] # NoTracker

Receives(k, type) == /\ rx[k] = Idle
                     /\ toSrv[k] # <<>>
                     /\ Head(toSrv[k]).type = type

Message(k) == Head(toSrv[k])

Consume(k) == toSrv' = [toSrv EXCEPT ![k] = Tail(@)]

Reply(k, msgs) == toCli' = Queued(k, toCli, msgs)

Goto(k, op, n, todo) == rx' = [rx EXCEPT ![k] = [op |-> op, n |-> n, todo |-> todo]]

-----------------------------------------------------------------------------
(* Handshake. *)

\* register, up to the wait in supersede(): the old client is told (a fatal
\* error) and its socket closed. The old receive loop checks `closing' before
\* every receive, so it handles at most the message it was about to receive.
Register(k) ==
  /\ ph[k] = "off"
  /\ Receives(k, "hello")
  /\ StaleHello \/ \A c \in Conns : c > k => ph[c] = "off"
  /\ registry' = k
  /\ prev' = [prev EXCEPT ![k] = registry]
  /\ ph'   = [ph EXCEPT ![k] = "joining"]
  /\ up'   = [c \in Conns |-> up[c] /\ c # registry]
  /\ toCli' = IF registry = 0 THEN toCli
              ELSE Queued(registry, toCli, <<[type |-> "superseded"]>>)
  /\ toSrv' = [c \in Conns |->
                 IF c = k THEN Tail(toSrv[c])
                 ELSE IF c # registry THEN toSrv[c]
                 ELSE IF ph[c] = "on" /\ rx[c] = Idle THEN SubSeq(toSrv[c], 1, Min({1, Len(toSrv[c])})) ELSE <<>>]
  /\ UNCHANGED <<rx, tk, trk, buf, dirty, closed, closedSeq, acked, disk, dbVars, crashes>>

\* supersede() waits until the old connection is finished, or 5 s.
Superseded(k) == prev[k] \in {0} \cup {c \in Conns : ph[c] = "done" \/ SupersedeTimeout}

\* What _handshake does after register().
Welcome(k) ==
  /\ ph[k] = "joining"
  /\ Superseded(k)
  /\ ph'   = [ph EXCEPT ![k] = "on"]
  /\ prev' = [prev EXCEPT ![k] = 0]
  /\ Reply(k, <<[type |-> "welcome"]>>)
  /\ UNCHANGED <<up, toSrv, rx, tk, trk, buf, dirty, closed, closedSeq, acked, registry,
                 disk, dbVars, crashes>>

-----------------------------------------------------------------------------
(* Receive loop. *)

\* _on_source_open: the transaction of open_source ...
OpenSource(k) ==
  /\ ph[k] = "on"
  /\ Receives(k, "open")
  /\ Consume(k)
  /\ rx' = [rx EXCEPT ![k] = [op |-> "open", n |-> db.seq, todo |-> <<db>>]]
  /\ UNCHANGED <<up, toCli, ph, prev, tk, trk, buf, dirty, closed, closedSeq, acked, registry,
                 disk, dbVars, crashes>>

\* ... and what follows it: a tracker that resumes at the checkpoint it read.
SourceReady(k) ==
  /\ rx[k].op = "open"
  /\ LET opened == rx[k].todo[1]
         ready  == [type |-> "ready", n |-> opened.seq + 1]
     IN  IF opened.closed
         THEN /\ closedSeq' = [closedSeq EXCEPT ![k] = opened.seq]
              /\ Reply(k, <<ready, [type |-> "closed", n |-> opened.seq]>>)
              /\ UNCHANGED <<trk, acked>>
         ELSE /\ IF Opened(k) THEN UNCHANGED <<trk, acked>>
                 ELSE /\ trk'   = [trk EXCEPT ![k] = NewTracker(opened.seq, opened.end)]
                      /\ acked' = [acked EXCEPT ![k] = [seq |-> opened.seq, end |-> opened.end]]
              /\ Reply(k, <<ready>>)
              /\ UNCHANGED closedSeq
  /\ rx' = [rx EXCEPT ![k] = Idle]
  /\ UNCHANGED <<up, toSrv, ph, prev, tk, buf, dirty, closed, registry, disk, dbVars, crashes>>

\* _on_frame up to the write: a duplicate is ignored unless it lies in a gap.
Frame(k) ==
  /\ ph[k] = "on"
  /\ Receives(k, "frame")
  /\ Consume(k)
  /\ LET n == Message(k).n
     IN  IF ~Opened(k) \/ closed[k] THEN UNCHANGED rx
         ELSE IF ~IsDuplicate(trk[k], n) THEN Goto(k, "write", n, <<>>)
         ELSE IF InDeclaredGap(trk[k], n) THEN Goto(k, "rewrite", n, <<>>)
         ELSE UNCHANGED rx
  /\ UNCHANGED <<up, toCli, ph, prev, tk, trk, buf, dirty, closed, closedSeq, acked, registry,
                 disk, dbVars, crashes>>

WriteFrame(k) ==
  /\ buf'   = [buf EXCEPT ![k] = @ \cup {rx[k].n}]
  /\ dirty' = [dirty EXCEPT ![k] = TRUE]

\* The frame is in the file; accept() may declare gaps, which are recorded one
\* transaction at a time.
FrameWritten(k) ==
  /\ rx[k].op = "write"
  /\ WriteFrame(k)
  /\ \E late \in SUBSET Pending(trk[k]) :
       LET r == Accept(trk[k], rx[k].n, rx[k].n, 1, late)
       IN  /\ trk' = [trk EXCEPT ![k] = r.t]
           /\ Goto(k, IF r.gaps = <<>> THEN "idle" ELSE "record", 0, r.gaps)
  /\ UNCHANGED <<linkVars, ph, prev, tk, closed, closedSeq, acked, registry, disk, dbVars, crashes>>

LateFrameWritten(k) ==
  /\ rx[k].op = "rewrite"
  /\ WriteFrame(k)
  /\ Goto(k, "narrow", rx[k].n, <<>>)
  /\ UNCHANGED <<linkVars, ph, prev, tk, trk, closed, closedSeq, acked, registry, disk, dbVars, crashes>>

\* Mutant: a frame that touches a gap resolves all of it.
NarrowedAway(g, s, e) ==
  IF s <= g[1] /\ g[1] < e THEN {}
  ELSE IF s < g[2] /\ g[2] <= e THEN {<<g[1], s>>}
  ELSE {g}

\* narrow_gap: a row is resolved, cut at one end, or left as it is.
Narrowed(g, s, e) ==
  IF s <= g[1] /\ e >= g[2] THEN {}
  ELSE IF s <= g[1] /\ g[1] < e THEN {<<e, g[2]>>}
  ELSE IF s < g[2] /\ g[2] <= e THEN {<<g[1], s>>}
  ELSE {g}

NarrowGap(k) ==
  /\ rx[k].op = "narrow"
  /\ gaps' = UNION {Narrowed(g, rx[k].n, rx[k].n + 1) : g \in gaps}
  /\ rx'   = [rx EXCEPT ![k] = Idle]
  /\ UNCHANGED <<linkVars, ph, prev, tk, trk, buf, dirty, closed, closedSeq, acked, registry,
                 disk, db, crashes>>

GapReport(k) ==
  /\ ph[k] = "on"
  /\ Receives(k, "gap")
  /\ Consume(k)
  /\ IF ~Opened(k) THEN UNCHANGED <<trk, rx>>
     ELSE \E late \in SUBSET Pending(trk[k]) :
            LET m == Message(k)
                r == ReportLost(trk[k], m.from, m.to, m.start, m.lost, late)
            IN  /\ trk' = [trk EXCEPT ![k] = r.t]
                /\ Goto(k, IF r.gaps = <<>> THEN "idle" ELSE "record", 0, r.gaps)
  /\ UNCHANGED <<up, toCli, ph, prev, tk, buf, dirty, closed, closedSeq, acked, registry,
                 disk, dbVars, crashes>>

\* record_gap: one AudioGap row.
Row(gap) == <<gap.start, gap.end>>

RecordGap(k) ==
  /\ rx[k].todo # <<>>
  /\ rx[k].op \in {"record", "close"}
  /\ gaps' = gaps \cup {Row(Head(rx[k].todo))}
  /\ LET rest == Tail(rx[k].todo)
     IN  IF rest = <<>> /\ rx[k].op = "record" THEN rx' = [rx EXCEPT ![k] = Idle]
         ELSE Goto(k, rx[k].op, rx[k].n, rest)
  /\ UNCHANGED <<linkVars, ph, prev, tk, trk, buf, dirty, closed, closedSeq, acked, registry,
                 disk, db, crashes>>

-----------------------------------------------------------------------------
(* Closing the source. *)

\* _on_source_close: what is missing is first declared by flush_timeouts ...
SourceClose(k) ==
  /\ ph[k] = "on"
  /\ Receives(k, "close")
  /\ Consume(k)
  /\ LET final == Message(k).n
         r     == Expire(trk[k], Pending(trk[k]))
     IN  IF closedSeq[k] # -2
         THEN Reply(k, <<[type |-> "closed", n |-> closedSeq[k]]>>) /\ UNCHANGED <<rx, trk>>
         ELSE IF ~Opened(k) THEN UNCHANGED <<toCli, rx, trk>>
         ELSE /\ UNCHANGED toCli
              /\ IF trk[k].seq >= final
                 THEN Goto(k, "sync", final, <<>>) /\ UNCHANGED trk
                 ELSE trk' = [trk EXCEPT ![k] = r.t] /\ Goto(k, "close", final, r.gaps)
  /\ UNCHANGED <<up, ph, prev, tk, buf, dirty, closed, closedSeq, acked, registry,
                 disk, dbVars, crashes>>

\* ... and then as lost ("missing_at_close", no samples).
MissingAtClose(k) ==
  /\ rx[k].op = "close"
  /\ rx[k].todo = <<>>
  /\ LET t == trk[k]
         r == ReportLost(t, t.seq + 1, rx[k].n, t.end, 0, {})
     IN  IF t.seq >= rx[k].n
         THEN Goto(k, "sync", rx[k].n, <<>>) /\ UNCHANGED trk
         ELSE trk' = [trk EXCEPT ![k] = r.t] /\ Goto(k, "close", rx[k].n, r.gaps)
  /\ UNCHANGED <<linkVars, ph, prev, tk, buf, dirty, closed, closedSeq, acked, registry,
                 disk, dbVars, crashes>>

\* EpochWriter.sync (and the sync in close): everything written is durable.
Fsync(k) ==
  /\ disk' = disk \cup buf[k]
  /\ buf'  = [buf EXCEPT ![k] = {}]

\* Mutant: persist_progress without its WHERE clause.
PersistAlways(seq, end) == db' = [db EXCEPT !.seq = seq, !.end = end]

\* persist_progress: the checkpoint never moves backwards.
Persist(seq, end) ==
  db' = IF db.seq <= seq THEN [db EXCEPT !.seq = seq, !.end = end] ELSE db

CloseSync(k) ==
  /\ rx[k].op = "sync"
  /\ Fsync(k)
  /\ Goto(k, "ack", rx[k].n, <<>>)
  /\ UNCHANGED <<linkVars, ph, prev, tk, trk, dirty, closed, closedSeq, acked, registry,
                 dbVars, crashes>>

\* _ack: acked_seq moves at once, the checkpoint in a transaction, then the ACK.
CloseAck(k) ==
  /\ rx[k].op = "ack"
  /\ IF trk[k].seq > acked[k].seq
     THEN /\ acked' = [acked EXCEPT ![k] = [seq |-> trk[k].seq, end |-> trk[k].end]]
          /\ Goto(k, "checkpoint", trk[k].seq, <<>>)
          /\ UNCHANGED closed
     ELSE /\ closed' = [closed EXCEPT ![k] = TRUE]
          /\ Goto(k, "persist", 0, <<>>)
          /\ UNCHANGED acked
  /\ UNCHANGED <<linkVars, ph, prev, tk, trk, buf, dirty, closedSeq, registry, disk, dbVars, crashes>>

CloseCheckpoint(k) ==
  /\ rx[k].op = "checkpoint"
  /\ Persist(acked[k].seq, acked[k].end)
  /\ Reply(k, <<[type |-> "ack", n |-> rx[k].n]>>)
  /\ closed' = [closed EXCEPT ![k] = TRUE]
  /\ Goto(k, "persist", 0, <<>>)
  /\ UNCHANGED <<up, toSrv, ph, prev, tk, trk, buf, dirty, closedSeq, acked, registry,
                 disk, gaps, crashes>>

ClosePersist(k) ==
  /\ rx[k].op = "persist"
  /\ Persist(acked[k].seq, acked[k].end)
  /\ Goto(k, "epoch", 0, <<>>)
  /\ UNCHANGED <<linkVars, ph, prev, tk, trk, buf, dirty, closed, closedSeq, acked, registry,
                 disk, gaps, crashes>>

CloseEpoch(k) ==
  /\ rx[k].op = "epoch"
  /\ db' = [db EXCEPT !.closed = TRUE]
  /\ closedSeq' = [closedSeq EXCEPT ![k] = trk[k].seq]
  /\ Goto(k, "answer", 0, <<>>)
  /\ UNCHANGED <<linkVars, ph, prev, tk, trk, buf, dirty, closed, acked, registry,
                 disk, gaps, crashes>>

CloseAnswer(k) ==
  /\ rx[k].op = "answer"
  /\ Fsync(k)
  /\ Reply(k, <<[type |-> "closed", n |-> trk[k].seq]>>)
  /\ rx' = [rx EXCEPT ![k] = Idle]
  /\ UNCHANGED <<up, toSrv, ph, prev, tk, trk, dirty, closed, closedSeq, acked, registry,
                 dbVars, crashes>>

-----------------------------------------------------------------------------
(* Ticker. *)

Ticker(k, op, n, end, todo) ==
  tk' = [tk EXCEPT ![k] = [op |-> op, n |-> n, end |-> end, todo |-> todo]]

\* The watermark is taken, and the dirty flag cleared, before the fsync.
TakeWatermark(k, t) ==
  /\ IF dirty[k] THEN Ticker(k, "sync", t.seq, t.end, <<>>)
     ELSE tk' = [tk EXCEPT ![k] = Rest]
  /\ dirty' = [dirty EXCEPT ![k] = FALSE]

Flush(k, late) ==
  /\ ph[k] = "on"
  /\ tk[k] = Rest
  /\ Opened(k) /\ ~closed[k]
  /\ LET r == Expire(trk[k], late)
     IN  /\ dirty[k] \/ r.gaps # <<>> \/ r.t # trk[k]   \* else nothing happens
         /\ trk' = [trk EXCEPT ![k] = r.t]
         /\ IF r.gaps = <<>> THEN TakeWatermark(k, r.t)
            ELSE Ticker(k, "record", 0, 0, r.gaps) /\ UNCHANGED dirty
  /\ UNCHANGED <<linkVars, ph, prev, rx, buf, closed, closedSeq, acked, registry, disk, dbVars, crashes>>

TickFlush(k) == Opened(k) /\ \E late \in SUBSET Pending(trk[k]) : Flush(k, late)

TickRecord(k) ==
  /\ tk[k].op = "record"
  /\ IF tk[k].todo # <<>>
     THEN /\ gaps' = gaps \cup {Row(Head(tk[k].todo))}
          /\ Ticker(k, "record", 0, 0, Tail(tk[k].todo))
          /\ UNCHANGED dirty
     ELSE TakeWatermark(k, trk[k]) /\ UNCHANGED gaps
  /\ UNCHANGED <<linkVars, ph, prev, rx, trk, buf, closed, closedSeq, acked, registry, disk, db, crashes>>

TickSync(k) ==
  /\ tk[k].op = "sync"
  /\ Fsync(k)
  /\ tk' = [tk EXCEPT ![k].op = "synced"]
  /\ UNCHANGED <<linkVars, ph, prev, rx, trk, dirty, closed, closedSeq, acked, registry, dbVars, crashes>>

\* Mutant: the watermark is read after the fsync.
TickAckLate(k) ==
  /\ tk[k].op = "synced"
  /\ IF trk[k].seq > acked[k].seq
     THEN /\ acked' = [acked EXCEPT ![k] = [seq |-> trk[k].seq, end |-> trk[k].end]]
          /\ Ticker(k, "checkpoint", trk[k].seq, trk[k].end, <<>>)
     ELSE tk' = [tk EXCEPT ![k] = Rest] /\ UNCHANGED acked
  /\ UNCHANGED <<linkVars, ph, prev, rx, trk, buf, dirty, closed, closedSeq, registry, disk, dbVars, crashes>>

TickAck(k) ==
  /\ tk[k].op = "synced"
  /\ IF tk[k].n > acked[k].seq
     THEN /\ acked' = [acked EXCEPT ![k] = [seq |-> tk[k].n, end |-> tk[k].end]]
          /\ tk' = [tk EXCEPT ![k].op = "checkpoint"]
     ELSE tk' = [tk EXCEPT ![k] = Rest] /\ UNCHANGED acked
  /\ UNCHANGED <<linkVars, ph, prev, rx, trk, buf, dirty, closed, closedSeq, registry, disk, dbVars, crashes>>

\* Mutant: the ACK goes out and the checkpoint is left to the next tick.
TickCheckpointLater(k) ==
  /\ tk[k].op = "checkpoint"
  /\ Reply(k, <<[type |-> "ack", n |-> tk[k].n]>>)
  /\ tk' = [tk EXCEPT ![k] = Rest]
  /\ UNCHANGED <<up, toSrv, ph, prev, rx, trk, buf, dirty, closed, closedSeq, acked, registry,
                 disk, dbVars, crashes>>

\* "The reconnect checkpoint is part of a durable ACK": persist, then send.
TickCheckpoint(k) ==
  /\ tk[k].op = "checkpoint"
  /\ Persist(tk[k].n, tk[k].end)
  /\ Reply(k, <<[type |-> "ack", n |-> tk[k].n]>>)
  /\ tk' = [tk EXCEPT ![k] = Rest]
  /\ UNCHANGED <<up, toSrv, ph, prev, rx, trk, buf, dirty, closed, closedSeq, acked, registry,
                 disk, gaps, crashes>>

-----------------------------------------------------------------------------
(* End of a connection. *)

\* The socket breaks. A message already sent may still be handled.
Drop(k) ==
  /\ up[k]
  /\ up' = [up EXCEPT ![k] = FALSE]
  /\ UNCHANGED <<toSrv, toCli, serverVars>>

\* The receive loop ends between two messages and cancels the ticker. Of a
\* transaction in flight in a thread only the thread's part still happens:
\* the ticker's remaining gap decisions are dropped. (Its fsync and checkpoint
\* are repeated by the clean-up.)
Disconnect(k) ==
  /\ ph[k] = "on"
  /\ ~up[k]
  /\ rx[k] = Idle
  /\ ph'    = [ph EXCEPT ![k] = "closing"]
  /\ tk'    = [tk EXCEPT ![k] = Rest]
  /\ toSrv' = [toSrv EXCEPT ![k] = <<>>]
  /\ \/ UNCHANGED gaps
     \/ tk[k].todo # <<>> /\ gaps' = gaps \cup {Row(Head(tk[k].todo))}
  /\ UNCHANGED <<up, toCli, prev, rx, trk, buf, dirty, closed, closedSeq, acked, registry,
                 disk, db, crashes>>

\* _cleanup: the writer is closed (and synced) ...
CloseWriter(k) ==
  /\ ph[k] = "closing"
  /\ Fsync(k)
  /\ ph' = [ph EXCEPT ![k] = "leaving"]
  /\ UNCHANGED <<linkVars, prev, rx, tk, trk, dirty, closed, closedSeq, acked, registry, dbVars, crashes>>

\* ... the last ACK persisted, and the connection unregistered if it is still
\* the registered one.
Leave(k) ==
  /\ ph[k] = "leaving"
  /\ IF Opened(k) THEN Persist(acked[k].seq, acked[k].end) ELSE UNCHANGED db
  /\ registry' = IF registry = k THEN 0 ELSE registry
  /\ ph'     = [ph EXCEPT ![k] = "done"]
  /\ trk'    = [trk EXCEPT ![k] = NoTracker]
  /\ dirty'  = [dirty EXCEPT ![k] = FALSE]
  /\ closed' = [closed EXCEPT ![k] = FALSE]
  /\ closedSeq' = [closedSeq EXCEPT ![k] = -2]
  /\ acked'  = [acked EXCEPT ![k] = [seq |-> -1, end |-> 0]]
  /\ UNCHANGED <<linkVars, prev, rx, tk, buf, disk, gaps, crashes>>

\* The API process dies and restarts. Of what was written and not fsynced any
\* part may have reached the file; the database keeps what was committed.
CrashServer ==
  /\ crashes < MaxCrashes
  /\ crashes' = crashes + 1
  /\ \E survived \in SUBSET UNION {buf[k] : k \in Conns} : disk' = disk \cup survived
  /\ up'       = [k \in Conns |-> FALSE]
  /\ toSrv'    = [k \in Conns |-> <<>>]
  /\ ph'       = [k \in Conns |-> IF ph[k] = "off" /\ ~up[k] THEN "off" ELSE "done"]
  /\ prev'     = [k \in Conns |-> 0]
  /\ rx'       = [k \in Conns |-> Idle]
  /\ tk'       = [k \in Conns |-> Rest]
  /\ trk'      = [k \in Conns |-> NoTracker]
  /\ buf'      = [k \in Conns |-> {}]
  /\ dirty'    = [k \in Conns |-> FALSE]
  /\ closed'   = [k \in Conns |-> FALSE]
  /\ closedSeq' = [k \in Conns |-> -2]
  /\ acked'    = [k \in Conns |-> [seq |-> -1, end |-> 0]]
  /\ registry' = 0
  /\ UNCHANGED <<toCli, dbVars>>

-----------------------------------------------------------------------------
Receiving(k) == Register(k) \/ OpenSource(k) \/ Frame(k) \/ GapReport(k) \/ SourceClose(k)

Handling(k) ==
  \/ SourceReady(k) \/ FrameWritten(k) \/ LateFrameWritten(k) \/ NarrowGap(k) \/ RecordGap(k)
  \/ MissingAtClose(k) \/ CloseSync(k) \/ CloseAck(k) \/ CloseCheckpoint(k) \/ ClosePersist(k)
  \/ CloseEpoch(k) \/ CloseAnswer(k)

Ticking(k) == TickFlush(k) \/ TickRecord(k) \/ TickSync(k) \/ TickAck(k) \/ TickCheckpoint(k)

\* Every pending item reaches the timeout in the end.
TickLate(k) ==
  \/ Opened(k) /\ Flush(k, Pending(trk[k]))
  \/ TickRecord(k) \/ TickSync(k) \/ TickAck(k) \/ TickCheckpoint(k)

Ending(k) == Disconnect(k) \/ CloseWriter(k) \/ Leave(k)

ServerStep(k) == Receiving(k) \/ Handling(k) \/ Welcome(k) \/ Ticking(k) \/ Ending(k)
-----------------------------------------------------------------------------
(* Properties of the server, whatever the client sends. *)

\* An ACK is honest: when one is on its way, the checkpoint of the database is
\* not behind it ("the reconnect checkpoint is part of a durable ACK").
AckHonest ==
  \A k \in Conns : \A i \in 1..Len(toCli[k]) :
    toCli[k][i].type \in {"ack", "closed"} => toCli[k][i].n <= db.seq

Covered(todo) == UNION {todo[i].start..(todo[i].end - 1) : i \in 1..Len(todo)}

\* Gaps that are decided and not recorded yet.
InFlight(k) == Covered(tk[k].todo)
                \cup (IF rx[k].op \in {"record", "close"} THEN Covered(rx[k].todo) ELSE {})

\* "Audio is never dropped silently": every sample before the checkpoint is
\* stored, or covered by a gap row, or its gap is about to be recorded.
NoSilentLoss ==
  \A p \in 0..(db.end - 1) :
    \/ p \in disk
    \/ \E g \in gaps : g[1] <= p /\ p < g[2]
    \/ \E k \in Conns : p \in buf[k] \cup InFlight(k)

\* The checkpoint and what is fsynced never move back, whichever connection
\* writes last.
CheckpointMonotone ==
  [][db'.seq >= db.seq /\ db'.end >= db.end /\ disk \subseteq disk']_<<db, disk>>
=============================================================================
