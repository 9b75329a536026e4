---------------------------- MODULE IngestProofs ----------------------------
(***************************************************************************)
(* Proofs about Ingest: the steps of the client keep the invariant Inv of  *)
(* IngestServerProofs, and what follows from it: the safety of the upload  *)
(* and that the protocol implements the abstract recording. Then about     *)
(* IngestOpen, the server with a client that sends what it likes.          *)
(***************************************************************************)
EXTENDS IngestServerProofs, IngestOpen

\* Every step of the server.
LEMMA AnyServerStepKeeps ==
  ASSUME Inv, NEW k \in Conns, ServerStep(k), UNCHANGED clientVars
  PROVE  Inv'
<1>1. CASE Receiving(k)
  BY <1>1, RegisterKeeps, OpenSourceKeeps, FrameKeeps, GapReportKeeps, SourceCloseKeeps DEF Receiving
<1>2. CASE Handling(k)
  BY <1>2, NeverNeeded, SourceReadyKeeps, FrameWrittenKeeps, RecordGapKeeps, CloseSyncKeeps, CloseAckKeeps,
     ClosePersistKeeps, CloseEpochKeeps, CloseAnswerKeeps DEF Handling
<1>3. CASE Welcome(k)
  BY <1>3, WelcomeKeeps
<1>4. CASE Ticking(k)
  BY <1>4, TickFlushKeeps, TickRecordKeeps, TickSyncKeeps, TickAckKeeps, TickCheckpointKeeps DEF Ticking
<1>5. CASE Ending(k)
  BY <1>5, DisconnectKeeps, CloseWriterKeeps, LeaveKeeps DEF Ending
<1> QED BY <1>1, <1>2, <1>3, <1>4, <1>5 DEF ServerStep

\* Every fault.
LEMMA FaultKeeps ==
  ASSUME Inv, Fault, UNCHANGED clientVars
  PROVE  Inv'
BY DropKeeps, CrashServerKeeps DEF Fault

-----------------------------------------------------------------------------
(* Steps of the client. *)

\* A step of the client is checked at its own connection.
LEMMA ClientStepKeeps ==
  ASSUME Inv, Types', UNCHANGED serverVars, Growth, Finished => next' = next,
         \A j \in Conns : j # ws' => Same(j) /\ Elsewhere(j),
         \A j \in Conns : j = ws' => Connection(j)',
         Client', ReleasedIsSafe'
  PROVE  Inv'
<1> USE DEF serverVars, connVars, dbVars
<1>1. Types /\ next \in Nat /\ next' \in Nat /\ db.seq \in Int
  <2>1. Types
    BY DEF Inv
  <2> QED BY <2>1 DEF Types, Checkpoints
<1>2. \A j \in Conns : Connection(j)'
  <2> SUFFICES ASSUME NEW j \in Conns, j # ws' PROVE Connection(j)'
    OBVIOUS
  <2>1. Connection(j) /\ Same(j) /\ Elsewhere(j)
    BY DEF Inv
  <2> QED BY <1>1, <2>1, Aside
<1>3. Database'
  <2>1. Database
    BY DEF Inv
  <2>2. db.seq < next' /\ 0..(next - 1) \subseteq 0..(next' - 1)
    <3>1. db.seq < next /\ next <= next'
      BY <2>1 DEF Database, Growth
    <3>2. next \in Int /\ next' \in Int
      BY <1>1
    <3>3. \A a, b \in Int : a <= b => 0..(a - 1) \subseteq 0..(b - 1)
      OBVIOUS
    <3>4. \A a, b, c \in Int : a <= b /\ c < a => c < b
      OBVIOUS
    <3>5. 0..(next - 1) \subseteq 0..(next' - 1)
      BY <3>1, <3>2, <3>3
    <3> QED BY <1>1, <3>1, <3>2, <3>4, <3>5
  <2> QED BY <2>1, <2>2 DEF Database, Growth
<1>4. NoFalseGap'
  BY DEF Inv, NoFalseGap, Growth
<1> QED BY <1>2, <1>3, <1>4 DEF Inv

\* The client opens a socket.
LEMMA ConnectKeeps ==
  ASSUME Inv, Connect, UNCHANGED serverVars
  PROVE  Inv'
<1> USE DEF serverVars, connVars, dbVars
<1> DEFINE k == ws + 1
           hello == <<[type |-> "hello"]>>
<1>1. /\ ~live /\ ws < MaxConns /\ ws' = k /\ live' = TRUE
      /\ up' = [up EXCEPT ![k] = TRUE] /\ toSrv' = [toSrv EXCEPT ![k] = hello]
      /\ UNCHANGED <<toCli, connected, ready, fatal, next, lo, pendingGap, stopped, closeSent, closeAcked, dropped, congested>>
  BY DEF Connect, sourceVars
<1>2. Types /\ Client /\ ws \in 0..MaxConns /\ MaxConns \in Nat /\ k \in Conns /\ k > ws /\ k \in 0..MaxConns /\ ws < k
  <2>1. Types /\ Client /\ ws \in 0..MaxConns /\ MaxConns \in Nat
    BY MaxConnsAssumption DEF Inv, Types
  <2> QED BY <1>1, <2>1 DEF Conns
<1>3. ~connected /\ ~ready
  BY <1>1, <1>2 DEF Client
<1>4. hello \in Seq(ToServer) /\ Len(hello) = 1 /\ hello[1].type = "hello" /\ hello \in {<<>>, <<[type |-> "hello"]>>}
  <2>1. [type |-> "hello"] \in ToServer
    BY DEF ToServer
  <2> QED BY <2>1
<1> HIDE DEF hello
<1>5. Types'
  <2>1. up' \in [Conns -> BOOLEAN] /\ toSrv' \in [Conns -> Seq(ToServer)] /\ ws' \in 0..MaxConns
    BY <1>1, <1>2, <1>4 DEF Types
  <2> QED BY <1>1, <1>2, <2>1 DEF Types
<1>6. Growth /\ next' = next /\ Finished' = Finished /\ lo' = lo /\ dropped' = dropped
  BY <1>1, <1>2 DEF Growth, Types, Finished, Checkpoints
<1>7. \A j \in Conns : j # ws' => Same(j) /\ Elsewhere(j)
  BY <1>1, <1>2 DEF Types, Same, Elsewhere
<1>8. Client'
  <2>1. \A g : Sound(g)' = Sound(g)
    BY <1>1 DEF Sound
  <2> QED BY <1>1, <1>2, <1>6, <2>1 DEF Client
<1>9. ReleasedIsSafe'
  BY <1>1 DEF Inv, ReleasedIsSafe
<1>10. ASSUME NEW j \in Conns, j = ws' PROVE Connection(j)'
  <2>1. Connection(j) /\ j > ws /\ j = k
    BY <1>1, <1>2, <1>10 DEF Inv
  <2>2. ph[j] = "off" /\ toCli[j] = <<>> /\ rx[j] = Idle /\ tk[j] = Rest /\ ~Opened(j) /\ closedSeq[j] = -2
    BY <2>1 DEF Connection, Socket, Phase
  <2>3. up'[j] = TRUE /\ toSrv'[j] = hello /\ ~(j > ws')
    BY <1>1, <1>2, <1>10, <2>1 DEF Types
  <2>4. Len(toCli'[j]) = 0 /\ toCli'[j] = <<>>
    BY <1>1, <2>2
  <2>13. \A i \in 1..Len(toSrv'[j]) : i = 1 /\ toSrv'[j][i].type = "hello"
    <3>1. Len(toSrv'[j]) = 1 /\ toSrv'[j][1].type = "hello"
      BY <1>4, <2>3
    <3>2. 1..Len(toSrv'[j]) = {1}
      BY <3>1
    <3> QED BY <3>1, <3>2
  <2>5. ~Opened(j)' /\ ~Opening(j)'
    <3>1. rx'[j].op # "open"
      BY <2>2 DEF Idle
    <3> QED BY <2>2, <2>3, <2>13, <3>1 DEF Opened, Opening
  <2>6. Socket(j)'
    BY <1>1, <1>3, <1>10, <2>2, <2>3, <2>4 DEF Socket
  <2>7. Phase(j)'
    BY <1>4, <1>6, <2>1, <2>2, <2>3, <2>4, <2>5 DEF Connection, Phase
  <2>8. Handshake(j)'
    BY <1>4, <2>2, <2>3, <2>4, <2>5 DEF Handshake, Idle
  <2>9. Tracking(j)' /\ TickLoop(j)'
    BY <2>2, <2>5 DEF Tracking, TickLoop, Rest
  <2>10. ReceiveLoop(j)'
    BY <1>6, <2>1, <2>2, <2>5 DEF Connection, ReceiveLoop, Idle
  <2>11. InOrder(j)' /\ Reports(j)' /\ Closing(j)'
    BY <2>13 DEF InOrder, Reports, Closing
  <2>12. Resuming(j)'
    BY <2>2, <2>5 DEF Resuming, Idle
  <2> QED BY <2>6, <2>7, <2>8, <2>9, <2>10, <2>11, <2>12 DEF Connection
<1> QED BY <1>5, <1>6, <1>7, <1>8, <1>9, <1>10, ClientStepKeeps

\* The client learns that its socket is closed.
LEMMA OnSocketCloseKeeps ==
  ASSUME Inv, OnSocketClose, UNCHANGED serverVars
  PROVE  Inv'
<1> USE DEF serverVars, connVars, dbVars
<1>1. /\ live /\ ~up[ws] /\ live' = FALSE /\ connected' = FALSE /\ ready' = FALSE
      /\ closeSent' = (closeSent /\ closeAcked) /\ toCli' = [toCli EXCEPT ![ws] = <<>>]
      /\ UNCHANGED <<up, toSrv, ws, fatal, next, lo, pendingGap, stopped, closeAcked, dropped, congested>>
  BY DEF OnSocketClose
<1>2. Types /\ Client /\ ws \in Conns
  <2>1. Types /\ Client
    BY DEF Inv
  <2>2. ws # 0 /\ ws \in 0..MaxConns
    BY <1>1, <2>1 DEF Client, Types
  <2> QED BY <2>1, <2>2, MaxConnsAssumption DEF Conns
<1>3. Types'
  <2>1. <<>> \in Seq(ToClient)
    OBVIOUS
  <2>2. toCli' \in [Conns -> Seq(ToClient)] /\ closeSent' \in BOOLEAN
    BY <1>1, <1>2, <2>1 DEF Types
  <2> QED BY <1>1, <1>2, <2>2 DEF Types
<1>4. Growth /\ next' = next /\ Finished' = Finished /\ lo' = lo /\ dropped' = dropped /\ \A g : Sound(g)' = Sound(g)
  BY <1>1, <1>2 DEF Growth, Types, Finished, Checkpoints, Sound
<1>5. \A j \in Conns : j # ws' => Same(j) /\ Elsewhere(j)
  BY <1>1, <1>2 DEF Types, Same, Elsewhere
<1>6. Client'
  BY <1>1, <1>2, <1>4 DEF Client
<1>7. ReleasedIsSafe'
  BY <1>1 DEF Inv, ReleasedIsSafe
<1>8. ASSUME NEW j \in Conns, j = ws' PROVE Connection(j)'
  <2>1. Connection(j) /\ j = ws /\ ~up[j] /\ up'[j] = up[j] /\ acked[j].seq >= acked[j].seq
    BY <1>1, <1>2, <1>8, Numbers DEF Inv
  <2>2. Len(toCli'[j]) = 0 /\ toCli'[j] = <<>>
    BY <1>1, <1>2, <2>1 DEF Types
  <2>3. /\ Opened(j)' = Opened(j) /\ Passed(j)' = Passed(j) /\ (Lagging(j) => Lagging(j)') /\ (Fresh(j) => Fresh(j)')
        /\ Opening(j)' = Opening(j) /\ ~Streaming(j)' /\ \A i, p : IsFrame(j, i, p)' = IsFrame(j, i, p)
    BY <1>1 DEF Opened, Passed, Lagging, Fresh, Opening, Streaming, IsFrame
  <2>4. Socket(j)' /\ Phase(j)'
    <3>1. Socket(j)'
      BY <1>1, <2>1, <2>2 DEF Connection, Socket
    <3>2. Phase(j)'
      BY <1>1, <1>4, <2>1, <2>2, <2>3 DEF Connection, Phase
    <3> QED BY <3>1, <3>2
  <2>5. Handshake(j)'
    BY <1>1, <2>1, <2>2, <2>3 DEF Connection, Handshake
  <2>6. Tracking(j)' /\ ReceiveLoop(j)' /\ TickLoop(j)'
    BY <1>1, <1>2, <1>3, <1>4, <2>1, <2>3, TrackingAside, ReceiverAside, TickerAside DEF Connection
  <2>7. InOrder(j)' /\ Reports(j)'
    BY <1>1, <1>2, <1>3, <1>4, <2>1, <2>3, FramesAside, ReportsAside DEF Connection
  <2>8. Closing(j)'
    BY <1>1, <1>4, <2>1, <2>3 DEF Connection, Closing
  <2>9. Resuming(j)'
    BY <1>1, <1>4, <2>1, <2>3 DEF Connection, Resuming
  <2> QED BY <2>4, <2>5, <2>6, <2>7, <2>8, <2>9 DEF Connection
<1> QED BY <1>3, <1>4, <1>5, <1>6, <1>7, <1>8, ClientStepKeeps

\* A message has arrived at the client.
LEMMA Arrived ==
  ASSUME Inv, NEW type, Gets(type), Received
  PROVE  /\ ws \in Conns /\ live /\ Types /\ Client /\ Connection(ws)
         /\ toCli[ws] \in Seq(ToClient) /\ 1 \in 1..Len(toCli[ws]) /\ Head(toCli[ws]) = toCli[ws][1] /\ toCli[ws][1].type = type
         /\ toCli[ws][1] \in ToClient /\ Tail(toCli[ws]) \in Seq(ToClient)
         /\ \A j \in Conns : toCli'[j] = IF j = ws THEN Tail(toCli[ws]) ELSE toCli[j]
         /\ toCli' \in [Conns -> Seq(ToClient)]
         /\ \A i \in 1..Len(Tail(toCli[ws])) : i + 1 \in 2..Len(toCli[ws]) /\ i + 1 \in 1..Len(toCli[ws])
                                               /\ i + 1 # 1 /\ Tail(toCli[ws])[i] = toCli[ws][i + 1]
         /\ ph[ws] # "off" /\ (type # "superseded" => ph[ws] # "joining") /\ ~(ws > ws) /\ ws <= ws
         /\ (up[ws] /\ type # "superseded" => ph[ws] = "on")
<1>1. Types /\ Client /\ live /\ toCli[ws] # <<>> /\ Head(toCli[ws]).type = type /\ toCli' = [toCli EXCEPT ![ws] = Tail(@)]
  BY DEF Inv, Gets, Received
<1>2. ws \in Conns /\ ws \in Nat
  <2>1. ws # 0 /\ ws \in 0..MaxConns
    BY <1>1 DEF Client, Types
  <2> QED BY <2>1, MaxConnsAssumption DEF Conns
<1>3. Connection(ws) /\ toCli[ws] \in Seq(ToClient)
  BY <1>1, <1>2, Numbers DEF Inv
<1>4. /\ 1 \in 1..Len(toCli[ws]) /\ Head(toCli[ws]) = toCli[ws][1] /\ toCli[ws][1] \in ToClient /\ Tail(toCli[ws]) \in Seq(ToClient)
      /\ \A i \in 1..Len(Tail(toCli[ws])) : i + 1 \in 2..Len(toCli[ws]) /\ i + 1 \in 1..Len(toCli[ws]) /\ Tail(toCli[ws])[i] = toCli[ws][i + 1]
  BY <1>1, <1>3, TailOf, TailWithin
<1>5. \A i \in 1..Len(Tail(toCli[ws])) : i + 1 # 1
  BY <1>4
<1>6. /\ \A j \in Conns : toCli'[j] = IF j = ws THEN Tail(toCli[ws]) ELSE toCli[j]
      /\ toCli' \in [Conns -> Seq(ToClient)]
  BY <1>1, <1>2, <1>4 DEF Types
<1>7. ph[ws] # "off" /\ (type # "superseded" => ph[ws] # "joining")
  BY <1>1, <1>3, <1>4 DEF Connection, Phase
<1>8. up[ws] /\ type # "superseded" => ph[ws] = "on"
  <2>1. ph[ws] \in {"off", "joining", "on", "closing", "leaving", "done"}
    BY <1>1, <1>2 DEF Types
  <2> QED BY <1>3, <1>7, <2>1 DEF Connection, Phase
<1> QED BY <1>1, <1>2, <1>3, <1>4, <1>5, <1>6, <1>7, <1>8

\* The client is told that another connection took its place.
LEMMA OnFatalKeeps ==
  ASSUME Inv, OnFatal, UNCHANGED serverVars
  PROVE  Inv'
<1> USE DEF serverVars, connVars, dbVars
<1>1. /\ Gets("superseded") /\ Received /\ fatal' = TRUE
      /\ UNCHANGED <<up, toSrv, ws, live, connected, ready, next, lo, pendingGap, stopped, closeSent, closeAcked, dropped, congested>>
  BY DEF OnFatal, sourceVars
<1>2. /\ ws \in Conns /\ live /\ Types /\ Client /\ Connection(ws)
      /\ toCli[ws][1].type = "superseded" /\ 1 \in 1..Len(toCli[ws])
      /\ \A j \in Conns : toCli'[j] = IF j = ws THEN Tail(toCli[ws]) ELSE toCli[j]
      /\ toCli' \in [Conns -> Seq(ToClient)]
      /\ \A i \in 1..Len(Tail(toCli[ws])) : i + 1 \in 1..Len(toCli[ws]) /\ i + 1 # 1 /\ Tail(toCli[ws])[i] = toCli[ws][i + 1]
      /\ ph[ws] # "off" /\ ~(ws > ws) /\ ws <= ws
  BY <1>1, Arrived
<1>3. Types'
  BY <1>1, <1>2 DEF Types
<1>4. Growth /\ next' = next /\ Finished' = Finished /\ lo' = lo /\ dropped' = dropped /\ \A g : Sound(g)' = Sound(g)
  BY <1>1, <1>2 DEF Growth, Types, Finished, Checkpoints, Sound
<1>5. \A j \in Conns : j # ws' => Same(j) /\ Elsewhere(j)
  BY <1>1, <1>2, MaxConnsAssumption DEF Types, Same, Elsewhere
<1>6. Client'
  BY <1>1, <1>2, <1>4 DEF Client
<1>7. ReleasedIsSafe'
  BY <1>1 DEF Inv, ReleasedIsSafe
<1>8. ASSUME NEW j \in Conns, j = ws' PROVE Connection(j)'
  <2>1. Connection(j) /\ j = ws /\ acked[j].seq >= acked[j].seq
    BY <1>1, <1>2, <1>8, Numbers
  <2>2. \A i \in 1..Len(toCli'[j]) : i + 1 \in 1..Len(toCli[j]) /\ i + 1 # 1 /\ toCli'[j][i] = toCli[j][i + 1]
    BY <1>1, <1>2, <2>1
  <2>3. /\ Opened(j)' = Opened(j) /\ Passed(j)' = Passed(j) /\ (Lagging(j) => Lagging(j)') /\ (Fresh(j) => Fresh(j)')
        /\ Opening(j)' = Opening(j) /\ Streaming(j)' = Streaming(j) /\ \A i, p : IsFrame(j, i, p)' = IsFrame(j, i, p)
    BY <1>1 DEF Opened, Passed, Lagging, Fresh, Opening, Streaming, IsFrame
  <2>4. ~up[j] /\ toCli[j][1].type = "superseded" /\ ws = j
    BY <1>2, <2>1 DEF Connection, Socket
  <2>5. Socket(j)'
    BY <1>1, <1>2, <2>1, <2>4 DEF Connection, Socket
  <2>6. Phase(j)'
    BY <1>1, <1>2, <1>4, <2>1, <2>2, <2>3 DEF Connection, Phase
  <2>7. Handshake(j)'
    <3> USE <2>2
    <3>1. Handshake(j)
      BY <2>1 DEF Connection
    <3>2. \A i \in 1..Len(toCli'[j]) : toCli'[j][i].type \notin {"welcome", "ready"}
      BY <3>1 DEF Handshake
    <3>3. Opening(j) => \A i \in 1..Len(toCli'[j]) : toCli'[j][i].type = "superseded"
      BY <3>1 DEF Handshake
    <3>4. \A i \in 1..Len(toCli'[j]) : toCli'[j][i].type \in {"ack", "closed"} =>
            /\ Streaming(j) /\ toCli'[j][i].n <= db.seq /\ (Opened(j) => toCli'[j][i].n <= acked[j].seq)
            /\ toCli'[j][i].type = "closed" => Finished
      BY <2>4, <3>1 DEF Handshake
    <3> HIDE <2>2
    <3> QED BY <1>1, <1>4, <2>3, <2>4, <3>1, <3>2, <3>3, <3>4 DEF Handshake
  <2>8. Tracking(j)' /\ ReceiveLoop(j)' /\ TickLoop(j)'
    BY <1>1, <1>2, <1>3, <1>4, <2>1, <2>3, TrackingAside, ReceiverAside, TickerAside DEF Connection
  <2>9. InOrder(j)' /\ Reports(j)'
    BY <1>1, <1>2, <1>3, <1>4, <2>1, <2>3, FramesAside, ReportsAside DEF Connection
  <2>10. Closing(j)' /\ Resuming(j)'
    BY <1>1, <1>4, <2>1, <2>3 DEF Connection, Closing, Resuming
  <2> QED BY <2>5, <2>6, <2>7, <2>8, <2>9, <2>10 DEF Connection
<1> QED BY <1>3, <1>4, <1>5, <1>6, <1>7, <1>8, ClientStepKeeps

\* The client opens its source.
LEMMA OnWelcomeKeeps ==
  ASSUME Inv, OnWelcome, UNCHANGED serverVars
  PROVE  Inv'
<1> USE DEF serverVars, connVars, dbVars
<1> DEFINE open == [type |-> "open"]
           msgs == IF closeAcked THEN <<>> ELSE <<open>>
<1>1. /\ Gets("welcome") /\ Received /\ connected' = TRUE
      /\ toSrv' = IF msgs # <<>> /\ up[ws] THEN [toSrv EXCEPT ![ws] = @ \o msgs] ELSE toSrv
      /\ UNCHANGED <<up, ws, live, ready, fatal, next, lo, pendingGap, stopped, closeSent, closeAcked, dropped, congested>>
  BY DEF OnWelcome, sourceVars, Send, Queued
<1>2. /\ ws \in Conns /\ live /\ Types /\ Client /\ Connection(ws)
      /\ toCli[ws][1].type = "welcome" /\ 1 \in 1..Len(toCli[ws])
      /\ \A j \in Conns : toCli'[j] = IF j = ws THEN Tail(toCli[ws]) ELSE toCli[j]
      /\ toCli' \in [Conns -> Seq(ToClient)]
      /\ \A i \in 1..Len(Tail(toCli[ws])) : i + 1 \in 2..Len(toCli[ws]) /\ i + 1 \in 1..Len(toCli[ws]) /\ Tail(toCli[ws])[i] = toCli[ws][i + 1]
      /\ ph[ws] # "off" /\ ph[ws] # "joining" /\ ~(ws > ws) /\ ws <= ws /\ (up[ws] => ph[ws] = "on")
  BY <1>1, Arrived
<1>3. /\ toSrv[ws] = <<>> /\ rx[ws] = Idle /\ ~Opened(ws) /\ closedSeq[ws] = -2 /\ ~connected /\ ~ready
      /\ \A i \in 2..Len(toCli[ws]) : toCli[ws][i].type = "superseded"
  BY <1>2 DEF Connection, Handshake, Client
<1>4. toSrv'[ws] = <<>> \/ (toSrv'[ws] = <<open>> /\ up[ws])
  <2>1. <<>> \o <<open>> = <<open>>
    OBVIOUS
  <2> QED BY <1>1, <1>2, <1>3, <2>1 DEF Types
<1>5. open \in ToServer /\ open.type = "open"
  BY DEF ToServer
<1> HIDE DEF open
<1>6. Types'
  <2>1. toSrv' \in [Conns -> Seq(ToServer)]
    <3>1. <<>> \o msgs \in Seq(ToServer)
      BY <1>5
    <3> QED BY <1>1, <1>2, <1>3, <3>1 DEF Types
  <2> QED BY <1>1, <1>2, <2>1 DEF Types
<1>7. Growth /\ next' = next /\ Finished' = Finished /\ lo' = lo /\ dropped' = dropped /\ \A g : Sound(g)' = Sound(g)
  BY <1>1, <1>2 DEF Growth, Types, Finished, Checkpoints, Sound
<1>8. \A j \in Conns : j # ws' => Same(j) /\ Elsewhere(j)
  BY <1>1, <1>2, MaxConnsAssumption DEF Types, Same, Elsewhere
<1>9. Client'
  BY <1>1, <1>2, <1>7 DEF Client
<1>10. ReleasedIsSafe'
  BY <1>1 DEF Inv, ReleasedIsSafe
<1>11. ASSUME NEW j \in Conns, j = ws' PROVE Connection(j)'
  <2>1. Connection(j) /\ j = ws
    BY <1>1, <1>2, <1>11
  <2>0. toCli'[j] = Tail(toCli[ws])
    BY <1>2, <2>1
  <2>2. \A i \in 1..Len(toCli'[j]) : toCli'[j][i].type = "superseded"
    <3>1. \A i \in 1..Len(toCli'[j]) : i + 1 \in 2..Len(toCli[ws]) /\ toCli'[j][i] = toCli[ws][i + 1]
      BY <1>2, <2>0
    <3> QED BY <1>3, <3>1
  <2>12. toCli'[j] # <<>> => ~up[j]
    <3> SUFFICES ASSUME toCli'[j] # <<>> PROVE ~up[j]
      OBVIOUS
    <3>1. toCli'[j] \in Seq(ToClient)
      BY <1>2
    <3>2. 1 \in 1..Len(toCli'[j])
      BY <3>1
    <3>3. 1 + 1 \in 1..Len(toCli[j]) /\ toCli[j][1 + 1] = toCli'[j][1]
      BY <1>2, <2>0, <2>1, <3>2
    <3>4. toCli[j][1 + 1].type = "superseded"
      BY <2>2, <3>2, <3>3
    <3> QED BY <2>1, <3>3, <3>4 DEF Connection, Socket
  <2>3. \A i \in 1..Len(toSrv'[j]) : i = 1 /\ Len(toSrv'[j]) = 1 /\ toSrv'[j][i].type = "open" /\ up[j]
    <3>1. CASE toSrv'[j] = <<>>
      <4>1. Len(toSrv'[j]) = 0
        BY <3>1
      <4> QED BY <4>1
    <3>2. CASE toSrv'[j] = <<open>> /\ up[j]
      <4>1. Len(toSrv'[j]) = 1 /\ toSrv'[j][1].type = "open"
        BY <1>5, <3>2
      <4> QED BY <3>2, <4>1
    <3> QED BY <1>4, <2>1, <3>1, <3>2
  <2>4. ~Opened(j) /\ ~Opened(j)' /\ ~Streaming(j)' /\ rx'[j] = Idle /\ closedSeq'[j] = -2
    BY <1>1, <1>3, <2>1 DEF Opened, Streaming
  <2>5. Socket(j)'
    <3>1. \A i \in 1..Len(toCli'[j]) : ~up[j]
      <4>1. toCli'[j] = <<>> => Len(toCli'[j]) = 0
        OBVIOUS
      <4> QED BY <2>12, <4>1
    <3> QED BY <1>1, <1>2, <2>1, <3>1 DEF Connection, Socket
  <2>6. Phase(j)'
    <3>1. ph[j] \in {"closing", "leaving", "done"} => toSrv'[j] = <<>>
      BY <1>2, <1>4, <2>1
    <3> QED BY <1>1, <1>2, <1>7, <2>1, <2>3, <2>4, <3>1 DEF Connection, Phase
  <2>7. Handshake(j)'
    <3>1. rx'[j].op # "open"
      BY <2>4 DEF Idle
    <3>2. Opening(j)' => ph'[j] = "on"
      BY <1>1, <1>2, <2>1, <2>3, <3>1 DEF Opening
    <3>3. \A i \in 1..Len(toCli'[j]) : toCli'[j][i].type \notin {"welcome", "ready", "ack", "closed"}
      BY <2>2
    <3>4. \A i \in 1..Len(toSrv'[j]) : toSrv'[j][i].type = "open" => Len(toSrv'[j]) = 1 /\ rx'[j] = Idle
      BY <2>3, <2>4
    <3> QED BY <1>1, <2>2, <2>4, <3>1, <3>2, <3>3, <3>4 DEF Handshake
  <2>8. Tracking(j)' /\ TickLoop(j)'
    <3>1. Tracking(j)'
      BY <2>4 DEF Tracking
    <3> QED BY <1>1, <1>7, <2>1, <3>1, TickerAside DEF Connection
  <2>9. ReceiveLoop(j)'
    BY <1>2, <1>6, <1>7, <2>1, ReceiverAside DEF Connection
  <2>10. InOrder(j)' /\ Reports(j)' /\ Closing(j)'
    BY <2>3 DEF InOrder, Reports, Closing
  <2>11. Resuming(j)'
    BY <2>4 DEF Resuming, Idle
  <2> QED BY <2>5, <2>6, <2>7, <2>8, <2>9, <2>10, <2>11 DEF Connection
<1> QED BY <1>6, <1>7, <1>8, <1>9, <1>10, <1>11, ClientStepKeeps

-----------------------------------------------------------------------------
(* The client resumes: report, replay, close. *)

\* Two lists put together.
LEMMA Joined ==
  ASSUME NEW S, NEW p \in Seq(S), NEW q \in Seq(S)
  PROVE  /\ p \o q \in Seq(S) /\ Len(p) \in Nat /\ Len(q) \in Nat /\ Len(p \o q) = Len(p) + Len(q)
         /\ \A i \in 1..Len(p) : (p \o q)[i] = p[i]
         /\ \A i \in 1..Len(q) : (p \o q)[Len(p) + i] = q[i]
OBVIOUS

\* The frames that are sent again, in order.
LEMMA FramesAre ==
  ASSUME NEW a \in Nat, NEW n \in Nat, a <= n
  PROVE  /\ Frames(a, n - 1) \in Seq(ToServer) /\ Len(Frames(a, n - 1)) = n - a
         /\ \A i \in 1..(n - a) : Frames(a, n - 1)[i] = [type |-> "frame", n |-> a + i - 1]
<1>1. Frames(a, n - 1) = [i \in 1..(n - a) |-> [type |-> "frame", n |-> a + i - 1]]
  <2>1. (n - 1) - a + 1 = n - a
    OBVIOUS
  <2> QED BY <2>1 DEF Frames
<1>2. n - a \in Nat
  OBVIOUS
<1>3. \A i \in 1..(n - a) : [type |-> "frame", n |-> a + i - 1] \in ToServer
  BY DEF ToServer
<1> HIDE DEF Frames
<1>4. Frames(a, n - 1) \in [1..(n - a) -> ToServer]
  BY <1>1, <1>3
<1> QED BY <1>1, <1>2, <1>4

\* What the client sends when the source is ready: a report or none (G is 0), the
\* frames from a to n - 1, a source_close or none (C is 0).
Replay(g, a, n, c) ==
  (IF g = NoGap THEN <<>> ELSE <<g>>) \o Frames(a, n - 1) \o (IF c THEN <<Close(n - 1)>> ELSE <<>>)

\* q is such a replay: the report first, then each frame once and in order, then the close.
IsReplay(q, g, a, n, c, G) ==
  /\ q \in Seq(ToServer)
  /\ Len(q) = G + (n - a) + (IF c THEN 1 ELSE 0)
  /\ \A i \in 1..(n - a) : q[G + i] = [type |-> "frame", n |-> a + i - 1]
  /\ \A i \in 1..Len(q) :
       \/ i = 1 /\ g # NoGap /\ q[i] = g
       \/ i > G /\ i <= G + (n - a) /\ q[i].type = "frame" /\ q[i].n = a + i - G - 1
       \/ i = Len(q) /\ c /\ q[i].type = "close" /\ q[i].n = n - 1

\* Replay is one.
LEMMA Replayed ==
  ASSUME NEW g, g = NoGap \/ (g \in ToServer /\ g.type = "gap"), NEW a \in Nat, NEW n \in Nat, a <= n, NEW c \in BOOLEAN,
         NEW G, G = IF g = NoGap THEN 0 ELSE 1
  PROVE  IsReplay(Replay(g, a, n, c), g, a, n, c, G)
<1> DEFINE p == IF g = NoGap THEN <<>> ELSE <<g>>
           f == Frames(a, n - 1)
           e == IF c THEN <<Close(n - 1)>> ELSE <<>>
           q == p \o f \o e
           C == IF c THEN 1 ELSE 0
<1>1. p \in Seq(ToServer) /\ Len(p) = G /\ G \in {0, 1} /\ (G = 1 => g # NoGap /\ p[1] = g)
  OBVIOUS
<1>2. f \in Seq(ToServer) /\ Len(f) = n - a /\ \A i \in 1..(n - a) : f[i] = [type |-> "frame", n |-> a + i - 1]
  BY FramesAre
<1>3. e \in Seq(ToServer) /\ Len(e) = C /\ C \in {0, 1} /\ (c => C = 1 /\ e[1].type = "close" /\ e[1].n = n - 1) /\ (~c => C = 0)
  <2>1. Close(n - 1) \in ToServer /\ Close(n - 1).type = "close" /\ Close(n - 1).n = n - 1
    BY DEF Close, ToServer
  <2> HIDE DEF Close
  <2> QED BY <2>1
<1> HIDE DEF p, f, e, C
<1>4. /\ p \o f \in Seq(ToServer) /\ Len(p \o f) = G + (n - a)
      /\ \A i \in 1..G : (p \o f)[i] = p[i]
      /\ \A i \in 1..(n - a) : (p \o f)[G + i] = f[i]
  BY <1>1, <1>2, Joined
<1>5. /\ q \in Seq(ToServer) /\ Len(q) = G + (n - a) + C
      /\ \A i \in 1..(G + (n - a)) : q[i] = (p \o f)[i]
      /\ \A i \in 1..C : q[G + (n - a) + i] = e[i]
  <2> DEFINE r == p \o f
  <2>1. r \in Seq(ToServer) /\ Len(r) = G + (n - a)
    BY <1>4
  <2> HIDE DEF r
  <2>2. /\ r \o e \in Seq(ToServer) /\ Len(r \o e) = G + (n - a) + C
        /\ \A i \in 1..(G + (n - a)) : (r \o e)[i] = r[i]
        /\ \A i \in 1..C : (r \o e)[G + (n - a) + i] = e[i]
    BY <1>3, <2>1, Joined
  <2> QED BY <2>2 DEF r
<1> HIDE DEF q
<1>6. \A i \in 1..(n - a) : q[G + i] = [type |-> "frame", n |-> a + i - 1]
  <2> TAKE i \in 1..(n - a)
  <2>1. G + i \in 1..(G + (n - a))
    BY <1>1
  <2> QED BY <1>2, <1>4, <1>5, <2>1
<1>7. ASSUME NEW i \in 1..Len(q)
      PROVE  \/ i = 1 /\ g # NoGap /\ q[i] = g
             \/ i > G /\ i <= G + (n - a) /\ q[i].type = "frame" /\ q[i].n = a + i - G - 1
             \/ i = Len(q) /\ c /\ q[i].type = "close" /\ q[i].n = n - 1
  <2>1. CASE i <= G
    <3>1. i = 1 /\ G = 1 /\ 1 \in 1..G /\ 1 \in 1..(G + (n - a))
      BY <1>1, <2>1
    <3> QED BY <1>1, <1>4, <1>5, <3>1
  <2>2. CASE i > G /\ i <= G + (n - a)
    <3>1. i - G \in 1..(n - a) /\ G + (i - G) = i /\ a + (i - G) - 1 = a + i - G - 1
      BY <1>1, <2>2
    <3>2. q[i] = [type |-> "frame", n |-> a + (i - G) - 1]
      BY <1>6, <3>1
    <3> QED BY <2>2, <3>1, <3>2
  <2>3. CASE i > G + (n - a)
    <3>1. i = G + (n - a) + 1 /\ C = 1 /\ i = Len(q) /\ 1 \in 1..C
      BY <1>1, <1>3, <1>5, <2>3
    <3>2. q[i] = e[1]
      BY <1>5, <3>1
    <3> QED BY <1>3, <3>1, <3>2
  <2>4. i \in Int /\ G \in Int /\ n - a \in Int
    BY <1>1
  <2> QED BY <2>1, <2>2, <2>3, <2>4
<1>8. /\ q \in Seq(ToServer) /\ Len(q) = G + (n - a) + C
      /\ \A i \in 1..(n - a) : q[G + i] = [type |-> "frame", n |-> a + i - 1]
      /\ \A i \in 1..Len(q) :
           \/ i = 1 /\ g # NoGap /\ q[i] = g
           \/ i > G /\ i <= G + (n - a) /\ q[i].type = "frame" /\ q[i].n = a + i - G - 1
           \/ i = Len(q) /\ c /\ q[i].type = "close" /\ q[i].n = n - 1
  BY <1>5, <1>6, <1>7
<1> QED BY <1>8 DEF q, p, f, e, C, Replay, IsReplay

\* What the client knows when it reads that its source is ready from n on.
LEMMA ReadyFacts ==
  ASSUME Inv, OnReady, NEW n, n = toCli[ws][1].n
  PROVE  LET f == IF lo >= n THEN lo ELSE n
         IN  /\ n \in Nat /\ n <= next /\ next \in Nat /\ lo \in Nat /\ lo <= next /\ f \in Nat /\ lo <= f /\ f <= next /\ n <= f
             /\ lo' = f
             /\ connected /\ ~ready /\ toSrv[ws] = <<>> /\ rx[ws] = Idle
             /\ \A p \in 0..(f - 1) : p \in dropped \/ (p \in disk /\ p <= db.seq)
             /\ Opened(ws) =>
                  /\ Fresh(ws) /\ acked[ws].seq = n - 1 /\ trk[ws].seq = n - 1 /\ Exact(trk[ws])
                  /\ \A p \in Nat : p \in Upto(trk[ws]) <=> p <= n - 1
                  /\ \A p \in 0..(f - 1) : p \in dropped \/ p <= n - 1
                  /\ f = next => n = next
             /\ \A i \in 1..Len(Tail(toCli[ws])) :
                  /\ Tail(toCli[ws])[i].type \notin {"welcome", "ready"}
                  /\ Tail(toCli[ws])[i].type \in {"ack", "closed"} =>
                       /\ Tail(toCli[ws])[i].n <= db.seq /\ (Opened(ws) => Tail(toCli[ws])[i].n <= acked[ws].seq)
                       /\ Tail(toCli[ws])[i].type = "closed" => Finished
<1> DEFINE f == IF lo >= n THEN lo ELSE n
<1>1. /\ Gets("ready") /\ Received /\ lo' = Released(Head(toCli[ws]).n - 1)
  BY DEF OnReady
<1>2. /\ ws \in Conns /\ Types /\ Client /\ Connection(ws) /\ Database /\ ReleasedIsSafe
      /\ Head(toCli[ws]).n = n /\ toCli[ws][1].type = "ready" /\ 1 \in 1..Len(toCli[ws])
      /\ \A i \in 1..Len(Tail(toCli[ws])) : i + 1 \in 1..Len(toCli[ws]) /\ i + 1 # 1 /\ Tail(toCli[ws])[i] = toCli[ws][i + 1]
  BY <1>1, Arrived DEF Inv
<1>3. Handshake(ws) /\ Resuming(ws) /\ Tracking(ws)
  BY <1>2 DEF Connection
<1>4. /\ connected /\ ~Streaming(ws) /\ toSrv[ws] = <<>> /\ rx[ws] = Idle
      /\ n - 1 <= db.seq /\ n \in Nat /\ (Opened(ws) => Fresh(ws) /\ n = acked[ws].seq + 1)
  BY <1>2, <1>3 DEF Handshake
<1>5. /\ next \in Nat /\ lo \in Nat /\ lo <= next /\ db.seq \in Int /\ acked[ws].seq \in Int /\ db.seq < next
      /\ dropped \subseteq Nat
  BY <1>2, Numbers DEF Database
<1>6. n <= next /\ (n - 1) + 1 = n /\ f \in Nat /\ lo <= f /\ f <= next /\ n <= f
  BY <1>4, <1>5
<1>7. lo' = f
  <2>1. Min({(n - 1) + 1, next}) = n
    BY <1>4, <1>5, <1>6, MinOfTwo
  <2>2. Max({lo, n}) = f
    BY <1>4, <1>5, MaxOfTwo
  <2> QED BY <1>1, <1>2, <2>1, <2>2 DEF Released
<1>8. ~ready
  BY <1>4 DEF Streaming
<1>9. \A p \in 0..(f - 1) : p \in 0..(lo - 1) \/ p <= n - 1
  BY <1>4, <1>5
<1> HIDE DEF f
<1>10. ASSUME NEW p \in 0..(f - 1) PROVE p \in dropped \/ (p \in disk /\ p <= db.seq)
  <2>1. CASE p \in 0..(lo - 1)
    BY <1>2, <2>1 DEF ReleasedIsSafe
  <2>2. CASE p <= n - 1
    <3>1. p \in 0..db.seq
      BY <1>4, <1>5, <1>6, <2>2
    <3> QED BY <1>2, <3>1 DEF Database
  <2> QED BY <1>9, <2>1, <2>2
<1>11. ASSUME Opened(ws)
       PROVE  /\ Fresh(ws) /\ acked[ws].seq = n - 1 /\ trk[ws].seq = n - 1 /\ Exact(trk[ws])
              /\ \A p \in Nat : p \in Upto(trk[ws]) <=> p <= n - 1
              /\ \A p \in 0..(f - 1) : p \in dropped \/ p <= n - 1
              /\ f = next => n = next
  <2>1. Fresh(ws) /\ acked[ws].seq = n - 1
    BY <1>4, <1>5, <1>11
  <2>2. trk[ws].seq = n - 1 /\ Pending(trk[ws]) = {} /\ trk[ws].end = trk[ws].seq + 1
    BY <1>3, <1>11, <2>1 DEF Fresh, Tracking
  <2>3. Exact(trk[ws])
    BY <2>2 DEF Exact
  <2>4. \A p \in Nat : p \in Upto(trk[ws]) <=> p <= n - 1
    BY <2>2 DEF Upto
  <2>5. \A p \in 0..(f - 1) : p \in dropped \/ p <= n - 1
    BY <1>3, <1>9, <1>11, <2>1 DEF Resuming
  <2>6. f = next => n = next
    <3> SUFFICES ASSUME f = next, n # next PROVE FALSE
      OBVIOUS
    <3>1. next - 1 \in 0..(f - 1) /\ ~(next - 1 <= n - 1)
      BY <1>4, <1>5, <1>6
    <3> QED BY <1>2, <2>5, <3>1 DEF Client
  <2> QED BY <2>1, <2>2, <2>3, <2>4, <2>5, <2>6
<1>12. ASSUME NEW i \in 1..Len(Tail(toCli[ws]))
       PROVE  /\ Tail(toCli[ws])[i].type \notin {"welcome", "ready"}
              /\ Tail(toCli[ws])[i].type \in {"ack", "closed"} =>
                   /\ Tail(toCli[ws])[i].n <= db.seq /\ (Opened(ws) => Tail(toCli[ws])[i].n <= acked[ws].seq)
                   /\ Tail(toCli[ws])[i].type = "closed" => Finished
  <2> DEFINE x == i + 1
  <2>1. x \in 1..Len(toCli[ws]) /\ x # 1 /\ Tail(toCli[ws])[i] = toCli[ws][x]
    BY <1>2
  <2> HIDE DEF x
  <2> QED BY <1>3, <2>1 DEF Handshake
<1>13. /\ n \in Nat /\ n <= next /\ next \in Nat /\ lo \in Nat /\ lo <= next /\ f \in Nat /\ lo <= f /\ f <= next /\ n <= f
       /\ lo' = f
  BY <1>4, <1>5, <1>6, <1>7
<1> QED BY <1>4, <1>8, <1>10, <1>11, <1>12, <1>13 DEF f

\* The client resumes where the server asks it to.
LEMMA OnReadyKeeps ==
  ASSUME Inv, OnReady, UNCHANGED serverVars
  PROVE  Inv'
<1> USE DEF serverVars, connVars, dbVars
<1>0. PICK g : g = pendingGap
  OBVIOUS
<1>19. PICK G : G = IF g = NoGap THEN 0 ELSE 1
  OBVIOUS
<1>20. PICK c \in BOOLEAN : c = (closeSent' # closeSent)
  OBVIOUS
<1> DEFINE q == (IF pendingGap = NoGap THEN <<>> ELSE <<pendingGap>>)
                \o Frames(lo', next - 1) \o (IF c THEN <<Close(next - 1)>> ELSE <<>>)
<1>1. /\ Gets("ready") /\ Received /\ ready' = TRUE /\ pendingGap' = NoGap
      /\ closeSent' = (closeSent \/ MayClose(connected, TRUE, stopped, lo', NoGap, closeSent))
      /\ toSrv' = IF q # <<>> /\ up[ws] THEN [toSrv EXCEPT ![ws] = @ \o q] ELSE toSrv
      /\ UNCHANGED <<up, ws, live, connected, fatal, next, stopped, closeAcked, dropped, congested>>
  BY <1>20 DEF OnReady, Send, Queued
<1>2. /\ ws \in Conns /\ live /\ Types /\ Client /\ Connection(ws) /\ NoFalseGap
      /\ \A j \in Conns : toCli'[j] = IF j = ws THEN Tail(toCli[ws]) ELSE toCli[j]
      /\ toCli' \in [Conns -> Seq(ToClient)]
      /\ \A i \in 1..Len(Tail(toCli[ws])) : i + 1 \in 1..Len(toCli[ws]) /\ i + 1 # 1 /\ Tail(toCli[ws])[i] = toCli[ws][i + 1]
      /\ ph[ws] # "off" /\ ph[ws] # "joining" /\ ~(ws > ws) /\ ws <= ws /\ (up[ws] => ph[ws] = "on")
  BY <1>1, Arrived DEF Inv
<1>3. PICK n : n = toCli[ws][1].n
  OBVIOUS
<1>4. PICK f : f = IF lo >= n THEN lo ELSE n
  OBVIOUS
<1>5. /\ n \in Nat /\ n <= next /\ next \in Nat /\ lo \in Nat /\ lo <= next /\ f \in Nat /\ lo <= f /\ f <= next /\ n <= f
      /\ lo' = f
  BY <1>3, <1>4, ReadyFacts
<1>6. /\ connected /\ ~ready /\ toSrv[ws] = <<>> /\ rx[ws] = Idle
      /\ \A p \in 0..(f - 1) : p \in dropped \/ (p \in disk /\ p <= db.seq)
      /\ Opened(ws) =>
           /\ Fresh(ws) /\ acked[ws].seq = n - 1 /\ trk[ws].seq = n - 1 /\ Exact(trk[ws])
           /\ \A p \in Nat : p \in Upto(trk[ws]) <=> p <= n - 1
           /\ \A p \in 0..(f - 1) : p \in dropped \/ p <= n - 1
           /\ f = next => n = next
  BY <1>3, <1>4, ReadyFacts
<1>7. \A i \in 1..Len(Tail(toCli[ws])) :
        /\ Tail(toCli[ws])[i].type \notin {"welcome", "ready"}
        /\ Tail(toCli[ws])[i].type \in {"ack", "closed"} =>
             /\ Tail(toCli[ws])[i].n <= db.seq /\ (Opened(ws) => Tail(toCli[ws])[i].n <= acked[ws].seq)
             /\ Tail(toCli[ws])[i].type = "closed" => Finished
  BY <1>3, <1>4, ReadyFacts
<1>8. /\ closeSent \in BOOLEAN /\ closeSent' \in BOOLEAN /\ c \in BOOLEAN
      /\ (c => closeSent' /\ stopped /\ lo' = next) /\ (closeSent => closeSent')
      /\ (closeSent' => closeSent \/ c)
  BY <1>1, <1>2, <1>20 DEF Types, MayClose
<1>9. g = NoGap \/ (g \in ToServer /\ g.type = "gap")
  BY <1>0, <1>2 DEF Types, ToServer
<1>10. /\ q \in Seq(ToServer)
       /\ Len(q) = G + (next - f) + (IF c THEN 1 ELSE 0)
       /\ \A i \in 1..(next - f) : q[G + i] = [type |-> "frame", n |-> f + i - 1]
       /\ \A i \in 1..Len(q) :
            \/ i = 1 /\ g # NoGap /\ q[i] = g
            \/ i > G /\ i <= G + (next - f) /\ q[i].type = "frame" /\ q[i].n = f + i - G - 1
            \/ i = Len(q) /\ c /\ q[i].type = "close" /\ q[i].n = next - 1
  <2> DEFINE r == Replay(g, f, next, c)
  <2>1. q = r
    BY <1>0, <1>5 DEF Replay
  <2>2. /\ r \in Seq(ToServer)
        /\ Len(r) = G + (next - f) + (IF c THEN 1 ELSE 0)
        /\ \A i \in 1..(next - f) : r[G + i] = [type |-> "frame", n |-> f + i - 1]
        /\ \A i \in 1..Len(r) :
             \/ i = 1 /\ g # NoGap /\ r[i] = g
             \/ i > G /\ i <= G + (next - f) /\ r[i].type = "frame" /\ r[i].n = f + i - G - 1
             \/ i = Len(r) /\ c /\ r[i].type = "close" /\ r[i].n = next - 1
    <3> DEFINE N == next
    <3>1. N \in Nat /\ f \in Nat /\ f <= N
      BY <1>5
    <3> HIDE DEF N
    <3>2. IsReplay(Replay(g, f, N, c), g, f, N, c, G)
      BY <1>9, <1>19, <3>1, Replayed
    <3> QED BY <3>2 DEF N, IsReplay
  <2> HIDE DEF q, r
  <2> QED BY <2>1, <2>2
<1>11. G \in {0, 1} /\ (G = 1 <=> g # NoGap)
  BY <1>19
<1> HIDE DEF q
<1>12. /\ toSrv' \in [Conns -> Seq(ToServer)]
       /\ \A j \in Conns : j # ws => toSrv'[j] = toSrv[j]
       /\ toSrv'[ws] = IF up[ws] THEN q ELSE <<>>
  <2>1. <<>> \o q = q /\ toSrv[ws] = <<>>
    BY <1>6, <1>10
  <2> QED BY <1>1, <1>2, <1>10, <2>1 DEF Types
<1>13. Types'
  <2>1. pendingGap' \in [type : {"gap"}, from : Nat, to : Nat, start : Nat, lost : Nat] \cup {NoGap}
    BY <1>1
  <2>2. lo' \in 0..next'
    BY <1>1, <1>5
  <2>3. ready' \in BOOLEAN
    BY <1>1
  <2> QED BY <1>1, <1>2, <1>8, <1>12, <2>1, <2>2, <2>3 DEF Types
<1>14. next' = next /\ dropped' = dropped /\ Growth /\ (Finished => Finished')
  <2>1. next' = next /\ dropped' = dropped /\ stopped' = stopped /\ lo <= lo' /\ (lo = next => lo' = next) /\ next <= next' /\ db.seq <= db.seq
    BY <1>1, <1>2, <1>5 DEF Types, Checkpoints
  <2> QED BY <2>1 DEF Growth, Finished
<1>15. \A j \in Conns : j # ws' => Same(j) /\ Elsewhere(j)
  BY <1>1, <1>2, <1>12, MaxConnsAssumption DEF Types, Same, Elsewhere
<1>16. Client'
  <2>1. closeSent' \/ closeAcked' => Finished'
    <3>1. closeSent \/ closeAcked => Finished
      BY <1>2 DEF Client
    <3>2. c => Finished'
      BY <1>1, <1>8 DEF Finished
    <3> QED BY <1>1, <1>8, <1>14, <3>1, <3>2
  <2>2. \A p \in dropped' : p < lo'
    <3>1. \A p \in dropped : p < lo /\ p \in Nat
      BY <1>2 DEF Client, Types
    <3> QED BY <1>5, <1>14, <3>1
  <2> QED BY <1>1, <1>2, <1>6, <1>14, <2>1, <2>2 DEF Client
<1>17. ReleasedIsSafe'
  BY <1>5, <1>6, <1>14 DEF ReleasedIsSafe
<1>18. ASSUME NEW j \in Conns, j = ws' PROVE Connection(j)'
  <2>1. Connection(j) /\ j = ws /\ ws' = j
    BY <1>1, <1>2, <1>18
  <2>2. /\ toSrv'[j] = (IF up[j] THEN q ELSE <<>>) /\ toSrv[j] = <<>> /\ rx[j] = Idle
        /\ toCli'[j] = Tail(toCli[j]) /\ Streaming(j)' /\ Len(<<>>) = 0
    BY <1>1, <1>2, <1>6, <1>12, <2>1 DEF Streaming
  <2>3. \A i \in 1..Len(toSrv'[j]) :
          /\ up[j] /\ Len(toSrv'[j]) = Len(q) /\ i \in 1..Len(q) /\ toSrv'[j][i] = q[i]
          /\ \/ i = 1 /\ g # NoGap /\ toSrv'[j][i] = g /\ toSrv'[j][i].type = "gap"
             \/ i > G /\ i <= G + (next - f) /\ toSrv'[j][i].type = "frame" /\ toSrv'[j][i].n = f + i - G - 1
             \/ i = Len(toSrv'[j]) /\ c /\ toSrv'[j][i].type = "close" /\ toSrv'[j][i].n = next - 1
    BY <1>9, <1>10, <2>2
  <2>4. /\ Opened(j)' = Opened(j) /\ Passed(j)' = Passed(j) /\ (Fresh(j) => Fresh(j)')
        /\ Passed(j) = Upto(trk[j]) /\ closed' = closed /\ trk' = trk /\ acked' = acked
    <3>1. rx[j].op # "write"
      BY <2>2 DEF Idle
    <3> QED BY <1>1, <3>1 DEF Opened, Passed, Fresh
  <2> HIDE DEF serverVars, connVars, dbVars
  <2>5. Opened(j) =>
           /\ Fresh(j) /\ acked[j].seq = n - 1 /\ trk[j].seq = n - 1 /\ Exact(trk[j])
           /\ \A p \in Nat : p \in Upto(trk[j]) <=> p <= n - 1
           /\ \A p \in 0..(f - 1) : p \in dropped \/ p <= n - 1
           /\ f = next => n = next
    BY <1>6, <2>1
  <2>6. Socket(j)'
    <3> USE DEF serverVars, connVars
    <3>1. \A i \in 1..Len(toCli'[j]) : toCli'[j][i].type = "superseded" => ~up[j]
      <4>1. \A i \in 1..Len(toCli[j]) : toCli[j][i].type = "superseded" => ~up[j]
        BY <2>1 DEF Connection, Socket
      <4> QED BY <1>2, <2>1, <2>2, <4>1
    <3> QED BY <1>1, <1>2, <2>1, <3>1 DEF Connection, Socket
  <2>7. Phase(j)'
    <3> USE DEF serverVars, connVars
    <3>1. \A i \in 1..Len(toSrv'[j]) : toSrv'[j][i].type # "hello"
      BY <2>3
    <3>2. ph[j] \in {"closing", "leaving", "done"} => ~up[j] /\ toSrv'[j] = <<>>
      BY <2>1, <2>2 DEF Connection, Phase
    <3> QED BY <1>1, <1>2, <1>14, <2>1, <2>4, <3>1, <3>2 DEF Connection, Phase
  <2>8. Handshake(j)'
    <3> USE DEF serverVars, connVars, dbVars
    <3>1. ~Opening(j)' /\ rx'[j].op # "open" /\ \A i \in 1..Len(toSrv'[j]) : toSrv'[j][i].type # "open"
      BY <2>2, <2>3 DEF Opening, Idle
    <3>2. \A i \in 1..Len(toCli'[j]) :
             /\ toCli'[j][i].type \notin {"welcome", "ready"}
             /\ toCli'[j][i].type \in {"ack", "closed"} =>
                  /\ toCli'[j][i].n <= db.seq /\ (Opened(j) => toCli'[j][i].n <= acked[j].seq)
                  /\ toCli'[j][i].type = "closed" => Finished'
      BY <1>7, <1>14, <2>1, <2>2
    <3> QED BY <2>2, <2>4, <3>1, <3>2 DEF Handshake
  <2>9. Tracking(j)'
    BY <1>14, <2>1, <2>4, <2>5 DEF Connection, Tracking, serverVars, connVars, dbVars
  <2>10. ReceiveLoop(j)' /\ TickLoop(j)'
    BY <1>2, <1>13, <1>14, <2>1, ReceiverAside, TickerAside DEF Connection, serverVars, connVars, dbVars
  <2>11. \A p \in f..(next - 1) : up[j] => /\ G + p - f + 1 \in 1..Len(toSrv'[j]) /\ IsFrame(j, G + p - f + 1, p)'
    <3> SUFFICES ASSUME NEW p \in f..(next - 1), up[j], NEW i, i = p - f + 1
                 PROVE  G + p - f + 1 \in 1..Len(toSrv'[j]) /\ toSrv'[j][G + p - f + 1].type = "frame" /\ toSrv'[j][G + p - f + 1].n = p
      BY DEF IsFrame
    <3>1. i \in 1..(next - f) /\ f + i - 1 = p /\ G + i = G + p - f + 1 /\ G + i \in 1..Len(q)
      BY <1>5, <1>10, <1>11
    <3>2. q[G + i] = [type |-> "frame", n |-> f + i - 1]
      BY <1>10, <3>1
    <3> QED BY <2>2, <3>1, <3>2
  <2>12. InOrder(j)'
    <3>1. ASSUME NEW i \in 1..Len(toSrv'[j]), toSrv'[j][i].type = "frame"
          PROVE  i > G /\ i <= G + (next - f) /\ toSrv'[j][i].n = f + i - G - 1
      BY <2>3, <3>1
    <3>2. \A i, m \in 1..Len(toSrv'[j]) :
             i < m /\ toSrv'[j][i].type = "frame" /\ toSrv'[j][m].type = "frame" => toSrv'[j][i].n < toSrv'[j][m].n
      BY <1>5, <1>11, <3>1
    <3>3. ASSUME NEW m \in 1..Len(toSrv'[j]), toSrv'[j][m].type = "frame"
          PROVE  /\ toSrv'[j][m].n \in 0..(next - 1)
                 /\ Opened(j) => /\ toSrv'[j][m].n \notin Passed(j)
                                 /\ \A p \in 0..(toSrv'[j][m].n - 1) :
                                      p \in Passed(j) \cup dropped \/ \E i \in 1..(m - 1) : IsFrame(j, i, p)'
      <4> DEFINE x == f + m - G - 1
      <4>1. m > G /\ m <= G + (next - f) /\ toSrv'[j][m].n = x /\ x \in 0..(next - 1) /\ x >= f /\ up[j]
        BY <1>5, <1>11, <2>3, <3>1, <3>3
      <4>2. Opened(j) => x \notin Passed(j)
        BY <1>5, <2>4, <2>5, <4>1
      <4>3. ASSUME Opened(j), NEW p \in 0..(x - 1)
            PROVE  p \in Passed(j) \cup dropped \/ \E i \in 1..(m - 1) : IsFrame(j, i, p)'
        <5>1. CASE p < f
          <6>1. p \in 0..(f - 1) /\ p \in Nat
            BY <1>5, <5>1
          <6> QED BY <2>4, <2>5, <4>3, <6>1
        <5>2. CASE p >= f
          <6>1. p \in Int /\ p <= x - 1 /\ x = f + m - G - 1 /\ x <= next - 1 /\ m \in Int
            BY <4>1
          <6>2. p \in f..(next - 1) /\ G + p - f + 1 \in 1..(m - 1)
            <7> HIDE DEF x
            <7> QED BY <1>5, <1>11, <5>2, <6>1
          <6> QED BY <2>11, <4>1, <6>2
        <5> QED BY <5>1, <5>2, <1>5
      <4> HIDE DEF x
      <4> QED BY <4>1, <4>2, <4>3
    <3> QED BY <1>14, <2>4, <3>2, <3>3 DEF InOrder
  <2>13. Reports(j)'
    <3>1. ASSUME NEW i \in 1..Len(toSrv'[j]), toSrv'[j][i].type = "gap"
          PROVE  i = 1 /\ toSrv'[j][i] = g /\ g # NoGap /\ up[j]
      BY <2>3, <3>1
    <3>2. SUFFICES ASSUME g # NoGap, up[j]
                   PROVE  /\ Sound(g)'
                          /\ \A m \in 2..Len(toSrv'[j]) : toSrv'[j][m].type = "frame" => g.to < toSrv'[j][m].n
                          /\ Opened(j) =>
                               /\ \A p \in 0..(g.to) : p \in dropped \/ p <= trk[j].seq
                               /\ g.to > trk[j].seq =>
                                    Len(toSrv'[j]) # 1 /\ toSrv'[j][2].type = "frame" /\ toSrv'[j][2].n = g.to + 1
      <4>1. Opened(j)' = Opened(j) /\ (Opened(j) => Fresh(j)') /\ dropped' = dropped /\ trk' = trk /\ up' = up
        BY <1>1, <1>14, <2>4, <2>5
      <4> QED BY <3>1, <4>1 DEF Reports, IsFrame
    <3>3. Sound(g) /\ \A p \in dropped : p <= g.to
      BY <1>0, <1>2, <3>2 DEF Client
    <3>4. g.to \in Nat /\ g.to < lo
      BY <3>3, SoundFacts
    <3>5. Sound(g)'
      BY <1>2, <1>13, <1>14, <3>3, SoundStays
    <3>6. ASSUME NEW m \in 2..Len(toSrv'[j]), toSrv'[j][m].type = "frame" PROVE g.to < toSrv'[j][m].n
      <4>1. m \in 1..Len(toSrv'[j])
        OBVIOUS
      <4>2. m > G /\ toSrv'[j][m].n = f + m - G - 1
        BY <2>3, <3>6, <4>1
      <4> QED BY <1>5, <1>11, <3>4, <4>2
    <3>7. ASSUME Opened(j)
          PROVE  /\ \A p \in 0..(g.to) : p \in dropped \/ p <= trk[j].seq
                 /\ g.to > trk[j].seq =>
                      Len(toSrv'[j]) # 1 /\ toSrv'[j][2].type = "frame" /\ toSrv'[j][2].n = g.to + 1
      <4>1. \A p \in 0..(f - 1) : p \in dropped \/ p <= n - 1
        BY <2>5, <3>7
      <4>2. \A p \in 0..(g.to) : p \in dropped \/ p <= trk[j].seq
        BY <1>5, <2>5, <3>4, <3>7, <4>1
      <4>3. ASSUME g.to > n - 1 PROVE f = g.to + 1 /\ f < next
        <5>1. f = lo
          BY <1>4, <1>5, <3>4, <4>3
        <5>2. g.to + 1 \in 0..(f - 1) => g.to + 1 \notin dropped /\ ~(g.to + 1 <= n - 1)
          BY <1>5, <3>3, <3>4, <4>3
        <5>3. f = g.to + 1
          BY <1>5, <3>4, <4>1, <5>1, <5>2
        <5>4. f # next
          BY <1>5, <2>5, <3>4, <3>7, <4>3, <5>3
        <5> QED BY <1>5, <5>3, <5>4
      <4>4. ASSUME g.to > n - 1 PROVE Len(toSrv'[j]) # 1 /\ toSrv'[j][2].type = "frame" /\ toSrv'[j][2].n = g.to + 1
        <5>1. G = 1 /\ 1 \in 1..(next - f) /\ Len(q) >= 2
          <6>1. G = 1 /\ f < next /\ Len(q) = 1 + (next - f) + (IF c THEN 1 ELSE 0)
            BY <1>10, <1>11, <3>2, <4>3, <4>4
          <6>2. (IF c THEN 1 ELSE 0) \in {0, 1}
            OBVIOUS
          <6> QED BY <1>5, <6>1, <6>2
        <5>2. q[2] = [type |-> "frame", n |-> f]
          <6>1. q[G + 1] = [type |-> "frame", n |-> f + 1 - 1]
            BY <1>10, <5>1
          <6>2. G + 1 = 2 /\ f + 1 - 1 = f
            BY <1>5, <5>1
          <6> QED BY <6>1, <6>2
        <5> QED BY <2>2, <3>2, <4>3, <4>4, <5>1, <5>2
      <4> QED BY <2>5, <3>7, <4>2, <4>4
    <3> QED BY <3>5, <3>6, <3>7
  <2>14. Closing(j)'
    <3>1. ASSUME NEW i \in 1..Len(toSrv'[j]), toSrv'[j][i].type = "close"
          PROVE  i = Len(toSrv'[j]) /\ c /\ toSrv'[j][i].n = next - 1
      BY <2>3, <3>1
    <3>2. c => Finished' /\ closeSent'
      BY <1>1, <1>8 DEF Finished
    <3>3. c /\ Opened(j) => acked[j].seq = next - 1
      BY <1>5, <1>8, <2>5
    <3> QED BY <1>14, <2>4, <3>1, <3>2, <3>3 DEF Closing
  <2>15. Resuming(j)'
    <3>1. rx'[j].op # "open"
      BY <2>2 DEF Idle, serverVars, connVars
    <3>2. Opened(j) => \A p \in 0..(f - 1) : p \in dropped \/ p <= acked[j].seq
      BY <2>5
    <3>3. ASSUME Opened(j), up[j], NEW p \in 0..(next - 1)
          PROVE  p \in Passed(j) \cup dropped \/ \E i \in 1..Len(toSrv'[j]) : IsFrame(j, i, p)'
      <4>1. CASE p < f
        <5>1. p \in 0..(f - 1) /\ p \in Nat
          BY <1>5, <4>1
        <5> QED BY <2>4, <2>5, <3>3, <5>1
      <4>2. CASE p >= f
        <5>1. p \in f..(next - 1)
          BY <1>5, <4>2
        <5> QED BY <2>11, <3>3, <5>1
      <4> QED BY <4>1, <4>2, <1>5
    <3>4. up' = up
      BY <1>1
    <3> QED BY <1>5, <1>14, <2>4, <3>1, <3>2, <3>3, <3>4 DEF Resuming
  <2> QED BY <2>6, <2>7, <2>8, <2>9, <2>10, <2>12, <2>13, <2>14, <2>15 DEF Connection
<1> QED BY <1>13, <1>14, <1>15, <1>16, <1>17, <1>18, ClientStepKeeps

-----------------------------------------------------------------------------
(* The client sends a frame or a source_close, or only reads an ACK. *)

\* A step of the client on the connection j: it may take an ACK (taken) and put
\* the message m into the queue to the server (sent).
Exchange(j, m, taken, sent) ==
  /\ UNCHANGED <<up, ws, live, connected, ready>>
  /\ toCli'[j] = (IF taken THEN Tail(toCli[j]) ELSE toCli[j])
  /\ taken => toCli[j] # <<>> /\ toCli[j][1].type \in {"ack", "closed"}
  /\ m \in ToServer
  /\ toSrv'[j] = (IF sent THEN toSrv[j] \o <<m>> ELSE toSrv[j])
  /\ sent => /\ up[j] /\ ready
             /\ \A i \in 1..Len(toSrv[j]) : toSrv[j][i].type # "close"
             /\ \/ m.type = "frame" /\ m.n = next /\ next' = next + 1
                \/ /\ m.type = "close" /\ m.n = next - 1 /\ next' = next /\ Finished' /\ closeSent'
                   /\ Opened(j) => acked[j].seq = next - 1
  /\ \/ next' = next
     \/ next' = next + 1 /\ ~Finished /\ (up[j] /\ ready => sent)
  /\ live /\ closeSent => closeSent'
  /\ \A p \in 0..(lo' - 1) : p \in 0..(lo - 1) \/ p \in dropped' \/ ((Opened(j) => p <= acked[j].seq) /\ rx[j].op # "open")

\* Each part of the invariant after an exchange.
LEMMA ExchangeKeeps ==
  ASSUME Inv, Types', Growth, UNCHANGED serverVars, NEW j \in Conns, j = ws, NEW m,
         NEW taken \in BOOLEAN, NEW sent \in BOOLEAN, Exchange(j, m, taken, sent)
  PROVE  Connection(j)'
<1>1. Types /\ Client /\ Connection(j) /\ ws' = j /\ Streaming(j)' = Streaming(j) /\ (Streaming(j) <=> ready)
  BY DEF Inv, Exchange, Streaming
<1>2. /\ toSrv[j] \in Seq(ToServer) /\ toSrv'[j] \in Seq(ToServer) /\ toCli[j] \in Seq(ToClient)
      /\ next \in Int /\ next' \in Int /\ next \in Nat /\ acked[j].seq \in Int
      /\ next <= next' /\ (Finished => Finished' /\ next' = next) /\ dropped \subseteq dropped' /\ dropped \subseteq Nat
      /\ rx[j].n \in Int
  <2>1. next <= next' /\ dropped \subseteq dropped' /\ (Finished => Finished' /\ next' = next)
    BY DEF Growth, Exchange
  <2> QED BY <1>1, <2>1, Numbers, NumbersNext
<1>3. 0..(next - 1) \subseteq 0..(next' - 1)
  <2>1. \A a, b \in Int : a <= b => 0..(a - 1) \subseteq 0..(b - 1)
    OBVIOUS
  <2> QED BY <1>2, <2>1
<1>4. /\ Opened(j)' = Opened(j) /\ Passed(j)' = Passed(j) /\ (Fresh(j) => Fresh(j)')
      /\ rx' = rx /\ tk' = tk /\ trk' = trk /\ acked' = acked /\ closed' = closed /\ closedSeq' = closedSeq /\ ph' = ph
      /\ buf' = buf /\ dirty' = dirty /\ db' = db /\ disk' = disk
  BY DEF Opened, Passed, Fresh, serverVars, connVars, dbVars
\* The queue to the server.
<1>5. /\ \A i \in 1..Len(toSrv[j]) : i \in 1..Len(toSrv'[j]) /\ toSrv'[j][i] = toSrv[j][i]
      /\ ~sent => toSrv'[j] = toSrv[j]
      /\ sent => Len(toSrv'[j]) = Len(toSrv[j]) + 1 /\ toSrv'[j][Len(toSrv[j]) + 1] = m
      /\ Len(toSrv[j]) \in Nat
  <2>1. CASE sent
    <3>1. m \in ToServer /\ toSrv'[j] = toSrv[j] \o <<m>>
      BY <2>1 DEF Exchange
    <3>2. /\ Len(toSrv[j]) \in Nat /\ Len(toSrv'[j]) = Len(toSrv[j]) + 1 /\ toSrv'[j][Len(toSrv[j]) + 1] = m
          /\ \A i \in 1..Len(toSrv[j]) : toSrv'[j][i] = toSrv[j][i]
      BY <1>2, <3>1, Appended
    <3> QED BY <2>1, <3>2
  <2>2. CASE ~sent
    BY <1>2, <2>2 DEF Exchange
  <2> QED BY <2>1, <2>2
<1>6. \A i \in 1..Len(toSrv'[j]) :
        \/ i \in 1..Len(toSrv[j]) /\ toSrv'[j][i] = toSrv[j][i]
        \/ sent /\ i = Len(toSrv[j]) + 1 /\ toSrv'[j][i] = m
  BY <1>5
<1>7. sent => /\ up[j] /\ ready /\ Streaming(j)
              /\ \A i \in 1..Len(toSrv[j]) : toSrv[j][i].type # "close"
              /\ \/ m.type = "frame" /\ m.n = next /\ next' = next + 1
                 \/ /\ m.type = "close" /\ m.n = next - 1 /\ next' = next /\ Finished' /\ closeSent'
                    /\ Opened(j) => acked[j].seq = next - 1
  BY <1>1 DEF Exchange
<1>8. sent => connected /\ ~Opening(j) /\ ph[j] = "on"
  <2> SUFFICES ASSUME sent PROVE connected /\ ~Opening(j) /\ ph[j] = "on"
    OBVIOUS
  <2>1. connected /\ ~Opening(j)
    BY <1>1, <1>7 DEF Client, Connection, Handshake
  <2>2. ph[j] \in {"off", "joining", "on", "closing", "leaving", "done"} /\ ws = j
    BY <1>1 DEF Types
  <2> QED BY <1>1, <1>7, <2>1, <2>2 DEF Connection, Socket, Phase
\* The queue to the client.
<1>9. \A i \in 1..Len(toCli'[j]) :
         \/ ~taken /\ toCli'[j] = toCli[j]
         \/ taken /\ i + 1 \in 1..Len(toCli[j]) /\ i + 1 # 1 /\ toCli'[j][i] = toCli[j][i + 1]
  <2>1. taken => \A i \in 1..Len(Tail(toCli[j])) : i + 1 \in 2..Len(toCli[j]) /\ Tail(toCli[j])[i] = toCli[j][i + 1]
    BY <1>2, TailWithin DEF Exchange
  <2>2. \A i \in 2..Len(toCli[j]) : i \in 1..Len(toCli[j]) /\ i # 1
    OBVIOUS
  <2> QED BY <2>1, <2>2 DEF Exchange
<1>10. taken => Streaming(j) /\ 1 \in 1..Len(toCli[j]) /\ toCli[j] # <<>> /\ toCli[j][1].type \in {"ack", "closed"}
  <2> SUFFICES ASSUME taken PROVE Streaming(j) /\ 1 \in 1..Len(toCli[j]) /\ toCli[j] # <<>> /\ toCli[j][1].type \in {"ack", "closed"}
    OBVIOUS
  <2>1. toCli[j] # <<>> /\ toCli[j][1].type \in {"ack", "closed"} /\ 1 \in 1..Len(toCli[j])
    BY <1>2 DEF Exchange
  <2> QED BY <1>1, <2>1 DEF Connection, Handshake
<1>11. up' = up /\ live' = live /\ connected' = connected /\ ready' = ready /\ ws' = ws /\ toCli'[j] = (IF taken THEN Tail(toCli[j]) ELSE toCli[j])
  BY DEF Exchange
<1>12. Lagging(j) => Lagging(j)'
  <2> SUFFICES ASSUME Lagging(j) PROVE Lagging(j)'
    OBVIOUS
  <2>1. rx[j].op # "write" => (toSrv'[j] = <<>> /\ ~up[j]) \/ (toSrv'[j] # <<>> /\ IsFrame(j, 1, trk[j].seq + 1)')
    <3> SUFFICES ASSUME rx[j].op # "write" PROVE (toSrv'[j] = <<>> /\ ~up[j]) \/ (toSrv'[j] # <<>> /\ toSrv'[j][1].type = "frame" /\ toSrv'[j][1].n = trk[j].seq + 1)
      BY <1>4 DEF IsFrame
    <3>1. CASE toSrv[j] = <<>>
      <4>1. ~up[j]
        BY <3>1 DEF Lagging
      <4> QED BY <1>5, <1>7, <3>1, <4>1
    <3>2. CASE toSrv[j] # <<>>
      <4>1. 1 \in 1..Len(toSrv[j]) /\ Len(toSrv'[j]) # 0
        BY <1>2, <1>5, <3>2
      <4> QED BY <1>5, <3>2, <4>1 DEF Lagging, IsFrame
    <3> QED BY <3>1, <3>2
  <2> QED BY <1>4, <1>11, <2>1 DEF Lagging
<1>13. Socket(j)'
  <2>1. \A i \in 1..Len(toCli'[j]) : toCli'[j][i].type = "superseded" => ~up[j]
    BY <1>1, <1>9 DEF Connection, Socket
  <2>2. toCli'[j] # <<>> => live
    BY <1>1, <1>10, <1>11 DEF Connection, Socket
  <2>3. ~(j > ws')
    BY <1>1, Numbers
  <2>4. Socket(j)
    BY <1>1 DEF Connection
  <2> QED BY <1>1, <1>4, <1>11, <2>1, <2>2, <2>3, <2>4 DEF Socket
<1>14. Phase(j)'
  <2>1. \A i \in 1..Len(toSrv'[j]) : ph[j] # "off" => toSrv'[j][i].type # "hello"
    BY <1>1, <1>6, <1>7 DEF Connection, Phase
  <2>2. ph[j] # "on" => toSrv'[j] = toSrv[j]
    BY <1>5, <1>8
  <2>3. ph[j] \in {"off", "joining"} => toCli'[j] = toCli[j]
    BY <1>1, <1>10, <1>11 DEF Connection, Phase
  <2> QED BY <1>1, <1>3, <1>4, <1>11, <2>1, <2>2, <2>3 DEF Connection, Phase
<1>15. Handshake(j)'
  <2>1. Handshake(j) /\ (ready => connected)
    BY <1>1 DEF Connection, Client
  <2>2. \A i \in 1..Len(toSrv'[j]) : toSrv'[j][i].type = "open" => ~sent /\ i \in 1..Len(toSrv[j]) /\ toSrv[j][i].type = "open"
    BY <1>6, <1>7, <1>8 DEF Opening
  <2>3. Opening(j)' => Opening(j) /\ ~taken
    <3>1. Opening(j)' => Opening(j)
      BY <1>4, <2>2 DEF Opening
    <3> QED BY <1>10, <2>1, <3>1 DEF Handshake
  <2>4. \A i \in 1..Len(toCli'[j]) : toCli'[j][i].type = "welcome" => ~taken /\ ~sent
    BY <1>7, <1>9, <2>1 DEF Handshake
  <2>5. \A i \in 1..Len(toCli'[j]) : toCli'[j][i].type = "ready" => ~taken /\ ~sent
    BY <1>7, <1>9, <2>1 DEF Handshake
  <2>6. \A i \in 1..Len(toCli'[j]) : toCli'[j][i].type \in {"ack", "closed"} =>
          /\ ~taken => toCli[j][1].type = "ready" \/ Streaming(j)
          /\ toCli'[j][i].n <= db.seq
          /\ Opened(j) => toCli'[j][i].n <= acked[j].seq
          /\ toCli'[j][i].type = "closed" => Finished
    <3> TAKE i \in 1..Len(toCli'[j])
    <3>1. PICK x \in 1..Len(toCli[j]) : toCli'[j][i] = toCli[j][x]
      <4>1. CASE ~taken
        BY <1>11, <4>1
      <4>2. CASE taken
        BY <1>9, <4>2
      <4> QED BY <4>1, <4>2
    <3>2. toCli[j][x].type \in {"ack", "closed"} =>
          /\ toCli[j][1].type = "ready" \/ Streaming(j)
          /\ toCli[j][x].n <= db.seq
          /\ Opened(j) => toCli[j][x].n <= acked[j].seq
          /\ toCli[j][x].type = "closed" => Finished
      BY <2>1 DEF Handshake
    <3> QED BY <3>1, <3>2
  <2>7. up[j] /\ (Opened(j) \/ closedSeq[j] # -2) => Streaming(j) \/ (~taken /\ toCli[j] # <<>> /\ toCli[j][1].type = "ready")
    BY <1>10, <2>1 DEF Handshake
  <2>8. /\ ~taken => toCli'[j] = toCli[j] 
        /\ ~sent => toSrv'[j] = toSrv[j]
    BY <1>5, <1>11
  <2>9. rx[j].op = "open" => toSrv'[j] = <<>>
    BY <1>8, <2>1, <2>8 DEF Handshake, Opening
  <2>10. \A i \in 1..Len(toCli'[j]) : toCli'[j][i].type = "welcome" =>
           /\ i = 1 /\ \A x \in 2..Len(toCli'[j]) : toCli'[j][x].type = "superseded"
           /\ toSrv'[j] = <<>> /\ rx[j] = Idle /\ ~Opened(j) /\ closedSeq[j] = -2 /\ ~connected
    BY <2>1, <2>4, <2>8 DEF Handshake
  <2>11. \A i \in 1..Len(toCli'[j]) : toCli'[j][i].type = "ready" =>
           /\ i = 1 /\ connected /\ ~Streaming(j) /\ toSrv'[j] = <<>> /\ rx[j] = Idle
           /\ toCli'[j][i].n - 1 <= db.seq /\ toCli'[j][i].n \in Nat
           /\ Opened(j) => Fresh(j) /\ toCli'[j][i].n = acked[j].seq + 1
    BY <2>1, <2>5, <2>8 DEF Handshake
  <2>12. \A i \in 1..Len(toSrv'[j]) : toSrv'[j][i].type = "open" => Len(toSrv'[j]) = 1 /\ rx[j] = Idle
    BY <2>1, <2>2, <2>8 DEF Handshake
  <2>13. Opening(j)' =>
       /\ ph[j] = "on" /\ ~Opened(j) /\ closedSeq[j] = -2 /\ ~Streaming(j)
       /\ \A i \in 1..Len(toCli'[j]) : toCli'[j][i].type = "superseded"
       /\ ws = j /\ live => connected
    BY <2>1, <2>3, <2>8 DEF Handshake
  <2>14. \A i \in 1..Len(toCli'[j]) : toCli'[j][i].type \in {"ack", "closed"} =>
           toCli'[j][1].type = "ready" \/ Streaming(j)
    BY <1>10, <2>6, <2>8
  <2> QED BY <1>1, <1>2, <1>4, <1>11, <2>6, <2>7, <2>8, <2>9, <2>10, <2>11, <2>12, <2>13, <2>14 DEF Handshake
<1>16. Tracking(j)' /\ ReceiveLoop(j)' /\ TickLoop(j)'
  BY <1>1, <1>2, <1>4, <1>12, TrackingAside, ReceiverAside, TickerAside DEF Connection
<1>17. \A i, p : i \in 1..Len(toSrv[j]) => IsFrame(j, i, p)' = IsFrame(j, i, p)
  BY <1>5 DEF IsFrame
<1>18. InOrder(j)'
  <2>1. InOrder(j) /\ Tracking(j) /\ ReceiveLoop(j) /\ Resuming(j)
    BY <1>1 DEF Connection
  <2>2. \A i \in 1..Len(toSrv[j]) : toSrv[j][i].type = "frame" => toSrv[j][i].n \in 0..(next - 1)
    BY <2>1 DEF InOrder
  <2>3. \A i, x \in 1..Len(toSrv'[j]) :
          i < x /\ toSrv'[j][i].type = "frame" /\ toSrv'[j][x].type = "frame" => toSrv'[j][i].n < toSrv'[j][x].n
    <3> SUFFICES ASSUME NEW i \in 1..Len(toSrv'[j]), NEW x \in 1..Len(toSrv'[j]), i < x,
                        toSrv'[j][i].type = "frame", toSrv'[j][x].type = "frame"
                 PROVE  toSrv'[j][i].n < toSrv'[j][x].n
      OBVIOUS
    <3>1. CASE x \in 1..Len(toSrv[j])
      <4>1. i \in 1..Len(toSrv[j])
        BY <1>5, <3>1
      <4> QED BY <1>5, <2>1, <3>1, <4>1 DEF InOrder
    <3>2. CASE x \notin 1..Len(toSrv[j])
      <4>1. sent /\ toSrv'[j][x] = m /\ x = Len(toSrv[j]) + 1
        BY <1>6, <3>2
      <4>2. i \in 1..Len(toSrv[j]) /\ m.n = next
        BY <1>5, <1>7, <4>1
      <4> QED BY <1>2, <1>5, <2>2, <4>1, <4>2
    <3> QED BY <3>1, <3>2
  <2>4. ASSUME NEW x \in 1..Len(toSrv'[j]), toSrv'[j][x].type = "frame"
        PROVE  /\ toSrv'[j][x].n \in 0..(next' - 1)
               /\ Opened(j) /\ ~closed[j] =>
                    /\ toSrv'[j][x].n \notin Passed(j)
                    /\ \A p \in 0..(toSrv'[j][x].n - 1) :
                         p \in Passed(j) \cup dropped' \/ \E i \in 1..(x - 1) : IsFrame(j, i, p)'
    <3>1. CASE x \in 1..Len(toSrv[j])
      <4>1. toSrv'[j][x] = toSrv[j][x]
        BY <1>5, <3>1
      <4>2. \A i \in 1..(x - 1) : i \in 1..Len(toSrv[j])
        BY <1>5, <3>1
      <4>3. toSrv[j][x].n \in 0..(next' - 1)
        BY <1>3, <2>1, <2>4, <3>1, <4>1 DEF InOrder
      <4>4. Opened(j) /\ ~closed[j] =>
              /\ toSrv[j][x].n \notin Passed(j)
              /\ \A p \in 0..(toSrv[j][x].n - 1) : p \in Passed(j) \cup dropped \/ \E i \in 1..(x - 1) : IsFrame(j, i, p)
        BY <2>1, <2>4, <3>1, <4>1 DEF InOrder
      <4>5. \A p : \A i \in 1..(x - 1) : IsFrame(j, i, p) => IsFrame(j, i, p)'
        BY <1>17, <4>2
      <4> QED BY <1>2, <4>1, <4>3, <4>4, <4>5
    <3>2. CASE x \notin 1..Len(toSrv[j])
      <4>1. sent /\ toSrv'[j][x] = m /\ x = Len(toSrv[j]) + 1
        BY <1>6, <3>2
      <4>2. m.n = next /\ next' = next + 1 /\ up[j] /\ Streaming(j)
        BY <1>7, <2>4, <4>1
      <4>3. ASSUME Opened(j), ~closed[j] PROVE next \notin Passed(j)
        <5>1. \A p \in Upto(trk[j]) : p < next
          BY <2>1, <4>3 DEF Tracking
        <5>2. rx[j].op = "write" => rx[j].n < next
          BY <1>2, <2>1 DEF ReceiveLoop
        <5> QED BY <1>2, <5>1, <5>2 DEF Passed
      <4>4. ASSUME Opened(j), ~closed[j]
            PROVE  \A p \in 0..(next - 1) : p \in Passed(j) \cup dropped' \/ \E i \in 1..(x - 1) : IsFrame(j, i, p)'
        <5>1. \A p \in 0..(next - 1) : p \in Passed(j) \cup dropped \/ \E i \in 1..Len(toSrv[j]) : IsFrame(j, i, p)
          BY <1>1, <2>1, <4>2, <4>4 DEF Resuming
        <5>2. 1..(x - 1) = 1..Len(toSrv[j])
          BY <1>5, <4>1
        <5> QED BY <1>2, <1>17, <5>1, <5>2
      <4>5. next \in 0..(next' - 1)
        BY <1>2, <4>2
      <4> QED BY <4>1, <4>2, <4>3, <4>4, <4>5
    <3> QED BY <3>1, <3>2
  <2> QED BY <1>4, <2>3, <2>4 DEF InOrder
<1>19. Reports(j)'
  <2>1. Reports(j)
    BY <1>1 DEF Connection
  <2>2. ASSUME NEW i \in 1..Len(toSrv'[j]), toSrv'[j][i].type = "gap"
        PROVE  /\ i \in 1..Len(toSrv[j]) /\ i = 1 /\ toSrv[j][i].type = "gap" /\ toSrv'[j][i] = toSrv[j][i] /\ Sound(toSrv[j][i])
    <3>1. i \in 1..Len(toSrv[j]) /\ toSrv'[j][i] = toSrv[j][i]
      BY <1>6, <1>7, <2>2
    <3> QED BY <2>1, <2>2, <3>1 DEF Reports
  <2> SUFFICES ASSUME NEW g, 1 \in 1..Len(toSrv[j]), g = toSrv[j][1], g.type = "gap", Sound(g)
               PROVE  /\ Sound(g)'
                      /\ \A x \in 2..Len(toSrv'[j]) : toSrv'[j][x].type = "frame" => g.to < toSrv'[j][x].n
                      /\ Opened(j) =>
                           /\ \A p \in 0..(g.to) : p \in dropped' \/ p <= trk[j].seq
                           /\ g.to > trk[j].seq =>
                                IF Len(toSrv'[j]) = 1 THEN ~up[j]
                                ELSE toSrv'[j][2].type = "frame" /\ toSrv'[j][2].n = g.to + 1
    <3>1. Opened(j) /\ (\E i \in 1..Len(toSrv'[j]) : toSrv'[j][i].type = "gap") => Fresh(j)
      BY <2>1, <2>2 DEF Reports
    <3> QED BY <1>4, <1>11, <2>2, <3>1 DEF Reports, IsFrame
  <2>3. Sound(g)'
    BY <1>1, SoundStays
  <2>4. g.to \in Nat /\ g.to < next
    <3>1. g.to \in Nat /\ g.to < lo /\ lo <= next /\ lo \in Nat
      BY <1>1, SoundFacts, Numbers
    <3> QED BY <1>2, <3>1
  <2>5. /\ \A x \in 2..Len(toSrv[j]) : toSrv[j][x].type = "frame" => g.to < toSrv[j][x].n
        /\ Opened(j) =>
             /\ \A p \in 0..(g.to) : p \in dropped \/ p <= trk[j].seq
             /\ g.to > trk[j].seq =>
                  IF Len(toSrv[j]) = 1 THEN ~up[j]
                  ELSE toSrv[j][2].type = "frame" /\ toSrv[j][2].n = g.to + 1
    BY <2>1 DEF Reports, IsFrame
  <2>6. ASSUME NEW x \in 2..Len(toSrv'[j]), toSrv'[j][x].type = "frame" PROVE g.to < toSrv'[j][x].n
    <3>1. x \in 1..Len(toSrv'[j]) /\ (x \in 1..Len(toSrv[j]) => x \in 2..Len(toSrv[j]))
      BY <1>5
    <3>2. CASE x \in 1..Len(toSrv[j])
      BY <1>5, <2>5, <2>6, <3>1, <3>2
    <3>3. CASE x \notin 1..Len(toSrv[j])
      BY <1>6, <1>7, <2>4, <2>6, <3>1, <3>3
    <3> QED BY <3>2, <3>3
  <2>7. ASSUME Opened(j), g.to > trk[j].seq
        PROVE  IF Len(toSrv'[j]) = 1 THEN ~up[j]
               ELSE toSrv'[j][2].type = "frame" /\ toSrv'[j][2].n = g.to + 1
    <3>1. CASE Len(toSrv[j]) = 1
      BY <1>5, <1>7, <2>5, <2>7, <3>1
    <3>2. CASE Len(toSrv[j]) # 1
      <4>0. /\ \A n \in Nat : 1 \in 1..n /\ n # 1 => 2 \in 1..n
            /\ \A n : n = 1 => 2 \notin 1..n
        OBVIOUS
      <4>1. 2 \in 1..Len(toSrv[j])
        <5>1. 1 \in 1..Len(toSrv[j]) /\ Len(toSrv[j]) \in Nat
          BY <1>5
        <5> QED BY ONLY <3>2, <4>0, <5>1
      <4>2. 2 \in 1..Len(toSrv'[j])
        BY <1>5, <4>1
      <4>3. Len(toSrv'[j]) # 1
        BY ONLY <4>0, <4>2
      <4> QED BY <1>5, <2>5, <2>7, <3>2, <4>1, <4>3
    <3> QED BY <3>1, <3>2
  <2> QED BY <1>2, <2>3, <2>5, <2>6, <2>7
<1>20. Closing(j)'
  <2>1. Closing(j)
    BY <1>1 DEF Connection
  <2>2. live /\ closeSent => closeSent'
    BY DEF Exchange
  <2>3. ASSUME NEW i \in 1..Len(toSrv'[j]), toSrv'[j][i].type = "close"
        PROVE  /\ i = Len(toSrv'[j]) /\ Finished' /\ toSrv'[j][i].n = next' - 1
               /\ Opened(j) => acked[j].seq = next' - 1
               /\ live => closeSent'
    <3>1. CASE i \in 1..Len(toSrv[j])
      <4>1. toSrv'[j][i] = toSrv[j][i] /\ ~sent /\ toSrv'[j] = toSrv[j]
        BY <1>5, <1>7, <2>3, <3>1
      <4>2. i = Len(toSrv[j]) /\ Finished /\ toSrv[j][i].n = next - 1 /\ (Opened(j) => acked[j].seq = next - 1) /\ (live => closeSent)
        BY <2>1, <2>3, <3>1, <4>1 DEF Closing
      <4> QED BY <1>2, <2>2, <4>1, <4>2
    <3>2. CASE i \notin 1..Len(toSrv[j])
      <4>1. sent /\ i = Len(toSrv[j]) + 1 /\ toSrv'[j][i] = m
        BY <1>6, <3>2
      <4>2. i = Len(toSrv'[j])
        BY <1>5, <4>1
      <4> QED BY <1>7, <2>3, <4>1, <4>2
    <3> QED BY <3>1, <3>2
  <2> QED BY <1>4, <1>11, <2>3 DEF Closing
<1>21. Resuming(j)'
  <2>1. Resuming(j) /\ Handshake(j)
    BY <1>1 DEF Connection
  <2>2. \A p \in 0..(lo' - 1) : p \in 0..(lo - 1) \/ p \in dropped' \/ ((Opened(j) => p <= acked[j].seq) /\ rx[j].op # "open")
    BY DEF Exchange
  <2>3. Opened(j) => \A p \in 0..(lo' - 1) : p \in dropped' \/ p <= acked[j].seq
    BY <1>2, <2>1, <2>2 DEF Resuming
  <2>4. rx[j].op = "open" => \A p \in 0..(lo' - 1) : p \in dropped' \/ p <= rx[j].todo[1].seq
    BY <1>2, <2>1, <2>2 DEF Resuming
  <2>5. ASSUME Streaming(j), up[j], Opened(j), ~closed[j], NEW p \in 0..(next' - 1)
        PROVE  p \in Passed(j) \cup dropped' \/ \E i \in 1..Len(toSrv'[j]) : IsFrame(j, i, p)'
    <3>1. CASE p \in 0..(next - 1)
      <4>1. p \in Passed(j) \cup dropped \/ \E i \in 1..Len(toSrv[j]) : IsFrame(j, i, p)
        BY <2>1, <2>5, <3>1 DEF Resuming
      <4> QED BY <1>2, <1>5, <1>17, <4>1
    <3>2. CASE p \notin 0..(next - 1)
      <4>1. next' # next
        BY <3>2
      <4>2. next' = next + 1 /\ sent
        BY <1>1, <2>5, <4>1 DEF Exchange
      <4>3. m.type = "frame" /\ m.n = next
        BY <1>7, <4>1, <4>2
      <4>4. \A a, b, c \in Int : c \in 0..(b - 1) /\ b = a + 1 /\ c \notin 0..(a - 1) => c = a
        OBVIOUS
      <4>5. p = next
        BY <1>2, <3>2, <4>2, <4>4
      <4>6. \E i \in 1..Len(toSrv'[j]) : toSrv'[j][i].type = "frame" /\ toSrv'[j][i].n = p
        <5>1. Len(toSrv[j]) + 1 \in 1..Len(toSrv'[j])
          BY <1>5, <4>2
        <5> QED BY <1>5, <4>2, <4>3, <4>5, <5>1
      <4> QED BY <4>6 DEF IsFrame
    <3> QED BY <3>1, <3>2
  <2> QED BY <1>1, <1>4, <1>11, <2>3, <2>4, <2>5 DEF Resuming
<1> QED BY <1>13, <1>14, <1>15, <1>16, <1>18, <1>19, <1>20, <1>21 DEF Connection

\* Such a step keeps the invariant.
LEMMA ExchangeStepKeeps ==
  ASSUME Inv, Types', Growth, Finished => next' = next, UNCHANGED serverVars, ws' = ws, up' = up,
         \A j \in Conns : j # ws => toSrv'[j] = toSrv[j] /\ toCli'[j] = toCli[j],
         NEW m, NEW taken \in BOOLEAN, NEW sent \in BOOLEAN,
         \A j \in Conns : j = ws => Exchange(j, m, taken, sent),
         Client', ReleasedIsSafe'
  PROVE  Inv'
<1>1. \A j \in Conns : j # ws' => Same(j) /\ Elsewhere(j)
  <2>1. ws \in Int
    BY MaxConnsAssumption DEF Inv, Types
  <2> QED BY <2>1 DEF Same, Elsewhere, serverVars, connVars
<1>2. \A j \in Conns : j = ws' => Connection(j)'
  BY ExchangeKeeps
<1> QED BY <1>1, <1>2, ClientStepKeeps

\* Everything is acknowledged when everything was released.
LEMMA EverythingAcked ==
  ASSUME Inv, NEW j \in Conns, Opened(j), \A p \in 0..(next - 1) : p \in dropped \/ p <= acked[j].seq
  PROVE  acked[j].seq = next - 1
<1>1. next \in Nat /\ acked[j].seq \in Int /\ acked[j].seq >= -1
  BY Numbers DEF Inv
<1>2. acked[j].seq <= next - 1
  <2>1. acked[j].seq <= trk[j].seq
    BY DEF Inv, Connection, Tracking
  <2> QED BY <1>1, <2>1, Watermark
<1>3. CASE next = 0
  BY <1>1, <1>2, <1>3
<1>4. CASE next # 0
  <2>1. next - 1 \in 0..(next - 1) /\ next - 1 \notin dropped
    BY <1>1, <1>4 DEF Inv, Client
  <2>2. next - 1 <= acked[j].seq
    BY <2>1
  <2> QED BY <1>1, <1>2, <2>2
<1> QED BY <1>3, <1>4

\* A source_close that the client has not sent is not on its way.
LEMMA NoCloseYet ==
  ASSUME Inv, NEW j \in Conns, j = ws, live, ~closeSent
  PROVE  \A i \in 1..Len(toSrv[j]) : toSrv[j][i].type # "close"
BY DEF Inv, Connection, Closing

\* The person stops the recording.
LEMMA CloseSourceKeeps ==
  ASSUME Inv, CloseSource, UNCHANGED serverVars
  PROVE  Inv'
<1>1. PICK c \in BOOLEAN : c = (closeSent' # closeSent)
  OBVIOUS
<1>2. PICK m : m = Close(next - 1)
  OBVIOUS
<1>3. PICK sent \in BOOLEAN : sent = (c /\ up[ws])
  <2>1. (c /\ up[ws]) \in BOOLEAN
    OBVIOUS
  <2> QED BY <2>1
<1>4. /\ ~stopped /\ stopped' = TRUE
      /\ closeSent' = (closeSent \/ MayClose(connected, ready, TRUE, lo, pendingGap, closeSent))
      /\ Send(IF c THEN <<m>> ELSE <<>>)
      /\ UNCHANGED <<up, toCli, ws, live, connected, ready, fatal, next, lo, pendingGap, closeAcked, dropped, congested>>
  BY <1>1, <1>2 DEF CloseSource
<1>5. Types /\ Client /\ ~closeSent /\ ~closeAcked /\ ws \in 0..MaxConns
  BY <1>4 DEF Inv, Client, Finished, Types
<1>6. c => /\ connected /\ ready /\ lo = next /\ closeSent' /\ live /\ ws \in Conns
  <2>3. closeSent = FALSE /\ connected \in BOOLEAN /\ ready \in BOOLEAN
    BY <1>5 DEF Types
  <2>4. c => MayClose(connected, ready, TRUE, lo, pendingGap, closeSent)
    BY <1>1, <1>4, <2>3 DEF MayClose
  <2>1. c => connected /\ ready /\ lo = next /\ closeSent'
    BY <1>4, <2>3, <2>4 DEF MayClose
  <2>2. connected => live /\ ws # 0
    BY <1>5 DEF Client
  <2> QED BY <1>5, <2>1, <2>2, MaxConnsAssumption DEF Conns
<1>7. m \in ToServer /\ m.type = "close" /\ m.n = next - 1
  <2>1. next - 1 \in Int
    BY <1>5 DEF Types
  <2> QED BY <1>2, <2>1 DEF Close, ToServer
<1>8. /\ \A j \in Conns : toSrv'[j] = IF j = ws /\ sent THEN toSrv[j] \o <<m>> ELSE toSrv[j]
      /\ toSrv' \in [Conns -> Seq(ToServer)]
  <2>1. toSrv' = IF sent THEN [toSrv EXCEPT ![ws] = @ \o <<m>>] ELSE toSrv
    BY <1>3, <1>4 DEF Send, Queued
  <2>2. sent => ws \in Conns /\ toSrv[ws] \o <<m>> \in Seq(ToServer)
    BY <1>3, <1>5, <1>6, <1>7 DEF Types
  <2> QED BY <1>5, <2>1, <2>2 DEF Types
<1>9. Types'
  <2>1. closeSent' \in BOOLEAN /\ stopped' \in BOOLEAN
    BY <1>4, <1>5 DEF MayClose, Types
  <2> QED BY <1>4, <1>5, <1>8, <2>1 DEF Types, serverVars, connVars, dbVars
<1>10. Growth /\ next' = next /\ lo' = lo /\ dropped' = dropped /\ stopped' = TRUE
  BY <1>4, <1>5 DEF Growth, Types, Finished, Checkpoints, serverVars, dbVars
<1>11. Client'
  <2>1. \A g : Sound(g)' = Sound(g)
    BY <1>4 DEF Sound
  <2>2. closeSent' => Finished'
    BY <1>4, <1>5 DEF Finished, MayClose
  <2> QED BY <1>4, <1>5, <2>1, <2>2 DEF Client
<1>12. ReleasedIsSafe'
  BY <1>4 DEF Inv, ReleasedIsSafe, serverVars, dbVars
<1>13. ASSUME NEW j \in Conns, j = ws PROVE Exchange(j, m, FALSE, sent)
  <2>1. \A i \in 1..Len(toSrv[j]) : sent => toSrv[j][i].type # "close"
    BY <1>3, <1>5, <1>6, <1>13, NoCloseYet
  <2>2. sent /\ Opened(j) => acked[j].seq = next - 1
    <3> SUFFICES ASSUME sent, Opened(j) PROVE acked[j].seq = next - 1
      OBVIOUS
    <3>1. Resuming(j) /\ lo = next
      BY <1>3, <1>6 DEF Inv, Connection
    <3> QED BY <1>13, <3>1, EverythingAcked DEF Resuming
  <2>3. sent => Finished' /\ closeSent'
    BY <1>3, <1>4, <1>6 DEF Finished
  <2> QED BY <1>3, <1>4, <1>5, <1>6, <1>7, <1>8, <1>13, <2>1, <2>2, <2>3 DEF Exchange
<1> QED BY <1>4, <1>8, <1>9, <1>10, <1>11, <1>12, <1>13, ExchangeStepKeeps

\* An ACK releases frames that the client will never need again.
LEMMA OnDurableKeeps ==
  ASSUME Inv, NEW type \in {"ack", "closed"}, OnDurable(type), UNCHANGED serverVars
  PROVE  Inv' /\ lo <= lo'
<1>1. PICK c \in BOOLEAN : c = (closeSent' # closeSent)
  OBVIOUS
<1>2. PICK m : m = Close(next - 1)
  OBVIOUS
<1>3. PICK sent \in BOOLEAN : sent = (c /\ up[ws])
  <2>1. (c /\ up[ws]) \in BOOLEAN
    OBVIOUS
  <2> QED BY <2>1
<1>4. /\ Gets(type) /\ Received /\ lo' = Released(Head(toCli[ws]).n)
      /\ closeAcked' = (closeAcked \/ type = "closed")
      /\ closeSent' = (closeSent \/ MayClose(connected, ready, stopped, lo', pendingGap, closeSent))
      /\ Send(IF c THEN <<m>> ELSE <<>>)
      /\ UNCHANGED <<up, ws, live, connected, ready, fatal, next, pendingGap, stopped, dropped, congested>>
  BY <1>1, <1>2 DEF OnDurable
<1>5. /\ ws \in Conns /\ live /\ Types /\ Client /\ Connection(ws) /\ Database /\ ReleasedIsSafe
      /\ toCli[ws] # <<>> /\ 1 \in 1..Len(toCli[ws]) /\ Head(toCli[ws]) = toCli[ws][1] /\ toCli[ws][1].type = type
      /\ toCli[ws][1] \in ToClient
      /\ \A j \in Conns : toCli'[j] = IF j = ws THEN Tail(toCli[ws]) ELSE toCli[j]
      /\ toCli' \in [Conns -> Seq(ToClient)]
  BY <1>4, Arrived DEF Inv, Gets
<1>6. PICK n : n = toCli[ws][1].n
  OBVIOUS
<1>7. PICK f : f = IF lo >= n + 1 THEN lo ELSE n + 1
  OBVIOUS
<1>8. /\ n \in Int /\ n <= db.seq /\ (Opened(ws) => n <= acked[ws].seq) /\ (type = "closed" => Finished)
      /\ ~Opening(ws)
  <2>1. toCli[ws][1].type \in {"ready", "ack", "closed"}
    BY <1>5
  <2>2. n \in Int
    BY <1>5, <1>6, <2>1, MessageTypes
  <2>3. Handshake(ws) /\ toCli[ws][1].type # "superseded" /\ toCli[ws][1].type \in {"ack", "closed"}
    BY <1>5 DEF Connection
  <2> QED BY <1>5, <1>6, <2>2, <2>3 DEF Handshake
<1>9. /\ next \in Nat /\ lo \in Nat /\ lo <= next /\ db.seq \in Int /\ db.seq < next /\ dropped \subseteq Nat
      /\ acked[ws].seq \in Int
  BY <1>5, Numbers DEF Database
<1>10. f \in Nat /\ lo <= f /\ f <= next /\ lo' = f
  <2>1. f \in Nat /\ lo <= f /\ f <= next
    BY <1>7, <1>8, <1>9
  <2>2. Min({n + 1, next}) = n + 1
    BY <1>8, <1>9, MinOfTwo
  <2>3. Max({lo, n + 1}) = f
    BY <1>7, <1>8, <1>9, MaxOfTwo
  <2> QED BY <1>4, <1>5, <1>6, <2>1, <2>2, <2>3 DEF Released
<1>11. \A p \in 0..(f - 1) : p \in 0..(lo - 1) \/ p <= n
  BY <1>7, <1>8, <1>9
<1>12. c => connected /\ ready /\ stopped /\ f = next /\ closeSent' /\ ~closeSent
  <2>1. closeSent \in BOOLEAN /\ connected \in BOOLEAN /\ ready \in BOOLEAN /\ stopped \in BOOLEAN
    BY <1>5 DEF Types
  <2>2. c => MayClose(connected, ready, stopped, lo', pendingGap, closeSent)
    BY <1>1, <1>4, <2>1 DEF MayClose
  <2> QED BY <1>4, <1>10, <2>1, <2>2 DEF MayClose
<1>13. m \in ToServer /\ m.type = "close" /\ m.n = next - 1
  <2>1. next - 1 \in Int
    BY <1>9
  <2> QED BY <1>2, <2>1 DEF Close, ToServer
<1>14. /\ \A j \in Conns : toSrv'[j] = IF j = ws /\ sent THEN toSrv[j] \o <<m>> ELSE toSrv[j]
       /\ toSrv' \in [Conns -> Seq(ToServer)]
  <2>1. toSrv' = IF sent THEN [toSrv EXCEPT ![ws] = @ \o <<m>>] ELSE toSrv
    BY <1>3, <1>4 DEF Send, Queued
  <2>2. toSrv[ws] \o <<m>> \in Seq(ToServer)
    BY <1>5, <1>13 DEF Types
  <2> QED BY <1>5, <2>1, <2>2 DEF Types
<1>15. Types'
  <2>1. closeSent' \in BOOLEAN /\ closeAcked' \in BOOLEAN
    BY <1>4, <1>5 DEF MayClose, Types
  <2>2. lo' \in 0..next'
    BY <1>4, <1>9, <1>10
  <2> QED BY <1>4, <1>5, <1>14, <2>1, <2>2 DEF Types, serverVars, connVars, dbVars
<1>16. next' = next /\ dropped' = dropped /\ stopped' = stopped /\ Growth /\ (Finished => Finished')
  <2>1. lo <= lo' /\ (lo = next => lo' = next) /\ next <= next
    BY <1>9, <1>10
  <2>2. db' = db /\ disk' = disk /\ db.seq <= db.seq
    BY <1>9 DEF serverVars, dbVars
  <2> QED BY <1>4, <2>1, <2>2 DEF Growth, Finished
<1>17. Client'
  <2>1. ASSUME pendingGap # NoGap PROVE Sound(pendingGap)'
    <3>1. PICK g : g = pendingGap
      OBVIOUS
    <3>2. Sound(g)
      BY <1>5, <2>1, <3>1 DEF Client
    <3>3. Sound(g)'
      BY <1>5, <1>15, <1>16, <3>2, SoundStays
    <3> QED BY <1>4, <3>1, <3>3 DEF Sound
  <2>2. closeSent' \/ closeAcked' => Finished'
    <3>1. closeSent \/ closeAcked => Finished
      BY <1>5 DEF Client
    <3>2. c => Finished'
      BY <1>10, <1>12, <1>16 DEF Finished
    <3>3. closeSent' => closeSent \/ c
      BY <1>1, <1>4, <1>5, <1>15 DEF Types
    <3> QED BY <1>4, <1>8, <1>16, <3>1, <3>2, <3>3
  <2>3. \A p \in dropped' : p < lo'
    <3>1. \A p \in dropped : p < lo /\ p \in Nat
      BY <1>5, <1>9 DEF Client
    <3> QED BY <1>9, <1>10, <1>16, <3>1
  <2> QED BY <1>4, <1>5, <2>1, <2>2, <2>3 DEF Client
<1>18. ReleasedIsSafe'
  <2>1. ASSUME NEW p \in 0..(f - 1) PROVE p \in dropped \/ (p \in disk /\ p <= db.seq)
    <3>1. CASE p \in 0..(lo - 1)
      BY <1>5, <3>1 DEF ReleasedIsSafe
    <3>2. CASE p <= n
      <4>1. p \in 0..db.seq
        BY <1>8, <1>9, <3>2
      <4> QED BY <1>5, <4>1 DEF Database
    <3> QED BY <1>11, <3>1, <3>2
  <2> QED BY <1>10, <1>16, <2>1 DEF ReleasedIsSafe, serverVars, dbVars
<1>19. ASSUME NEW j \in Conns, j = ws PROVE Exchange(j, m, TRUE, sent)
  <2>1. sent => \A i \in 1..Len(toSrv[j]) : toSrv[j][i].type # "close"
    BY <1>3, <1>5, <1>12, <1>19, NoCloseYet
  <2>2. Opened(j) => \A p \in 0..(f - 1) : p \in dropped \/ p <= acked[j].seq
    <3> SUFFICES ASSUME Opened(j), NEW p \in 0..(f - 1) PROVE p \in dropped \/ p <= acked[j].seq
      OBVIOUS
    <3>1. Resuming(j)
      BY DEF Inv, Connection
    <3> QED BY <1>8, <1>9, <1>11, <1>19, <3>1 DEF Resuming
  <2>3. sent /\ Opened(j) => acked[j].seq = next - 1
    BY <1>3, <1>12, <2>2, EverythingAcked
  <2>4. sent => Finished' /\ closeSent'
    BY <1>3, <1>10, <1>12, <1>16 DEF Finished
  <2>5. \A p \in 0..(f - 1) : p \in 0..(lo - 1) \/ p \in dropped' \/ ((Opened(j) => p <= acked[j].seq) /\ rx[j].op # "open")
    <3>1. rx[j].op # "open"
      BY <1>8, <1>19 DEF Opening
    <3> QED BY <1>16, <2>2, <3>1
  <2>6. (sent => up[j] /\ ready) /\ (closeSent => closeSent')
    BY <1>3, <1>4, <1>12, <1>19
  <2> QED BY <1>4, <1>5, <1>10, <1>13, <1>14, <1>16, <1>19, <2>1, <2>3, <2>4, <2>5, <2>6 DEF Exchange
<1>20. Inv'
  BY <1>4, <1>5, <1>14, <1>15, <1>16, <1>17, <1>18, <1>19, ExchangeStepKeeps
<1> QED BY <1>10, <1>20

\* An overflow extends the report by the frame that is given up.
LEMMA OverflowReported ==
  ASSUME Types, Client, lo < next, lo' = lo + 1, dropped' = dropped \cup {lo},
         pendingGap' = IF pendingGap = NoGap
                       THEN [type |-> "gap", from |-> lo, to |-> lo, start |-> lo, lost |-> 1]
                       ELSE [pendingGap EXCEPT !.to = lo, !.lost = @ + 1]
  PROVE  /\ pendingGap' \in [type : {"gap"}, from : Nat, to : Nat, start : Nat, lost : Nat]
         /\ Sound(pendingGap)' /\ \A p \in dropped' : p <= pendingGap'.to
<1>1. lo \in Nat /\ dropped \subseteq Nat /\ (\A p \in dropped : p < lo)
  <2>1. lo \in Nat
    BY UploaderAssumption DEF Types
  <2> QED BY <2>1 DEF Types, Client
<1>2. PICK g : g = pendingGap'
  OBVIOUS
<1>3. CASE pendingGap = NoGap
  <2>1. g = [type |-> "gap", from |-> lo, to |-> lo, start |-> lo, lost |-> 1]
    BY <1>2, <1>3
  <2>2. /\ g \in [type : {"gap"}, from : Nat, to : Nat, start : Nat, lost : Nat]
        /\ g.from = lo /\ g.to = lo /\ g.start = lo /\ g.lost = 1
    BY <1>1, <2>1
  <2>3. lo < lo + 1 /\ lo <= lo /\ 1 = lo - lo + 1 /\ 1 <= lo - lo + 1
    BY <1>1
  <2>4. g.to < lo' /\ g.lost <= g.to - g.from + 1 /\ g.lost = g.to - g.from + 1 /\ g.from <= g.to /\ g.start = g.from
    BY <2>2, <2>3
  <2>5. \A p \in dropped' : p <= g.to
    BY <1>1, <2>2
  <2> QED BY <1>2, <2>2, <2>4, <2>5 DEF Sound
<1>4. CASE pendingGap # NoGap
  <2>0. PICK h : h = pendingGap
    OBVIOUS
  <2>1. Sound(h) /\ \A p \in dropped : p <= h.to
    BY <1>4, <2>0 DEF Client
  <2>2. /\ h \in [type : {"gap"}, from : Nat, to : Nat, start : Nat, lost : Nat]
        /\ h.from \in Nat /\ h.to \in Nat /\ h.lost \in Nat /\ h.start = h.from /\ h.from <= h.to /\ h.to < lo
        /\ h.lost <= h.to - h.from + 1
        /\ (\A p \in (h.from)..(h.to) : p \in dropped) => h.lost = h.to - h.from + 1
    BY <2>1 DEF Sound
  <2>3. g = [h EXCEPT !.to = lo, !.lost = @ + 1]
    BY <1>2, <1>4, <2>0
  <2>4. /\ g.from = h.from /\ g.start = h.start /\ g.to = lo /\ g.lost = h.lost + 1
        /\ g \in [type : {"gap"}, from : Nat, to : Nat, start : Nat, lost : Nat]
    <3>1. \A r \in [type : {"gap"}, from : Nat, to : Nat, start : Nat, lost : Nat], a, b \in Nat :
            LET s == [r EXCEPT !.to = a, !.lost = b]
            IN  /\ s.from = r.from /\ s.start = r.start /\ s.to = a /\ s.lost = b
                /\ s \in [type : {"gap"}, from : Nat, to : Nat, start : Nat, lost : Nat]
      OBVIOUS
    <3>2. h.lost + 1 \in Nat /\ g = [h EXCEPT !.to = lo, !.lost = h.lost + 1]
      BY <2>2, <2>3
    <3> QED BY <1>1, <2>2, <3>1, <3>2
  <2>5. g.to < lo' /\ g.lost <= g.to - g.from + 1 /\ g.from <= g.to /\ g.start = g.from
    <3>1. lo < lo + 1 /\ h.lost + 1 <= lo - h.from + 1 /\ h.from <= lo
      BY <1>1, <2>2
    <3> QED BY <2>2, <2>4, <3>1
  <2>6. ASSUME \A p \in (g.from)..(g.to) : p \in dropped' PROVE g.lost = g.to - g.from + 1
    <3>1. \A p \in (h.from)..(lo - 1) : p \in dropped
      <4>1. \A p \in (h.from)..(lo - 1) : p \in (h.from)..lo /\ p # lo
        BY <1>1, <2>2
      <4> QED BY <2>4, <2>6, <4>1
    <3>2. lo - 1 <= h.to
      <4>1. lo - 1 \in (h.from)..(lo - 1)
        BY <1>1, <2>2
      <4> QED BY <2>1, <3>1, <4>1
    <3>3. \A p \in (h.from)..(h.to) : p \in dropped
      <4>1. \A p \in (h.from)..(h.to) : p \in (h.from)..(lo - 1)
        BY <1>1, <2>2
      <4> QED BY <3>1, <4>1
    <3>4. h.lost + 1 = lo - h.from + 1
      BY <1>1, <2>2, <3>2, <3>3
    <3> QED BY <2>4, <3>4
  <2>7. \A p \in dropped' : p <= g.to
    BY <1>1, <2>4
  <2> QED BY <1>2, <2>4, <2>5, <2>6, <2>7 DEF Sound
<1> QED BY <1>3, <1>4

\* A frame is captured; when the buffer is full the oldest one is dropped and reported.
LEMMA PushPcmKeeps ==
  ASSUME Inv, PushPcm, UNCHANGED serverVars
  PROVE  Inv'
<1>1. PICK full \in BOOLEAN : full = (next + 1 - lo > Limit /\ next > lo)
  <2>1. (next + 1 - lo > Limit /\ next > lo) \in BOOLEAN
    OBVIOUS
  <2> QED BY <2>1
<1>2. PICK m : m = [type |-> "frame", n |-> next]
  OBVIOUS
<1>3. PICK sent \in BOOLEAN : sent = (connected /\ ready /\ up[ws])
  <2>1. (connected /\ ready /\ up[ws]) \in BOOLEAN
    OBVIOUS
  <2> QED BY <2>1
<1>4. /\ ~stopped /\ next < MaxFrames /\ next' = next + 1
      /\ congested' = (congested \/ (full /\ connected /\ ready))
      /\ lo' = (IF full THEN lo + 1 ELSE lo)
      /\ dropped' = (IF full THEN dropped \cup {lo} ELSE dropped)
      /\ ~full => pendingGap' = pendingGap
      /\ full => pendingGap' = IF pendingGap = NoGap
                               THEN [type |-> "gap", from |-> lo, to |-> lo, start |-> lo, lost |-> 1]
                               ELSE [pendingGap EXCEPT !.to = lo, !.lost = @ + 1]
      /\ Send(IF connected /\ ready THEN <<m>> ELSE <<>>)
      /\ UNCHANGED <<up, toCli, ws, live, connected, ready, fatal, stopped, closeSent, closeAcked>>
  BY <1>1, <1>2 DEF PushPcm
<1>5. Types /\ Client /\ ~Finished /\ ~closeSent /\ ~closeAcked /\ ws \in 0..MaxConns
  BY <1>4 DEF Inv, Client, Finished, Types
<1>6. /\ next \in Nat /\ lo \in Nat /\ lo <= next /\ dropped \subseteq Nat /\ (full => lo < next) /\ MaxFrames \in Nat
      /\ \A p \in dropped : p < lo
      /\ lo' = lo \/ (lo' = lo + 1 /\ full)
  <2>1. next \in Nat /\ lo \in Nat /\ lo <= next
    BY <1>5, UploaderAssumption DEF Types
  <2>2. full => lo < next
    BY <1>1, <2>1
  <2> QED BY <1>4, <1>5, <2>1, <2>2, UploaderAssumption DEF Types, Client
<1>7. sent => ws \in Conns /\ live
  <2>1. connected => live /\ ws # 0
    BY <1>5 DEF Client
  <2>2. ws # 0 => ws \in Conns
    BY <1>5, MaxConnsAssumption DEF Conns
  <2> QED BY <1>3, <2>1, <2>2
<1>8. m \in ToServer /\ m.type = "frame" /\ m.n = next
  BY <1>2, <1>6 DEF ToServer
<1>9. /\ \A j \in Conns : toSrv'[j] = IF j = ws /\ sent THEN toSrv[j] \o <<m>> ELSE toSrv[j]
      /\ toSrv' \in [Conns -> Seq(ToServer)]
  <2>1. toSrv' = IF sent THEN [toSrv EXCEPT ![ws] = @ \o <<m>>] ELSE toSrv
    BY <1>3, <1>4 DEF Send, Queued
  <2>2. sent => ws \in Conns /\ toSrv[ws] \o <<m>> \in Seq(ToServer)
    BY <1>5, <1>7, <1>8 DEF Types
  <2> QED BY <1>5, <2>1, <2>2 DEF Types
<1>10. pendingGap' \in [type : {"gap"}, from : Nat, to : Nat, start : Nat, lost : Nat] \cup {NoGap}
  <2>1. CASE full
    BY <1>4, <1>5, <1>6, <2>1, OverflowReported
  <2>2. CASE ~full
    BY <1>4, <1>5, <2>2 DEF Types
  <2> QED BY <2>1, <2>2
<1>11. Types'
  <2>1. next' \in 0..MaxFrames /\ lo' \in 0..next'
    <3>1. next + 1 \in 0..MaxFrames /\ lo \in 0..(next + 1) /\ lo + 1 \in 0..(next + 1)
      BY <1>4, <1>6
    <3> QED BY <1>4, <3>1
  <2>2. dropped' \in SUBSET Nat /\ congested' \in BOOLEAN
    BY <1>4, <1>5, <1>6 DEF Types
  <2> QED BY <1>4, <1>5, <1>9, <1>10, <2>1, <2>2 DEF Types, serverVars, connVars, dbVars
<1>12. Growth
  <2>1. next <= next' /\ lo <= lo'
    BY <1>4, <1>6
  <2>2. dropped \subseteq dropped' /\ \A p \in dropped' : p \in dropped \/ lo <= p
    BY <1>4, <1>6
  <2>3. db' = db /\ disk' = disk /\ db.seq <= db.seq
    BY <1>5 DEF serverVars, dbVars, Types, Checkpoints
  <2> QED BY <1>5, <2>1, <2>2, <2>3 DEF Growth
<1>13. Client'
  <2>1. \A p \in dropped' : p < lo'
    BY <1>4, <1>6
  <2>2. next' - 1 \notin dropped'
    <3>1. next + 1 - 1 = next /\ next \notin dropped /\ (full => next # lo)
      BY <1>6
    <3>2. \A a, b \in Int : b = a + 1 => b - 1 = a
      OBVIOUS
    <3>3. next' - 1 = next
      BY <1>4, <1>6, <3>1, <3>2
    <3> QED BY <1>4, <3>1, <3>3
  <2>3. pendingGap' # NoGap => Sound(pendingGap)' /\ \A p \in dropped' : p <= pendingGap'.to
    <3>1. CASE full
      BY <1>4, <1>5, <1>6, <3>1, OverflowReported
    <3>2. CASE ~full
      <4>1. PICK g : g = pendingGap
        OBVIOUS
      <4>2. g # NoGap => Sound(g) /\ \A p \in dropped : p <= g.to
        BY <1>5, <4>1 DEF Client
      <4>3. g # NoGap => Sound(g)'
        BY <1>5, <1>11, <1>12, <4>2, SoundStays
      <4> QED BY <1>4, <3>2, <4>1, <4>2, <4>3 DEF Sound
    <3> QED BY <3>1, <3>2
  <2> QED BY <1>4, <1>5, <2>1, <2>2, <2>3 DEF Client
<1>14. ReleasedIsSafe'
  <2>1. \A p \in 0..(lo' - 1) : p \in 0..(lo - 1) \/ p \in dropped'
    <3>1. \A p \in 0..((lo + 1) - 1) : p \in 0..(lo - 1) \/ p = lo
      BY <1>6
    <3> QED BY <1>4, <1>6, <3>1
  <2>2. dropped \subseteq dropped'
    BY <1>4
  <2> QED BY <2>1, <2>2 DEF Inv, ReleasedIsSafe, serverVars, dbVars
<1>15. ASSUME NEW j \in Conns, j = ws PROVE Exchange(j, m, FALSE, sent)
  <2>1. \A i \in 1..Len(toSrv[j]) : sent => toSrv[j][i].type # "close"
    BY <1>5, <1>7, <1>15, NoCloseYet
  <2>2. \A p \in 0..(lo' - 1) : p \in 0..(lo - 1) \/ p \in dropped'
    <3>1. \A p \in 0..((lo + 1) - 1) : p \in 0..(lo - 1) \/ p = lo
      BY <1>6
    <3> QED BY <1>4, <1>6, <3>1
  <2>3. up[j] /\ ready => sent
    BY <1>3, <1>5, <1>15 DEF Client
  <2> QED BY <1>3, <1>4, <1>5, <1>8, <1>9, <1>15, <2>1, <2>2, <2>3 DEF Exchange
<1> QED BY <1>4, <1>5, <1>9, <1>11, <1>12, <1>13, <1>14, <1>15, ExchangeStepKeeps

-----------------------------------------------------------------------------
(* The invariant. *)

\* The invariant holds at the beginning.
LEMMA InitInv == Init => Inv
<1> SUFFICES ASSUME Init PROVE Inv
  OBVIOUS
<1> USE DEF Init, InitLink, InitServer, InitClient
<1>1. Types
  <2>1. 0 \in 0..MaxFrames /\ 0 \in 0..MaxConns /\ 0 \in 0..0
    BY UploaderAssumption, MaxConnsAssumption
  <2>2. Idle \in Receivers /\ Rest \in Tickers
    BY DEF Idle, Rest, Receivers, Tickers, RxOps
  <2>3. <<>> \in Seq(ToServer) /\ <<>> \in Seq(ToClient)
    OBVIOUS
  <2>4. db \in Checkpoints /\ [seq |-> -1, end |-> 0] \in [seq : Nat \cup {-1}, end : Nat]
    BY DEF Checkpoints
  <2>5. /\ up \in [Conns -> BOOLEAN] /\ toSrv \in [Conns -> Seq(ToServer)] /\ toCli \in [Conns -> Seq(ToClient)]
        /\ rx \in [Conns -> Receivers] /\ tk \in [Conns -> Tickers]
        /\ trk \in [Conns -> Trackers \cup {NoTracker}]
        /\ acked \in [Conns -> [seq : Nat \cup {-1}, end : Nat]]
        /\ prev \in [Conns -> 0..MaxConns] /\ closedSeq \in [Conns -> Int]
    BY <2>1, <2>2, <2>3, <2>4
  <2> QED BY <2>1, <2>4, <2>5 DEF Types
<1>2. Client /\ Database /\ ReleasedIsSafe /\ NoFalseGap
  <2>1. 0..(0 - 1) = {} /\ 0..(-1) = {} /\ -1 < 0 /\ 0 = -1 + 1
    OBVIOUS
  <2> QED BY <2>1 DEF Client, Database, ReleasedIsSafe, NoFalseGap
<1>3. ASSUME NEW k \in Conns PROVE Connection(k)
  <2>1. /\ up[k] = FALSE /\ toSrv[k] = <<>> /\ toCli[k] = <<>> /\ ph[k] = "off" /\ rx[k] = Idle /\ tk[k] = Rest
        /\ ~Opened(k) /\ buf[k] = {} /\ ~dirty[k] /\ ~closed[k] /\ closedSeq[k] = -2 /\ acked[k] = [seq |-> -1, end |-> 0]
    BY DEF Opened
  <2>2. Len(<<>>) = 0 /\ 1..0 = {}
    OBVIOUS
  <2>3. rx[k].op = "idle" /\ tk[k].op = "idle"
    BY <2>1 DEF Idle, Rest
  <2> QED BY <2>1, <2>2, <2>3 DEF Connection, Socket, Phase, Handshake, Tracking, ReceiveLoop, TickLoop, InOrder,
                                  Reports, Closing, Resuming, Opening, Streaming
<1> QED BY <1>1, <1>2, <1>3 DEF Inv

\* Every step of the client.
LEMMA ClientKeeps ==
  ASSUME Inv, ClientStep, UNCHANGED serverVars
  PROVE  Inv'
BY ConnectKeeps, OnSocketCloseKeeps, OnWelcomeKeeps, OnReadyKeeps, OnDurableKeeps, OnFatalKeeps, PushPcmKeeps, CloseSourceKeeps
   DEF ClientStep, OnMessage, OnAck, OnClosed

\* Every step of the system.
LEMMA StepInv == Inv /\ [Next]_vars => Inv'
<1> SUFFICES ASSUME Inv, [Next]_vars PROVE Inv'
  OBVIOUS
<1>1. CASE ClientStep /\ UNCHANGED serverVars
  BY <1>1, ClientKeeps
<1>2. ASSUME NEW k \in Conns, ServerStep(k), UNCHANGED clientVars PROVE Inv'
  BY <1>2, AnyServerStepKeeps
<1>3. CASE Fault /\ UNCHANGED clientVars
  BY <1>3, FaultKeeps
<1>4. CASE UNCHANGED vars
  <2>1. UNCHANGED clientVars /\ UNCHANGED serverVars /\ UNCHANGED linkVars
    BY <1>4 DEF vars
  <2>2. Types'
    BY <2>1 DEF Inv, Types, clientVars, sourceVars, serverVars, connVars, dbVars, linkVars
  <2>3. \A j \in Conns : Same(j)
    BY <2>1 DEF Same, serverVars, connVars, linkVars
  <2>4. Growth /\ (\A j \in Conns : Elsewhere(j)) /\ next' = next
    <3>1. next <= next /\ lo <= lo /\ db.seq <= db.seq
      BY DEF Inv, Types, Checkpoints
    <3> QED BY <2>1, <3>1 DEF Growth, Elsewhere, Finished, clientVars, sourceVars, serverVars, dbVars
  <2>5. \A j \in Conns : Connection(j)'
    BY <2>2, <2>3, <2>4, Aside DEF Inv
  <2>6. Client' /\ Database' /\ ReleasedIsSafe' /\ NoFalseGap'
    BY <2>1 DEF Inv, Client, Database, ReleasedIsSafe, NoFalseGap, Sound, Finished, clientVars, sourceVars, serverVars, connVars, dbVars
  <2> QED BY <2>2, <2>5, <2>6 DEF Inv
<1> QED BY <1>1, <1>2, <1>3, <1>4 DEF Next

\* The invariant holds in every reachable state.
THEOREM InvariantHolds == Spec => []Inv
BY InitInv, StepInv, PTL DEF Spec

\* Every variable has its type, in every reachable state.
THEOREM TypeCorrect == Spec => []TypeOK
<1>1. Inv => TypeOK
  <2> SUFFICES ASSUME Inv PROVE TypeOK
    OBVIOUS
  <2>1. Types /\ Database /\ next \in Nat /\ next <= MaxFrames /\ MaxFrames \in Nat
    BY UploaderAssumption DEF Inv, Types
  <2>2. disk \subseteq 0..(MaxFrames - 1)
    BY <2>1 DEF Database
  <2>3. db \in [seq : -1..MaxFrames, end : 0..MaxFrames, closed : BOOLEAN]
    <3>1. db \in Checkpoints /\ db.seq < next /\ db.end = db.seq + 1
      BY <2>1 DEF Types, Database
    <3>2. db.seq \in -1..MaxFrames /\ db.end \in 0..MaxFrames
      BY <2>1, <3>1 DEF Checkpoints
    <3> QED BY <3>1, <3>2 DEF Checkpoints
  <2> QED BY <2>1, <2>2, <2>3 DEF Types, TypeOK
<1> QED BY <1>1, InvariantHolds, PTL

\* Whatever breaks, the client never gives up a frame that is neither safe on the
\* server nor known to be dropped.
THEOREM NothingNeededIsReleased == Spec => []ReleasedIsSafe
<1>1. Inv => ReleasedIsSafe
  BY DEF Inv
<1> QED BY <1>1, InvariantHolds, PTL

\* An ACK or a source_closed on its way never runs ahead of the checkpoint.
THEOREM AcksAreHonest == Spec => []AckHonest
<1>1. Inv => AckHonest
  BY DEF Inv, Connection, Handshake, AckHonest
<1> QED BY <1>1, InvariantHolds, PTL

\* A gap is recorded only for sound that the client dropped.
THEOREM GapsAreReal == Spec => []NoFalseGap
<1>1. Inv => NoFalseGap
  BY DEF Inv
<1> QED BY <1>1, InvariantHolds, PTL

-----------------------------------------------------------------------------
(* What a step may never do. *)

\* _persist never moves the checkpoint back.
LEMMA PersistGrows ==
  ASSUME NEW n, NEW e, Persist(n, e), db \in Checkpoints
  PROVE  db.seq <= db'.seq
<1>1. db.seq \in Int /\ db.seq <= db.seq
  BY DEF Checkpoints
<1>2. [db EXCEPT !.seq = n, !.end = e].seq = n
  BY DEF Checkpoints
<1> QED BY <1>1, <1>2 DEF Persist

\* What is durable stays, and the checkpoint does not move back.
LEMMA DurableStays ==
  ASSUME Inv, [Next]_vars
  PROVE  disk \subseteq disk' /\ db.seq <= db'.seq
<1>1. db \in Checkpoints /\ db.seq <= db.seq
  BY DEF Inv, Types, Checkpoints
<1>2. CASE UNCHANGED serverVars
  BY <1>1, <1>2 DEF serverVars, dbVars
<1>3. ASSUME NEW k \in Conns, ServerStep(k) PROVE disk \subseteq disk' /\ db.seq <= db'.seq
  <2>1. CASE Receiving(k) \/ Welcome(k)
    BY <1>1, <2>1 DEF Receiving, Register, OpenSource, Frame, GapReport, SourceClose, Welcome, dbVars
  <2>2. CASE Handling(k)
    <3>1. CASE SourceReady(k) \/ FrameWritten(k) \/ LateFrameWritten(k) \/ NarrowGap(k) \/ RecordGap(k) \/ MissingAtClose(k) \/ CloseAck(k)
      BY <1>1, <3>1 DEF SourceReady, FrameWritten, LateFrameWritten, NarrowGap, RecordGap, MissingAtClose, CloseAck, dbVars
    <3>2. CASE CloseSync(k) \/ CloseAnswer(k)
      BY <1>1, <3>2 DEF CloseSync, CloseAnswer, Fsync, dbVars
    <3>3. CASE CloseCheckpoint(k) \/ ClosePersist(k)
      BY <1>1, <3>3, PersistGrows DEF CloseCheckpoint, ClosePersist
    <3>4. CASE CloseEpoch(k)
      BY <1>1, <3>4 DEF CloseEpoch, Checkpoints
    <3> QED BY <2>2, <3>1, <3>2, <3>3, <3>4 DEF Handling
  <2>3. CASE Ticking(k)
    <3>1. CASE TickFlush(k) \/ TickRecord(k) \/ TickAck(k)
      BY <1>1, <3>1 DEF TickFlush, Flush, TickRecord, TickAck, dbVars
    <3>2. CASE TickSync(k)
      BY <1>1, <3>2 DEF TickSync, Fsync, dbVars
    <3>3. CASE TickCheckpoint(k)
      BY <1>1, <3>3, PersistGrows DEF TickCheckpoint
    <3> QED BY <2>3, <3>1, <3>2, <3>3 DEF Ticking
  <2>4. CASE Ending(k)
    <3>1. CASE Disconnect(k) \/ CloseWriter(k)
      BY <1>1, <3>1 DEF Disconnect, CloseWriter, Fsync, dbVars
    <3>2. CASE Leave(k)
      BY <1>1, <3>2, PersistGrows DEF Leave
    <3> QED BY <2>4, <3>1, <3>2 DEF Ending
  <2> QED BY <1>3, <2>1, <2>2, <2>3, <2>4 DEF ServerStep
<1>4. CASE Fault
  BY <1>1, <1>4 DEF Fault, Drop, CrashServer, serverVars, dbVars
<1> QED BY <1>2, <1>3, <1>4 DEF Next, vars

\* The checkpoint of the database and what is fsynced never move back.
THEOREM CheckpointStays == Spec => CheckpointMonotone
<1>1. Inv /\ Inv' /\ [Next]_vars => [db'.seq >= db.seq /\ db'.end >= db.end /\ disk \subseteq disk']_<<db, disk>>
  <2> SUFFICES ASSUME Inv, Inv', [Next]_vars PROVE db'.seq >= db.seq /\ db'.end >= db.end /\ disk \subseteq disk'
    OBVIOUS
  <2>1. disk \subseteq disk' /\ db.seq <= db'.seq
    BY DurableStays
  <2>2. db.end = db.seq + 1 /\ db'.end = db'.seq + 1 /\ db.seq \in Int /\ db'.seq \in Int
    BY DEF Inv, Database, Types, Checkpoints
  <2>3. \A a, b \in Int : a <= b => b >= a /\ b + 1 >= a + 1
    OBVIOUS
  <2> QED BY <2>1, <2>2, <2>3
<1> QED BY <1>1, InvariantHolds, PTL DEF Spec, CheckpointMonotone

-----------------------------------------------------------------------------
(* The protocol implements the abstract recording. *)

\* What the client releases is stored, as the abstract recording demands.
LEMMA ReleaseIsAbstract ==
  ASSUME Inv, Inv', next' = next, disk' = disk, dropped' = dropped, lo <= lo'
  PROVE  /\ \A p \in lo..(next - 1) : p < lo' => p \in disk
         /\ lo' \in 0..next /\ lo'..(next' - 1) = {p \in lo..(next - 1) : p >= lo'}
<1>1. PICK f : f = lo'
  OBVIOUS
<1>2. lo \in Nat /\ next \in Nat /\ f \in 0..next /\ lo <= f
  <2>1. f \in 0..next /\ lo \in Nat /\ next \in Nat
    BY <1>1, UploaderAssumption DEF Inv, Types
  <2> QED BY <1>1, <2>1
<1>3. (\A p \in dropped : p < lo) /\ \A p \in 0..(f - 1) : p \in dropped \/ p \in disk
  BY <1>1 DEF Inv, Client, ReleasedIsSafe
<1>4. \A p \in lo..(next - 1) : p < f => p \in disk
  BY <1>2, <1>3
<1>5. f..(next - 1) = {p \in lo..(next - 1) : p >= f}
  BY <1>2
<1> QED BY <1>1, <1>2, <1>4, <1>5

\* A step of the client is a step of the abstract recording, or none.
LEMMA ClientImplements ==
  ASSUME Inv, Inv', ClientStep, UNCHANGED serverVars
  PROVE  [Recording!Next]_(Recording!rvars)
<1> USE DEF serverVars, sourceVars
<1>0. disk' = disk /\ lo \in Nat /\ next \in Nat /\ lo <= next /\ (closeAcked => Finished)
  BY UploaderAssumption DEF Inv, Types, Client
<1>1. CASE Connect \/ OnSocketClose \/ OnWelcome \/ OnFatal \/ CloseSource
  BY <1>0, <1>1 DEF Connect, OnSocketClose, OnWelcome, OnFatal, CloseSource, Recording!rvars
<1>2. CASE OnReady
  <2>1. next' = next /\ dropped' = dropped /\ closeAcked' = closeAcked
    BY <1>2 DEF OnReady
  <2>2. lo <= lo'
    <3>1. PICK n : n = toCli[ws][1].n
      OBVIOUS
    <3> QED BY <1>2, <3>1, ReadyFacts
  <2>3. Recording!Release
    BY <1>0, <2>1, <2>2, ReleaseIsAbstract DEF Recording!Release
  <2> QED BY <2>3 DEF Recording!Next
<1>3. ASSUME NEW type \in {"ack", "closed"}, OnDurable(type) PROVE [Recording!Next]_(Recording!rvars)
  <2>1. next' = next /\ dropped' = dropped /\ closeAcked' = (closeAcked \/ type = "closed")
    BY <1>3 DEF OnDurable
  <2>2. lo <= lo'
    BY <1>3, OnDurableKeeps
  <2>3. CASE type = "ack"
    <3>1. closeAcked' = closeAcked
      BY <2>1, <2>3 DEF Inv, Types
    <3>2. Recording!Release
      BY <1>0, <2>1, <2>2, <3>1, ReleaseIsAbstract DEF Recording!Release
    <3> QED BY <3>2 DEF Recording!Next
  <2>4. CASE type = "closed"
    <3>1. closeAcked' = TRUE /\ lo' = next
      BY <2>1, <2>4 DEF Inv, Client, Finished
    <3>2. lo..(next - 1) \subseteq disk
      BY <1>0, <2>1, <2>2, <3>1, ReleaseIsAbstract
    <3>3. lo'..(next' - 1) = {}
      BY <1>0, <2>1, <3>1
    <3>4. Recording!Finish
      BY <1>0, <2>1, <3>1, <3>2, <3>3 DEF Recording!Finish
    <3> QED BY <3>4 DEF Recording!Next
  <2> QED BY <2>3, <2>4
<1>4. CASE PushPcm
  <2>1. ~closeAcked /\ closeAcked' = closeAcked /\ next' = next + 1
    BY <1>0, <1>4 DEF PushPcm, Finished
  <2>2. CASE next + 1 - lo > Limit /\ next > lo
    <3>1. lo' = lo + 1 /\ dropped' = dropped \cup {lo}
      BY <1>4, <2>2 DEF PushPcm
    <3>2. lo \in lo..(next - 1) /\ \A p \in lo..(next - 1) : lo <= p
      BY <1>0, <2>2
    <3>3. lo'..(next' - 1) = (lo..(next - 1) \cup {next}) \ {lo}
      <4>1. (lo + 1)..((next + 1) - 1) = (lo..(next - 1) \cup {next}) \ {lo}
        BY <1>0, <2>2
      <4> QED BY <2>1, <3>1, <4>1
    <3>4. Recording!CaptureFull
      BY <1>0, <2>1, <3>1, <3>2, <3>3 DEF Recording!CaptureFull
    <3> QED BY <3>4 DEF Recording!Next
  <2>3. CASE ~(next + 1 - lo > Limit /\ next > lo)
    <3>1. lo' = lo /\ dropped' = dropped
      BY <1>4, <2>3 DEF PushPcm
    <3>2. lo'..(next' - 1) = lo..(next - 1) \cup {next}
      <4>1. lo..((next + 1) - 1) = lo..(next - 1) \cup {next}
        BY <1>0
      <4> QED BY <2>1, <3>1, <4>1
    <3>3. Recording!Capture
      BY <1>0, <2>1, <3>1, <3>2 DEF Recording!Capture
    <3> QED BY <3>3 DEF Recording!Next
  <2> QED BY <2>2, <2>3
<1> QED BY <1>1, <1>2, <1>3, <1>4 DEF ClientStep, OnMessage, OnAck, OnClosed

\* The initial states are initial states of the abstract recording, and every step
\* is one of its steps or none: what happens between the client, the links and the
\* server never shows more than capturing, storing, releasing and finishing.
THEOREM Implements == Spec => ImplementsRecording
<1>1. Init => Recording!Init
  <2>1. 0..(0 - 1) = {}
    OBVIOUS
  <2> QED BY <2>1 DEF Init, InitServer, InitClient, Recording!Init
<1>2. Inv /\ Inv' /\ [Next]_vars => [Recording!Next]_(Recording!rvars)
  <2> SUFFICES ASSUME Inv, Inv', [Next]_vars PROVE [Recording!Next]_(Recording!rvars)
    OBVIOUS
  <2>1. CASE ClientStep /\ UNCHANGED serverVars
    BY <2>1, ClientImplements
  <2>2. CASE UNCHANGED clientVars
    <3>1. next' = next /\ lo' = lo /\ dropped' = dropped /\ closeAcked' = closeAcked
      BY <2>2 DEF clientVars, sourceVars
    <3>2. disk \subseteq disk' /\ disk' \subseteq 0..(next - 1)
      BY <3>1, DurableStays DEF Inv, Database
    <3>3. Recording!Store
      BY <3>1, <3>2 DEF Recording!Store
    <3> QED BY <3>3 DEF Recording!Next
  <2> QED BY <2>1, <2>2 DEF Next, vars
<1> QED BY <1>1, <1>2, InvariantHolds, PTL DEF Spec, ImplementsRecording, Recording!Spec
-----------------------------------------------------------------------------
(* What a tracker has seen: S is the sound that is written or declared as lost. *)

\* Everything up to the watermark and everything that a pending item stands for is seen,
\* and an item starts where its number says.
SeenAll(t, S) ==
  /\ \A p \in Nat : p <= t.seq => p \in S
  /\ \A n \in Pending(t) :
       /\ t.pend[n].start = n
       /\ \A p \in Nat : n <= p /\ p <= t.pend[n].last => p \in S

\* The first round of _absorb moves the watermark over what was seen.
LEMMA AbsorbNextSees ==
  ASSUME NEW t, NEW S, WellFormed(t), SeenAll(t, S)
  PROVE  SeenAll(AbsorbNext(t), S)
<1> DEFINE u == AbsorbNext(t)
           nxt == t.seq + 1
<1>0. /\ t.seq \in Int /\ t.seq >= -1 /\ Pending(t) \in SUBSET Nat
      /\ t.pend \in [Pending(t) -> Items]
      /\ \A n \in Pending(t) : t.pend[n].last \in Nat
      /\ t \in Trackers
  BY TrackerTypes DEF WellFormed
<1>1. CASE nxt \notin Pending(t)
  BY <1>1 DEF AbsorbNext
<1>2. CASE nxt \in Pending(t)
  <2> DEFINE i == t.pend[nxt]
  <2>1. u = [t EXCEPT !.seq = i.last, !.end = Max({t.end, i.end}), !.pend = Restrict(t.pend, Pending(t) \ {nxt})]
    BY <1>2 DEF AbsorbNext, Pending
  <2>2. Restrict(t.pend, Pending(t) \ {nxt}) = [x \in Pending(t) \ {nxt} |-> t.pend[x]]
    BY DEF Restrict
  <2>3. u.seq = i.last /\ u.pend = [x \in Pending(t) \ {nxt} |-> t.pend[x]]
    <3> HIDE DEF u, i
    <3> QED BY <1>0, <2>1, <2>2 DEF Trackers
  <2>4. /\ Pending(u) = Pending(t) \ {nxt}
        /\ \A n \in Pending(u) : u.pend[n] = t.pend[n]
    BY <2>3 DEF Pending
  <2>5. \A p \in Nat : nxt <= p /\ p <= i.last => p \in S
    BY <1>2 DEF SeenAll
  <2>6. \A p \in Nat : p <= t.seq => p \in S
    BY DEF SeenAll
  <2> HIDE DEF u, i
  <2>7. \A p \in Nat : p <= u.seq => p \in S
    BY <1>0, <2>3, <2>5, <2>6
  <2>8. ASSUME NEW n \in Pending(u)
        PROVE  u.pend[n].start = n /\ \A p \in Nat : n <= p /\ p <= u.pend[n].last => p \in S
    BY <2>4, <2>8 DEF SeenAll
  <2> QED BY <2>7, <2>8 DEF SeenAll, u
<1> QED BY <1>1, <1>2

\* So does _absorb.
LEMMA AbsorbSees ==
  ASSUME NEW t, NEW D, NEW S, WellFormed(t), Truthful(t, D), SeenAll(t, S)
  PROVE  SeenAll(Absorb(t), S)
<1> DEFINE Good(x) == WellFormed(x) /\ Truthful(x, D) /\ SeenAll(x, S)
           G == {x \in Trackers : Good(x)}
<1>1. CASE Pending(t) = {}
  BY <1>1, AbsorbNothing
<1>2. CASE Pending(t) # {}
  <2>1. ASSUME NEW x, Good(x) PROVE AbsorbNext(x) \in G
    <3> DEFINE y == AbsorbNext(x)
    <3>1. WellFormed(y) /\ Truthful(y, D) /\ SeenAll(y, S)
      BY <2>1, AbsorbNextKeeps, AbsorbNextSees
    <3>2. y \in Trackers
      BY <3>1 DEF WellFormed
    <3> HIDE DEF y
    <3>3. y \in G
      BY <3>1, <3>2
    <3> QED BY <3>3 DEF y
  <2>2. AbsorbNext(t) \in G
    BY <2>1
  <2>3. \A x \in G : AbsorbNext(x) \in G
    BY <2>1
  <2>4. IsFiniteSet(Pending(t))
    BY FinitelyPending
  <2>5. Absorb(t) \in G
    <3> HIDE DEF G
    <3> QED BY <2>2, <2>3, <2>4, <1>2, AbsorbRounds
  <2> QED BY <2>5
<1> QED BY <1>1, <1>2

\* The gap before the first pending item covers what is missing there, as long as the
\* end agrees with the sequence numbers.
LEMMA GaveUpSees ==
  ASSUME NEW t, NEW D, NEW S, WellFormed(t), Truthful(t, D), Exact(t), SeenAll(t, S), Pending(t) # {}
  PROVE  LET g == GaveUp(t)
         IN  SeenAll(g.t, IF g.real THEN S \cup (g.gap.start)..(g.gap.end - 1) ELSE S)
<1> DEFINE first == Min(Pending(t))
           gap   == GapDecision(t.seq + 1, first - 1, t.end, t.pend[first].start)
           real  == gap.end > gap.start \/ gap.to >= gap.from
           u     == [t EXCEPT !.seq = first - 1, !.ranges = IF real THEN @ \cup {gap} ELSE @]
           R     == IF real THEN S \cup (gap.start)..(gap.end - 1) ELSE S
<1>0. /\ t.seq \in Int /\ t.seq >= -1 /\ t.end \in Nat /\ t.end = t.seq + 1
      /\ Pending(t) \in SUBSET Nat /\ t \in Trackers
  BY TrackerTypes DEF WellFormed, Exact
<1>1. first \in Pending(t) /\ \A n \in Pending(t) : first <= n
  BY <1>0, FirstPending
<1> HIDE DEF first
<1>2. first \in Nat /\ t.seq < first /\ t.pend[first].start = first
  BY <1>0, <1>1 DEF WellFormed, SeenAll
<1>3. gap.start = t.seq + 1 /\ gap.end = first /\ gap.from = t.seq + 1 /\ gap.to = first - 1
  BY <1>0, <1>2 DEF GapDecision
<1> HIDE DEF gap
<1>4. real \/ first - 1 = t.seq
  BY <1>0, <1>2, <1>3
<1> HIDE DEF real
<1>5. u.seq = first - 1 /\ u.pend = t.pend
  BY <1>0 DEF Trackers
<1> HIDE DEF u
<1>6. \A p \in Nat : p <= u.seq => p \in R
  <2> SUFFICES ASSUME NEW p \in Nat, p <= first - 1 PROVE p \in R
    BY <1>5
  <2>1. CASE p <= t.seq
    BY <2>1 DEF SeenAll
  <2>2. CASE p > t.seq
    <3>1. real /\ p \in (t.seq + 1)..(first - 1)
      BY <1>0, <1>2, <1>4, <2>2
    <3> QED BY <3>1, <1>3
  <2> QED BY <1>0, <2>1, <2>2
<1>7. S \subseteq R /\ Pending(u) = Pending(t)
  BY <1>5 DEF Pending
<1>8. SeenAll(u, R)
  <2> HIDE DEF R
  <2> QED BY <1>5, <1>6, <1>7 DEF SeenAll
<1>9. GaveUp(t).t = u /\ GaveUp(t).gap = gap /\ GaveUp(t).real = real
  BY DEF GaveUp, u, gap, real, first
<1> QED BY <1>8, <1>9

\* What was seen stays seen.
LEMMA SeesMore ==
  ASSUME NEW t, NEW S, NEW R, S \subseteq R, SeenAll(t, S)
  PROVE  SeenAll(t, R)
BY DEF SeenAll

\* Whatever _expire_gaps gives up is declared.
LEMMA ExpireSees ==
  ASSUME NEW t, NEW late, NEW D, NEW S, WellFormed(t), Truthful(t, D), Exact(t), SeenAll(t, S)
  PROVE  LET r == Expire(t, late) IN SeenAll(r.t, S \cup Covered(r.gaps))
<1> DEFINE Good(r) == /\ WellFormed(r.t) /\ Truthful(r.t, D) /\ Exact(r.t)
                      /\ SeenAll(r.t, S \cup Covered(r.gaps))
           G == {r \in [t : Trackers, gaps : Seq(Decisions)] : Good(r)}
<1>1. t \in Trackers
  BY DEF WellFormed
<1>2. [t |-> t, gaps |-> <<>>] \in G
  <2>1. Good([t |-> t, gaps |-> <<>>])
    BY CoveredNothing
  <2> HIDE DEF Good
  <2> QED BY <1>1, <2>1
<1>3. ASSUME NEW r \in G, MustExpire(r.t, late) PROVE ExpireFirst(r) \in G
  <2> DEFINE g == GaveUp(r.t)
             u == Absorb(g.t)
             decided == IF g.real THEN Append(r.gaps, g.gap) ELSE r.gaps
             R == S \cup Covered(r.gaps)
             Q == S \cup Covered(decided)
  <2>1. Pending(r.t) # {}
    BY <1>3 DEF MustExpire
  <2>2. Good(r) /\ r.gaps \in Seq(Decisions)
    OBVIOUS
  <2>3. /\ WellFormed(g.t) /\ Truthful(g.t, D) /\ AlmostExact(g.t) /\ g.gap \in Decisions
    BY <2>1, <2>2, GaveUpKeeps
  <2>4. SeenAll(g.t, IF g.real THEN R \cup (g.gap.start)..(g.gap.end - 1) ELSE R)
    BY <2>1, <2>2, GaveUpSees
  <2>5. ExpireFirst(r) = [t |-> u, gaps |-> decided]
    BY ExpireFirstIs
  <2> HIDE DEF g
  <2>6. decided \in Seq(Decisions) /\ (IF g.real THEN R \cup (g.gap.start)..(g.gap.end - 1) ELSE R) = Q
    BY <2>2, <2>3, CoveredAppend
  <2> HIDE DEF decided, R, Q
  <2>7. WellFormed(u) /\ Truthful(u, D) /\ Exact(u)
    BY <2>3, AbsorbKeeps
  <2>8. SeenAll(u, Q)
    BY <2>3, <2>4, <2>6, AbsorbSees
  <2> HIDE DEF u
  <2>9. Good([t |-> u, gaps |-> decided])
    BY <2>7, <2>8 DEF Q
  <2>10. u \in Trackers
    BY <2>7 DEF WellFormed
  <2> HIDE DEF Good
  <2> QED BY <2>5, <2>6, <2>9, <2>10
<1>4. IsFiniteSet(Pending(t))
  BY FinitelyPending
<1>5. Expire(t, late) \in G
  <2> HIDE DEF G
  <2> QED BY <1>2, <1>3, <1>4, ExpireRounds
<1>6. Good(Expire(t, late))
  <2> HIDE DEF Good
  <2> QED BY <1>5
<1> QED BY <1>6

\* An item that stands for what was seen.
LEMMA PutSees ==
  ASSUME NEW t \in Trackers, NEW S, SeenAll(t, S), NEW n \in Nat, NEW end, NEW last, n \notin Pending(t),
         \A p \in Nat : n <= p /\ p <= last => p \in S,
         NEW u, u = Put(t, n, n, end, last)
  PROVE  SeenAll(u, S)
<1> DEFINE item == [start |-> n, end |-> end, last |-> last]
           more == [x \in Pending(t) \cup {n} |-> IF x = n THEN item ELSE t.pend[x]]
<1>1. u = [t EXCEPT !.pend = more]
  BY DEF Put, Pending
<1>2. /\ more[n] = item /\ \A m \in Pending(t) : more[m] = t.pend[m]
      /\ DOMAIN more = Pending(t) \cup {n}
  OBVIOUS
<1>3. item.start = n /\ item.last = last
  OBVIOUS
<1> HIDE DEF item, more
<1>4. u.pend = more /\ u.seq = t.seq
  BY <1>1 DEF Trackers
<1>5. Pending(u) = Pending(t) \cup {n}
  BY <1>2, <1>4 DEF Pending
<1> QED BY <1>2, <1>3, <1>4, <1>5 DEF SeenAll

\* accept(): the frame is seen, and what is given up because of it is declared.
LEMMA AcceptSees ==
  ASSUME NEW t, NEW D, NEW S, WellFormed(t), Truthful(t, D), Exact(t), SeenAll(t, S),
         NEW n \in 0..(MaxFrames - 1), NEW late,
         n \notin Upto(t), n \in S, \A p \in 0..(n - 1) : p \in Upto(t) \/ p \in D
  PROVE  LET r == Accept(t, n, n, 1, late) IN SeenAll(r.t, S \cup Covered(r.gaps))
<1> DEFINE u == Put(t, n, n, n + 1, n)
           v == Absorb(u)
           r == Expire(v, late)
<1>1. t \in Trackers /\ t.seq \in Int /\ Pending(t) \in SUBSET Nat /\ \A m \in Pending(t) : t.pend[m].last \in Nat
  BY TrackerTypes DEF WellFormed
<1>2. n \notin Pending(t) /\ ~IsDuplicate(t, n)
  <2>1. ~(n <= t.seq)
    BY DEF Upto
  <2>2. n \notin Pending(t)
    BY <1>1 DEF Upto, WellFormed
  <2> QED BY <2>1, <2>2 DEF IsDuplicate
<1>3. Accept(t, n, n, 1, late) = r
  BY <1>2 DEF Accept
<1>4. n \in Nat /\ n + 1 \in Nat /\ n <= MaxFrames - 1 /\ u = Put(t, n, n, n + 1, n)
  BY UploaderAssumption
<1>5. WellFormed(u) /\ Truthful(u, D) /\ Exact(u)
  <2>1. n <= n /\ n + 1 <= n + 1 /\ \A p \in (n + 1)..n : p \in D
    BY <1>4
  <2> HIDE DEF u
  <2> QED BY <1>4, <2>1, PutKeeps
<1>6. SeenAll(u, S)
  <2>1. \A p \in Nat : n <= p /\ p <= n => p \in S
    BY <1>4
  <2> HIDE DEF u
  <2> QED BY <1>1, <1>2, <1>4, <2>1, PutSees
<1> HIDE DEF u
<1>7. WellFormed(v) /\ Truthful(v, D) /\ Exact(v) /\ SeenAll(v, S)
  <2>1. AlmostExact(u)
    BY <1>5 DEF Exact, AlmostExact
  <2> QED BY <1>5, <1>6, <2>1, AbsorbKeeps, AbsorbSees
<1> HIDE DEF v
<1>8. SeenAll(r.t, S \cup Covered(r.gaps))
  BY <1>7, ExpireSees
<1> QED BY <1>3, <1>8

\* report_lost(): a range of which every frame was dropped is declared as a whole.
LEMMA ReportSees ==
  ASSUME NEW t, NEW D, NEW S, WellFormed(t), Truthful(t, D), Pending(t) = {}, Exact(t), SeenAll(t, S),
         NEW from \in Nat, NEW to \in Nat, NEW count \in Nat, NEW late,
         from <= to, to <= MaxFrames - 1, count = to - from + 1,
         \A p \in 0..to : p \in D \/ p <= t.seq,
         \A p \in from..to : p \in D
  PROVE  LET r == ReportLost(t, from, to, from, count, late)
         IN  Exact(r.t) /\ SeenAll(r.t, S \cup Covered(r.gaps))
<1> DEFINE r == ReportLost(t, from, to, from, count, late)
<1>0. /\ t.seq \in Int /\ t.seq >= -1 /\ t.end \in Nat /\ t.end = t.seq + 1 /\ t \in Trackers
  BY TrackerTypes DEF WellFormed, Exact
<1>1. CASE to <= t.seq
  <2>1. r = [t |-> t, gaps |-> <<>>]
    BY <1>1 DEF ReportLost
  <2> HIDE DEF r
  <2>2. r.t = t /\ S \cup Covered(r.gaps) = S
    BY <2>1, CoveredNothing
  <2> QED BY <2>2 DEF r
<1>2. CASE to > t.seq
  <2> DEFINE partly == from <= t.seq
             f == IF partly THEN t.seq + 1 ELSE from
             s == IF partly THEN Max({from, t.end}) ELSE from
             len == IF partly THEN Max({0, from + count - s}) ELSE count
             gap == GapDecision(f, to, s, s + len)
             u == Put(t, f, s, s + len, to)
             w == [u EXCEPT !.ranges = @ \cup {gap}]
             v == Absorb(w)
             e == Expire(v, late)
             R == S \cup (gap.start)..(gap.end - 1)
  <2>1. r = [e EXCEPT !.gaps = <<gap>> \o @]
    BY <1>0, <1>2, SMTT(30) DEF ReportLost
  <2>2. /\ f \in Nat /\ f > t.seq /\ s = f /\ f <= to /\ s + len = to + 1
        /\ \A p \in f..to : p \in D
        /\ \A p \in 0..(f - 1) : p \in D \/ p <= t.seq
    <3>1. CASE ~partly
      <4>1. f = from /\ s = from /\ len = count
        BY <3>1
      <4> HIDE DEF f, s, len
      <4> QED BY <1>0, <1>2, <3>1, <4>1
    <3>2. CASE partly
      <4>1. f = t.seq + 1 /\ s = (IF from >= t.end THEN from ELSE t.end)
        BY <1>0, <3>2, MaxOfTwo
      <4>2. s = t.seq + 1
        BY <1>0, <3>2, <4>1
      <4>3. len = Max({0, from + count - s})
        BY <3>2
      <4> HIDE DEF f, s, len
      <4>4. len = IF from + count - s <= 0 THEN 0 ELSE from + count - s
        <5>1. from + count - s \in Int
          BY <1>0, <4>2
        <5> QED BY <4>3, <5>1, MaxOfTwo
      <4>5. \A p \in Nat : p <= to => p \in D \/ p <= t.seq
        BY <1>0
      <4> HIDE DEF partly
      <4> QED BY <1>0, <1>2, <3>2, <4>1, <4>2, <4>4, <4>5
    <3> QED BY <3>1, <3>2
  <2> HIDE DEF f, s, len, partly
  <2>3. gap \in Decisions /\ gap.start = f /\ gap.end = to + 1 /\ s + len \in Nat
    BY <2>2, UploaderAssumption DEF GapDecision, Decisions
  <2> HIDE DEF gap
  <2>4. f \notin Upto(t) /\ f \notin Pending(t) /\ u = Put(t, f, f, to + 1, to) /\ to + 1 \in Nat /\ f <= f /\ to + 1 <= to + 1
    BY <1>0, <2>2 DEF Upto
  <2>5. WellFormed(u) /\ Truthful(u, D) /\ Exact(u)
    <3>1. \A p \in 0..(f - 1) : p \in Upto(t) \/ p \in D
      BY <2>2 DEF Upto
    <3>2. \A p \in (to + 1)..to : p \in D
      OBVIOUS
    <3> HIDE DEF u
    <3> QED BY <2>2, <2>4, <3>1, <3>2, PutKeeps
  <2>6. SeenAll(u, R)
    <3>1. SeenAll(t, R)
      BY SeesMore
    <3>2. \A p \in Nat : f <= p /\ p <= to => p \in R
      BY <2>2, <2>3
    <3> HIDE DEF u, R
    <3> QED BY <1>0, <2>2, <2>4, <3>1, <3>2, PutSees
  <2> HIDE DEF u, R
  <2>7. w.seq = u.seq /\ w.end = u.end /\ w.pend = u.pend /\ Pending(w) = Pending(u) /\ w \in Trackers
    <3>1. w = [u EXCEPT !.ranges = @ \cup {gap}] /\ u \in Trackers
      BY <2>5 DEF WellFormed
    <3> HIDE DEF w
    <3> QED BY <3>1, <2>3, Declared
  <2> HIDE DEF w
  <2>8. WellFormed(w) /\ Truthful(w, D) /\ AlmostExact(w) /\ SeenAll(w, R)
    BY <2>5, <2>6, <2>7 DEF WellFormed, Truthful, Upto, Exact, AlmostExact, SeenAll
  <2>9. WellFormed(v) /\ Truthful(v, D) /\ Exact(v) /\ SeenAll(v, R)
    BY <2>8, AbsorbKeeps, AbsorbSees
  <2> HIDE DEF v
  <2>10. e \in [t : Trackers, gaps : Seq(Decisions)] /\ Exact(e.t) /\ SeenAll(e.t, R \cup Covered(e.gaps))
    BY <2>9, ExpireKeeps, ExpireSees
  <2> HIDE DEF e
  <2>11. r.t = e.t /\ r.gaps = <<gap>> \o e.gaps
    BY <2>1, <2>10
  <2>12. S \cup Covered(r.gaps) = R \cup Covered(e.gaps)
    <3>1. Covered(r.gaps) = (gap.start)..(gap.end - 1) \cup Covered(e.gaps)
      <4>1. gap \in Decisions /\ e.gaps \in Seq(Decisions)
        BY <2>3, <2>10
      <4> QED BY <2>11, <4>1, CoveredCons, ZenonT(30)
    <3> QED BY <3>1 DEF R
  <2> HIDE DEF r
  <2>13. Exact(r.t) /\ SeenAll(r.t, S \cup Covered(r.gaps))
    BY <2>10, <2>11, <2>12
  <2> QED BY <2>13 DEF r
<1> QED BY <1>0, <1>1, <1>2

-----------------------------------------------------------------------------
(* No sound is lost silently as long as the process does not crash and no open source *)
(* overflows. The invariant for it says of every watermark and of every tracker that  *)
(* what they count as received is written or declared.                                *)

\* The sound that the rows of the gaps stand for.
Recorded == UNION {(g[1])..(g[2] - 1) : g \in gaps}

\* The sound whose gap the receive loop is about to record: nothing but a crash keeps it
\* from doing so. (The decisions of the ticker are dropped when the socket breaks.)
Deciding(k) == IF rx[k].op = "record" THEN Covered(rx[k].todo) ELSE {}

\* The sound that is durable or declared.
Seen == disk \cup Recorded \cup UNION {Deciding(k) : k \in Conns}

\* The sound that connection k knows to be written or about to be declared.
Known(k) == Seen \cup buf[k] \cup Covered(tk[k].todo)

\* Everything up to n is in S.
AllSeen(n, S) == \A p \in Nat : p <= n => p \in S

\* What was acknowledged is seen, what was received is known.
KeptTracker(k) ==
  Opened(k) => /\ AllSeen(acked[k].seq, Seen)
               /\ ph[k] = "on" => Exact(trk[k]) /\ SeenAll(trk[k], Known(k))

\* What the ticker is about to acknowledge is seen once it is fsynced.
KeptTicker(k) ==
  /\ tk[k].op = "sync" => AllSeen(tk[k].n, Seen \cup buf[k])
  /\ tk[k].op \in {"synced", "checkpoint"} => AllSeen(tk[k].n, Seen)

\* A range of frames that left the buffer of the client.
Dropped(g) == \A p \in (g.from)..(g.to) : p \in dropped

\* Every frame of a reported range was dropped.
TrueReports(k) == \A i \in 1..Len(toSrv[k]) : toSrv[k][i].type = "gap" => Dropped(toSrv[k][i])

\* What connection k knows, and is about to tell the database, is right.
Kept(k) == KeptTracker(k) /\ KeptTicker(k) /\ TrueReports(k)

\* An overflow that is still to be reported ends where the buffer begins.
Overflow == pendingGap # NoGap => ~ready /\ pendingGap.to + 1 = lo /\ Dropped(pendingGap)

\* All of it.
Cover == Overflow /\ AllSeen(db.seq, Seen) /\ \A k \in Conns : Kept(k)

\* It holds until the process crashes or an open source overflows.
CoverInv == crashes = 0 /\ ~congested => Cover

\* What is seen by more stays seen.
LEMMA AllSeenMore ==
  ASSUME NEW n, NEW S, NEW R, S \subseteq R, AllSeen(n, S)
  PROVE  AllSeen(n, R)
BY DEF AllSeen

\* What is durable or declared stays so, unless the process crashes.
LEMMA SeenGrows ==
  ASSUME NEW k \in Conns, \A j \in Conns : j # k => rx'[j] = rx[j],
         disk \subseteq disk', gaps \subseteq gaps', \A p \in Deciding(k) : p \in Seen'
  PROVE  Seen \subseteq Seen'
<1> SUFFICES ASSUME NEW p \in Seen PROVE p \in Seen'
  OBVIOUS
<1>1. CASE p \in disk
  BY <1>1 DEF Seen
<1>2. CASE p \in Recorded
  <2>1. PICK g \in gaps : p \in (g[1])..(g[2] - 1)
    BY <1>2 DEF Recorded
  <2>2. p \in Recorded'
    BY <2>1 DEF Recorded
  <2> QED BY <2>2 DEF Seen
<1>3. ASSUME NEW j \in Conns, p \in Deciding(j) PROVE p \in Seen'
  <2>1. CASE j = k
    BY <1>3, <2>1
  <2>2. CASE j # k
    <3>1. p \in Deciding(j)'
      BY <1>3, <2>2 DEF Deciding
    <3> QED BY <3>1 DEF Seen
  <2> QED BY <2>1, <2>2
<1> QED BY <1>1, <1>2, <1>3 DEF Seen

\* A step that leaves the tracker alone.
LEMMA TrackerKept ==
  ASSUME NEW k \in Conns, KeptTracker(k), Seen \subseteq Seen', Known(k) \subseteq Known(k)',
         trk'[k] = trk[k], acked'[k] = acked[k], ph'[k] = "on" => ph[k] = "on" \/ ~Opened(k)
  PROVE  KeptTracker(k)'
<1>1. Opened(k)' = Opened(k)
  BY DEF Opened
<1> SUFFICES ASSUME Opened(k)
             PROVE  AllSeen(acked[k].seq, Seen') /\ (ph[k] = "on" => Exact(trk[k]) /\ SeenAll(trk[k], Known(k)'))
  BY <1>1 DEF KeptTracker
<1> QED BY AllSeenMore, SeesMore DEF KeptTracker

\* A step that leaves the tracker and the ticker of a connection alone.
LEMMA KeptAside ==
  ASSUME NEW k \in Conns, Kept(k), Seen \subseteq Seen',
         trk'[k] = trk[k], acked'[k] = acked[k], tk'[k] = tk[k], buf[k] \subseteq buf'[k] \cup Seen',
         ph'[k] = "on" => ph[k] = "on" \/ ~Opened(k), TrueReports(k)'
  PROVE  Kept(k)'
<1>2. Known(k) \subseteq Known(k)' /\ Seen \cup buf[k] \subseteq Seen' \cup buf'[k]
  BY DEF Known
<1>3. KeptTracker(k)'
  BY <1>2, TrackerKept DEF Kept
<1>4. KeptTicker(k)'
  BY <1>2, AllSeenMore DEF Kept, KeptTicker
<1> QED BY <1>3, <1>4 DEF Kept

\* Reports on their way stay true when nothing but other messages is sent.
LEMMA ReportsStay ==
  ASSUME NEW k \in Conns, TrueReports(k), dropped \subseteq dropped',
         \A i \in 1..Len(toSrv'[k]) : \/ toSrv'[k][i].type # "gap"
                                      \/ \E j \in 1..Len(toSrv[k]) : toSrv'[k][i] = toSrv[k][j]
  PROVE  TrueReports(k)'
<1> SUFFICES ASSUME NEW i \in 1..Len(toSrv'[k]), toSrv'[k][i].type = "gap"
             PROVE  \A p \in (toSrv'[k][i].from)..(toSrv'[k][i].to) : p \in dropped'
  BY DEF TrueReports, Dropped
<1>1. PICK j \in 1..Len(toSrv[k]) : toSrv'[k][i] = toSrv[k][j]
  OBVIOUS
<1> QED BY <1>1 DEF TrueReports, Dropped

\* A step of the server at k is checked at k alone.
LEMMA ServerCovers ==
  ASSUME NEW k \in Conns, Cover, UNCHANGED clientVars, \A j \in Conns : j # k => Same(j),
         disk \subseteq disk', gaps \subseteq gaps', \A p \in Deciding(k) : p \in Seen',
         AllSeen(db'.seq, Seen'), Seen \subseteq Seen' => Kept(k)'
  PROVE  Cover'
<1>1. dropped' = dropped /\ Overflow'
  BY DEF Cover, Overflow, clientVars, sourceVars, Dropped
<1>2. Seen \subseteq Seen'
  BY SeenGrows DEF Same
<1>3. ASSUME NEW j \in Conns, j # k PROVE Kept(j)'
  <2>1. Same(j) /\ Kept(j)
    BY <1>3 DEF Cover
  <2>2. TrueReports(j)'
    BY <1>1, <2>1 DEF Kept, TrueReports, Same, Dropped
  <2> QED BY <1>2, <2>1, <2>2, KeptAside DEF Same
<1> QED BY <1>1, <1>2, <1>3 DEF Cover

-----------------------------------------------------------------------------
\* What a step of the ticker needs: it decides nothing for the receive loop.
LEMMA DecidingStays ==
  ASSUME NEW k \in Conns, rx'[k] = rx[k]
  PROVE  \A p \in Deciding(k) : p \in Seen'
<1>1. Deciding(k)' = Deciding(k)
  BY DEF Deciding
<1> QED BY <1>1 DEF Seen

\* A step of the server that leaves the receive loop alone.
LEMMA TickerCovers ==
  ASSUME NEW k \in Conns, Cover, UNCHANGED clientVars, \A j \in Conns : j # k => Same(j),
         rx'[k] = rx[k], toSrv'[k] = toSrv[k], disk \subseteq disk', gaps \subseteq gaps',
         Seen \subseteq Seen' => AllSeen(db'.seq, Seen') /\ KeptTracker(k)' /\ KeptTicker(k)'
  PROVE  Cover'
<1>1. Seen \subseteq Seen'
  BY DecidingStays, SeenGrows DEF Same
<1>2. TrueReports(k)'
  BY DEF Cover, Kept, TrueReports, Dropped, clientVars, sourceVars
<1> QED BY <1>1, <1>2, DecidingStays, ServerCovers DEF Kept

\* The ticker fsyncs what it is going to acknowledge.
LEMMA TickSyncCovers ==
  ASSUME Inv, Cover, NEW k \in Conns, TickSync(k), UNCHANGED clientVars
  PROVE  Cover'
<1> USE DEF linkVars, dbVars
<1>1. /\ tk[k].op = "sync" /\ tk'[k].op = "synced" /\ tk'[k].n = tk[k].n /\ tk'[k].todo = tk[k].todo
      /\ disk' = disk \cup buf[k]
      /\ UNCHANGED <<toSrv, ph, rx, trk, acked, db, gaps>>
  <2>1. tk[k] \in Tickers
    BY DEF Inv, Types
  <2> QED BY <2>1 DEF Inv, Types, TickSync, Fsync, Tickers
<1>2. \A j \in Conns : j # k => Same(j)
  BY DEF Inv, Types, TickSync, Fsync, Same
<1>3. Kept(k) /\ AllSeen(db.seq, Seen)
  BY DEF Cover
<1>4. ASSUME Seen \subseteq Seen' PROVE KeptTracker(k)' /\ KeptTicker(k)' /\ AllSeen(db'.seq, Seen')
  <2>1. disk' \subseteq Seen'
    BY DEF Seen
  <2>2. Seen \cup buf[k] \subseteq Seen' /\ Known(k) \subseteq Known(k)'
    BY <1>1, <1>4, <2>1 DEF Known
  <2>3. KeptTracker(k)'
    BY <1>1, <1>3, <1>4, <2>2, TrackerKept DEF Kept
  <2>4. KeptTicker(k)'
    BY <1>1, <1>3, <2>2, AllSeenMore DEF Kept, KeptTicker
  <2> QED BY <1>1, <1>3, <1>4, <2>3, <2>4, AllSeenMore
<1> QED BY <1>1, <1>2, <1>4, TickerCovers

\* The sound before a row that was added is declared.
LEMMA RowSeen ==
  ASSUME NEW gap \in Decisions, Row(gap) \in gaps'
  PROVE  (gap.start)..(gap.end - 1) \subseteq Seen'
<1>1. Row(gap)[1] = gap.start /\ Row(gap)[2] = gap.end
  BY RowTypes
<1>2. (gap.start)..(gap.end - 1) \subseteq Recorded'
  BY <1>1 DEF Recorded
<1> QED BY <1>2 DEF Seen

\* The watermark that the ticker takes is written or declared, when nothing is left to be declared.
LEMMA WatermarkKept ==
  ASSUME Inv, NEW k \in Conns, Opened(k), ph[k] = "on", KeptTracker(k), tk[k].todo = <<>>
  PROVE  AllSeen(trk[k].seq, Seen \cup buf[k]) /\ Known(k) = Seen \cup buf[k]
<1>1. Known(k) = Seen \cup buf[k]
  BY CoveredNothing DEF Known
<1> QED BY <1>1 DEF KeptTracker, SeenAll, AllSeen

\* The ticker records a gap, or takes the watermark.
LEMMA TickRecordCovers ==
  ASSUME Inv, Cover, NEW k \in Conns, TickRecord(k), UNCHANGED clientVars
  PROVE  Cover'
<1> USE DEF linkVars, dbVars
<1>1. /\ tk[k].op = "record" /\ Opened(k) /\ ph[k] = "on" /\ tk[k].todo \in Seq(Decisions)
      /\ UNCHANGED <<toSrv, ph, rx, trk, buf, acked, disk, db>>
  <2>1. tk[k].op = "record" /\ tk[k] # Rest
    BY DEF TickRecord, Rest
  <2>2. Opened(k) /\ ph[k] = "on"
    BY <2>1 DEF Inv, Connection, TickLoop, Phase
  <2> QED BY <2>1, <2>2, Numbers DEF Inv, TickRecord
<1>2. Kept(k) /\ AllSeen(db.seq, Seen) /\ Types
  BY DEF Cover, Inv
<1>3. CASE tk[k].todo # <<>>
  <2> DEFINE step == [op |-> "record", n |-> 0, end |-> 0, todo |-> Tail(tk[k].todo)]
  <2>1. tk' = [tk EXCEPT ![k] = step] /\ gaps' = gaps \cup {Row(Head(tk[k].todo))}
    BY <1>3 DEF TickRecord, Ticker
  <2>2. tk'[k] = step
    BY <1>2, <2>1 DEF Types
  <2>3. \A j \in Conns : j # k => Same(j)
    BY <1>1, <1>2, <1>3, <2>1 DEF Types, Same, TickRecord
  <2>4. /\ Head(tk[k].todo) \in Decisions
        /\ Covered(tk[k].todo) = Covered(Tail(tk[k].todo)) \cup (Head(tk[k].todo).start)..(Head(tk[k].todo).end - 1)
    BY <1>1, <1>3, CoveredTail
  <2>5. (Head(tk[k].todo).start)..(Head(tk[k].todo).end - 1) \subseteq Seen'
    BY <2>1, <2>4, RowSeen
  <2>6. ASSUME Seen \subseteq Seen' PROVE AllSeen(db'.seq, Seen') /\ KeptTracker(k)' /\ KeptTicker(k)'
    <3>1. Known(k) \subseteq Known(k)'
      BY <1>1, <2>2, <2>4, <2>5, <2>6 DEF Known
    <3>2. KeptTracker(k)'
      BY <1>1, <1>2, <2>6, <3>1, TrackerKept DEF Kept
    <3>3. KeptTicker(k)'
      BY <2>2 DEF KeptTicker
    <3> QED BY <1>1, <1>2, <2>6, <3>2, <3>3, AllSeenMore
  <2> QED BY <1>1, <2>1, <2>3, <2>6, TickerCovers
<1>4. CASE tk[k].todo = <<>>
  <2> DEFINE step == IF dirty[k] THEN [op |-> "sync", n |-> trk[k].seq, end |-> trk[k].end, todo |-> <<>>] ELSE Rest
  <2>1. tk' = [tk EXCEPT ![k] = step] /\ gaps' = gaps
    BY <1>4 DEF TickRecord, TakeWatermark, Ticker
  <2>2. tk'[k] = step
    BY <1>2, <2>1 DEF Types
  <2>3. \A j \in Conns : j # k => Same(j)
    BY <1>1, <1>2, <1>4, <2>1 DEF Types, Same, TickRecord, TakeWatermark
  <2>4. AllSeen(trk[k].seq, Seen \cup buf[k]) /\ Known(k) = Seen \cup buf[k]
    BY <1>1, <1>2, <1>4, WatermarkKept DEF Kept
  <2>5. ASSUME Seen \subseteq Seen' PROVE AllSeen(db'.seq, Seen') /\ KeptTracker(k)' /\ KeptTicker(k)'
    <3>1. Known(k) \subseteq Known(k)' /\ Seen \cup buf[k] \subseteq Seen' \cup buf'[k]
      BY <1>1, <2>4, <2>5 DEF Known
    <3>2. KeptTracker(k)'
      BY <1>1, <1>2, <2>5, <3>1, TrackerKept DEF Kept
    <3>3. KeptTicker(k)'
      <4>1. step.op = "sync" => step.n = trk[k].seq
        BY DEF Rest
      <4>2. step.op \in {"sync", "idle"}
        BY DEF Rest
      <4> HIDE DEF step
      <4> QED BY <2>2, <2>4, <3>1, <4>1, <4>2, AllSeenMore DEF KeptTicker
    <3> QED BY <1>1, <1>2, <2>5, <3>2, <3>3, AllSeenMore
  <2> QED BY <1>1, <2>1, <2>3, <2>5, TickerCovers
<1> QED BY <1>3, <1>4

\* The ticker acknowledges what was fsynced.
LEMMA TickAckCovers ==
  ASSUME Inv, Cover, NEW k \in Conns, TickAck(k), UNCHANGED clientVars
  PROVE  Cover'
<1> USE DEF linkVars, dbVars
<1>1. /\ tk[k] \in Tickers /\ tk[k].op = "synced" /\ tk[k].todo = <<>>
      /\ UNCHANGED <<toSrv, ph, rx, trk, buf, disk, db, gaps>>
  <2>1. tk[k] \in Tickers /\ tk[k].op = "synced"
    BY DEF Inv, Types, TickAck
  <2> QED BY <2>1 DEF Inv, Connection, TickLoop, TickAck
<1>2. Kept(k) /\ AllSeen(db.seq, Seen) /\ Types
  BY DEF Cover, Inv
<1>3. AllSeen(tk[k].n, Seen)
  BY <1>1, <1>2 DEF Kept, KeptTicker
<1>4. Known(k) = Seen \cup buf[k]
  BY <1>1, CoveredNothing DEF Known
<1>5. CASE tk[k].n > acked[k].seq
  <2> DEFINE step == [tk[k] EXCEPT !.op = "checkpoint"]
             upto == [seq |-> tk[k].n, end |-> tk[k].end]
  <2>1. tk' = [tk EXCEPT ![k] = step] /\ acked' = [acked EXCEPT ![k] = upto]
    BY <1>5 DEF TickAck
  <2>2. step.op = "checkpoint" /\ step.n = tk[k].n
    BY <1>1 DEF Tickers
  <2> HIDE DEF step
  <2>3. tk'[k] = step /\ acked'[k] = upto
    BY <1>2, <2>1 DEF Types
  <2>4. \A j \in Conns : j # k => Same(j)
    BY <1>1, <1>2, <2>1 DEF Types, Same, TickAck
  <2>5. ASSUME Seen \subseteq Seen' PROVE AllSeen(db'.seq, Seen') /\ KeptTracker(k)' /\ KeptTicker(k)'
    <3>1. Known(k) \subseteq Known(k)' /\ AllSeen(tk[k].n, Seen') /\ AllSeen(db.seq, Seen')
      BY <1>1, <1>2, <1>3, <1>4, <2>5, AllSeenMore DEF Known
    <3>2. KeptTracker(k)'
      BY <1>1, <1>2, <2>3, <3>1, SeesMore DEF Kept, KeptTracker, Opened
    <3>3. KeptTicker(k)'
      BY <2>2, <2>3, <3>1 DEF KeptTicker
    <3> QED BY <1>1, <3>1, <3>2, <3>3
  <2> QED BY <1>1, <2>4, <2>5, TickerCovers
<1>6. CASE ~(tk[k].n > acked[k].seq)
  <2>1. tk' = [tk EXCEPT ![k] = Rest] /\ acked' = acked
    BY <1>6 DEF TickAck
  <2>2. tk'[k] = Rest
    BY <1>2, <2>1 DEF Types
  <2>3. \A j \in Conns : j # k => Same(j)
    BY <1>1, <1>2, <2>1 DEF Types, Same, TickAck
  <2>4. ASSUME Seen \subseteq Seen' PROVE AllSeen(db'.seq, Seen') /\ KeptTracker(k)' /\ KeptTicker(k)'
    <3>1. Known(k) \subseteq Known(k)' /\ AllSeen(db.seq, Seen')
      BY <1>1, <1>2, <1>4, <2>4, AllSeenMore DEF Known
    <3>2. KeptTracker(k)'
      BY <1>1, <1>2, <2>1, <2>4, <3>1, TrackerKept DEF Kept
    <3>3. KeptTicker(k)'
      BY <2>2 DEF KeptTicker, Rest
    <3> QED BY <1>1, <3>1, <3>2, <3>3
  <2> QED BY <1>1, <2>3, <2>4, TickerCovers
<1> QED BY <1>5, <1>6

\* The ticker writes the checkpoint.
LEMMA TickCheckpointCovers ==
  ASSUME Inv, Cover, NEW k \in Conns, TickCheckpoint(k), UNCHANGED clientVars
  PROVE  Cover'
<1> USE DEF linkVars, dbVars
<1>1. /\ tk[k] \in Tickers /\ tk[k].op = "checkpoint" /\ tk[k].todo = <<>> /\ tk[k].n >= -1 /\ tk[k].end = tk[k].n + 1
      /\ UNCHANGED <<toSrv, ph, rx, trk, buf, acked, disk, gaps>>
      /\ tk' = [tk EXCEPT ![k] = Rest] /\ Persist(tk[k].n, tk[k].end)
  <2>1. tk[k] \in Tickers /\ tk[k].op = "checkpoint"
    BY DEF Inv, Types, TickCheckpoint
  <2> QED BY <2>1 DEF Inv, Connection, TickLoop, TickCheckpoint
<1>2. Kept(k) /\ AllSeen(db.seq, Seen) /\ Types
  BY DEF Cover, Inv
<1>3. AllSeen(tk[k].n, Seen)
  BY <1>1, <1>2 DEF Kept, KeptTicker
<1>4. Known(k) = Seen \cup buf[k]
  BY <1>1, CoveredNothing DEF Known
<1>5. db'.seq = db.seq \/ db'.seq = tk[k].n
  <2>1. db \in Checkpoints /\ tk[k].n \in Nat \cup {-1}
    BY <1>1, <1>2, Numbers
  <2> QED BY <1>1, <2>1, PersistKeeps
<1>6. tk'[k] = Rest
  BY <1>1, <1>2 DEF Types
<1>7. \A j \in Conns : j # k => Same(j)
  BY <1>1, <1>2 DEF Types, Same, TickCheckpoint, Reply, Queued
<1>8. ASSUME Seen \subseteq Seen' PROVE AllSeen(db'.seq, Seen') /\ KeptTracker(k)' /\ KeptTicker(k)'
  <2>1. Known(k) \subseteq Known(k)' /\ AllSeen(db'.seq, Seen')
    BY <1>1, <1>2, <1>3, <1>4, <1>5, <1>8, AllSeenMore DEF Known
  <2>2. KeptTracker(k)'
    BY <1>1, <1>2, <1>8, <2>1, TrackerKept DEF Kept
  <2>3. KeptTicker(k)'
    BY <1>6 DEF KeptTicker, Rest
  <2> QED BY <2>1, <2>2, <2>3
<1> QED BY <1>1, <1>7, <1>8, TickerCovers

\* The ticker expires gaps and flushes what was written.
LEMMA TickFlushCovers ==
  ASSUME Inv, Cover, NEW k \in Conns, TickFlush(k), UNCHANGED clientVars
  PROVE  Cover'
<1> USE DEF linkVars, dbVars
<1>1. PICK late \in SUBSET Pending(trk[k]) : Flush(k, late)
  BY DEF TickFlush
<1> DEFINE r == Expire(trk[k], late)
<1>2. /\ ph[k] = "on" /\ tk[k] = Rest /\ Opened(k)
      /\ trk' = [trk EXCEPT ![k] = r.t]
      /\ UNCHANGED <<up, toSrv, toCli, ph, rx, buf, closed, closedSeq, acked, disk, db, gaps>>
  BY <1>1 DEF Flush
<1>3. Kept(k) /\ AllSeen(db.seq, Seen) /\ Types
  BY DEF Cover, Inv
<1>4. /\ WellFormed(trk[k]) /\ Truthful(trk[k], dropped) /\ Exact(trk[k]) /\ SeenAll(trk[k], Seen \cup buf[k])
      /\ AllSeen(acked[k].seq, Seen)
  <2>1. Known(k) = Seen \cup buf[k]
    BY <1>2, CoveredNothing DEF Known, Rest
  <2> QED BY <1>2, <1>3, <2>1, Watermark DEF Kept, KeptTracker
<1>5. Exact(r.t) /\ SeenAll(r.t, Seen \cup buf[k] \cup Covered(r.gaps))
  BY <1>4, ExpireKeeps, ExpireSees
<1> DEFINE step == IF r.gaps = <<>>
                   THEN IF dirty[k] THEN [op |-> "sync", n |-> r.t.seq, end |-> r.t.end, todo |-> <<>>] ELSE Rest
                   ELSE [op |-> "record", n |-> 0, end |-> 0, todo |-> r.gaps]
<1>6. tk' = [tk EXCEPT ![k] = step] /\ dirty' = [dirty EXCEPT ![k] = IF r.gaps = <<>> THEN FALSE ELSE @]
  <2>1. CASE r.gaps = <<>>
    BY <1>1, <2>1 DEF Flush, TakeWatermark, Ticker
  <2>2. CASE r.gaps # <<>>
    <3>1. tk' = [tk EXCEPT ![k] = step] /\ dirty' = dirty
      BY <1>1, <2>2 DEF Flush, Ticker
    <3> QED BY <1>3, <3>1, <2>2 DEF Types
  <2> QED BY <2>1, <2>2
<1> HIDE DEF r
<1>7. tk'[k] = step /\ trk'[k] = r.t
  BY <1>2, <1>3, <1>6 DEF Types
<1>8. \A j \in Conns : j # k => Same(j)
  BY <1>2, <1>3, <1>6 DEF Types, Same
<1>9. /\ step.todo = r.gaps /\ step.op \in {"sync", "idle", "record"}
      /\ step.op = "sync" => step.n = r.t.seq /\ r.gaps = <<>>
  BY DEF Rest
<1> HIDE DEF step
<1>10. ASSUME Seen \subseteq Seen' PROVE AllSeen(db'.seq, Seen') /\ KeptTracker(k)' /\ KeptTicker(k)'
  <2>1. Seen \cup buf[k] \cup Covered(r.gaps) \subseteq Known(k)' /\ AllSeen(db.seq, Seen') /\ AllSeen(acked[k].seq, Seen')
    BY <1>2, <1>3, <1>4, <1>7, <1>9, <1>10, AllSeenMore DEF Known
  <2>2. KeptTracker(k)'
    BY <1>2, <1>5, <1>7, <2>1, SeesMore DEF KeptTracker
  <2>3. KeptTicker(k)'
    <3>1. step.op = "sync" => AllSeen(r.t.seq, Seen \cup buf[k])
      BY <1>5, <1>9, CoveredNothing DEF SeenAll, AllSeen
    <3>2. Seen \cup buf[k] \subseteq Seen' \cup buf'[k]
      BY <1>2, <1>10
    <3> QED BY <1>7, <1>9, <3>1, <3>2, AllSeenMore DEF KeptTicker
  <2> QED BY <1>2, <2>1, <2>2, <2>3
<1> QED BY <1>2, <1>8, <1>10, TickerCovers

\* The handler leaves its receive loop: what the ticker had decided is not declared, and
\* what it was going to acknowledge is not acknowledged.
LEMMA DisconnectCovers ==
  ASSUME Inv, Cover, NEW k \in Conns, Disconnect(k), UNCHANGED clientVars
  PROVE  Cover'
<1> USE DEF linkVars, dbVars
<1>1. /\ ph' = [ph EXCEPT ![k] = "closing"] /\ tk' = [tk EXCEPT ![k] = Rest] /\ toSrv' = [toSrv EXCEPT ![k] = <<>>]
      /\ UNCHANGED <<up, toCli, rx, trk, buf, dirty, closed, closedSeq, acked, disk, db>>
      /\ gaps \subseteq gaps'
  BY DEF Disconnect
<1>2. Kept(k) /\ AllSeen(db.seq, Seen) /\ Types
  BY DEF Cover, Inv
<1>3. ph'[k] = "closing" /\ tk'[k] = Rest /\ toSrv'[k] = <<>>
  BY <1>1, <1>2 DEF Types
<1>4. \A j \in Conns : j # k => Same(j)
  BY <1>1, <1>2 DEF Types, Same
<1>5. ASSUME Seen \subseteq Seen' PROVE Kept(k)' /\ AllSeen(db'.seq, Seen')
  <2>1. AllSeen(db.seq, Seen') /\ (Opened(k) => AllSeen(acked[k].seq, Seen'))
    BY <1>2, <1>5, AllSeenMore DEF Kept, KeptTracker
  <2>2. KeptTracker(k)'
    BY <1>1, <1>3, <2>1 DEF KeptTracker, Opened
  <2>3. KeptTicker(k)' /\ TrueReports(k)'
    BY <1>3 DEF KeptTicker, TrueReports, Rest
  <2> QED BY <1>1, <2>1, <2>2, <2>3 DEF Kept
<1>6. Seen \subseteq Seen'
  BY <1>1, <1>4, DecidingStays, SeenGrows DEF Same
<1> QED BY <1>1, <1>4, <1>5, <1>6, DecidingStays, ServerCovers

\* The writer is closed.
LEMMA CloseWriterCovers ==
  ASSUME Inv, Cover, NEW k \in Conns, CloseWriter(k), UNCHANGED clientVars
  PROVE  Cover'
<1> USE DEF linkVars, dbVars
<1>1. /\ ph' = [ph EXCEPT ![k] = "leaving"] /\ disk' = disk \cup buf[k] /\ buf' = [buf EXCEPT ![k] = {}]
      /\ UNCHANGED <<up, toSrv, toCli, rx, tk, trk, dirty, closed, closedSeq, acked, db, gaps>>
  BY DEF CloseWriter, Fsync
<1>2. Kept(k) /\ AllSeen(db.seq, Seen) /\ Types
  BY DEF Cover, Inv
<1>3. ph'[k] = "leaving"
  BY <1>1, <1>2 DEF Types
<1>4. \A j \in Conns : j # k => Same(j)
  BY <1>1, <1>2 DEF Types, Same
<1>5. ASSUME Seen \subseteq Seen' PROVE AllSeen(db'.seq, Seen') /\ KeptTracker(k)' /\ KeptTicker(k)'
  <2>1. buf[k] \subseteq Seen'
    BY <1>1 DEF Seen
  <2>2. TrueReports(k)'
    BY <1>1, <1>2 DEF Kept, TrueReports, Dropped, clientVars, sourceVars
  <2>3. Kept(k)'
    BY <1>1, <1>2, <1>3, <1>5, <2>1, <2>2, KeptAside
  <2> QED BY <1>1, <1>2, <1>5, <2>3, AllSeenMore DEF Kept
<1> QED BY <1>1, <1>4, <1>5, TickerCovers

\* The last checkpoint of the connection is what it acknowledged.
LEMMA LeaveCovers ==
  ASSUME Inv, Cover, NEW k \in Conns, Leave(k), UNCHANGED clientVars
  PROVE  Cover'
<1> USE DEF linkVars, dbVars
<1>1. /\ trk' = [trk EXCEPT ![k] = NoTracker] /\ ph[k] = "leaving"
      /\ IF Opened(k) THEN Persist(acked[k].seq, acked[k].end) ELSE UNCHANGED db
      /\ UNCHANGED <<up, toSrv, toCli, rx, tk, buf, disk, gaps>>
  BY DEF Leave
<1>2. Kept(k) /\ AllSeen(db.seq, Seen) /\ Types /\ Connection(k)
  BY DEF Cover, Inv
<1>3. ~Opened(k)' /\ tk[k] = Rest
  BY <1>1, <1>2 DEF Types, Opened, Connection, Phase
<1>4. \A j \in Conns : j # k => Same(j)
  BY <1>1, <1>2 DEF Types, Same, Leave
<1>5. AllSeen(db'.seq, Seen)
  <2>1. CASE Opened(k)
    <3>1. acked[k].end = acked[k].seq + 1 /\ acked[k].seq \in Nat \cup {-1} /\ db \in Checkpoints
      BY <1>2, <2>1, Numbers DEF Connection, Tracking
    <3>2. Persist(acked[k].seq, acked[k].seq + 1)
      BY <1>1, <2>1, <3>1
    <3>3. db'.seq = db.seq \/ db'.seq = acked[k].seq
      BY <3>1, <3>2, PersistKeeps
    <3> QED BY <1>2, <2>1, <3>3 DEF Kept, KeptTracker
  <2>2. CASE ~Opened(k)
    BY <1>1, <1>2, <2>2
  <2> QED BY <2>1, <2>2
<1>6. ASSUME Seen \subseteq Seen' PROVE AllSeen(db'.seq, Seen') /\ KeptTracker(k)' /\ KeptTicker(k)'
  BY <1>1, <1>3, <1>5, <1>6, AllSeenMore DEF KeptTracker, KeptTicker, Rest
<1> QED BY <1>1, <1>4, <1>6, TickerCovers

-----------------------------------------------------------------------------
\* Taking a message from a queue.
LEMMA QueueReports ==
  ASSUME Types, NEW k \in Conns, TrueReports(k), UNCHANGED clientVars,
         toSrv'[k] = toSrv[k] \/ (toSrv[k] # <<>> /\ toSrv'[k] = Tail(toSrv[k]))
  PROVE  TrueReports(k)'
<1>1. toSrv[k] \in Seq(ToServer) /\ dropped' = dropped
  BY Numbers DEF clientVars, sourceVars
<1>2. \A i \in 1..Len(toSrv'[k]) : \E j \in 1..Len(toSrv[k]) : toSrv'[k][i] = toSrv[k][j]
  <2>1. CASE toSrv'[k] = toSrv[k]
    BY <2>1
  <2>2. CASE toSrv[k] # <<>> /\ toSrv'[k] = Tail(toSrv[k])
    BY <1>1, <2>2, TailWithin
  <2> QED BY <2>1, <2>2
<1> QED BY <1>1, <1>2, ReportsStay

\* A step of the server that leaves the tracker and the ticker alone.
LEMMA ReceiverCovers ==
  ASSUME Inv, Cover, NEW k \in Conns, UNCHANGED clientVars, \A j \in Conns : j # k => Same(j),
         trk'[k] = trk[k], acked'[k] = acked[k], tk'[k] = tk[k], buf[k] \subseteq buf'[k] \cup disk',
         ph'[k] = "on" => ph[k] = "on" \/ ~Opened(k),
         toSrv'[k] = toSrv[k] \/ (toSrv[k] # <<>> /\ toSrv'[k] = Tail(toSrv[k])),
         disk \subseteq disk', gaps \subseteq gaps', \A p \in Deciding(k) : p \in Seen', AllSeen(db'.seq, Seen)
  PROVE  Cover'
<1>1. Kept(k) /\ Types
  BY DEF Cover, Inv
<1>2. TrueReports(k)'
  BY <1>1, QueueReports DEF Kept
<1>3. buf[k] \subseteq buf'[k] \cup Seen'
  BY DEF Seen
<1>4. ASSUME Seen \subseteq Seen' PROVE Kept(k)' /\ AllSeen(db'.seq, Seen')
  <2>1. Kept(k)'
    BY <1>1, <1>2, <1>3, <1>4, KeptAside
  <2> QED BY <1>4, <2>1, AllSeenMore
<1>5. Seen \subseteq Seen'
  BY SeenGrows DEF Same
<1> QED BY <1>4, <1>5, ServerCovers

\* The receive loop records a gap.
LEMMA RecordGapCovers ==
  ASSUME Inv, Cover, NEW k \in Conns, RecordGap(k), UNCHANGED clientVars
  PROVE  Cover'
<1> USE DEF linkVars, dbVars
<1>1. /\ rx[k].op = "record" /\ rx[k].todo # <<>>
      /\ UNCHANGED <<up, toSrv, toCli, ph, tk, trk, buf, dirty, closed, closedSeq, acked, disk, db>>
      /\ gaps' = gaps \cup {Row(Head(rx[k].todo))}
  <2>1. rx[k].op \in RxOps
    BY Numbers DEF Inv
  <2> QED BY <2>1 DEF RecordGap, RxOps
<1>2. Types /\ Connection(k) /\ AllSeen(db.seq, Seen)
  BY DEF Inv, Cover
<1>3. rx[k].todo \in Seq(Decisions)
  BY <1>1, <1>2 DEF Connection, ReceiveLoop
<1>4. /\ Head(rx[k].todo) \in Decisions
      /\ Covered(rx[k].todo) = Covered(Tail(rx[k].todo)) \cup (Head(rx[k].todo).start)..(Head(rx[k].todo).end - 1)
  BY <1>1, <1>3, CoveredTail
<1> DEFINE step == IF Tail(rx[k].todo) = <<>> THEN Idle
                   ELSE [op |-> "record", n |-> rx[k].n, todo |-> Tail(rx[k].todo)]
<1>5. rx' = [rx EXCEPT ![k] = step]
  BY <1>1 DEF RecordGap, Goto
<1>6. rx'[k] = step /\ \A j \in Conns : j # k => Same(j)
  BY <1>1, <1>2, <1>5 DEF Types, Same
<1>7. \A p \in Deciding(k) : p \in Seen'
  <2>1. (Head(rx[k].todo).start)..(Head(rx[k].todo).end - 1) \subseteq Seen'
    BY <1>1, <1>4, RowSeen
  <2>2. Covered(Tail(rx[k].todo)) \subseteq Deciding(k)'
    <3>1. (step.op = "record" /\ step.todo = Tail(rx[k].todo)) \/ Tail(rx[k].todo) = <<>>
      OBVIOUS
    <3> HIDE DEF step
    <3> QED BY <1>6, <3>1, CoveredNothing DEF Deciding
  <2> QED BY <1>1, <1>4, <2>1, <2>2 DEF Deciding, Seen
<1> QED BY <1>1, <1>2, <1>6, <1>7, ReceiverCovers

\* The receive loop is not recording a gap.
LEMMA NotDeciding ==
  ASSUME NEW k \in Conns, rx[k].op # "record"
  PROVE  \A p \in Deciding(k) : p \in Seen'
BY DEF Deciding

\* source_close: the frames are fsynced ...
LEMMA CloseSyncCovers ==
  ASSUME Inv, Cover, NEW k \in Conns, CloseSync(k) \/ CloseAnswer(k), UNCHANGED clientVars
  PROVE  Cover'
<1> USE DEF linkVars, dbVars
<1>1. /\ rx[k].op # "record" /\ disk' = disk \cup buf[k]
      /\ UNCHANGED <<up, toSrv, ph, tk, trk, dirty, closed, closedSeq, acked, db, gaps>>
  BY DEF CloseSync, CloseAnswer, Fsync
<1>2. Types /\ AllSeen(db.seq, Seen)
  BY DEF Inv, Cover
<1>3. \A j \in Conns : j # k => Same(j)
  BY <1>1, <1>2 DEF Types, Same, CloseSync, CloseAnswer, Fsync, Goto, Reply, Queued
<1> QED BY <1>1, <1>2, <1>3, NotDeciding, ReceiverCovers

\* ... and nothing is left to be acknowledged ...
LEMMA CloseAckCovers ==
  ASSUME Inv, Cover, NEW k \in Conns, CloseAck(k) \/ CloseEpoch(k), UNCHANGED clientVars
  PROVE  Cover'
<1> USE DEF linkVars, dbVars
<1>1. rx[k].op \in {"ack", "epoch"}
  BY DEF CloseAck, CloseEpoch
<1>2. Types /\ AllSeen(db.seq, Seen) /\ ~(trk[k].seq > acked[k].seq) /\ db \in Checkpoints
  <2>1. trk[k].seq = acked[k].seq /\ acked[k].seq \in Int /\ Types
    BY <1>1, ClosingFacts
  <2> QED BY <2>1, Numbers DEF Cover
<1>3. /\ UNCHANGED <<up, toSrv, toCli, ph, tk, trk, buf, dirty, acked, disk, gaps>>
      /\ db'.seq = db.seq
  BY <1>2 DEF CloseAck, CloseEpoch, Checkpoints
<1>4. \A j \in Conns : j # k => Same(j)
  BY <1>2, <1>3 DEF Types, Same, CloseAck, CloseEpoch, Goto
<1> QED BY <1>1, <1>2, <1>3, <1>4, NotDeciding, ReceiverCovers

\* ... the checkpoint is written.
LEMMA ClosePersistCovers ==
  ASSUME Inv, Cover, NEW k \in Conns, ClosePersist(k), UNCHANGED clientVars
  PROVE  Cover'
<1> USE DEF linkVars, dbVars
<1>1. /\ rx[k].op = "persist" /\ Persist(acked[k].seq, acked[k].end)
      /\ UNCHANGED <<up, toSrv, toCli, ph, tk, trk, buf, dirty, closed, closedSeq, acked, disk, gaps>>
  BY DEF ClosePersist
<1>2. Types /\ Opened(k) /\ acked[k].end = acked[k].seq + 1 /\ acked[k].seq \in Nat \cup {-1} /\ db \in Checkpoints
  <2>1. Types /\ Opened(k) /\ acked[k].end = acked[k].seq + 1
    BY <1>1, ClosingFacts
  <2> QED BY <2>1, Numbers
<1>3. AllSeen(db'.seq, Seen)
  <2>1. Persist(acked[k].seq, acked[k].seq + 1)
    BY <1>1, <1>2
  <2>2. db'.seq = db.seq \/ db'.seq = acked[k].seq
    BY <1>2, <2>1, PersistKeeps
  <2> QED BY <1>2, <2>2 DEF Cover, Kept, KeptTracker
<1>4. \A j \in Conns : j # k => Same(j)
  BY <1>1, <1>2 DEF Types, Same, ClosePersist, Goto
<1> QED BY <1>1, <1>3, <1>4, NotDeciding, ReceiverCovers

\* A message is taken that tells the tracker nothing.
LEMMA OpenSourceCovers ==
  ASSUME Inv, Cover, NEW k \in Conns, OpenSource(k) \/ Frame(k), UNCHANGED clientVars
  PROVE  Cover'
<1> USE DEF linkVars, dbVars
<1>1. /\ rx[k] = Idle /\ toSrv[k] # <<>> /\ toSrv' = [toSrv EXCEPT ![k] = Tail(@)]
      /\ UNCHANGED <<up, toCli, ph, tk, trk, buf, dirty, closed, closedSeq, acked, disk, db, gaps>>
  BY DEF OpenSource, Frame, Receives, Consume
<1>2. Types /\ AllSeen(db.seq, Seen) /\ rx[k].op # "record"
  BY <1>1 DEF Inv, Cover, Idle
<1>3. toSrv'[k] = Tail(toSrv[k]) /\ \A j \in Conns : j # k => Same(j)
  BY <1>1, <1>2 DEF Types, Same, OpenSource, Frame, Goto
<1> QED BY <1>1, <1>2, <1>3, NotDeciding, ReceiverCovers

\* source_close arrives when everything is acknowledged.
LEMMA SourceCloseCovers ==
  ASSUME Inv, Cover, NEW k \in Conns, SourceClose(k), UNCHANGED clientVars
  PROVE  Cover'
<1> USE DEF linkVars, dbVars
<1>1. /\ rx[k] = Idle /\ toSrv[k] # <<>> /\ Head(toSrv[k]).type = "close" /\ toSrv' = [toSrv EXCEPT ![k] = Tail(@)]
      /\ UNCHANGED <<up, ph, tk, buf, dirty, closed, closedSeq, acked, disk, db, gaps>>
  BY DEF SourceClose, Receives, Consume
<1>2. Types /\ Connection(k) /\ AllSeen(db.seq, Seen) /\ rx[k].op # "record" /\ toSrv[k] \in Seq(ToServer)
  <2>1. Types /\ Connection(k)
    BY DEF Inv
  <2> QED BY <1>1, <2>1, Numbers DEF Cover, Idle
<1>3. Opened(k) => trk[k].seq >= Message(k).n
  <2>1. toSrv[k][1] = Head(toSrv[k]) /\ 1 \in 1..Len(toSrv[k])
    BY <1>1, <1>2, TailOf
  <2>2. Message(k).n = next - 1 /\ (Opened(k) => acked[k].seq = next - 1)
    BY <1>1, <1>2, <2>1 DEF Connection, Closing, Message
  <2>3. Opened(k) => acked[k].seq <= trk[k].seq /\ trk[k].seq \in Int
    BY <1>2, Watermark DEF Connection, Tracking
  <2>4. next \in Nat
    BY <1>2, Numbers
  <2> QED BY <2>2, <2>3, <2>4
<1>4. trk' = trk
  BY <1>3 DEF SourceClose
<1>5. toSrv'[k] = Tail(toSrv[k]) /\ \A j \in Conns : j # k => Same(j)
  <2>1. \A j \in Conns : j # k => rx'[j] = rx[j] /\ toCli'[j] = toCli[j]
    BY <1>2, <1>3 DEF Types, SourceClose, Goto, Reply, Queued
  <2> QED BY <1>1, <1>2, <1>4, <2>1 DEF Types, Same
<1> QED BY <1>1, <1>2, <1>4, <1>5, NotDeciding, ReceiverCovers

\* The hello is answered, or the socket breaks.
LEMMA WelcomeCovers ==
  ASSUME Inv, Cover, NEW k \in Conns, Welcome(k) \/ Drop(k), UNCHANGED clientVars
  PROVE  Cover'
<1> USE DEF linkVars, dbVars, serverVars, connVars
<1>1. UNCHANGED <<toSrv, rx, tk, trk, buf, dirty, closed, closedSeq, acked, disk, db, gaps>>
  BY DEF Welcome, Drop
<1>2. Types /\ Connection(k) /\ AllSeen(db.seq, Seen)
  BY DEF Inv, Cover
<1>3. ph'[k] = "on" => ph[k] = "on" \/ ~Opened(k)
  BY <1>2 DEF Connection, Phase, Welcome, Drop
<1>4. \A j \in Conns : j # k => Same(j)
  BY <1>1, <1>2 DEF Types, Same, Welcome, Drop, Reply, Queued
<1> QED BY <1>1, <1>2, <1>3, <1>4, DecidingStays, ReceiverCovers

\* source_ready: the tracker starts at the checkpoint.
LEMMA SourceReadyCovers ==
  ASSUME Inv, Cover, NEW k \in Conns, SourceReady(k), UNCHANGED clientVars
  PROVE  Cover'
<1> USE DEF linkVars, dbVars
<1> DEFINE opened == rx[k].todo[1]
<1>1. /\ rx[k].op = "open" /\ rx' = [rx EXCEPT ![k] = Idle]
      /\ UNCHANGED <<up, toSrv, ph, tk, buf, dirty, closed, disk, db, gaps>>
  BY DEF SourceReady
<1>2. Types /\ Connection(k) /\ Kept(k) /\ AllSeen(db.seq, Seen) /\ Opening(k) /\ rx[k].op # "record"
  BY <1>1 DEF Inv, Cover, Opening
<1>3. ~Opened(k) /\ tk[k] = Rest
  BY <1>2 DEF Connection, Handshake, Phase
<1>4. opened \in Checkpoints /\ opened.seq <= db.seq /\ opened.end = opened.seq + 1
  BY <1>1, <1>2 DEF Connection, ReceiveLoop
<1> HIDE DEF opened
<1>5. CASE opened.closed
  <2>1. trk' = trk /\ acked' = acked
    BY <1>5 DEF SourceReady, opened
  <2>2. \A j \in Conns : j # k => Same(j)
    BY <1>1, <1>2, <2>1 DEF Types, Same, SourceReady, Reply, Queued
  <2> QED BY <1>1, <1>2, <2>1, <2>2, NotDeciding, ReceiverCovers
<1>6. CASE ~opened.closed
  <2> DEFINE t == NewTracker(opened.seq, opened.end)
             upto == [seq |-> opened.seq, end |-> opened.end]
  <2>1. trk' = [trk EXCEPT ![k] = t] /\ acked' = [acked EXCEPT ![k] = upto] /\ closedSeq' = closedSeq
    BY <1>3, <1>6 DEF SourceReady, opened
  <2>2. trk'[k] = t /\ acked'[k] = upto /\ \A j \in Conns : j # k => Same(j)
    BY <1>1, <1>2, <2>1 DEF Types, Same, SourceReady, Reply, Queued
  <2>3. AllSeen(opened.seq, Seen)
    <3>1. opened.seq \in Int /\ db.seq \in Int
      BY <1>2, <1>4, Numbers DEF Checkpoints
    <3> QED BY <1>2, <1>4, <3>1 DEF AllSeen
  <2>4. t.seq = opened.seq /\ t.end = opened.end /\ Pending(t) = {}
    BY DEF NewTracker, Pending
  <2> HIDE DEF t
  <2>5. Exact(t)
    BY <1>4, <2>4 DEF Exact
  <2>6. ASSUME Seen \subseteq Seen' PROVE AllSeen(db'.seq, Seen') /\ Kept(k)'
    <3>1. AllSeen(opened.seq, Seen') /\ AllSeen(db.seq, Seen')
      BY <1>2, <2>3, <2>6, AllSeenMore
    <3>2. SeenAll(t, Seen')
      BY <2>4, <3>1 DEF AllSeen, SeenAll
    <3>3. Seen' \subseteq Known(k)'
      BY DEF Known
    <3>4. KeptTracker(k)'
      BY <2>2, <2>5, <3>1, <3>2, <3>3, SeesMore DEF KeptTracker
    <3>5. KeptTicker(k)'
      BY <1>1, <1>3 DEF KeptTicker, Rest
    <3>6. TrueReports(k)'
      BY <1>1, <1>2, QueueReports DEF Kept
    <3> QED BY <1>1, <3>1, <3>4, <3>5, <3>6 DEF Kept
  <2>7. Seen \subseteq Seen'
    BY <1>1, <1>2, <2>2, NotDeciding, SeenGrows DEF Same
  <2> QED BY <1>1, <1>2, <2>2, <2>6, <2>7, NotDeciding, ServerCovers
<1> QED BY <1>5, <1>6

\* The tracker takes a frame or a report, and the receive loop is going to record the gaps.
LEMMA TakenCovers ==
  ASSUME Inv, Cover, NEW k \in Conns, NEW t, NEW todo, NEW n, UNCHANGED clientVars,
         \A j \in Conns : j # k => Same(j), rx[k].op # "record",
         UNCHANGED <<ph, tk, acked, disk, db, gaps>>,
         trk'[k] = t, rx'[k] = [op |-> IF todo = <<>> THEN "idle" ELSE "record", n |-> 0, todo |-> todo],
         buf'[k] = buf[k] \cup n, Opened(k),
         toSrv'[k] = toSrv[k] \/ (toSrv[k] # <<>> /\ toSrv'[k] = Tail(toSrv[k])),
         Exact(t), SeenAll(t, Known(k) \cup n \cup Covered(todo))
  PROVE  Cover'
<1> USE DEF dbVars
<1>1. Kept(k) /\ AllSeen(db.seq, Seen) /\ Types
  BY DEF Cover, Inv
<1>2. Seen \subseteq Seen'
  BY NotDeciding, SeenGrows DEF Same
<1>3. Covered(todo) \subseteq Seen'
  <2>1. Covered(todo) \subseteq Deciding(k)'
    BY CoveredNothing DEF Deciding
  <2> QED BY <2>1 DEF Seen
<1>4. Known(k) \cup n \cup Covered(todo) \subseteq Known(k)'
  BY <1>2, <1>3 DEF Known
<1>5. AllSeen(acked[k].seq, Seen') /\ AllSeen(db.seq, Seen')
  BY <1>1, <1>2, AllSeenMore DEF Kept, KeptTracker
<1>6. KeptTracker(k)'
  BY <1>4, <1>5, SeesMore DEF KeptTracker
<1>7. KeptTicker(k)'
  <2>1. Seen \cup buf[k] \subseteq Seen' \cup buf'[k]
    BY <1>2
  <2> QED BY <1>1, <1>2, <2>1, AllSeenMore DEF Kept, KeptTicker
<1>8. TrueReports(k)'
  BY <1>1, QueueReports DEF Kept
<1> QED BY <1>5, <1>6, <1>7, <1>8, NotDeciding, ServerCovers DEF Kept

\* The frame is in the file.
LEMMA FrameWrittenCovers ==
  ASSUME Inv, Cover, NEW k \in Conns, FrameWritten(k), UNCHANGED clientVars
  PROVE  Cover'
<1> USE DEF linkVars, dbVars
<1>1. PICK late \in SUBSET Pending(trk[k]) :
        LET r == Accept(trk[k], rx[k].n, rx[k].n, 1, late)
        IN  /\ trk' = [trk EXCEPT ![k] = r.t]
            /\ Goto(k, IF r.gaps = <<>> THEN "idle" ELSE "record", 0, r.gaps)
  BY DEF FrameWritten
<1> DEFINE n == rx[k].n
           r == Accept(trk[k], n, n, 1, late)
           step == [op |-> IF r.gaps = <<>> THEN "idle" ELSE "record", n |-> 0, todo |-> r.gaps]
<1>2. /\ rx[k].op = "write" /\ trk' = [trk EXCEPT ![k] = r.t] /\ rx' = [rx EXCEPT ![k] = step]
      /\ buf' = [buf EXCEPT ![k] = @ \cup {n}] /\ dirty' = [dirty EXCEPT ![k] = TRUE]
      /\ UNCHANGED <<up, toSrv, toCli, ph, prev, tk, closed, closedSeq, acked, registry, disk, db, gaps, crashes>>
  BY <1>1 DEF FrameWritten, WriteFrame, Goto
<1>3. /\ rx[k] # Idle /\ Types /\ Connection(k) /\ Opened(k) /\ next \in Nat /\ ph[k] = "on" /\ Kept(k)
      /\ next <= MaxFrames /\ MaxFrames \in Nat
  BY <1>2, BusyFacts, Busy, Numbers, UploaderAssumption DEF Cover
<1>4. /\ n \in 0..(next - 1) /\ n \notin Upto(trk[k])
      /\ \A p \in 0..(n - 1) : p \in Upto(trk[k]) \cup dropped
  BY <1>2, <1>3 DEF Connection, ReceiveLoop
<1>5. /\ WellFormed(trk[k]) /\ Truthful(trk[k], dropped) /\ Exact(trk[k]) /\ SeenAll(trk[k], Known(k))
  BY <1>3 DEF Connection, Tracking, Kept, KeptTracker
<1>6. Exact(r.t) /\ SeenAll(r.t, Known(k) \cup {n} \cup Covered(r.gaps))
  <2>1. n \in 0..(MaxFrames - 1)
    <3> HIDE DEF n
    <3> QED BY <1>3, <1>4
  <2>2. \A p \in 0..(n - 1) : p \in Upto(trk[k]) \/ p \in dropped
    BY <1>4
  <2>3. SeenAll(trk[k], Known(k) \cup {n}) /\ n \in Known(k) \cup {n}
    BY <1>5, SeesMore
  <2> HIDE DEF n
  <2> QED BY <1>4, <1>5, <2>1, <2>2, <2>3, AcceptKeeps, AcceptSees
<1> HIDE DEF r, n
<1>7. rx'[k] = step /\ trk'[k] = r.t /\ buf'[k] = buf[k] \cup {n} /\ \A j \in Conns : j # k => Same(j)
  BY <1>2, <1>3 DEF Types, Same
<1> QED BY <1>2, <1>3, <1>6, <1>7, TakenCovers

\* The report of an overflow arrives: every frame of its range was dropped.
LEMMA GapReportCovers ==
  ASSUME Inv, Cover, NEW k \in Conns, GapReport(k), UNCHANGED clientVars
  PROVE  Cover'
<1> USE DEF linkVars, dbVars
<1> DEFINE m == Head(toSrv[k])
<1>1. /\ ph[k] = "on" /\ rx[k] = Idle /\ toSrv[k] # <<>> /\ m.type = "gap"
      /\ toSrv' = [toSrv EXCEPT ![k] = Tail(@)]
      /\ UNCHANGED <<up, toCli, ph, prev, tk, buf, dirty, closed, closedSeq, acked, registry, disk, db, gaps, crashes>>
  BY DEF GapReport, Receives, Consume
<1>2. /\ Types /\ Connection(k) /\ Kept(k) /\ AllSeen(db.seq, Seen) /\ toSrv[k] \in Seq(ToServer) /\ next \in Nat
      /\ lo \in Nat /\ lo <= next /\ next <= MaxFrames /\ MaxFrames \in Nat /\ rx[k].op # "record"
  <2>1. Types /\ Connection(k)
    BY DEF Inv
  <2> QED BY <1>1, <2>1, Numbers, UploaderAssumption DEF Cover, Idle
<1>3. m = toSrv[k][1] /\ 1 \in 1..Len(toSrv[k])
  BY <1>1, <1>2, TailOf
<1>4. /\ Sound(m) /\ Dropped(m)
      /\ Opened(k) => Fresh(k) /\ \A p \in 0..(m.to) : p \in dropped \/ p <= trk[k].seq
  BY <1>1, <1>2, <1>3 DEF Connection, Reports, Kept, TrueReports
<1>5. /\ m.from \in Nat /\ m.to \in Nat /\ m.lost \in Nat /\ m.start = m.from /\ m.from <= m.to /\ m.to <= MaxFrames - 1
      /\ m.lost = m.to - m.from + 1 /\ \A p \in (m.from)..(m.to) : p \in dropped
  <2> HIDE DEF m
  <2>1. /\ m.from \in Nat /\ m.to \in Nat /\ m.lost \in Nat /\ m.start = m.from /\ m.from <= m.to /\ m.to < lo
        /\ m.lost = m.to - m.from + 1 /\ \A p \in (m.from)..(m.to) : p \in dropped
    BY <1>4, SoundFacts DEF Dropped
  <2>2. m.to <= MaxFrames - 1
    BY <1>2, <2>1
  <2> QED BY <2>1, <2>2
<1> HIDE DEF m
<1>6. CASE ~Opened(k)
  <2>1. trk' = trk /\ rx' = rx
    BY <1>6 DEF GapReport
  <2>2. toSrv'[k] = Tail(toSrv[k]) /\ \A j \in Conns : j # k => Same(j)
    BY <1>1, <1>2, <2>1 DEF Types, Same
  <2> QED BY <1>1, <1>2, <2>1, <2>2, NotDeciding, ReceiverCovers
<1>7. CASE Opened(k)
  <2>1. PICK late \in SUBSET Pending(trk[k]) :
          LET r == ReportLost(trk[k], m.from, m.to, m.start, m.lost, late)
          IN  /\ trk' = [trk EXCEPT ![k] = r.t]
              /\ Goto(k, IF r.gaps = <<>> THEN "idle" ELSE "record", 0, r.gaps)
    BY <1>7 DEF GapReport, Message, m
  <2> DEFINE r == ReportLost(trk[k], m.from, m.to, m.from, m.lost, late)
             step == [op |-> IF r.gaps = <<>> THEN "idle" ELSE "record", n |-> 0, todo |-> r.gaps]
  <2>2. trk' = [trk EXCEPT ![k] = r.t] /\ rx' = [rx EXCEPT ![k] = step]
    BY <1>5, <2>1 DEF Goto
  <2>3. /\ Pending(trk[k]) = {} /\ WellFormed(trk[k]) /\ Truthful(trk[k], dropped) /\ Exact(trk[k])
        /\ SeenAll(trk[k], Known(k))
    BY <1>1, <1>2, <1>4, <1>7, Watermark DEF Fresh, Kept, KeptTracker
  <2>4. \A p \in 0..(m.to) : p \in dropped \/ p <= trk[k].seq
    BY <1>4, <1>7
  <2>5. Exact(r.t) /\ SeenAll(r.t, Known(k) \cup Covered(r.gaps))
    BY ONLY <1>5, <2>3, <2>4, ReportSees
  <2> HIDE DEF r
  <2>6. /\ toSrv'[k] = Tail(toSrv[k]) /\ trk'[k] = r.t /\ rx'[k] = step /\ buf'[k] = buf[k] \cup {}
        /\ \A j \in Conns : j # k => Same(j)
    BY <1>1, <1>2, <2>2 DEF Types, Same
  <2>7. SeenAll(r.t, Known(k) \cup {} \cup Covered(r.gaps))
    <3>1. Known(k) \cup {} = Known(k)
      OBVIOUS
    <3> QED BY <2>5, <3>1
  <2> QED BY <1>1, <1>2, <1>7, <2>5, <2>6, <2>7, TakenCovers
<1> QED BY <1>6, <1>7

\* A hello is authenticated: what the old connection was sent is cut off.
LEMMA RegisterCovers ==
  ASSUME Inv, Cover, NEW k \in Conns, Register(k), UNCHANGED clientVars
  PROVE  Cover'
<1> USE DEF linkVars, dbVars
<1> DEFINE c == registry
           left == IF ph[c] = "on" /\ rx[c] = Idle THEN SubSeq(toSrv[c], 1, Min({1, Len(toSrv[c])})) ELSE <<>>
<1>1. /\ ph[k] = "off" /\ toSrv[k] # <<>> /\ ph' = [ph EXCEPT ![k] = "joining"]
      /\ toSrv' = [j \in Conns |-> IF j = k THEN Tail(toSrv[j]) ELSE IF j # c THEN toSrv[j] ELSE left]
      /\ UNCHANGED <<rx, tk, trk, buf, acked, disk, db, gaps>>
  BY DEF Register, Receives
<1>2. Types /\ AllSeen(db.seq, Seen) /\ \A j \in Conns : Kept(j) /\ toSrv[j] \in Seq(ToServer)
  <2>1. Types
    BY DEF Inv
  <2> QED BY <2>1, Numbers DEF Cover
<1>3. Seen' = Seen /\ dropped' = dropped /\ Overflow'
  BY <1>1 DEF Seen, Recorded, Deciding, Cover, Overflow, Dropped, clientVars, sourceVars
<1>4. ASSUME NEW j \in Conns, NEW i \in 1..Len(toSrv'[j]) PROVE \E h \in 1..Len(toSrv[j]) : toSrv'[j][i] = toSrv[j][h]
  <2>1. CASE j = k
    <3>1. toSrv'[j] = Tail(toSrv[j])
      BY <1>1, <2>1
    <3> QED BY <1>1, <1>2, <1>4, <2>1, <3>1, TailWithin
  <2>2. CASE j # k /\ j # c
    BY <1>1, <1>4, <2>2
  <2>3. CASE j # k /\ j = c
    <3>1. toSrv'[j] = left
      BY <1>1, <2>3
    <3>2. toSrv[j] \in Seq(ToServer) /\ Len(toSrv[j]) \in Nat
      BY <1>2
    <3>3. Min({1, Len(toSrv[j])}) = IF 1 <= Len(toSrv[j]) THEN 1 ELSE Len(toSrv[j])
      BY <3>2, MinOfTwo
    <3>4. left = <<>> \/ (left = SubSeq(toSrv[j], 1, 1) /\ 1 <= Len(toSrv[j]))
      <4>1. CASE toSrv[j] = <<>>
        <5>1. Min({1, Len(toSrv[j])}) = 0
          BY <3>3, <4>1
        <5>2. SubSeq(toSrv[j], 1, 0) = <<>>
          BY <3>2
        <5> QED BY <2>3, <5>1, <5>2
      <4>2. CASE toSrv[j] # <<>>
        <5>1. 1 <= Len(toSrv[j])
          BY <3>2, <4>2
        <5> QED BY <2>3, <3>3, <5>1
      <4> QED BY <4>1, <4>2
    <3> HIDE DEF left, c
    <3>5. CASE left = <<>>
      BY <1>4, <3>1, <3>5
    <3>6. CASE left = SubSeq(toSrv[j], 1, 1) /\ 1 <= Len(toSrv[j])
      <4>1. Len(left) = 1 /\ left[1] = toSrv[j][1]
        BY <3>2, <3>6, FirstOnly
      <4>2. i = 1 /\ 1 \in 1..Len(toSrv[j])
        BY <1>4, <3>1, <3>2, <3>6, <4>1
      <4> QED BY <3>1, <4>1, <4>2
    <3> QED BY <3>4, <3>5, <3>6
  <2> QED BY <2>1, <2>2, <2>3
<1>5. ASSUME NEW j \in Conns PROVE Kept(j)'
  <2>1. TrueReports(j)'
    BY <1>2, <1>3, <1>4, ReportsStay DEF Kept
  <2>2. ph'[j] = "on" => ph[j] = "on"
    BY <1>1, <1>2 DEF Types
  <2> QED BY <1>1, <1>2, <1>3, <2>1, <2>2, KeptAside
<1> QED BY <1>1, <1>2, <1>3, <1>5 DEF Cover

\* Every step of the server.
LEMMA ServerStepCovers ==
  ASSUME Inv, Cover, NEW k \in Conns, ServerStep(k), UNCHANGED clientVars
  PROVE  Cover'
<1>1. CASE Receiving(k)
  BY <1>1, RegisterCovers, OpenSourceCovers, GapReportCovers, SourceCloseCovers DEF Receiving
<1>2. CASE Handling(k)
  BY <1>2, NeverNeeded, SourceReadyCovers, FrameWrittenCovers, RecordGapCovers, CloseSyncCovers, CloseAckCovers,
     ClosePersistCovers DEF Handling
<1>3. CASE Welcome(k)
  BY <1>3, WelcomeCovers
<1>4. CASE Ticking(k)
  BY <1>4, TickFlushCovers, TickRecordCovers, TickSyncCovers, TickAckCovers, TickCheckpointCovers DEF Ticking
<1>5. CASE Ending(k)
  BY <1>5, DisconnectCovers, CloseWriterCovers, LeaveCovers DEF Ending
<1> QED BY <1>1, <1>2, <1>3, <1>4, <1>5 DEF ServerStep

-----------------------------------------------------------------------------
\* A step of the client only adds to what is dropped and to what is on its way.
LEMMA ClientCovers ==
  ASSUME Cover, UNCHANGED serverVars, Overflow', \A k \in Conns : TrueReports(k)'
  PROVE  Cover'
<1> USE DEF serverVars, connVars, dbVars
<1>1. Seen' = Seen
  BY DEF Seen, Recorded, Deciding
<1>2. ASSUME NEW k \in Conns PROVE Kept(k)'
  BY <1>1, KeptAside DEF Cover
<1> QED BY <1>1, <1>2 DEF Cover

\* A message that is no report.
LEMMA NothingReported ==
  ASSUME Types, Cover, dropped \subseteq dropped', NEW m \in ToServer, m.type # "gap",
         \A k \in Conns : toSrv'[k] = toSrv[k] \/ toSrv'[k] = toSrv[k] \o <<m>> \/ toSrv'[k] = <<m>>
  PROVE  \A k \in Conns : TrueReports(k)'
<1> SUFFICES ASSUME NEW k \in Conns PROVE TrueReports(k)'
  OBVIOUS
<1>1. toSrv[k] \in Seq(ToServer) /\ TrueReports(k)
  BY Numbers DEF Cover, Kept
<1>2. ASSUME NEW i \in 1..Len(toSrv'[k])
      PROVE  toSrv'[k][i].type # "gap" \/ \E j \in 1..Len(toSrv[k]) : toSrv'[k][i] = toSrv[k][j]
  <2>1. CASE toSrv'[k] = toSrv[k]
    BY <1>2, <2>1
  <2>2. CASE toSrv'[k] = toSrv[k] \o <<m>>
    <3>1. Len(toSrv'[k]) = Len(toSrv[k]) + 1 /\ Len(toSrv[k]) \in Nat
      BY <1>1, <2>2, Appended
    <3>2. CASE i = Len(toSrv[k]) + 1
      <4>1. toSrv'[k][i] = m
        BY <1>1, <2>2, <3>2, Appended
      <4> QED BY <4>1
    <3>3. CASE i # Len(toSrv[k]) + 1
      <4>1. i \in 1..Len(toSrv[k])
        BY <1>2, <3>1, <3>3
      <4>2. toSrv'[k][i] = toSrv[k][i]
        BY <1>1, <2>2, <4>1, Appended
      <4> QED BY <4>1, <4>2
    <3> QED BY <3>2, <3>3
  <2>3. CASE toSrv'[k] = <<m>>
    <3>1. Len(<<m>>) = 1 /\ <<m>>[1] = m
      OBVIOUS
    <3>2. i = 1
      BY <1>2, <2>3, <3>1
    <3> QED BY <2>3, <3>1, <3>2
  <2> QED BY <2>1, <2>2, <2>3
<1> QED BY <1>1, <1>2, ReportsStay

\* The client sends one message, or none.
LEMMA SentIsAppended ==
  ASSUME Types, NEW m, NEW c \in BOOLEAN, Send(IF c THEN <<m>> ELSE <<>>)
  PROVE  \A k \in Conns : toSrv'[k] = toSrv[k] \/ toSrv'[k] = toSrv[k] \o <<m>>
BY DEF Types, Send, Queued

\* The steps of the client that drop nothing and report nothing.
LEMMA QuietClientCovers ==
  ASSUME Inv, Cover, UNCHANGED serverVars, UNCHANGED dropped, pendingGap' = NoGap \/ UNCHANGED <<pendingGap, lo, ready>>,
         NEW m \in ToServer, m.type # "gap",
         \A k \in Conns : toSrv'[k] = toSrv[k] \/ toSrv'[k] = toSrv[k] \o <<m>> \/ toSrv'[k] = <<m>>
  PROVE  Cover'
<1>1. Overflow'
  <2>1. CASE pendingGap' = NoGap
    BY <2>1 DEF Overflow
  <2>2. CASE UNCHANGED <<pendingGap, lo, ready>>
    BY <2>2 DEF Cover, Overflow, Dropped
  <2> QED BY <2>1, <2>2
<1>2. \A k \in Conns : TrueReports(k)'
  BY NothingReported DEF Inv
<1> QED BY <1>1, <1>2, ClientCovers

\* The client opens or loses a socket, opens its source, or is told to stop.
LEMMA SocketCovers ==
  ASSUME Inv, Cover, Connect \/ OnSocketClose \/ OnWelcome \/ OnFatal, UNCHANGED serverVars
  PROVE  Cover'
<1>1. Types /\ Cover
  BY DEF Inv
<1> DEFINE hello == [type |-> "hello"]
           open == [type |-> "open"]
<1>2. hello \in ToServer /\ hello.type # "gap" /\ open \in ToServer /\ open.type # "gap"
  BY DEF ToServer
<1>3. CASE Connect
  <2>1. UNCHANGED <<dropped, pendingGap, lo, ready>> /\ \A k \in Conns : toSrv'[k] = toSrv[k] \/ toSrv'[k] = <<hello>>
    BY <1>1, <1>3 DEF Connect, Types, sourceVars
  <2> HIDE DEF hello
  <2> QED BY <1>2, <2>1, QuietClientCovers
<1>4. CASE OnSocketClose
  <2>1. Overflow'
    BY <1>4 DEF OnSocketClose, Cover, Overflow, Dropped
  <2>2. \A k \in Conns : toSrv'[k] = toSrv[k]
    BY <1>4 DEF OnSocketClose
  <2>3. dropped' = dropped
    BY <1>4 DEF OnSocketClose
  <2>4. \A k \in Conns : TrueReports(k)'
    <3> HIDE DEF hello
    <3> QED BY <1>1, <1>2, <2>2, <2>3, NothingReported
  <2> QED BY <2>1, <2>4, ClientCovers
<1>5. CASE OnWelcome
  <2>1. UNCHANGED <<dropped, pendingGap, lo, ready>> /\ Send(IF closeAcked THEN <<>> ELSE <<open>>)
    BY <1>5 DEF OnWelcome, sourceVars
  <2>2. PICK c \in BOOLEAN : c = ~closeAcked
    OBVIOUS
  <2>3. Send(IF c THEN <<open>> ELSE <<>>)
    BY <1>1, <2>1, <2>2 DEF Types
  <2> HIDE DEF open
  <2>4. \A k \in Conns : toSrv'[k] = toSrv[k] \/ toSrv'[k] = toSrv[k] \o <<open>>
    BY <1>1, <2>3, SentIsAppended
  <2> QED BY <1>2, <2>1, <2>4, QuietClientCovers
<1>6. CASE OnFatal
  <2>1. UNCHANGED <<dropped, pendingGap, lo, ready>> /\ \A k \in Conns : toSrv'[k] = toSrv[k]
    BY <1>6 DEF OnFatal, sourceVars
  <2> HIDE DEF hello
  <2> QED BY <1>2, <2>1, QuietClientCovers
<1> QED BY <1>3, <1>4, <1>5, <1>6

\* A source_close is a message.
LEMMA CloseIsMessage ==
  ASSUME Inv
  PROVE  Close(next - 1) \in ToServer /\ Close(next - 1).type # "gap"
<1>1. next - 1 \in Int
  BY UploaderAssumption DEF Inv, Types
<1> QED BY <1>1 DEF Close, ToServer

\* The person stops the recording.
LEMMA CloseSourceCovers ==
  ASSUME Inv, Cover, CloseSource, UNCHANGED serverVars
  PROVE  Cover'
<1>1. PICK c \in BOOLEAN : c = (closeSent' # closeSent)
  OBVIOUS
<1>2. PICK m : m = Close(next - 1)
  OBVIOUS
<1>3. UNCHANGED <<dropped, pendingGap, lo, ready>> /\ Send(IF c THEN <<m>> ELSE <<>>)
  BY <1>1, <1>2 DEF CloseSource
<1>4. \A k \in Conns : toSrv'[k] = toSrv[k] \/ toSrv'[k] = toSrv[k] \o <<m>>
  BY <1>3, SentIsAppended DEF Inv
<1> QED BY <1>2, <1>3, <1>4, CloseIsMessage, QuietClientCovers

\* An ACK arrives: no overflow is left to be reported on a source that is ready.
LEMMA OnDurableCovers ==
  ASSUME Inv, Cover, NEW type \in {"ack", "closed"}, OnDurable(type), UNCHANGED serverVars
  PROVE  Cover'
<1>1. PICK c \in BOOLEAN : c = (closeSent' # closeSent)
  OBVIOUS
<1>2. PICK m : m = Close(next - 1)
  OBVIOUS
<1>3. Gets(type) /\ Received /\ UNCHANGED <<dropped, pendingGap, ready>> /\ Send(IF c THEN <<m>> ELSE <<>>)
  BY <1>1, <1>2 DEF OnDurable
<1>4. \A k \in Conns : toSrv'[k] = toSrv[k] \/ toSrv'[k] = toSrv[k] \o <<m>>
  BY <1>3, SentIsAppended DEF Inv
<1>5. ready
  <2>1. Connection(ws) /\ 1 \in 1..Len(toCli[ws]) /\ toCli[ws][1].type = type
    BY <1>3, Arrived
  <2> QED BY <2>1 DEF Connection, Handshake, Streaming
<1>6. pendingGap' = NoGap
  BY <1>3, <1>5 DEF Cover, Overflow
<1> QED BY <1>2, <1>3, <1>4, <1>6, CloseIsMessage, QuietClientCovers

\* The source is ready: the overflow is reported, and every frame of its range was dropped.
LEMMA OnReadyCovers ==
  ASSUME Inv, Cover, OnReady, UNCHANGED serverVars
  PROVE  Cover'
<1>1. PICK g : g = pendingGap
  OBVIOUS
<1>2. PICK G : G = IF g = NoGap THEN 0 ELSE 1
  OBVIOUS
<1>3. PICK c \in BOOLEAN : c = (closeSent' # closeSent)
  OBVIOUS
<1>4. PICK n : n = toCli[ws][1].n
  OBVIOUS
<1>5. PICK f : f = IF lo >= n THEN lo ELSE n
  OBVIOUS
<1>6. PICK N : N = next
  OBVIOUS
<1>7. N \in Nat /\ f \in Nat /\ f <= N /\ lo' = f /\ toSrv[ws] = <<>>
  BY <1>4, <1>5, <1>6, ReadyFacts
<1> DEFINE q == Replay(g, f, N, c)
<1>8. /\ Gets("ready") /\ Received /\ pendingGap' = NoGap /\ dropped' = dropped
      /\ toSrv' = IF q # <<>> /\ up[ws] THEN [toSrv EXCEPT ![ws] = @ \o q] ELSE toSrv
  BY <1>1, <1>3, <1>6, <1>7 DEF OnReady, Send, Queued, Replay
<1>9. ws \in Conns /\ Types /\ Client
  BY <1>8, Arrived
<1>10. g = NoGap \/ (g \in ToServer /\ g.type = "gap" /\ Dropped(g))
  BY <1>1, <1>9 DEF Types, ToServer, Cover, Overflow
<1>11. IsReplay(q, g, f, N, c, G)
  BY <1>2, <1>7, <1>10, Replayed
<1> HIDE DEF q
<1>12. q \in Seq(ToServer) /\ \A i \in 1..Len(q) : q[i].type = "gap" => q[i] = g /\ g # NoGap
  BY <1>11 DEF IsReplay
<1>13. ASSUME NEW k \in Conns PROVE TrueReports(k)'
  <2>1. TrueReports(k)
    BY DEF Cover, Kept
  <2>2. toSrv'[k] = toSrv[k] \/ (k = ws /\ toSrv'[k] = q)
    <3>1. <<>> \o q = q
      BY <1>12
    <3> QED BY <1>7, <1>8, <1>9, <3>1 DEF Types
  <2>3. CASE toSrv'[k] = toSrv[k]
    BY <1>8, <2>1, <2>3 DEF TrueReports, Dropped
  <2>4. CASE toSrv'[k] = q
    BY <1>8, <1>10, <1>12, <2>4 DEF TrueReports, Dropped
  <2> QED BY <2>2, <2>3, <2>4
<1>14. Overflow'
  BY <1>8 DEF Overflow
<1> QED BY <1>13, <1>14, ClientCovers

\* A full buffer drops its oldest frame, which joins the overflow that is to be reported.
LEMMA PushPcmCovers ==
  ASSUME Inv, Cover, PushPcm, ~congested', UNCHANGED serverVars
  PROVE  Cover'
<1>1. PICK full \in BOOLEAN : full = (next + 1 - lo > Limit /\ next > lo)
  <2>1. (next + 1 - lo > Limit /\ next > lo) \in BOOLEAN
    OBVIOUS
  <2> QED BY <2>1
<1>2. PICK m : m = [type |-> "frame", n |-> next]
  OBVIOUS
<1>3. PICK c \in BOOLEAN : c = (connected /\ ready)
  <2>1. (connected /\ ready) \in BOOLEAN
    OBVIOUS
  <2> QED BY <2>1
<1>4. /\ congested' = (congested \/ (full /\ connected /\ ready))
      /\ lo' = (IF full THEN lo + 1 ELSE lo)
      /\ dropped' = (IF full THEN dropped \cup {lo} ELSE dropped)
      /\ ~full => pendingGap' = pendingGap
      /\ full => pendingGap' = IF pendingGap = NoGap
                               THEN [type |-> "gap", from |-> lo, to |-> lo, start |-> lo, lost |-> 1]
                               ELSE [pendingGap EXCEPT !.to = lo, !.lost = @ + 1]
      /\ Send(IF c THEN <<m>> ELSE <<>>)
      /\ ready' = ready
  BY <1>1, <1>2, <1>3 DEF PushPcm
<1>5. Types /\ Client /\ lo \in Nat /\ next \in Nat
  BY UploaderAssumption DEF Inv, Types
<1>6. m \in ToServer /\ m.type # "gap"
  BY <1>2, <1>5 DEF ToServer
<1>7. \A k \in Conns : TrueReports(k)'
  <2>1. \A k \in Conns : toSrv'[k] = toSrv[k] \/ toSrv'[k] = toSrv[k] \o <<m>>
    BY <1>4, <1>5, SentIsAppended
  <2>2. dropped \subseteq dropped'
    BY <1>4
  <2> QED BY <1>5, <1>6, <2>1, <2>2, NothingReported
<1>8. Overflow'
  <2>1. CASE ~full
    BY <1>4, <2>1 DEF Cover, Overflow, Dropped
  <2>2. CASE full
    <3>1. ~ready
      BY <1>4, <1>5, <2>2 DEF Client
    <3>2. PICK h : h = pendingGap'
      OBVIOUS
    <3>3. h.to = lo /\ \A p \in (h.from)..(h.to) : p \in dropped \cup {lo}
      <4>1. CASE pendingGap = NoGap
        <5>1. h = [type |-> "gap", from |-> lo, to |-> lo, start |-> lo, lost |-> 1]
          BY <1>4, <2>2, <3>2, <4>1
        <5>2. h.from = lo /\ h.to = lo
          BY <5>1
        <5> QED BY <1>5, <5>2
      <4>2. CASE pendingGap # NoGap
        <5>1. PICK g : g = pendingGap
          OBVIOUS
        <5>2. /\ g \in [type : {"gap"}, from : Nat, to : Nat, start : Nat, lost : Nat]
              /\ g.to + 1 = lo /\ \A p \in (g.from)..(g.to) : p \in dropped
          BY <1>5, <4>2, <5>1 DEF Types, Cover, Overflow, Dropped
        <5>3. h = [g EXCEPT !.to = lo, !.lost = @ + 1]
          BY <1>4, <2>2, <3>2, <4>2, <5>1
        <5>4. h.from = g.from /\ h.to = lo
          BY <5>2, <5>3
        <5>5. \A p \in (g.from)..lo : p \in (g.from)..(g.to) \/ p = lo
          BY <1>5, <5>2
        <5> QED BY <5>2, <5>4, <5>5
      <4> QED BY <4>1, <4>2
    <3>4. lo' = lo + 1 /\ dropped' = dropped \cup {lo} /\ ready' = ready
      BY <1>4, <2>2
    <3> QED BY <3>1, <3>2, <3>3, <3>4 DEF Overflow, Dropped
  <2> QED BY <2>1, <2>2
<1> QED BY <1>7, <1>8, ClientCovers

\* Every step of the client.
LEMMA ClientStepCovers ==
  ASSUME Inv, Cover, ClientStep, ~congested', UNCHANGED serverVars
  PROVE  Cover'
BY SocketCovers, OnReadyCovers, OnDurableCovers, PushPcmCovers, CloseSourceCovers DEF ClientStep, OnMessage, OnAck, OnClosed

-----------------------------------------------------------------------------
\* At the beginning nothing was captured.
LEMMA InitCover == Init => CoverInv
<1> SUFFICES ASSUME Init PROVE Cover
  BY DEF CoverInv
<1> USE DEF Init, InitLink, InitServer, InitClient
<1>1. Overflow /\ AllSeen(db.seq, Seen)
  BY DEF Overflow, AllSeen
<1>2. ASSUME NEW k \in Conns PROVE Kept(k)
  <2>1. ~Opened(k) /\ tk[k].op = "idle" /\ toSrv[k] = <<>>
    BY DEF Opened, Rest
  <2> QED BY <2>1 DEF Kept, KeptTracker, KeptTicker, TrueReports
<1> QED BY <1>1, <1>2 DEF Cover

\* The process counts its crashes, and the client remembers that its buffer overflowed.
LEMMA StepCover == Inv /\ CoverInv /\ [Next]_vars => CoverInv'
<1> SUFFICES ASSUME Inv, CoverInv, [Next]_vars, crashes' = 0, ~congested' PROVE Cover'
  BY DEF CoverInv
<1>0. crashes \in Nat /\ congested \in BOOLEAN
  BY DEF Inv, Types
<1>1. CASE ClientStep /\ UNCHANGED serverVars
  <2>1. crashes = 0 /\ ~congested
    <3>1. congested' = congested \/ congested' = (congested \/ (next + 1 - lo > Limit /\ next > lo /\ connected /\ ready))
      BY <1>1 DEF ClientStep, OnMessage, OnAck, OnClosed, Connect, OnSocketClose, OnWelcome, OnReady, OnDurable, OnFatal,
                  PushPcm, CloseSource, sourceVars
    <3> QED BY <1>0, <1>1, <3>1 DEF serverVars
  <2>2. Cover
    BY <2>1 DEF CoverInv
  <2> QED BY <1>1, <2>2, ClientStepCovers
<1>2. ASSUME NEW k \in Conns, ServerStep(k), UNCHANGED clientVars PROVE Cover'
  <2>1. crashes' = crashes
    BY <1>2, NeverNeeded DEF ServerStep, Receiving, Handling, Ticking, Ending, Register, OpenSource, Frame, GapReport, SourceClose,
       SourceReady, FrameWritten, RecordGap, CloseSync, CloseAck, ClosePersist, CloseEpoch, CloseAnswer,
       Welcome, TickFlush, Flush, TickRecord, TickSync, TickAck, TickCheckpoint, Disconnect, CloseWriter, Leave
  <2>2. Cover
    BY <1>2, <2>1 DEF CoverInv, clientVars, sourceVars
  <2> QED BY <1>2, <2>2, ServerStepCovers
<1>3. CASE Fault /\ UNCHANGED clientVars
  <2>1. ~CrashServer
    BY <1>0 DEF CrashServer
  <2>2. PICK k \in Conns : Drop(k)
    BY <1>3, <2>1 DEF Fault
  <2>3. Cover
    BY <1>3, <2>2 DEF Drop, CoverInv, serverVars, clientVars, sourceVars
  <2> QED BY <1>3, <2>2, <2>3, WelcomeCovers
<1>4. CASE UNCHANGED vars
  <2>1. UNCHANGED serverVars /\ UNCHANGED clientVars /\ UNCHANGED toSrv
    BY <1>4 DEF vars, linkVars
  <2>2. Cover
    BY <2>1 DEF CoverInv, serverVars, clientVars, sourceVars
  <2>3. Overflow'
    BY <2>1, <2>2 DEF Cover, Overflow, Dropped, clientVars, sourceVars
  <2>4. \A k \in Conns : TrueReports(k)'
    BY <2>1, <2>2 DEF Cover, Kept, TrueReports, Dropped, clientVars, sourceVars
  <2> QED BY <2>1, <2>2, <2>3, <2>4, ClientCovers
<1> QED BY <1>1, <1>2, <1>3, <1>4 DEF Next

\* What is covered up to the checkpoint is written, declared or about to be.
LEMMA CoverSuffices == Inv /\ CoverInv => NoSilentLossAtRest
<1> SUFFICES ASSUME Inv, Cover, NEW p \in 0..(db.end - 1)
             PROVE  \/ p \in disk
                    \/ \E g \in gaps : g[1] <= p /\ p < g[2]
                    \/ \E k \in Conns : p \in buf[k] \cup InFlight(k)
  BY DEF CoverInv, NoSilentLossAtRest, NoSilentLoss
<1>1. db.end = db.seq + 1 /\ db.seq \in Int
  BY DEF Inv, Database, Types, Checkpoints
<1>2. p \in Nat /\ p <= db.seq
  BY <1>1
<1>3. p \in Seen
  BY <1>2 DEF Cover, AllSeen
<1>4. CASE p \in Recorded
  <2>1. PICK g \in gaps : p \in (g[1])..(g[2] - 1)
    BY <1>4 DEF Recorded
  <2>2. g[1] \in Int /\ g[2] \in Int
    <3>1. gaps \subseteq (0..MaxFrames) \X (0..MaxFrames)
      BY DEF Inv, Types
    <3> QED BY <3>1
  <2>3. g[1] <= p /\ p < g[2]
    BY <1>2, <2>1, <2>2
  <2> QED BY <2>3
<1>5. ASSUME NEW k \in Conns, p \in Deciding(k) PROVE p \in InFlight(k)
  BY <1>5 DEF Deciding, InFlight
<1> QED BY <1>3, <1>4, <1>5 DEF Seen

\* No sound is lost silently: as long as the process does not crash and no open source
\* overflows, every sample before the checkpoint is stored, covered by the row of a gap, or
\* covered by a gap whose row is about to be written.
THEOREM NothingIsLostSilently == Spec => []NoSilentLossAtRest
BY InvariantHolds, InitCover, StepCover, CoverSuffices, PTL DEF Spec

-----------------------------------------------------------------------------
(* Any client.  What the server stores does not depend on how the client orders  *)
(* its frames and reports.                                                       *)

AnyGap     == [from : Int, to : Int, start : Int, end : Int]
AnyTracker == [seq : Nat \cup {-1}, end : Nat, pend : Pends, ranges : SUBSET AnyGap]

\* The sound before a position.
AllBefore(n, S) == \A p \in 0..(n - 1) : p \in S

\* What a tracker stands for is in S, and a pending item leaves no hole behind it.
Backed(t, S) ==
  /\ t \in AnyTracker
  /\ IsFiniteSet(Pending(t))
  /\ AllBefore(t.end, S)
  /\ \A n \in Pending(t) :
       /\ \A p \in (t.pend[n].start)..(t.pend[n].end - 1) : p \in S
       /\ t.pend[n].start <= n \/ t.pend[n].start <= t.end
       /\ t.pend[n].end >= t.pend[n].last + 1

\* Its end is not behind its sequence numbers ...
InStep(t, S) == Backed(t, S) /\ t.end >= t.seq + 1

\* ... or will not be as soon as the next item is absorbed.
AlmostInStep(t, S) ==
  /\ Backed(t, S)
  /\ \/ t.end >= t.seq + 1
     \/ /\ t.seq + 1 \in Pending(t)
        /\ \A p \in (t.end)..(t.pend[t.seq + 1].start - 1) : p \in S

\* The parts of such a tracker.
LEMMA AnyTrackerTypes ==
  ASSUME NEW t \in AnyTracker
  PROVE  /\ t.seq \in Int /\ t.seq >= -1 /\ t.end \in Nat /\ t # NoTracker
         /\ Pending(t) \in SUBSET Nat
         /\ \A n \in Pending(t) : t.pend[n] \in Items /\ t.pend[n].start \in Nat /\ t.pend[n].end \in Nat /\ t.pend[n].last \in Nat
         /\ t.pend \in [Pending(t) -> Items]
<1>1. t.seq \in Nat \cup {-1} /\ t.end \in Nat /\ t.pend \in Pends
  BY DEF AnyTracker
<1>2. PICK S \in SUBSET Nat : t.pend \in [S -> Items]
  BY <1>1 DEF Pends
<1>3. Pending(t) = S
  BY <1>2 DEF Pending
<1>4. \A n \in S : t.pend[n] \in Items
  BY <1>2
<1>5. \A i \in Items : i.start \in Nat /\ i.end \in Nat /\ i.last \in Nat
  BY DEF Items
<1>6. t # NoTracker
  <2>1. NoTracker.seq = -2
    BY DEF NoTracker
  <2> QED BY <2>1, <1>1
<1>7. t.seq \in Int /\ t.seq >= -1 /\ t.end \in Nat
  BY <1>1
<1>8. Pending(t) \in SUBSET Nat /\ t.pend \in [Pending(t) -> Items]
  BY <1>2, <1>3
<1>9. \A n \in Pending(t) : t.pend[n] \in Items
  BY <1>3, <1>4
<1> QED BY <1>5, <1>6, <1>7, <1>8, <1>9

\* A tracker with another set of pending items.
LEMMA AnyTrackerWith ==
  ASSUME NEW t \in AnyTracker, NEW S \in SUBSET Nat, NEW pend \in [S -> Items],
         NEW seq \in Nat \cup {-1}, NEW end \in Nat
  PROVE  [t EXCEPT !.seq = seq, !.end = end, !.pend = pend] \in AnyTracker
<1>1. pend \in Pends
  BY DEF Pends
<1> QED BY <1>1 DEF AnyTracker

\* A round of _absorb.
LEMMA AbsorbNextInStep ==
  ASSUME NEW t, NEW S, AlmostInStep(t, S)
  PROVE  /\ InStep(AbsorbNext(t), S)
         /\ Pending(AbsorbNext(t)) \subseteq Pending(t) /\ t.seq + 1 \notin Pending(AbsorbNext(t))
<1> DEFINE u == AbsorbNext(t)
           nxt == t.seq + 1
<1>0. /\ t.seq \in Int /\ t.seq >= -1 /\ t.end \in Nat
      /\ Pending(t) \in SUBSET Nat
      /\ \A n \in Pending(t) : t.pend[n] \in Items /\ t.pend[n].start \in Nat /\ t.pend[n].end \in Nat /\ t.pend[n].last \in Nat
      /\ t.pend \in [Pending(t) -> Items]
      /\ t \in AnyTracker /\ IsFiniteSet(Pending(t))
  BY AnyTrackerTypes DEF AlmostInStep, Backed
<1>1. CASE nxt \notin Pending(t)
  <2>1. u = t
    BY <1>1 DEF AbsorbNext
  <2> QED BY <2>1, <1>1 DEF AlmostInStep, InStep
<1>2. CASE nxt \in Pending(t)
  <2> DEFINE i == t.pend[nxt]
             far == IF t.end >= i.end THEN t.end ELSE i.end
             rest == [x \in Pending(t) \ {nxt} |-> t.pend[x]]
  <2>1. i \in Items /\ i.start \in Nat /\ i.end \in Nat /\ i.last \in Nat
    BY <1>0, <1>2
  <2>2. Max({t.end, i.end}) = far
    BY <1>0, <2>1, MaxOfTwo
  <2>3. Restrict(t.pend, Pending(t) \ {nxt}) = rest
    BY DEF Restrict
  <2>4. u = [t EXCEPT !.seq = i.last, !.end = far, !.pend = rest]
    BY <1>2, <2>2, <2>3 DEF AbsorbNext, Pending
  <2>5. rest \in [Pending(t) \ {nxt} -> Items] /\ \A n \in Pending(t) \ {nxt} : rest[n] = t.pend[n]
    BY <1>0
  <2>6. \A p \in (i.start)..(i.end - 1) : p \in S
    BY <1>2 DEF AlmostInStep, Backed
  <2>7. i.end >= i.last + 1
    BY <1>2 DEF AlmostInStep, Backed
  <2>8. \A p \in (t.end)..(i.start - 1) : p \in S
    <3>1. CASE t.end >= nxt
      <4>1. i.start <= nxt \/ i.start <= t.end
        BY <1>2 DEF AlmostInStep, Backed
      <4> HIDE DEF i
      <4> QED BY <1>0, <2>1, <3>1, <4>1
    <3>2. CASE ~(t.end >= nxt)
      BY <3>2 DEF AlmostInStep
    <3> QED BY <3>1, <3>2
  <2>9. AllBefore(t.end, S)
    BY DEF AlmostInStep, Backed
  <2> HIDE DEF i, rest, u
  <2>10. AllBefore(far, S) /\ far \in Nat /\ far >= i.last + 1 /\ far >= t.end
    BY <1>0, <2>1, <2>6, <2>7, <2>8, <2>9 DEF AllBefore
  <2> HIDE DEF far
  <2>11. u \in AnyTracker
    BY <1>0, <2>1, <2>4, <2>5, <2>10, AnyTrackerWith
  <2>12. u.seq = i.last /\ u.end = far /\ u.pend = rest
    BY <1>0, <2>4 DEF AnyTracker
  <2>13. Pending(u) = Pending(t) \ {nxt}
    BY <2>5, <2>12 DEF Pending
  <2>14. IsFiniteSet(Pending(u))
    BY <1>0, <2>13, FS_Subset
  <2>15. ASSUME NEW n \in Pending(u)
         PROVE  /\ \A p \in (u.pend[n].start)..(u.pend[n].end - 1) : p \in S
                /\ u.pend[n].start <= n \/ u.pend[n].start <= u.end
                /\ u.pend[n].end >= u.pend[n].last + 1
    <3>1. n \in Pending(t) /\ u.pend[n] = t.pend[n] /\ n \in Nat
      BY <1>0, <2>5, <2>12, <2>13
    <3>2. /\ \A p \in (t.pend[n].start)..(t.pend[n].end - 1) : p \in S
          /\ t.pend[n].start <= n \/ t.pend[n].start <= t.end
          /\ t.pend[n].end >= t.pend[n].last + 1
      BY <3>1 DEF AlmostInStep, Backed
    <3>3. t.pend[n].start \in Nat
      BY <1>0, <3>1
    <3> QED BY <1>0, <2>10, <2>12, <3>1, <3>2, <3>3
  <2>16. InStep(u, S)
    BY <2>10, <2>11, <2>12, <2>14, <2>15 DEF InStep, Backed
  <2> QED BY <2>13, <2>16 DEF u
<1> QED BY <1>1, <1>2

\* _absorb.
LEMMA AbsorbInStep ==
  ASSUME NEW t, NEW S, AlmostInStep(t, S)
  PROVE  InStep(Absorb(t), S) /\ Pending(Absorb(t)) \subseteq Pending(AbsorbNext(t))
<1> DEFINE P == Pending(AbsorbNext(t))
           G == {x \in AnyTracker : InStep(x, S) /\ Pending(x) \subseteq P}
<1>1. CASE Pending(t) = {}
  <2>1. Absorb(t) = t /\ AbsorbNext(t) = t
    BY <1>1, AbsorbNothing DEF AbsorbNext
  <2>2. InStep(AbsorbNext(t), S)
    BY AbsorbNextInStep
  <2> QED BY <2>1, <2>2
<1>2. CASE Pending(t) # {}
  <2>1. InStep(AbsorbNext(t), S)
    BY AbsorbNextInStep
  <2>2. AbsorbNext(t) \in G
    BY <2>1 DEF InStep, Backed
  <2>3. ASSUME NEW x \in G PROVE AbsorbNext(x) \in G
    <3>1. AlmostInStep(x, S)
      BY DEF AlmostInStep, InStep
    <3>2. InStep(AbsorbNext(x), S) /\ Pending(AbsorbNext(x)) \subseteq Pending(x)
      BY <3>1, AbsorbNextInStep
    <3>3. AbsorbNext(x) \in AnyTracker
      BY <3>2 DEF InStep, Backed
    <3> QED BY <3>2, <3>3
  <2>4. IsFiniteSet(Pending(t))
    BY DEF AlmostInStep, Backed
  <2>5. Absorb(t) \in G
    <3> HIDE DEF G
    <3> QED BY <2>2, <2>3, <2>4, <1>2, AbsorbRounds
  <2> QED BY <2>5
<1> QED BY <1>1, <1>2

\* Giving up what precedes the first pending item declares it.
LEMMA GaveUpInStep ==
  ASSUME NEW t, NEW S, InStep(t, S), Pending(t) # {}
  PROVE  LET g == GaveUp(t)
         IN  /\ AlmostInStep(g.t, IF g.real THEN S \cup (g.gap.start)..(g.gap.end - 1) ELSE S)
             /\ g.gap \in AnyGap
             /\ Pending(g.t) = Pending(t) /\ g.t.seq + 1 \in Pending(t)
<1> DEFINE first == Min(Pending(t))
           gap   == GapDecision(t.seq + 1, first - 1, t.end, t.pend[first].start)
           real  == gap.end > gap.start \/ gap.to >= gap.from
           u     == [t EXCEPT !.seq = first - 1, !.ranges = IF real THEN @ \cup {gap} ELSE @]
           R     == IF real THEN S \cup (gap.start)..(gap.end - 1) ELSE S
<1>0. /\ t.seq \in Int /\ t.seq >= -1 /\ t.end \in Nat
      /\ Pending(t) \in SUBSET Nat /\ t \in AnyTracker /\ IsFiniteSet(Pending(t))
      /\ \A n \in Pending(t) : t.pend[n].start \in Nat
  BY AnyTrackerTypes DEF InStep, Backed
<1>1. first \in Pending(t) /\ \A n \in Pending(t) : first <= n
  BY <1>0, FirstPending
<1> HIDE DEF first
<1>2. first \in Nat /\ t.pend[first].start \in Nat
  BY <1>0, <1>1
<1>3. /\ gap.start = t.end /\ gap.end = t.pend[first].start
      /\ gap \in AnyGap
  BY <1>0, <1>2 DEF GapDecision, AnyGap
<1> HIDE DEF gap
<1>4. ~real => gap.end <= gap.start
  BY <1>0, <1>2, <1>3
<1> HIDE DEF real
<1>5. u.seq = first - 1 /\ u.pend = t.pend /\ u.end = t.end
  BY <1>0 DEF AnyTracker
<1>6. u \in AnyTracker
  <2>1. first - 1 \in Nat \cup {-1}
    BY <1>2
  <2>2. t.ranges \in SUBSET AnyGap /\ t.ranges \cup {gap} \in SUBSET AnyGap
    BY <1>0, <1>3 DEF AnyTracker
  <2> QED BY <1>0, <2>1, <2>2 DEF AnyTracker
<1> HIDE DEF u
<1>7. S \subseteq R /\ Pending(u) = Pending(t)
  BY <1>5 DEF Pending
<1>8. \A p \in (t.end)..(t.pend[first].start - 1) : p \in R
  BY <1>0, <1>2, <1>3, <1>4
<1>9. Backed(u, R)
  <2> HIDE DEF R
  <2> QED BY <1>0, <1>5, <1>6, <1>7 DEF Backed, InStep, AllBefore
<1>10. AlmostInStep(u, R)
  <2> HIDE DEF R
  <2>1. u.seq + 1 = first
    BY <1>2, <1>5
  <2> QED BY <1>1, <1>5, <1>7, <1>8, <1>9, <2>1 DEF AlmostInStep
<1>11. u.seq + 1 \in Pending(t)
  BY <1>1, <1>2, <1>5
<1>12. GaveUp(t).t = u /\ GaveUp(t).gap = gap /\ GaveUp(t).real = real
  BY DEF GaveUp, u, gap, real, first
<1> QED BY <1>3, <1>7, <1>10, <1>11, <1>12

\* A decision of a tracker, with what it declares.
Declares(r, S) ==
  /\ r \in [t : AnyTracker, gaps : Seq(AnyGap)]
  /\ InStep(r.t, S \cup Covered(r.gaps))

\* A round of _expire_gaps.
LEMMA ExpireFirstInStep ==
  ASSUME NEW r, NEW S, Declares(r, S), Pending(r.t) # {}
  PROVE  /\ Declares(ExpireFirst(r), S)
         /\ \E n \in Pending(r.t) : Pending(ExpireFirst(r).t) \subseteq Pending(r.t) \ {n}
<1> DEFINE g == GaveUp(r.t)
           u == Absorb(g.t)
           decided == IF g.real THEN Append(r.gaps, g.gap) ELSE r.gaps
           R == S \cup Covered(r.gaps)
           Q == S \cup Covered(decided)
<1>1. InStep(r.t, R) /\ r.gaps \in Seq(AnyGap)
  BY DEF Declares
<1>2. /\ AlmostInStep(g.t, IF g.real THEN R \cup (g.gap.start)..(g.gap.end - 1) ELSE R) /\ g.gap \in AnyGap
      /\ Pending(g.t) = Pending(r.t) /\ g.t.seq + 1 \in Pending(r.t)
  <2> HIDE DEF R
  <2> QED BY <1>1, GaveUpInStep
<1>3. ExpireFirst(r) = [t |-> u, gaps |-> decided]
  BY ExpireFirstIs
<1> HIDE DEF g
<1>4. decided \in Seq(AnyGap) /\ (IF g.real THEN R \cup (g.gap.start)..(g.gap.end - 1) ELSE R) = Q
  <2>1. /\ Append(r.gaps, g.gap) \in Seq(AnyGap)
        /\ Covered(Append(r.gaps, g.gap)) = Covered(r.gaps) \cup (g.gap.start)..(g.gap.end - 1)
    BY <1>1, <1>2, CoveredAppend
  <2> QED BY <1>1, <2>1
<1> HIDE DEF decided, R, Q
<1>5. AlmostInStep(g.t, Q)
  BY <1>2, <1>4
<1>6. InStep(u, Q) /\ Pending(u) \subseteq Pending(AbsorbNext(g.t))
  BY <1>5, AbsorbInStep
<1>7. Pending(AbsorbNext(g.t)) \subseteq Pending(g.t) /\ g.t.seq + 1 \notin Pending(AbsorbNext(g.t))
  BY <1>5, AbsorbNextInStep
<1> HIDE DEF u
<1>8. u \in AnyTracker
  BY <1>6 DEF InStep, Backed
<1>9. Declares([t |-> u, gaps |-> decided], S)
  BY <1>4, <1>6, <1>8 DEF Declares, Q
<1>10. Pending(u) \subseteq Pending(r.t) \ {g.t.seq + 1}
  BY <1>2, <1>6, <1>7
<1> QED BY <1>2, <1>3, <1>9, <1>10

LEMMA NothingDeclared ==
  ASSUME NEW t, NEW S, InStep(t, S)
  PROVE  Declares([t |-> t, gaps |-> <<>>], S)
<1>1. t \in AnyTracker
  BY DEF InStep, Backed
<1> DEFINE r == [t |-> t, gaps |-> <<>>]
<1>2. r.t = t /\ r.gaps = <<>> /\ r \in [t : AnyTracker, gaps : Seq(AnyGap)]
  BY <1>1
<1> HIDE DEF r
<1>3. S \cup Covered(r.gaps) = S
  BY <1>2, CoveredNothing
<1>4. Declares(r, S)
  BY <1>2, <1>3 DEF Declares
<1> QED BY <1>4 DEF r

\* _expire_gaps.
LEMMA ExpireInStep ==
  ASSUME NEW t, NEW late, NEW S, InStep(t, S)
  PROVE  Declares(Expire(t, late), S)
<1> DEFINE G == {r \in [t : AnyTracker, gaps : Seq(AnyGap)] : Declares(r, S)}
<1>1. [t |-> t, gaps |-> <<>>] \in G
  BY NothingDeclared DEF Declares
<1>2. ASSUME NEW r \in G, MustExpire(r.t, late) PROVE ExpireFirst(r) \in G
  <2>1. Pending(r.t) # {} /\ Declares(r, S)
    BY <1>2 DEF MustExpire
  <2>2. Declares(ExpireFirst(r), S)
    BY <2>1, ExpireFirstInStep
  <2> QED BY <2>2 DEF Declares
<1>3. IsFiniteSet(Pending(t))
  BY DEF InStep, Backed
<1>4. Expire(t, late) \in G
  <2> HIDE DEF G
  <2> QED BY <1>1, <1>2, <1>3, ExpireRounds
<1> QED BY <1>4

\* When everything that waits is late, nothing is left to wait.
LEMMA ExpireEverything ==
  ASSUME NEW t, NEW S, InStep(t, S)
  PROVE  Pending(Expire(t, Pending(t)).t) = {}
<1> DEFINE late == Pending(t)
           x == [t |-> t, gaps |-> <<>>]
           N == Cardinality(Pending(t))
           G == {r \in [t : AnyTracker, gaps : Seq(AnyGap)] : Declares(r, S) /\ Pending(r.t) \subseteq late}
           Left(r) == Cardinality(Pending(r.t))
<1>1. x \in G
  BY NothingDeclared DEF Declares
<1>2. ASSUME NEW r \in G, Pending(r.t) # {}
      PROVE  /\ ExpireFirst(r) \in G
             /\ \E n \in Pending(r.t) : Pending(ExpireFirst(r).t) \subseteq Pending(r.t) \ {n}
  <2>1. Declares(r, S)
    OBVIOUS
  <2>2. Declares(ExpireFirst(r), S) /\ \E n \in Pending(r.t) : Pending(ExpireFirst(r).t) \subseteq Pending(r.t) \ {n}
    BY <1>2, <2>1, ExpireFirstInStep
  <2> QED BY <2>2 DEF Declares
<1>3. IsFiniteSet(Pending(t))
  BY DEF InStep, Backed
<1>4. \A r \in G : MustExpire(r.t, late) => ExpireFirst(r) \in G
  BY <1>2 DEF MustExpire
<1>5. PICK round : /\ Expire(t, late) = round[N]
                   /\ \A n \in Nat : round[n] = IF n = 0 THEN x ELSE ExpireRound(round[n - 1], late)
  <2> HIDE DEF G
  <2> QED BY <1>1, <1>3, <1>4, ExpireUnrolls
<1>6. \A r \in G : IsFiniteSet(Pending(r.t)) /\ Left(r) \in Nat
  BY <1>3, FS_Subset, FS_CardinalityType
<1>7. N \in Nat
  BY <1>3, FS_CardinalityType
<1>8. ASSUME NEW r \in G, NEW m \in Nat, Left(r) <= m + 1
      PROVE  ExpireRound(r, late) \in G /\ Left(ExpireRound(r, late)) <= m
  <2>1. CASE Pending(r.t) = {}
    <3>1. ExpireRound(r, late) = r
      BY <2>1 DEF ExpireRound, MustExpire
    <3>2. Left(r) = 0
      BY <2>1, FS_EmptySet
    <3> QED BY <3>1, <3>2
  <2>2. CASE Pending(r.t) # {}
    <3>1. MustExpire(r.t, late)
      BY <2>2 DEF MustExpire
    <3>2. ExpireRound(r, late) = ExpireFirst(r)
      BY <3>1 DEF ExpireRound
    <3>3. PICK n \in Pending(r.t) : Pending(ExpireFirst(r).t) \subseteq Pending(r.t) \ {n}
      BY <1>2, <2>2
    <3>4. ExpireFirst(r) \in G
      BY <1>2, <2>2
    <3>5. IsFiniteSet(Pending(r.t) \ {n}) /\ Cardinality(Pending(r.t) \ {n}) = Left(r) - 1
      BY <1>6, FS_RemoveElement
    <3>6. Left(ExpireFirst(r)) <= Left(r) - 1
      BY <3>3, <3>5, FS_Subset
    <3>7. Left(ExpireFirst(r)) \in Nat /\ Left(r) \in Nat
      BY <1>6, <3>4
    <3> HIDE DEF Left, G
    <3> QED BY <1>8, <3>2, <3>4, <3>6, <3>7
  <2> QED BY <2>1, <2>2
<1> DEFINE Bad == {n \in 0..N : ~(round[n] \in G /\ Left(round[n]) <= N - n)}
<1>9. Bad = {}
  <2> SUFFICES ASSUME Bad # {} PROVE FALSE
    OBVIOUS
  <2>1. Bad \in SUBSET Nat
    OBVIOUS
  <2>2. PICK m \in Bad : \A n \in Bad : m <= n
    <3> HIDE DEF Bad
    <3> QED BY <2>1, LeastNatural
  <2>3. m # 0
    <3>1. round[0] = x /\ Left(x) = N
      BY <1>5
    <3> HIDE DEF G, Left, x
    <3> QED BY <1>1, <1>7, <2>2, <3>1
  <2>4. m - 1 \in 0..N /\ m - 1 \notin Bad /\ m \in 0..N
    BY <2>2, <2>3, <1>7
  <2>5. round[m - 1] \in G /\ Left(round[m - 1]) <= N - (m - 1)
    BY <2>4
  <2>6. round[m] = ExpireRound(round[m - 1], late)
    BY <1>5, <2>3, <2>4
  <2>7. N - m \in Nat /\ N - (m - 1) = (N - m) + 1
    BY <2>4, <1>7
  <2> HIDE DEF G, Left, late, N
  <2>8. round[m] \in G /\ Left(round[m]) <= N - m
    BY <1>8, <2>5, <2>6, <2>7
  <2> QED BY <2>2, <2>8
<1>10. round[N] \in G /\ Left(round[N]) <= 0
  <2>1. N \in 0..N /\ N - N = 0
    BY <1>7
  <2> HIDE DEF G, Left, N
  <2> QED BY <1>9, <2>1
<1>11. Left(round[N]) = 0
  <2>1. Left(round[N]) \in Nat
    BY <1>6, <1>10
  <2> HIDE DEF Left
  <2> QED BY <1>10, <2>1
<1>12. Pending(round[N].t) = {}
  <2>1. IsFiniteSet(Pending(round[N].t))
    BY <1>6, <1>10
  <2> QED BY <1>11, <2>1, FS_EmptySet
<1> QED BY <1>5, <1>12

\* What Put leaves of a tracker: a new item, and all that was there.
Added(u, t, n, start, end, last) ==
  /\ u \in AnyTracker /\ IsFiniteSet(Pending(u)) /\ Pending(u) = Pending(t) \cup {n}
  /\ u.seq = t.seq /\ u.end = t.end
  /\ u.pend[n] = [start |-> start, end |-> end, last |-> last]
  /\ \A m \in Pending(t) : m # n => u.pend[m] = t.pend[m]

LEMMA PutAny ==
  ASSUME NEW t \in AnyTracker, IsFiniteSet(Pending(t)),
         NEW n \in Nat, NEW start \in Nat, NEW end \in Nat, NEW last \in Nat
  PROVE  Added(Put(t, n, start, end, last), t, n, start, end, last)
<1> DEFINE item == [start |-> start, end |-> end, last |-> last]
           S == Pending(t) \cup {n}
           more == [x \in S |-> IF x = n THEN item ELSE t.pend[x]]
           u == Put(t, n, start, end, last)
<1>1. t.pend \in [Pending(t) -> Items] /\ Pending(t) \in SUBSET Nat
  BY AnyTrackerTypes
<1>2. u = [t EXCEPT !.pend = more]
  BY DEF Put, Pending
<1>3. item \in Items
  BY DEF Items
<1>4. more[n] = item /\ \A m \in Pending(t) : m # n => more[m] = t.pend[m]
  OBVIOUS
<1> HIDE DEF item
<1>5. more \in [S -> Items] /\ S \in SUBSET Nat
  BY <1>1, <1>3
<1>6. more \in Pends
  BY <1>5 DEF Pends
<1> HIDE DEF more, u
<1>7. u \in AnyTracker /\ u.seq = t.seq /\ u.end = t.end /\ u.pend = more
  BY <1>2, <1>6 DEF AnyTracker
<1>8. Pending(u) = S
  BY <1>5, <1>7 DEF Pending
<1>9. IsFiniteSet(S)
  BY FS_AddElement
<1>10. /\ u.pend[n] = [start |-> start, end |-> end, last |-> last]
       /\ \A m \in Pending(t) : m # n => u.pend[m] = t.pend[m]
  BY <1>4, <1>7 DEF item
<1>11. Added(u, t, n, start, end, last)
  BY <1>7, <1>8, <1>9, <1>10 DEF Added
<1> QED BY ONLY <1>11 DEF u

LEMMA PutInStep ==
  ASSUME NEW t, NEW S, InStep(t, S),
         NEW n \in Nat, NEW start \in Nat, NEW end \in Nat, NEW last \in Nat,
         \A p \in start..(end - 1) : p \in S, start <= n \/ start <= t.end, end >= last + 1
  PROVE  InStep(Put(t, n, start, end, last), S)
<1> DEFINE u == Put(t, n, start, end, last)
<1>1. t \in AnyTracker /\ IsFiniteSet(Pending(t))
  BY DEF InStep, Backed
<1>2. /\ u \in AnyTracker /\ IsFiniteSet(Pending(u)) /\ Pending(u) = Pending(t) \cup {n}
      /\ u.seq = t.seq /\ u.end = t.end
      /\ u.pend[n] = [start |-> start, end |-> end, last |-> last]
      /\ \A m \in Pending(t) : m # n => u.pend[m] = t.pend[m]
  <2>1. Added(Put(t, n, start, end, last), t, n, start, end, last)
    BY <1>1, PutAny
  <2> QED BY <2>1 DEF Added
<1> HIDE DEF u
<1>3. ASSUME NEW m \in Pending(u)
      PROVE  /\ \A p \in (u.pend[m].start)..(u.pend[m].end - 1) : p \in S
             /\ u.pend[m].start <= m \/ u.pend[m].start <= u.end
             /\ u.pend[m].end >= u.pend[m].last + 1
  <2>1. CASE m = n
    BY <1>2, <2>1
  <2>2. CASE m # n
    <3>1. m \in Pending(t) /\ u.pend[m] = t.pend[m]
      BY <1>2, <2>2
    <3> QED BY <1>2, <3>1 DEF InStep, Backed
  <2> QED BY <2>1, <2>2
<1>4. InStep(u, S)
  BY <1>2, <1>3 DEF InStep, Backed
<1> QED BY ONLY <1>4 DEF u

\* What is in step with S is in step with more.
LEMMA InStepMore ==
  ASSUME NEW t, NEW S, NEW R, S \subseteq R, InStep(t, S)
  PROVE  InStep(t, R)
BY DEF InStep, Backed, AllBefore

\* accept().
LEMMA AcceptInStep ==
  ASSUME NEW t, NEW S, InStep(t, S), NEW n \in Nat, n \in S, NEW late
  PROVE  Declares(Accept(t, n, n, 1, late), S)
<1>1. CASE IsDuplicate(t, n)
  <2>1. Accept(t, n, n, 1, late) = [t |-> t, gaps |-> <<>>]
    BY <1>1 DEF Accept
  <2> QED BY <2>1, NothingDeclared
<1>2. CASE ~IsDuplicate(t, n)
  <2> DEFINE u == Put(t, n, n, n + 1, n)
             v == Absorb(u)
  <2>1. Accept(t, n, n, 1, late) = Expire(v, late)
    BY <1>2 DEF Accept
  <2>2. InStep(u, S)
    <3>1. /\ n + 1 \in Nat /\ n <= n /\ n + 1 >= n + 1 /\ \A p \in n..((n + 1) - 1) : p \in S
      OBVIOUS
    <3> QED BY <3>1, PutInStep
  <2> HIDE DEF u
  <2>3. AlmostInStep(u, S)
    BY <2>2 DEF InStep, AlmostInStep
  <2>4. InStep(v, S)
    BY <2>3, AbsorbInStep
  <2> HIDE DEF v
  <2> QED BY <2>1, <2>4, ExpireInStep
<1> QED BY <1>1, <1>2

\* A declared range is added to the tracker, and changes nothing else.
LEMMA DeclaredAny ==
  ASSUME NEW u \in AnyTracker, NEW gap \in AnyGap, NEW w, w = [u EXCEPT !.ranges = @ \cup {gap}]
  PROVE  w \in AnyTracker /\ w.seq = u.seq /\ w.end = u.end /\ w.pend = u.pend /\ Pending(w) = Pending(u)
<1>1. w.seq = u.seq /\ w.end = u.end /\ w.pend = u.pend
  BY DEF AnyTracker
<1>2. w \in AnyTracker
  BY DEF AnyTracker
<1> QED BY <1>1, <1>2 DEF Pending

\* report_lost(): one sample is lost with every number of the range.
LEMMA ReportInStep ==
  ASSUME NEW t, NEW S, InStep(t, S), NEW from \in Nat, NEW to \in Nat, from <= to, NEW late
  PROVE  Declares(ReportLost(t, from, to, from, to - from + 1, late), S)
<1> DEFINE lost == to - from + 1
           r == ReportLost(t, from, to, from, lost, late)
<1>0. /\ t.seq \in Int /\ t.seq >= -1 /\ t.end \in Nat /\ t.end >= t.seq + 1 /\ t \in AnyTracker
      /\ lost \in Nat
  BY AnyTrackerTypes DEF InStep, Backed
<1>1. CASE to <= t.seq
  <2>1. r = [t |-> t, gaps |-> <<>>]
    BY <1>1 DEF ReportLost
  <2> QED BY <2>1, NothingDeclared
<1>2. CASE to > t.seq
  <2> DEFINE stored == from <= t.seq
             f == IF stored THEN t.seq + 1 ELSE from
             s == IF stored THEN Max({from, t.end}) ELSE from
             len == IF stored THEN Max({0, from + lost - s}) ELSE lost
             far == s + len
             gap == GapDecision(f, to, s, far)
             u == Put(t, f, s, far, to)
             w == [u EXCEPT !.ranges = @ \cup {gap}]
             v == Absorb(w)
             e == Expire(v, late)
             R == S \cup s..(far - 1)
  <2>1. r = [e EXCEPT !.gaps = <<gap>> \o @]
    BY <1>0, <1>2, SMTT(30) DEF ReportLost
  <2>2. /\ f \in Nat /\ s \in Nat /\ far \in Nat /\ far >= to + 1
        /\ s <= f \/ s <= t.end
    <3>1. CASE ~stored
      <4>1. f = from /\ s = from /\ len = lost
        BY <3>1
      <4> HIDE DEF f, s, len
      <4> QED BY <1>0, <4>1
    <3>2. CASE stored
      <4>1. f = t.seq + 1 /\ s = t.end
        BY <1>0, <3>2, MaxOfTwo
      <4>2. len = Max({0, from + lost - s})
        BY <3>2
      <4> HIDE DEF f, s, len
      <4>3. len = IF from + lost - s <= 0 THEN 0 ELSE from + lost - s
        <5>1. from + lost - s \in Int
          BY <1>0, <4>1
        <5> HIDE DEF lost
        <5> QED BY <4>2, <5>1, MaxOfTwo
      <4> QED BY <1>0, <4>1, <4>3
    <3> QED BY <3>1, <3>2
  <2> HIDE DEF f, s, len, stored, far
  <2>3. gap \in AnyGap /\ gap.start = s /\ gap.end = far
    BY <2>2 DEF GapDecision, AnyGap
  <2> HIDE DEF gap
  <2>4. InStep(u, R)
    <3>1. InStep(t, R)
      BY InStepMore
    <3>2. \A p \in s..(far - 1) : p \in R
      OBVIOUS
    <3> HIDE DEF R
    <3> QED BY <2>2, <3>1, <3>2, PutInStep
  <2> HIDE DEF u
  <2>5. InStep(w, R)
    <3>1. u \in AnyTracker
      BY <2>4 DEF InStep, Backed
    <3>2. w = [u EXCEPT !.ranges = @ \cup {gap}]
      OBVIOUS
    <3> HIDE DEF w, R
    <3>3. w \in AnyTracker /\ w.seq = u.seq /\ w.end = u.end /\ w.pend = u.pend /\ Pending(w) = Pending(u)
      BY <2>3, <3>1, <3>2, DeclaredAny
    <3> QED BY <2>4, <3>3 DEF InStep, Backed
  <2> HIDE DEF w
  <2>6. InStep(v, R)
    <3>1. AlmostInStep(w, R)
      BY <2>5 DEF InStep, AlmostInStep
    <3> HIDE DEF R
    <3> QED BY <3>1, AbsorbInStep
  <2> HIDE DEF v
  <2>7. Declares(e, R)
    <3> HIDE DEF R
    <3> QED BY <2>6, ExpireInStep
  <2> HIDE DEF e
  <2>8. /\ r.t = e.t /\ r.gaps = <<gap>> \o e.gaps /\ e.gaps \in Seq(AnyGap) /\ e.t \in AnyTracker
        /\ r \in [t : AnyTracker, gaps : Seq(AnyGap)]
    <3>1. e \in [t : AnyTracker, gaps : Seq(AnyGap)]
      BY <2>7 DEF Declares
    <3>2. <<gap>> \o e.gaps \in Seq(AnyGap)
      BY <2>3, <3>1, CoveredCons
    <3> HIDE DEF r
    <3> QED BY <2>1, <3>1, <3>2
  <2> HIDE DEF r
  <2>9. Covered(r.gaps) = (gap.start)..(gap.end - 1) \cup Covered(e.gaps)
    BY <2>3, <2>8, CoveredCons
  <2>10. S \cup Covered(r.gaps) = R \cup Covered(e.gaps)
    BY <2>3, <2>9
  <2>11. InStep(r.t, S \cup Covered(r.gaps))
    BY <2>7, <2>8, <2>10 DEF Declares
  <2> QED BY <2>8, <2>11 DEF Declares, r
<1> QED BY <1>0, <1>1, <1>2

\* What is missing when the source is closed is declared without any sound.
LEMMA MissingIsDeclared ==
  ASSUME NEW t, NEW S, InStep(t, S), Pending(t) = {}, NEW last \in Nat, t.seq < last
  PROVE  LET r == ReportLost(t, t.seq + 1, last, t.end, 0, {})
         IN  /\ r \in [t : AnyTracker, gaps : Seq(AnyGap)]
             /\ Pending(r.t) = {} /\ r.t.seq = last /\ r.t.end = t.end
<1> DEFINE r == ReportLost(t, t.seq + 1, last, t.end, 0, {})
           f == t.seq + 1
           gap == GapDecision(f, last, t.end, t.end)
           u == Put(t, f, t.end, t.end, last)
           w == [u EXCEPT !.ranges = @ \cup {gap}]
           v == AbsorbNext(w)
           e == Expire(v, {})
<1>1. /\ t \in AnyTracker /\ t.seq \in Int /\ t.end \in Nat /\ f \in Nat /\ IsFiniteSet(Pending(t))
      /\ ~(f <= t.seq) /\ ~(last <= t.seq) /\ t.end + 0 = t.end
  BY AnyTrackerTypes DEF InStep, Backed
<1>2. gap \in AnyGap
  BY <1>1 DEF GapDecision, AnyGap
<1> HIDE DEF gap
<1>3. /\ u \in AnyTracker /\ Pending(u) = {f} /\ u.seq = t.seq /\ u.end = t.end
      /\ u.pend[f] = [start |-> t.end, end |-> t.end, last |-> last]
  <2> DEFINE end == t.end
  <2>1. end \in Nat /\ end = t.end
    BY <1>1
  <2> HIDE DEF f, end
  <2>2. Added(Put(t, f, end, end, last), t, f, end, end, last)
    <3>1. t \in AnyTracker /\ IsFiniteSet(Pending(t)) /\ f \in Nat
      BY <1>1
    <3> QED BY ONLY <2>1, <3>1, last \in Nat, PutAny
  <2>3. /\ u = Put(t, f, end, end, last) /\ Pending(t) \cup {f} = {f}
    BY <2>1
  <2> HIDE DEF u
  <2> QED BY <2>1, <2>2, <2>3 DEF Added
<1> HIDE DEF u
<1>4. w \in AnyTracker /\ w.seq = u.seq /\ w.end = u.end /\ w.pend = u.pend /\ Pending(w) = {f}
  <2>1. w = [u EXCEPT !.ranges = @ \cup {gap}]
    OBVIOUS
  <2> HIDE DEF w
  <2> QED BY <1>2, <1>3, <2>1, DeclaredAny
<1>5. Absorb(w) = v
  <2> HIDE DEF w
  <2> DEFINE none == [x \in {} |-> w.pend[x]]
  <2>1. Restrict(w.pend, Pending(w) \ {f}) = none
    BY <1>4 DEF Restrict
  <2>2. v.pend = none
    <3>0. w.pend[f].last = last
      BY <1>3, <1>4
    <3>1. v = [w EXCEPT !.seq = last, !.end = Max({w.end, w.pend[f].end}), !.pend = none]
      BY <1>3, <1>4, <2>1, <3>0 DEF AbsorbNext, Pending
    <3> HIDE DEF none
    <3> QED BY <1>4, <3>1 DEF AnyTracker
  <2>3. Pending(v) = {}
    BY <2>2 DEF Pending
  <2> HIDE DEF v, none
  <2>4. AbsorbNext(v) = v
    BY <2>3 DEF AbsorbNext
  <2> DEFINE D == {v}
  <2>5. AbsorbNext(w) \in D /\ \A d \in D : AbsorbNext(d) \in D
    BY <2>4 DEF v
  <2>6. IsFiniteSet(Pending(w)) /\ Pending(w) # {}
    BY <1>4, FS_Singleton
  <2> HIDE DEF D
  <2>7. Absorb(w) \in D
    BY <2>5, <2>6, AbsorbRounds
  <2> QED BY <2>7 DEF D
<1>6. v \in AnyTracker /\ v.seq = last /\ v.end = t.end /\ Pending(v) = {}
  <2> HIDE DEF w
  <2> DEFINE none == [x \in {} |-> w.pend[x]]
  <2>1. Restrict(w.pend, Pending(w) \ {f}) = none
    BY <1>4 DEF Restrict
  <2>2. w.pend[f].end = t.end /\ w.pend[f].last = last /\ Max({w.end, w.pend[f].end}) = t.end
    BY <1>1, <1>3, <1>4, MaxOfTwo
  <2>3. v = [w EXCEPT !.seq = last, !.end = t.end, !.pend = none]
    BY <1>3, <1>4, <2>1, <2>2 DEF AbsorbNext, Pending
  <2>4. none \in [{} -> Items] /\ DOMAIN none = {}
    OBVIOUS
  <2> HIDE DEF none, v
  <2>5. v \in AnyTracker
    BY <1>1, <1>4, <2>3, <2>4, AnyTrackerWith
  <2> QED BY <1>4, <2>3, <2>4, <2>5 DEF AnyTracker, Pending
<1> HIDE DEF v, w
<1>7. e = [t |-> v, gaps |-> <<>>]
  BY <1>6, ExpireNothing
<1>8. r = [e EXCEPT !.gaps = <<gap>> \o @]
  BY <1>1, <1>5 DEF ReportLost, w, u, gap, GapDecision
<1> HIDE DEF e
<1>9. <<gap>> \o <<>> = <<gap>> /\ <<gap>> \in Seq(AnyGap)
  BY <1>2
<1>10. r = [t |-> v, gaps |-> <<gap>>]
  BY <1>7, <1>8, <1>9
<1> HIDE DEF r
<1>11. r.t = v /\ r \in [t : AnyTracker, gaps : Seq(AnyGap)]
  BY <1>6, <1>9, <1>10
<1> QED BY <1>6, <1>11 DEF r

-----------------------------------------------------------------------------
(* The invariant for any client. It speaks of the sound before a position, where  *)
(* the one above speaks of the sequence numbers up to a watermark.                *)

\* Messages of any client.
Sayings == [type : {"hello", "open"}] \cup [type : {"frame", "close"}, n : Nat]
             \cup [type : {"gap"}, from : Nat, to : Nat, start : Nat, lost : Nat]

\* It names no number above the highest, and one final number.
Fair(m) ==
  /\ m.type = "frame" => m.n <= top
  /\ m.type = "close" => final # -1 /\ m.n = final
  /\ m.type = "gap" => m.from <= m.to /\ m.to <= top /\ m.start = m.from /\ m.lost = m.to - m.from + 1

\* A client waits for the answer before it sends the next message.
Alone(q) == q = <<>> \/ \E m \in Sayings : Fair(m) /\ q = <<m>>

OpenOps == {"idle", "open", "write", "rewrite", "narrow", "record", "close",
            "sync", "ack", "checkpoint", "persist", "epoch", "answer"}

OpenTypes ==
  /\ toSrv = [c \in Conns |-> toSrv[c]]
  /\ ph \in [Conns -> {"off", "joining", "on", "closing", "leaving", "done"}]
  /\ rx \in [Conns -> [op : OpenOps, n : Int, todo : Seq(AnyGap \cup Checkpoints)]]
  /\ tk \in [Conns -> [op : {"idle", "record", "sync", "synced", "checkpoint"}, n : Nat \cup {-1}, end : Nat, todo : Seq(AnyGap)]]
  /\ trk \in [Conns -> AnyTracker \cup {NoTracker}]
  /\ buf \in [Conns -> SUBSET Int]
  /\ acked \in [Conns -> [seq : Nat \cup {-1}, end : Nat]]
  /\ disk \in SUBSET Int
  /\ db \in Checkpoints
  /\ gaps \in SUBSET (Int \X Int)
  /\ top \in Nat \cup {-1} /\ final \in Nat \cup {-1}

\* The sound whose gap the receive loop, or the ticker while the receive loop persists
\* a checkpoint, is going to record.
OpenFlight(k) == IF rx[k].op \in {"record", "close"} THEN Covered(rx[k].todo) ELSE {}
Committed(k)  == IF rx[k].op \in {"checkpoint", "persist", "epoch"} THEN Covered(tk[k].todo) ELSE {}

\* The sound that is stored or declared.
Part(k) == buf[k] \cup OpenFlight(k) \cup Committed(k)
Safe    == disk \cup Recorded \cup UNION {Part(k) : k \in Conns}

\* The sound that a connection knows to be stored, declared or about to be declared.
Holds(k) == Safe \cup Covered(tk[k].todo)

\* The sound goes as far as the sequence numbers; when frames were missing at the
\* close it does not, and nothing comes after them.
AsFar(seq, end) == end >= seq + 1 \/ (final # -1 /\ seq >= final)

Settled(seq, end) == AllBefore(end, Safe) /\ AsFar(seq, end)

Tracked(t, S) ==
  /\ Backed(t, S)
  /\ t.end >= t.seq + 1 \/ (Pending(t) = {} /\ final # -1 /\ t.seq >= final)

OpenTracker(k) ==
  /\ ph[k] \in {"off", "joining"} => ~Opened(k)
  /\ Opened(k) /\ ph[k] = "on" => Tracked(trk[k], Holds(k))

OpenReceiver(k) ==
  /\ rx[k].op # "idle" => ph[k] = "on"
  /\ rx[k].op \notin {"idle", "open"} => Opened(k)
  /\ rx[k].op = "open" => \E d \in Checkpoints : rx[k].todo = <<d>> /\ Settled(d.seq, d.end)
  /\ rx[k].op = "write" => rx[k].n <= top
  /\ rx[k].op \in {"write", "rewrite", "narrow"} => rx[k].n \in Nat
  /\ rx[k].op = "narrow" => rx[k].n \in disk \cup buf[k]
  /\ rx[k].op = "close" => Pending(trk[k]) = {} /\ final # -1 /\ rx[k].n = final
  /\ rx[k].op \in {"record", "close"} => rx[k].todo \in Seq(AnyGap)

OpenTicker(k) ==
  /\ tk[k].op # "idle" => ph[k] = "on" /\ Opened(k)
  /\ tk[k].op # "record" => tk[k].todo = <<>>
  /\ tk[k].op \in {"sync", "synced", "checkpoint"} => Settled(tk[k].n, tk[k].end)

OpenConn(k) ==
  /\ Alone(toSrv[k])
  /\ OpenTracker(k) /\ OpenReceiver(k) /\ OpenTicker(k)
  /\ Settled(acked[k].seq, acked[k].end)

Voices ==
  /\ OpenTypes
  /\ Settled(db.seq, db.end)
  /\ final # -1 => top <= final
  /\ \A k \in Conns : OpenConn(k)

\* A row of the epoch, whatever it says.
RowShape == db = [seq |-> db.seq, end |-> db.end, closed |-> db.closed] /\ db.closed \in BOOLEAN

\* It holds until the epoch is closed.
OpenInv == RowShape /\ (~db.closed => Voices)

-----------------------------------------------------------------------------
LEMMA SettledMore ==
  ASSUME NEW seq, NEW end, Safe \subseteq Safe', final' = final \/ (final = -1), Settled(seq, end)
  PROVE  AllBefore(end, Safe') /\ (end >= seq + 1 \/ (final' # -1 /\ seq >= final'))
BY DEF Settled, AsFar, AllBefore

LEMMA TrackedMore ==
  ASSUME NEW t, NEW S, NEW R, S \subseteq R, Tracked(t, S), final' = final \/ (final = -1)
  PROVE  /\ Backed(t, R)
         /\ t.end >= t.seq + 1 \/ (Pending(t) = {} /\ final' # -1 /\ t.seq >= final')
BY DEF Tracked, Backed, AllBefore

\* What is safe stays so.
LEMMA SafeGrows ==
  ASSUME NEW k \in Conns, \A j \in Conns : j # k => rx'[j] = rx[j] /\ tk'[j] = tk[j] /\ buf'[j] = buf[j],
         disk \subseteq disk', Recorded \subseteq Safe', Part(k) \subseteq Safe'
  PROVE  Safe \subseteq Safe'
<1> SUFFICES ASSUME NEW p \in Safe PROVE p \in Safe'
  OBVIOUS
<1>1. CASE p \in disk
  BY <1>1 DEF Safe
<1>2. CASE p \in Recorded
  BY <1>2
<1>3. ASSUME NEW j \in Conns, p \in Part(j) PROVE p \in Safe'
  <2>1. CASE j = k
    BY <1>3, <2>1
  <2>2. CASE j # k
    <3>1. Part(j)' = Part(j)
      BY <2>2 DEF Part, OpenFlight, Committed
    <3> QED BY <1>3, <3>1 DEF Safe
  <2> QED BY <2>1, <2>2
<1> QED BY <1>1, <1>2, <1>3 DEF Safe

\* A step leaves a connection other than k alone.
Others(k) ==
  \A j \in Conns : j # k => /\ ph'[j] = ph[j] /\ rx'[j] = rx[j] /\ tk'[j] = tk[j]
                            /\ trk'[j] = trk[j] /\ buf'[j] = buf[j] /\ acked'[j] = acked[j]

\* What is known of a connection stays true when a step leaves it alone.
LEMMA ConnAside ==
  ASSUME NEW j \in Conns, OpenConn(j), Safe \subseteq Safe', disk \subseteq disk',
         ph'[j] = ph[j], rx'[j] = rx[j], tk'[j] = tk[j], trk'[j] = trk[j], buf'[j] = buf[j], acked'[j] = acked[j],
         final' = final \/ final = -1, OpenTypes, OpenTypes', top <= top', Alone(toSrv[j])'
  PROVE  OpenConn(j)'
<1>1. Settled(acked[j].seq, acked[j].end)'
  BY SettledMore DEF OpenConn, Settled, AsFar
<1>2. OpenTicker(j)'
  <2>1. Opened(j)' = Opened(j)
    BY DEF Opened
  <2>2. tk[j].op \in {"sync", "synced", "checkpoint"} => Settled(tk[j].n, tk[j].end)'
    BY SettledMore DEF OpenConn, OpenTicker, Settled, AsFar
  <2> QED BY <2>1, <2>2 DEF OpenConn, OpenTicker
<1>3. OpenTracker(j)'
  <2>1. Opened(j)' = Opened(j)
    BY DEF Opened
  <2>2. Holds(j) \subseteq Holds(j)'
    BY DEF Holds
  <2>3. Tracked(trk[j], Holds(j)) => Tracked(trk[j], Holds(j))'
    BY <2>2, TrackedMore DEF Tracked
  <2> QED BY <2>1, <2>3 DEF OpenConn, OpenTracker
<1>4. OpenReceiver(j)'
  <2>1. Opened(j)' = Opened(j) /\ OpenReceiver(j)
    BY DEF Opened, OpenConn
  <2>2. rx[j].op = "open" => \E d \in Checkpoints : rx[j].todo = <<d>> /\ Settled(d.seq, d.end)'
    <3>1. \A d \in Checkpoints : Settled(d.seq, d.end) => Settled(d.seq, d.end)'
      BY SettledMore DEF Settled, AsFar
    <3> QED BY <2>1, <3>1 DEF OpenReceiver
  <2>3. rx[j].op = "write" => rx[j].n <= top'
    <3>1. rx[j].op = "write" => rx[j].n \in Nat /\ rx[j].n <= top
      BY <2>1 DEF OpenReceiver
    <3>2. top \in Int /\ top' \in Int
      BY DEF OpenTypes
    <3> QED BY <3>1, <3>2
  <2>4. rx[j].op = "close" => final' # -1 /\ rx[j].n = final'
    BY <2>1 DEF OpenReceiver
  <2> QED BY <2>1, <2>2, <2>3, <2>4 DEF OpenReceiver
<1> QED BY <1>1, <1>2, <1>3, <1>4 DEF OpenConn

\* A step of the server at k is checked at k alone.
LEMMA ServerSpeaks ==
  ASSUME NEW k \in Conns, Voices, OpenTypes', UNCHANGED speakerVars, Others(k),
         \A j \in Conns : j # k => Alone(toSrv[j])',
         disk \subseteq disk', Recorded \subseteq Safe', Part(k) \subseteq Safe',
         Safe \subseteq Safe' => Settled(db.seq, db.end)' /\ OpenConn(k)'
  PROVE  Voices'
<1>1. top' = top /\ final' = final /\ top <= top'
  <2>1. top \in Int
    BY DEF Voices, OpenTypes
  <2> QED BY <2>1 DEF speakerVars
<1>2. Safe \subseteq Safe'
  BY SafeGrows DEF Others
<1>3. ASSUME NEW j \in Conns, j # k PROVE OpenConn(j)'
  <2>1. OpenConn(j) /\ OpenTypes
    BY DEF Voices
  <2> QED BY <1>1, <1>2, <1>3, <2>1, ConnAside DEF Others
<1> QED BY <1>1, <1>2, <1>3 DEF Voices

\* Most steps take at most the message at the head of k's queue.
LEMMA QueuesStay ==
  ASSUME NEW j \in Conns, OpenConn(j), toSrv'[j] = toSrv[j], UNCHANGED speakerVars
  PROVE  Alone(toSrv[j])'
BY DEF OpenConn, Alone, Fair, speakerVars

\* What is in Part(k) after a step is safe then.
LEMMA PartIsSafe ==
  ASSUME NEW k \in Conns
  PROVE  disk' \cup Recorded' \cup buf'[k] \cup OpenFlight(k)' \cup Committed(k)' \subseteq Safe'
BY DEF Safe, Part

\* The parts of a connection that a step leaves alone.
LEMMA TrackerAlone ==
  ASSUME NEW k \in Conns, OpenTracker(k), Safe \subseteq Safe', Holds(k) \subseteq Holds(k)',
         trk'[k] = trk[k], ph'[k] = ph[k], UNCHANGED speakerVars
  PROVE  OpenTracker(k)'
<1>1. Opened(k)' = Opened(k) /\ final' = final
  BY DEF Opened, speakerVars
<1>2. Tracked(trk[k], Holds(k)) => Tracked(trk[k], Holds(k))'
  BY <1>1, TrackedMore DEF Tracked
<1> QED BY <1>1, <1>2 DEF OpenTracker

LEMMA TickerAlone ==
  ASSUME NEW k \in Conns, OpenTicker(k), Safe \subseteq Safe', tk'[k] = tk[k],
         Opened(k) => Opened(k)', ph'[k] = ph[k], UNCHANGED speakerVars
  PROVE  OpenTicker(k)'
<1>1. tk[k].op \in {"sync", "synced", "checkpoint"} => Settled(tk[k].n, tk[k].end)'
  BY SettledMore DEF OpenTicker, Settled, AsFar, speakerVars
<1> QED BY <1>1 DEF OpenTicker

LEMMA AckedAlone ==
  ASSUME NEW k \in Conns, Settled(acked[k].seq, acked[k].end), Safe \subseteq Safe', acked'[k] = acked[k],
         UNCHANGED speakerVars
  PROVE  Settled(acked[k].seq, acked[k].end)'
BY SettledMore DEF Settled, AsFar, speakerVars

LEMMA DatabaseAlone ==
  ASSUME Settled(db.seq, db.end), Safe \subseteq Safe', db' = db, UNCHANGED speakerVars
  PROVE  Settled(db.seq, db.end)'
BY SettledMore DEF Settled, AsFar, speakerVars

LEMMA ReceiverAlone ==
  ASSUME NEW k \in Conns, OpenReceiver(k), Safe \subseteq Safe', disk \subseteq disk', buf[k] \subseteq buf'[k] \cup disk',
         rx'[k] = rx[k], ph'[k] = ph[k], Opened(k) => Opened(k)', UNCHANGED speakerVars,
         rx[k].op = "close" => Pending(trk'[k]) = {}
  PROVE  OpenReceiver(k)'
<1>1. top' = top /\ final' = final
  BY DEF speakerVars
<1>2. rx[k].op = "open" => \E d \in Checkpoints : rx[k].todo = <<d>> /\ Settled(d.seq, d.end)'
  <2>1. \A d \in Checkpoints : Settled(d.seq, d.end) => Settled(d.seq, d.end)'
    BY <1>1, SettledMore DEF Settled, AsFar
  <2> QED BY <2>1 DEF OpenReceiver
<1> QED BY <1>1, <1>2 DEF OpenReceiver

\* A step of the ticker of an open connection.
LEMMA TickerSpeaks ==
  ASSUME NEW k \in Conns, Voices, OpenTypes', UNCHANGED speakerVars, Others(k),
         ph'[k] = ph[k], rx'[k] = rx[k], Opened(k) => Opened(k)', toSrv' = toSrv,
         rx[k].op = "close" => Pending(trk'[k]) = {},
         disk \subseteq disk', Recorded \subseteq Recorded', buf[k] \subseteq buf'[k] \cup disk',
         rx[k].op \in {"checkpoint", "persist", "epoch"} => Covered(tk[k].todo) \subseteq Safe',
         Safe \subseteq Safe' => /\ Settled(db.seq, db.end)'
                                 /\ OpenTracker(k)' /\ OpenTicker(k)' /\ Settled(acked[k].seq, acked[k].end)'
  PROVE  Voices'
<1>1. OpenConn(k) /\ \A j \in Conns : Alone(toSrv[j])'
  BY QueuesStay DEF Voices
<1>2. Recorded \subseteq Safe' /\ Part(k) \subseteq Safe'
  <2>1. OpenFlight(k)' = OpenFlight(k)
    BY DEF OpenFlight
  <2>2. Committed(k) \subseteq Safe'
    BY DEF Committed
  <2> QED BY <2>1, <2>2, PartIsSafe DEF Part
<1>3. ASSUME Safe \subseteq Safe' PROVE OpenReceiver(k)'
  BY <1>1, <1>3, ReceiverAlone DEF OpenConn
<1>4. ASSUME Safe \subseteq Safe' PROVE OpenConn(k)'
  BY <1>1, <1>3, <1>4 DEF OpenConn
<1> QED BY <1>1, <1>2, <1>4, ServerSpeaks

\* The ticker of connection k under way.
LEMMA TickerFacts ==
  ASSUME NEW k \in Conns, Voices
  PROVE  /\ OpenTypes /\ OpenConn(k) /\ OpenTracker(k) /\ OpenTicker(k) /\ OpenReceiver(k)
         /\ Settled(acked[k].seq, acked[k].end) /\ Settled(db.seq, db.end)
         /\ tk[k] \in [op : {"idle", "record", "sync", "synced", "checkpoint"}, n : Nat \cup {-1}, end : Nat, todo : Seq(AnyGap)]
         /\ tk[k].todo \in Seq(AnyGap) /\ tk[k].n \in Nat \cup {-1} /\ tk[k].end \in Nat
         /\ rx[k] \in [op : OpenOps, n : Int, todo : Seq(AnyGap \cup Checkpoints)]
         /\ tk[k].op # "idle" => ph[k] = "on" /\ Opened(k) /\ trk[k] \in AnyTracker /\ Tracked(trk[k], Holds(k))
<1>1. OpenTypes /\ OpenConn(k)
  BY DEF Voices
<1>2. OpenTracker(k) /\ OpenTicker(k) /\ OpenReceiver(k) /\ Settled(acked[k].seq, acked[k].end) /\ Settled(db.seq, db.end)
  BY <1>1 DEF OpenConn, Voices
<1>3. /\ tk[k] \in [op : {"idle", "record", "sync", "synced", "checkpoint"}, n : Nat \cup {-1}, end : Nat, todo : Seq(AnyGap)]
      /\ rx[k] \in [op : OpenOps, n : Int, todo : Seq(AnyGap \cup Checkpoints)]
      /\ trk[k] \in AnyTracker \cup {NoTracker}
  BY <1>1 DEF OpenTypes
<1>4. tk[k].op # "idle" => ph[k] = "on" /\ Opened(k) /\ trk[k] \in AnyTracker /\ Tracked(trk[k], Holds(k))
  BY <1>2, <1>3 DEF OpenTicker, OpenTracker, Opened
<1>5. tk[k].todo \in Seq(AnyGap) /\ tk[k].n \in Nat \cup {-1} /\ tk[k].end \in Nat
  BY <1>3
<1> QED BY <1>1, <1>2, <1>3, <1>4, <1>5

LEMMA TickSyncSpeaks ==
  ASSUME Voices, NEW k \in Conns, TickSync(k), UNCHANGED speakerVars
  PROVE  Voices'
<1> USE DEF linkVars, dbVars
<1>0. OpenTypes /\ OpenTracker(k) /\ OpenTicker(k) /\ Settled(acked[k].seq, acked[k].end) /\ Settled(db.seq, db.end)
  BY TickerFacts
<1>1. /\ tk[k].op = "sync" /\ tk'[k].op = "synced" /\ tk'[k].n = tk[k].n /\ tk'[k].end = tk[k].end /\ tk'[k].todo = tk[k].todo
      /\ disk' = disk \cup buf[k] /\ buf'[k] = {}
      /\ UNCHANGED <<toSrv, ph, rx, trk, acked, db, gaps>>
  BY <1>0 DEF OpenTypes, TickSync, Fsync
<1>2. OpenTypes' /\ Others(k)
  <2>1. Others(k)
    BY <1>0 DEF OpenTypes, TickSync, Fsync, Others
  <2>2. buf[k] \in SUBSET Int /\ disk' \in SUBSET Int /\ buf' \in [Conns -> SUBSET Int]
    BY <1>0 DEF OpenTypes, TickSync, Fsync
  <2>3. tk' \in [Conns -> [op : {"idle", "record", "sync", "synced", "checkpoint"}, n : Nat \cup {-1}, end : Nat, todo : Seq(AnyGap)]]
    <3> DEFINE T == [op : {"idle", "record", "sync", "synced", "checkpoint"}, n : Nat \cup {-1}, end : Nat, todo : Seq(AnyGap)]
               step == [tk[k] EXCEPT !.op = "synced"]
    <3>1. tk \in [Conns -> T]
      BY <1>0 DEF OpenTypes
    <3>2. step \in T
      BY <3>1
    <3>3. tk' = [tk EXCEPT ![k] = step]
      BY DEF TickSync
    <3> HIDE DEF T, step
    <3>4. tk' \in [Conns -> T]
      BY <3>1, <3>2, <3>3
    <3> QED BY <3>4 DEF T
  <2>4. UNCHANGED <<toSrv, ph, rx, trk, acked, db, gaps, top, final>>
    BY DEF TickSync, speakerVars
  <2> QED BY <1>0, <2>1, <2>2, <2>3, <2>4 DEF OpenTypes
<1>3. Opened(k)' = Opened(k) /\ Recorded' = Recorded
  BY <1>1 DEF Opened, Recorded
<1>4. rx[k].op \in {"checkpoint", "persist", "epoch"} => Covered(tk[k].todo) \subseteq Safe'
  BY <1>1, PartIsSafe DEF Committed
<1>5. ASSUME Safe \subseteq Safe'
      PROVE  /\ Settled(db.seq, db.end)' /\ OpenTracker(k)' /\ OpenTicker(k)' /\ Settled(acked[k].seq, acked[k].end)'
  <2>1. Holds(k) \subseteq Holds(k)'
    BY <1>1, <1>5 DEF Holds
  <2>2. OpenTracker(k)'
    BY <1>0, <1>1, <1>5, <2>1, TrackerAlone
  <2>3. Settled(tk[k].n, tk[k].end)'
    BY <1>0, <1>1, <1>5, SettledMore DEF OpenTicker, Settled, AsFar, speakerVars
  <2>4. OpenTicker(k)'
    BY <1>0, <1>1, <1>3, <2>3 DEF OpenTicker
  <2> QED BY <1>0, <1>1, <1>5, <2>2, <2>4, AckedAlone, DatabaseAlone
<1>6. rx[k].op = "close" => Pending(trk'[k]) = {}
  BY <1>1, TickerFacts DEF OpenReceiver
<1> QED BY <1>1, <1>2, <1>3, <1>4, <1>5, <1>6, TickerSpeaks

\* A row declares the sound of its gap.
LEMMA RowDeclares ==
  ASSUME NEW gap \in AnyGap, gaps' = gaps \cup {Row(gap)}
  PROVE  Recorded \subseteq Recorded' /\ (gap.start)..(gap.end - 1) \subseteq Recorded' /\ Row(gap) \in Int \X Int
<1>1. Row(gap)[1] = gap.start /\ Row(gap)[2] = gap.end /\ Row(gap) \in Int \X Int
  BY DEF Row, AnyGap
<1>2. Recorded \subseteq Recorded'
  BY DEF Recorded
<1>3. (gap.start)..(gap.end - 1) \subseteq Recorded'
  BY <1>1 DEF Recorded
<1> QED BY <1>1, <1>2, <1>3

\* _persist.
LEMMA PersistSpeaks ==
  ASSUME NEW seq \in Nat \cup {-1}, NEW end \in Nat, Persist(seq, end), db \in Checkpoints,
         Settled(seq, end), Settled(db.seq, db.end), UNCHANGED speakerVars
  PROVE  /\ db' \in Checkpoints
         /\ Safe \subseteq Safe' => Settled(db.seq, db.end)'
<1>1. CASE db.seq <= seq
  <2>1. db' = [db EXCEPT !.seq = seq, !.end = end]
    BY <1>1 DEF Persist
  <2>2. db' \in Checkpoints /\ db'.seq = seq /\ db'.end = end
    BY <2>1 DEF Checkpoints
  <2> QED BY <2>2, SettledMore DEF Settled, AsFar, speakerVars
<1>2. CASE ~(db.seq <= seq)
  <2>1. db' = db
    BY <1>2 DEF Persist
  <2> QED BY <2>1, DatabaseAlone
<1> QED BY <1>1, <1>2

LEMMA TickAckSpeaks ==
  ASSUME Voices, NEW k \in Conns, TickAck(k), UNCHANGED speakerVars
  PROVE  Voices'
<1> USE DEF linkVars, dbVars
<1>0. /\ OpenTypes /\ OpenTracker(k) /\ OpenTicker(k) /\ Settled(acked[k].seq, acked[k].end) /\ Settled(db.seq, db.end)
      /\ tk[k].n \in Nat \cup {-1} /\ tk[k].end \in Nat
      /\ tk[k] \in [op : {"idle", "record", "sync", "synced", "checkpoint"}, n : Nat \cup {-1}, end : Nat, todo : Seq(AnyGap)]
  BY TickerFacts
<1>1. /\ tk[k].op = "synced" /\ tk[k].todo = <<>> /\ Settled(tk[k].n, tk[k].end)
      /\ UNCHANGED <<toSrv, ph, rx, trk, buf, disk, db, gaps>>
  BY <1>0 DEF TickAck, OpenTicker
<1>2. \/ /\ acked' = [acked EXCEPT ![k] = [seq |-> tk[k].n, end |-> tk[k].end]]
         /\ tk' = [tk EXCEPT ![k].op = "checkpoint"]
      \/ tk' = [tk EXCEPT ![k] = Rest] /\ acked' = acked
  BY DEF TickAck
<1>3. OpenTypes' /\ Others(k)
  <2>1. Rest \in [op : {"idle", "record", "sync", "synced", "checkpoint"}, n : Nat \cup {-1}, end : Nat, todo : Seq(AnyGap)]
    BY DEF Rest
  <2> DEFINE T == [op : {"idle", "record", "sync", "synced", "checkpoint"}, n : Nat \cup {-1}, end : Nat, todo : Seq(AnyGap)]
             A == [seq : Nat \cup {-1}, end : Nat]
             step == [tk[k] EXCEPT !.op = "checkpoint"]
             a == [seq |-> tk[k].n, end |-> tk[k].end]
  <2>2. step \in T /\ a \in A /\ Rest \in T
    BY <1>0, <2>1
  <2>3. tk' \in {[tk EXCEPT ![k] = step], [tk EXCEPT ![k] = Rest]} /\ acked' \in {acked, [acked EXCEPT ![k] = a]}
    BY <1>2
  <2>5. tk \in [Conns -> T] /\ acked \in [Conns -> A]
    BY <1>0 DEF OpenTypes
  <2> HIDE DEF T, A, step, a
  <2>6. tk' \in [Conns -> T] /\ acked' \in [Conns -> A]
    BY <2>2, <2>3, <2>5
  <2>4. OpenTypes'
    BY <1>0, <1>1, <2>6 DEF OpenTypes, speakerVars, T, A
  <2> QED BY <1>0, <1>1, <1>2, <2>4 DEF OpenTypes, Others
<1>4. Opened(k)' = Opened(k) /\ Recorded' = Recorded /\ Covered(tk[k].todo) = {}
  BY <1>1, CoveredNothing DEF Opened, Recorded
<1>5. /\ tk'[k].todo = <<>> /\ tk'[k].op \in {"idle", "checkpoint"}
      /\ tk'[k].op = "checkpoint" => tk'[k].n = tk[k].n /\ tk'[k].end = tk[k].end
      /\ acked'[k] = acked[k] \/ acked'[k] = [seq |-> tk[k].n, end |-> tk[k].end]
  BY <1>0, <1>1, <1>2 DEF OpenTypes, Rest
<1>6. ASSUME Safe \subseteq Safe'
      PROVE  /\ Settled(db.seq, db.end)' /\ OpenTracker(k)' /\ OpenTicker(k)' /\ Settled(acked[k].seq, acked[k].end)'
  <2>1. Holds(k) \subseteq Holds(k)'
    BY <1>4, <1>6 DEF Holds
  <2>2. OpenTracker(k)'
    BY <1>0, <1>1, <1>6, <2>1, TrackerAlone
  <2>4. OpenTicker(k)'
    <3>1. tk'[k].op = "checkpoint" => Settled(tk[k].n, tk[k].end)'
      BY <1>1, <1>5, <1>6, SettledMore DEF Settled, AsFar, speakerVars
    <3>2. ph[k] = "on" /\ Opened(k)
      BY <1>0, <1>1 DEF OpenTicker
    <3> QED BY <1>1, <1>4, <1>5, <3>1, <3>2 DEF OpenTicker
  <2>5. Settled(acked[k].seq, acked[k].end)'
    <3>1. Settled(acked'[k].seq, acked'[k].end)
      BY <1>0, <1>1, <1>5
    <3> QED BY <1>6, <3>1, SettledMore DEF Settled, AsFar, speakerVars
  <2> QED BY <1>0, <1>1, <1>6, <2>2, <2>4, <2>5, DatabaseAlone
<1>7. rx[k].op = "close" => Pending(trk'[k]) = {}
  BY <1>1, TickerFacts DEF OpenReceiver
<1> QED BY <1>1, <1>3, <1>4, <1>6, <1>7, TickerSpeaks

LEMMA TickCheckpointSpeaks ==
  ASSUME Voices, NEW k \in Conns, TickCheckpoint(k), UNCHANGED speakerVars
  PROVE  Voices'
<1> USE DEF linkVars, dbVars
<1>0. /\ OpenTypes /\ OpenTracker(k) /\ OpenTicker(k) /\ Settled(acked[k].seq, acked[k].end) /\ Settled(db.seq, db.end)
      /\ tk[k].n \in Nat \cup {-1} /\ tk[k].end \in Nat
  BY TickerFacts
<1>1. /\ tk[k].op = "checkpoint" /\ tk[k].todo = <<>> /\ Settled(tk[k].n, tk[k].end)
      /\ Persist(tk[k].n, tk[k].end) /\ tk' = [tk EXCEPT ![k] = Rest]
      /\ UNCHANGED <<toSrv, ph, rx, trk, buf, acked, disk, gaps>>
  BY <1>0 DEF TickCheckpoint, OpenTicker
<1>2. db' \in Checkpoints /\ (Safe \subseteq Safe' => Settled(db.seq, db.end)')
  BY <1>0, <1>1, PersistSpeaks DEF OpenTypes
<1>3. OpenTypes' /\ Others(k)
  <2>1. Rest \in [op : {"idle", "record", "sync", "synced", "checkpoint"}, n : Nat \cup {-1}, end : Nat, todo : Seq(AnyGap)]
    BY DEF Rest
  <2> QED BY <1>0, <1>1, <1>2, <2>1 DEF OpenTypes, Others, speakerVars
<1>4. Opened(k)' = Opened(k) /\ Recorded' = Recorded /\ Covered(tk[k].todo) = {}
  BY <1>1, CoveredNothing DEF Opened, Recorded
<1>5. tk'[k].todo = <<>> /\ tk'[k].op = "idle"
  BY <1>0, <1>1 DEF OpenTypes, Rest
<1>6. ASSUME Safe \subseteq Safe'
      PROVE  /\ Settled(db.seq, db.end)' /\ OpenTracker(k)' /\ OpenTicker(k)' /\ Settled(acked[k].seq, acked[k].end)'
  <2>1. Holds(k) \subseteq Holds(k)'
    BY <1>4, <1>6 DEF Holds
  <2>2. OpenTracker(k)'
    BY <1>0, <1>1, <1>6, <2>1, TrackerAlone
  <2>3. OpenTicker(k)'
    BY <1>5 DEF OpenTicker
  <2> QED BY <1>0, <1>1, <1>2, <1>6, <2>2, <2>3, AckedAlone
<1>7. rx[k].op = "close" => Pending(trk'[k]) = {}
  BY <1>1, TickerFacts DEF OpenReceiver
<1> QED BY <1>1, <1>3, <1>4, <1>6, <1>7, TickerSpeaks

\* The watermark that the ticker takes is settled when nothing is left to be declared.
LEMMA WatermarkSettled ==
  ASSUME NEW k \in Conns, NEW t, Tracked(t, Holds(k)), tk[k].todo = <<>>
  PROVE  Settled(t.seq, t.end) /\ t.seq \in Nat \cup {-1} /\ t.end \in Nat
<1>1. Holds(k) = Safe
  BY CoveredNothing DEF Holds
<1>2. t \in AnyTracker
  BY DEF Tracked, Backed
<1> QED BY <1>1, <1>2 DEF Tracked, Backed, Settled, AsFar, AnyTracker

LEMMA TickRecordSpeaks ==
  ASSUME Voices, NEW k \in Conns, TickRecord(k), UNCHANGED speakerVars
  PROVE  Voices'
<1> USE DEF linkVars, dbVars
<1>0. /\ OpenTypes /\ OpenTracker(k) /\ OpenTicker(k) /\ Settled(acked[k].seq, acked[k].end) /\ Settled(db.seq, db.end)
      /\ tk[k].todo \in Seq(AnyGap)
  BY TickerFacts
<1>1. /\ tk[k].op = "record" /\ ph[k] = "on" /\ Opened(k) /\ trk[k] \in AnyTracker /\ Tracked(trk[k], Holds(k))
      /\ UNCHANGED <<toSrv, ph, rx, trk, buf, acked, disk, db>>
  BY TickerFacts DEF TickRecord
<1>2. Opened(k)' = Opened(k)
  BY <1>1 DEF Opened
<1>3. rx[k].op = "close" => Pending(trk'[k]) = {}
  BY <1>1, TickerFacts DEF OpenReceiver
<1>4. CASE tk[k].todo # <<>>
  <2> DEFINE gap == Head(tk[k].todo)
             rest == Tail(tk[k].todo)
             step == [op |-> "record", n |-> 0, end |-> 0, todo |-> rest]
  <2>1. tk' = [tk EXCEPT ![k] = step] /\ gaps' = gaps \cup {Row(gap)}
    BY <1>4 DEF TickRecord, Ticker
  <2>2. rest \in Seq(AnyGap) /\ gap \in AnyGap /\ Covered(tk[k].todo) = Covered(rest) \cup (gap.start)..(gap.end - 1)
    BY <1>0, <1>4, CoveredTail
  <2>3. Recorded \subseteq Recorded' /\ (gap.start)..(gap.end - 1) \subseteq Recorded' /\ Row(gap) \in Int \X Int
    BY <2>1, <2>2, RowDeclares
  <2> HIDE DEF gap, rest
  <2>4. step \in [op : {"idle", "record", "sync", "synced", "checkpoint"}, n : Nat \cup {-1}, end : Nat, todo : Seq(AnyGap)]
        /\ step.todo = rest /\ step.op = "record"
    BY <2>2
  <2> HIDE DEF step
  <2>5. OpenTypes' /\ Others(k) /\ tk'[k] = step
    BY <1>0, <1>1, <2>1, <2>3, <2>4 DEF OpenTypes, Others, speakerVars
  <2>6. rx[k].op \in {"checkpoint", "persist", "epoch"} => Covered(tk[k].todo) \subseteq Safe'
    <3>1. rx[k].op \in {"checkpoint", "persist", "epoch"} => Committed(k)' = Covered(rest)
      BY <1>1, <2>4, <2>5 DEF Committed
    <3> QED BY <2>2, <2>3, <3>1, PartIsSafe
  <2>7. ASSUME Safe \subseteq Safe'
        PROVE  /\ Settled(db.seq, db.end)' /\ OpenTracker(k)' /\ OpenTicker(k)' /\ Settled(acked[k].seq, acked[k].end)'
    <3>1. Holds(k) \subseteq Holds(k)'
      BY <2>2, <2>3, <2>4, <2>5, <2>7, PartIsSafe DEF Holds
    <3>2. OpenTracker(k)'
      BY <1>0, <1>1, <2>7, <3>1, TrackerAlone
    <3>3. OpenTicker(k)'
      BY <1>1, <1>2, <2>4, <2>5 DEF OpenTicker
    <3> QED BY <1>0, <1>1, <2>7, <3>2, <3>3, AckedAlone, DatabaseAlone
  <2> QED BY <1>1, <1>2, <1>3, <2>3, <2>5, <2>6, <2>7, TickerSpeaks
<1>5. CASE tk[k].todo = <<>>
  <2> DEFINE step == IF dirty[k] THEN [op |-> "sync", n |-> trk[k].seq, end |-> trk[k].end, todo |-> <<>>] ELSE Rest
  <2>1. tk' = [tk EXCEPT ![k] = step] /\ gaps' = gaps
    BY <1>5 DEF TickRecord, TakeWatermark, Ticker
  <2>2. Settled(trk[k].seq, trk[k].end) /\ trk[k].seq \in Nat \cup {-1} /\ trk[k].end \in Nat
    BY <1>1, <1>5, WatermarkSettled
  <2>3. /\ step \in [op : {"idle", "record", "sync", "synced", "checkpoint"}, n : Nat \cup {-1}, end : Nat, todo : Seq(AnyGap)]
        /\ step.todo = <<>> /\ step.op \in {"idle", "sync"}
        /\ step.op = "sync" => step.n = trk[k].seq /\ step.end = trk[k].end
    BY <2>2 DEF Rest
  <2> HIDE DEF step
  <2>4. OpenTypes' /\ Others(k) /\ tk'[k] = step
    BY <1>0, <1>1, <2>1, <2>3 DEF OpenTypes, Others, speakerVars
  <2>5. Covered(tk[k].todo) = {} /\ Recorded' = Recorded
    BY <1>5, <2>1, CoveredNothing DEF Recorded
  <2>6. ASSUME Safe \subseteq Safe'
        PROVE  /\ Settled(db.seq, db.end)' /\ OpenTracker(k)' /\ OpenTicker(k)' /\ Settled(acked[k].seq, acked[k].end)'
    <3>1. Holds(k) \subseteq Holds(k)'
      BY <2>5, <2>6 DEF Holds
    <3>2. OpenTracker(k)'
      BY <1>0, <1>1, <2>6, <3>1, TrackerAlone
    <3>3. step.op = "sync" => Settled(tk[k].n, tk[k].end)'
      BY <1>1, <2>2, <2>3, <2>4, <2>6, SettledMore DEF Settled, AsFar, speakerVars
    <3>4. OpenTicker(k)'
      BY <1>1, <1>2, <2>3, <2>4, <3>3 DEF OpenTicker
    <3> QED BY <1>0, <1>1, <2>6, <3>2, <3>4, AckedAlone, DatabaseAlone
  <2> QED BY <1>1, <1>2, <1>3, <2>4, <2>5, <2>6, TickerSpeaks
<1> QED BY <1>4, <1>5

LEMMA TickFlushSpeaks ==
  ASSUME Voices, NEW k \in Conns, NEW late, Flush(k, late), UNCHANGED speakerVars
  PROVE  Voices'
<1> USE DEF linkVars, dbVars
<1> DEFINE r == Expire(trk[k], late)
           step == IF r.gaps # <<>> THEN [op |-> "record", n |-> 0, end |-> 0, todo |-> r.gaps]
                   ELSE IF dirty[k] THEN [op |-> "sync", n |-> r.t.seq, end |-> r.t.end, todo |-> <<>>] ELSE Rest
<1>0. /\ OpenTypes /\ OpenTracker(k) /\ OpenTicker(k) /\ OpenReceiver(k)
      /\ Settled(acked[k].seq, acked[k].end) /\ Settled(db.seq, db.end)
  BY TickerFacts
<1>1. /\ ph[k] = "on" /\ tk[k] = Rest /\ Opened(k)
      /\ trk' = [trk EXCEPT ![k] = r.t] /\ tk' = [tk EXCEPT ![k] = step]
      /\ UNCHANGED <<toSrv, ph, rx, buf, acked, disk, db, gaps>>
  BY DEF Flush, TakeWatermark, Ticker
<1>2. Tracked(trk[k], Holds(k)) /\ Covered(tk[k].todo) = {}
  BY <1>0, <1>1, CoveredNothing DEF OpenTracker, Rest
<1>3. /\ r \in [t : AnyTracker, gaps : Seq(AnyGap)] /\ Tracked(r.t, Safe \cup Covered(r.gaps))
      /\ Pending(trk[k]) = {} => r.t = trk[k]
  <2>1. Holds(k) = Safe
    BY <1>2 DEF Holds
  <2>2. CASE InStep(trk[k], Safe)
    <3>1. Declares(r, Safe)
      BY <2>2, ExpireInStep
    <3>2. Pending(trk[k]) = {} => r.t = trk[k]
      BY ExpireNothing
    <3> HIDE DEF r
    <3> QED BY <3>1, <3>2 DEF Declares, InStep, Tracked
  <2>3. CASE ~InStep(trk[k], Safe)
    <3>1. Pending(trk[k]) = {} /\ trk[k] \in AnyTracker
      BY <1>2, <2>1, <2>3 DEF Tracked, InStep, Backed
    <3>2. r = [t |-> trk[k], gaps |-> <<>>]
      BY <3>1, ExpireNothing
    <3> HIDE DEF r
    <3>3. r.t = trk[k] /\ r.gaps = <<>> /\ r \in [t : AnyTracker, gaps : Seq(AnyGap)]
      BY <3>1, <3>2
    <3>4. Safe \cup Covered(r.gaps) = Holds(k)
      BY <2>1, <3>3, CoveredNothing
    <3> QED BY <1>2, <3>3, <3>4
  <2> QED BY <2>2, <2>3
<1> HIDE DEF r
<1>4. r.t \in AnyTracker /\ r.gaps \in Seq(AnyGap) /\ r.t.seq \in Nat \cup {-1} /\ r.t.end \in Nat /\ r.t # NoTracker
  <2>1. r.t \in AnyTracker /\ r.gaps \in Seq(AnyGap)
    BY <1>3
  <2> QED BY <2>1, AnyTrackerTypes DEF AnyTracker
<1>5. /\ step \in [op : {"idle", "record", "sync", "synced", "checkpoint"}, n : Nat \cup {-1}, end : Nat, todo : Seq(AnyGap)]
      /\ step.todo = r.gaps
      /\ step.op \in {"idle", "record", "sync"} /\ (step.op # "record" => r.gaps = <<>>)
      /\ step.op = "sync" => step.n = r.t.seq /\ step.end = r.t.end
  BY <1>4 DEF Rest
<1> HIDE DEF step
<1>6. OpenTypes' /\ Others(k) /\ tk'[k] = step /\ trk'[k] = r.t
  BY <1>0, <1>1, <1>4, <1>5 DEF OpenTypes, Others, speakerVars
<1>7. Opened(k)' /\ Recorded' = Recorded
  BY <1>1, <1>4, <1>6 DEF Opened, Recorded
<1>8. ASSUME Safe \subseteq Safe'
      PROVE  /\ Settled(db.seq, db.end)' /\ OpenTracker(k)' /\ OpenTicker(k)' /\ Settled(acked[k].seq, acked[k].end)'
  <2>1. Safe \cup Covered(r.gaps) \subseteq Holds(k)'
    BY <1>5, <1>6, <1>8 DEF Holds
  <2>2. Tracked(r.t, Holds(k)')
    BY <1>3, <2>1, TrackedMore DEF Tracked, Backed, AllBefore
  <2>3. OpenTracker(k)'
    BY <1>1, <1>6, <2>2 DEF OpenTracker, Tracked, speakerVars
  <2>4. step.op = "sync" => Settled(tk[k].n, tk[k].end)'
    <3> SUFFICES ASSUME step.op = "sync" PROVE Settled(tk[k].n, tk[k].end)'
      OBVIOUS
    <3>1. Safe \cup Covered(r.gaps) = Safe
      BY <1>5, CoveredNothing
    <3>2. Settled(r.t.seq, r.t.end)
      BY <1>3, <3>1 DEF Tracked, Backed, Settled, AsFar
    <3> QED BY <1>5, <1>6, <1>8, <3>2, SettledMore DEF Settled, AsFar, speakerVars
  <2>5. OpenTicker(k)'
    BY <1>1, <1>5, <1>6, <1>7, <2>4 DEF OpenTicker
  <2> QED BY <1>0, <1>1, <1>8, <2>3, <2>5, AckedAlone, DatabaseAlone
<1>9. rx[k].op = "close" => Pending(trk'[k]) = {}
  BY <1>0, <1>3, <1>6 DEF OpenReceiver
<1> QED BY <1>1, <1>2, <1>6, <1>7, <1>8, <1>9, TickerSpeaks

OpenReceivers == [op : OpenOps, n : Int, todo : Seq(AnyGap \cup Checkpoints)]

\* A step of the receive loop leaves the ticker alone.
LEMMA ReceiverSpeaks ==
  ASSUME NEW k \in Conns, Voices, OpenTypes', UNCHANGED speakerVars, Others(k),
         ph'[k] = ph[k], tk'[k] = tk[k], Opened(k) => Opened(k)', \A j \in Conns : Alone(toSrv[j])',
         disk \subseteq disk', Recorded \subseteq Safe', Part(k) \subseteq Safe',
         Safe \subseteq Safe' => /\ Settled(db.seq, db.end)' /\ Settled(acked[k].seq, acked[k].end)'
                                 /\ OpenTracker(k)' /\ OpenReceiver(k)'
  PROVE  Voices'
<1>1. OpenTicker(k)
  BY TickerFacts
<1>2. ASSUME Safe \subseteq Safe' PROVE OpenConn(k)'
  <2>1. OpenTicker(k)'
    BY <1>1, <1>2, TickerAlone
  <2> QED BY <1>2, <2>1 DEF OpenConn
<1> QED BY <1>2, ServerSpeaks

\* What the receive loop is about to record.
LEMMA PartIs ==
  ASSUME NEW k \in Conns
  PROVE  /\ rx[k].op \notin {"record", "close", "checkpoint", "persist", "epoch"} => Part(k) = buf[k]
         /\ rx[k].op \in {"record", "close"} => Part(k) = buf[k] \cup Covered(rx[k].todo)
         /\ rx[k].op \in {"checkpoint", "persist", "epoch"} => Part(k) = buf[k] \cup Covered(tk[k].todo)
BY DEF Part, OpenFlight, Committed

\* The same after a step.
LEMMA PartNext ==
  ASSUME NEW k \in Conns
  PROVE  /\ buf'[k] \subseteq Safe' /\ Recorded' \subseteq Safe' /\ disk' \subseteq Safe'
         /\ rx'[k].op \in {"record", "close"} => Covered(rx'[k].todo) \subseteq Safe'
         /\ rx'[k].op \in {"checkpoint", "persist", "epoch"} => Covered(tk'[k].todo) \subseteq Safe'
BY PartIsSafe DEF OpenFlight, Committed

\* A step that takes no message.
LEMMA QuietQueues ==
  ASSUME Voices, toSrv' = toSrv, UNCHANGED speakerVars
  PROVE  \A j \in Conns : Alone(toSrv[j])'
BY QueuesStay DEF Voices

\* The message at the head of the queue is taken.
LEMMA Consumed ==
  ASSUME Voices, NEW k \in Conns, NEW type, Receives(k, type), Consume(k), UNCHANGED speakerVars
  PROVE  /\ Message(k) \in Sayings /\ Fair(Message(k)) /\ Message(k).type = type
         /\ toSrv' = [c \in Conns |-> toSrv'[c]]
         /\ \A j \in Conns : Alone(toSrv[j])'
         /\ rx[k].op = "idle" /\ Part(k) = buf[k]
<1>1. toSrv = [c \in Conns |-> toSrv[c]] /\ Alone(toSrv[k])
  BY DEF Voices, OpenTypes, OpenConn
<1>2. PICK m \in Sayings : Fair(m) /\ toSrv[k] = <<m>>
  BY <1>1 DEF Alone, Receives
<1>3. Head(toSrv[k]) = m /\ Tail(toSrv[k]) = <<>>
  BY <1>2
<1>4. toSrv' = [toSrv EXCEPT ![k] = <<>>]
  BY <1>3 DEF Consume
<1>5. toSrv' = [c \in Conns |-> toSrv'[c]] /\ toSrv'[k] = <<>> /\ \A j \in Conns : j # k => toSrv'[j] = toSrv[j]
  BY <1>1, <1>4
<1>6. ASSUME NEW j \in Conns PROVE Alone(toSrv[j])'
  <2>1. CASE j = k
    BY <1>5, <2>1 DEF Alone
  <2>2. CASE j # k
    BY <1>5, <2>2, QueuesStay DEF Voices
  <2> QED BY <2>1, <2>2
<1>7. rx[k].op = "idle"
  BY DEF Receives, Idle
<1>8. Part(k) = buf[k]
  BY <1>7, PartIs
<1> QED BY <1>2, <1>3, <1>5, <1>6, <1>7, <1>8 DEF Message, Receives

\* The fields of a message.
LEMMA SayingTypes ==
  ASSUME NEW m \in Sayings
  PROVE  /\ m.type \in {"frame", "close"} => m.n \in Nat
         /\ m.type = "gap" => m.from \in Nat /\ m.to \in Nat
BY DEF Sayings

\* An open connection.
LEMMA OpenFacts ==
  ASSUME Voices, NEW k \in Conns, ph[k] = "on", Opened(k)
  PROVE  /\ trk[k] \in AnyTracker /\ Tracked(trk[k], Holds(k))
         /\ trk[k].seq \in Nat \cup {-1} /\ trk[k].end \in Nat
         /\ trk[k].seq < final => InStep(trk[k], Holds(k))
         /\ ~InStep(trk[k], Holds(k)) => Pending(trk[k]) = {} /\ final # -1 /\ trk[k].seq >= final
<1>1. Tracked(trk[k], Holds(k))
  BY TickerFacts DEF OpenTracker
<1>2. trk[k] \in AnyTracker
  BY <1>1 DEF Tracked, Backed
<1>3. trk[k].seq \in Nat \cup {-1} /\ trk[k].end \in Nat
  BY <1>2 DEF AnyTracker
<1>4. ~InStep(trk[k], Holds(k)) => Pending(trk[k]) = {} /\ final # -1 /\ trk[k].seq >= final
  BY <1>1 DEF Tracked, InStep
<1>5. final \in Int
  BY DEF Voices, OpenTypes
<1>6. trk[k].seq < final => ~(trk[k].seq >= final)
  BY <1>3, <1>5
<1> QED BY <1>1, <1>2, <1>3, <1>4, <1>6

\* A step of the receive loop that leaves the tracker alone.
LEMMA LoopSpeaks ==
  ASSUME NEW k \in Conns, Voices, OpenTypes', UNCHANGED speakerVars, Others(k),
         ph'[k] = ph[k], tk'[k] = tk[k], trk'[k] = trk[k], \A j \in Conns : Alone(toSrv[j])',
         disk \subseteq disk', Recorded \subseteq Safe', Part(k) \subseteq Safe',
         Safe \subseteq Safe' => /\ Settled(db.seq, db.end)' /\ Settled(acked[k].seq, acked[k].end)'
                                 /\ OpenReceiver(k)'
  PROVE  Voices'
<1>1. OpenTracker(k) /\ Opened(k)' = Opened(k)
  BY TickerFacts DEF Opened
<1>2. ASSUME Safe \subseteq Safe' PROVE OpenTracker(k)'
  <2>1. Holds(k) \subseteq Holds(k)'
    BY <1>2 DEF Holds
  <2> QED BY <1>1, <1>2, <2>1, TrackerAlone
<1> QED BY <1>1, <1>2, ReceiverSpeaks

\* The new state of the receive loop.
LEMMA Goes ==
  ASSUME Voices, NEW k \in Conns, NEW op \in OpenOps, NEW n \in Int, NEW todo \in Seq(AnyGap \cup Checkpoints),
         Goto(k, op, n, todo)
  PROVE  /\ rx' \in [Conns -> OpenReceivers]
         /\ rx'[k].op = op /\ rx'[k].n = n /\ rx'[k].todo = todo
         /\ \A j \in Conns : j # k => rx'[j] = rx[j]
<1> DEFINE step == [op |-> op, n |-> n, todo |-> todo]
<1>1. step \in OpenReceivers /\ step.op = op /\ step.n = n /\ step.todo = todo
  BY DEF OpenReceivers
<1>2. rx' = [rx EXCEPT ![k] = step]
  BY DEF Goto
<1>3. rx \in [Conns -> OpenReceivers]
  BY DEF Voices, OpenTypes, OpenReceivers
<1> HIDE DEF step
<1> QED BY <1>1, <1>2, <1>3

LEMMA Rests ==
  ASSUME Voices, NEW k \in Conns, rx' = [rx EXCEPT ![k] = Idle]
  PROVE  /\ rx' \in [Conns -> OpenReceivers]
         /\ rx'[k].op = "idle"
         /\ \A j \in Conns : j # k => rx'[j] = rx[j]
<1>1. Goto(k, "idle", 0, <<>>)
  BY DEF Goto, Idle
<1>2. "idle" \in OpenOps /\ 0 \in Int /\ <<>> \in Seq(AnyGap \cup Checkpoints)
  BY DEF OpenOps
<1> QED BY <1>1, <1>2, Goes

-----------------------------------------------------------------------------
LEMMA FrameSpeaks ==
  ASSUME Voices, NEW k \in Conns, Frame(k), UNCHANGED speakerVars
  PROVE  Voices'
<1> USE DEF linkVars, dbVars
<1> DEFINE m == Message(k)
<1>0. OpenTypes /\ OpenReceiver(k) /\ Settled(acked[k].seq, acked[k].end) /\ Settled(db.seq, db.end)
  BY TickerFacts
<1>1. /\ ph[k] = "on" /\ Receives(k, "frame") /\ Consume(k)
      /\ UNCHANGED <<ph, tk, trk, buf, acked, disk, db, gaps>>
  BY DEF Frame
<1>2. /\ m \in Sayings /\ Fair(m) /\ m.type = "frame" /\ rx[k].op = "idle" /\ Part(k) = buf[k]
      /\ toSrv' = [c \in Conns |-> toSrv'[c]] /\ \A j \in Conns : Alone(toSrv[j])'
  BY <1>1, Consumed
<1> HIDE DEF m
<1>3. m.n \in Nat /\ m.n <= top
  BY <1>2, SayingTypes DEF Fair
<1>4. rx' = rx \/ (Opened(k) /\ (Goto(k, "write", m.n, <<>>) \/ Goto(k, "rewrite", m.n, <<>>)))
  BY DEF Frame, m
<1>5. /\ rx' \in [Conns -> OpenReceivers] /\ \A j \in Conns : j # k => rx'[j] = rx[j]
      /\ rx'[k].op = "idle" \/ (Opened(k) /\ rx'[k].op \in {"write", "rewrite"} /\ rx'[k].n = m.n)
  <2>1. {"write", "rewrite"} \subseteq OpenOps /\ <<>> \in Seq(AnyGap \cup Checkpoints) /\ m.n \in Int
    BY <1>3 DEF OpenOps
  <2>2. CASE rx' = rx
    BY <1>0, <1>2, <2>2 DEF OpenTypes, OpenReceivers
  <2>3. CASE Opened(k) /\ Goto(k, "write", m.n, <<>>)
    <3>1. "write" \in OpenOps
      BY <2>1
    <3> QED BY <2>1, <2>3, <3>1, Goes, ZenonT(30)
  <2>4. CASE Opened(k) /\ Goto(k, "rewrite", m.n, <<>>)
    <3>1. "rewrite" \in OpenOps
      BY <2>1
    <3> QED BY <2>1, <2>4, <3>1, Goes, ZenonT(30)
  <2> QED BY <1>4, <2>2, <2>3, <2>4
<1>6. OpenTypes' /\ Others(k)
  BY <1>0, <1>1, <1>2, <1>5 DEF OpenTypes, OpenReceivers, Others, speakerVars
<1>7. Recorded \subseteq Safe' /\ Part(k) \subseteq Safe'
  <2>1. Recorded' = Recorded
    BY <1>1 DEF Recorded
  <2> QED BY <1>1, <1>2, <2>1, PartNext
<1>8. OpenReceiver(k)'
  <2>1. Opened(k)' = Opened(k) /\ top' = top
    BY <1>1 DEF Opened, speakerVars
  <2> QED BY <1>1, <1>3, <1>5, <2>1 DEF OpenReceiver
<1> QED BY <1>0, <1>1, <1>2, <1>6, <1>7, <1>8, AckedAlone, DatabaseAlone, LoopSpeaks

LEMMA OpenSourceSpeaks ==
  ASSUME Voices, NEW k \in Conns, OpenSource(k), UNCHANGED speakerVars
  PROVE  Voices'
<1> USE DEF linkVars, dbVars
<1>0. OpenTypes /\ OpenReceiver(k) /\ Settled(acked[k].seq, acked[k].end) /\ Settled(db.seq, db.end)
  BY TickerFacts
<1>1. /\ ph[k] = "on" /\ Receives(k, "open") /\ Consume(k) /\ Goto(k, "open", db.seq, <<db>>)
      /\ UNCHANGED <<ph, tk, trk, buf, acked, disk, db, gaps>>
  BY DEF OpenSource, Goto
<1>2. /\ rx[k].op = "idle" /\ Part(k) = buf[k]
      /\ toSrv' = [c \in Conns |-> toSrv'[c]] /\ \A j \in Conns : Alone(toSrv[j])'
  BY <1>1, Consumed
<1>3. /\ rx' \in [Conns -> OpenReceivers] /\ \A j \in Conns : j # k => rx'[j] = rx[j]
      /\ rx'[k].op = "open" /\ rx'[k].todo = <<db>> /\ db \in Checkpoints
  <2>1. db \in Checkpoints /\ db.seq \in Int
    BY <1>0 DEF OpenTypes, Checkpoints
  <2>2. "open" \in OpenOps /\ <<db>> \in Seq(AnyGap \cup Checkpoints)
    BY <2>1 DEF OpenOps
  <2> QED BY <1>1, <2>1, <2>2, Goes
<1>4. OpenTypes' /\ Others(k)
  BY <1>0, <1>1, <1>2, <1>3 DEF OpenTypes, OpenReceivers, Others, speakerVars
<1>5. Recorded \subseteq Safe' /\ Part(k) \subseteq Safe'
  <2>1. Recorded' = Recorded
    BY <1>1 DEF Recorded
  <2> QED BY <1>1, <1>2, <2>1, PartNext
<1>6. ASSUME Safe \subseteq Safe' PROVE OpenReceiver(k)' /\ Settled(db.seq, db.end)'
  <2>1. Settled(db.seq, db.end)'
    BY <1>0, <1>1, <1>6, DatabaseAlone
  <2>2. \E d \in Checkpoints : rx'[k].todo = <<d>> /\ Settled(d.seq, d.end)'
    BY <1>1, <1>3, <2>1 DEF Settled, AsFar
  <2> QED BY <1>1, <1>3, <2>1, <2>2 DEF OpenReceiver
<1> QED BY <1>0, <1>1, <1>2, <1>4, <1>5, <1>6, AckedAlone, LoopSpeaks

LEMMA LateFrameWrittenSpeaks ==
  ASSUME Voices, NEW k \in Conns, LateFrameWritten(k), UNCHANGED speakerVars
  PROVE  Voices'
<1> USE DEF linkVars, dbVars
<1>0. OpenTypes /\ OpenReceiver(k) /\ Settled(acked[k].seq, acked[k].end) /\ Settled(db.seq, db.end)
  BY TickerFacts
<1>1. /\ rx[k].op = "rewrite" /\ Goto(k, "narrow", rx[k].n, <<>>) /\ buf' = [buf EXCEPT ![k] = @ \cup {rx[k].n}]
      /\ UNCHANGED <<toSrv, ph, tk, trk, acked, disk, db, gaps>>
  BY DEF LateFrameWritten, WriteFrame
<1>2. rx[k].n \in Nat /\ ph[k] = "on" /\ Opened(k)
  BY <1>0, <1>1 DEF OpenReceiver
<1>3. /\ rx' \in [Conns -> OpenReceivers] /\ \A j \in Conns : j # k => rx'[j] = rx[j]
      /\ rx'[k].op = "narrow" /\ rx'[k].n = rx[k].n
  <2>1. "narrow" \in OpenOps /\ <<>> \in Seq(AnyGap \cup Checkpoints) /\ rx[k].n \in Int
    BY <1>2 DEF OpenOps
  <2> QED BY <1>1, <2>1, Goes
<1>4. buf' \in [Conns -> SUBSET Int] /\ buf'[k] = buf[k] \cup {rx[k].n} /\ \A j \in Conns : j # k => buf'[j] = buf[j]
  BY <1>0, <1>1, <1>2 DEF OpenTypes
<1>5. OpenTypes' /\ Others(k)
  BY <1>0, <1>1, <1>3, <1>4 DEF OpenTypes, OpenReceivers, Others, speakerVars
<1>6. Recorded \subseteq Safe' /\ Part(k) \subseteq Safe'
  <2>1. Recorded' = Recorded
    BY <1>1 DEF Recorded
  <2> QED BY <1>1, <1>4, <2>1, PartIs, PartNext
<1>7. OpenReceiver(k)'
  <2>1. Opened(k)' = Opened(k)
    BY <1>1 DEF Opened
  <2> QED BY <1>1, <1>2, <1>3, <1>4, <2>1 DEF OpenReceiver
<1> QED BY <1>0, <1>1, <1>5, <1>6, <1>7, QuietQueues, AckedAlone, DatabaseAlone, LoopSpeaks

\* A late frame narrows the row that declared it lost.
LEMMA NarrowSpeaks ==
  ASSUME Voices, NEW k \in Conns, NarrowGap(k), UNCHANGED speakerVars
  PROVE  Voices'
<1> USE DEF linkVars, dbVars
<1> DEFINE n == rx[k].n
<1>0. OpenTypes /\ OpenReceiver(k) /\ Settled(acked[k].seq, acked[k].end) /\ Settled(db.seq, db.end)
  BY TickerFacts
<1>1. /\ rx[k].op = "narrow" /\ rx' = [rx EXCEPT ![k] = Idle] /\ gaps' = UNION {Narrowed(g, n, n + 1) : g \in gaps}
      /\ UNCHANGED <<toSrv, ph, tk, trk, buf, acked, disk, db>>
  BY DEF NarrowGap
<1>2. n \in Nat /\ n \in disk \cup buf[k] /\ ph[k] = "on" /\ Opened(k)
  BY <1>0, <1>1 DEF OpenReceiver
<1> HIDE DEF n
<1>3. /\ rx' \in [Conns -> OpenReceivers] /\ \A j \in Conns : j # k => rx'[j] = rx[j]
      /\ rx'[k].op = "idle"
  BY <1>1, Rests
<1>4. \A g \in gaps : g \in Int \X Int /\ g[1] \in Int /\ g[2] \in Int
  BY <1>0 DEF OpenTypes
<1>5. gaps' \in SUBSET (Int \X Int)
  <2>1. \A g \in gaps : Narrowed(g, n, n + 1) \subseteq Int \X Int
    BY <1>2, <1>4 DEF Narrowed
  <2> QED BY <1>1, <2>1
<1>6. OpenTypes' /\ Others(k)
  BY <1>0, <1>1, <1>3, <1>5 DEF OpenTypes, OpenReceivers, Others, speakerVars
<1>7. n \in Safe' /\ Part(k) \subseteq Safe'
  BY <1>1, <1>2, PartIs, PartNext
<1>8. Recorded \subseteq Safe'
  <2> SUFFICES ASSUME NEW p \in Recorded, p # n PROVE p \in Recorded'
    BY <1>7, PartNext
  <2>1. PICK g \in gaps : p \in (g[1])..(g[2] - 1)
    BY DEF Recorded
  <2>2. \E h \in Narrowed(g, n, n + 1) : p \in (h[1])..(h[2] - 1)
    <3>0. g[1] \in Int /\ g[2] \in Int /\ p \in Int /\ g[1] <= p /\ p <= g[2] - 1
      BY <1>4, <2>1
    <3>1. CASE n <= g[1] /\ n + 1 >= g[2]
      BY <3>0, <3>1, <1>2
    <3>2. CASE ~(n <= g[1] /\ n + 1 >= g[2]) /\ n <= g[1] /\ g[1] < n + 1
      <4>1. Narrowed(g, n, n + 1) = {<<n + 1, g[2]>>}
        BY <3>2 DEF Narrowed
      <4>2. p \in (n + 1)..(g[2] - 1)
        BY <3>0, <3>2, <1>2
      <4> QED BY <4>1, <4>2
    <3>3. CASE ~(n <= g[1] /\ n + 1 >= g[2]) /\ ~(n <= g[1] /\ g[1] < n + 1) /\ n < g[2] /\ g[2] <= n + 1
      <4>1. Narrowed(g, n, n + 1) = {<<g[1], n>>}
        BY <3>3 DEF Narrowed
      <4>2. p \in (g[1])..(n - 1)
        BY <3>0, <3>3, <1>2
      <4> DEFINE h == <<g[1], n>>
      <4>3. h[1] = g[1] /\ h[2] = n
        OBVIOUS
      <4>4. h \in Narrowed(g, n, n + 1)
        BY <4>1
      <4> HIDE DEF h
      <4>5. p \in (h[1])..(h[2] - 1)
        BY <4>2, <4>3
      <4> QED BY <4>4, <4>5
    <3>4. CASE ~(n <= g[1] /\ n + 1 >= g[2]) /\ ~(n <= g[1] /\ g[1] < n + 1) /\ ~(n < g[2] /\ g[2] <= n + 1)
      <4>1. Narrowed(g, n, n + 1) = {g}
        BY <3>4 DEF Narrowed
      <4> QED BY <4>1, <2>1
    <3> QED BY <3>1, <3>2, <3>3, <3>4
  <2>3. \A h \in Narrowed(g, n, n + 1) : h \in gaps'
    BY <1>1, <2>1
  <2> QED BY <2>2, <2>3 DEF Recorded
<1>9. OpenReceiver(k)'
  BY <1>3 DEF OpenReceiver
<1> QED BY <1>0, <1>1, <1>6, <1>7, <1>8, <1>9, QuietQueues, AckedAlone, DatabaseAlone, LoopSpeaks

LEMMA RecordGapSpeaks ==
  ASSUME Voices, NEW k \in Conns, RecordGap(k), UNCHANGED speakerVars
  PROVE  Voices'
<1> USE DEF linkVars, dbVars
<1> DEFINE gap == Head(rx[k].todo)
           rest == Tail(rx[k].todo)
<1>0. OpenTypes /\ OpenReceiver(k) /\ Settled(acked[k].seq, acked[k].end) /\ Settled(db.seq, db.end)
  BY TickerFacts
<1>1. /\ rx[k].op \in {"record", "close"} /\ rx[k].todo # <<>> /\ gaps' = gaps \cup {Row(gap)}
      /\ UNCHANGED <<toSrv, ph, tk, trk, buf, acked, disk, db>>
      /\ \/ rest = <<>> /\ rx' = [rx EXCEPT ![k] = Idle]
         \/ Goto(k, rx[k].op, rx[k].n, rest)
  BY DEF RecordGap
<1>2. rx[k].todo \in Seq(AnyGap) /\ ph[k] = "on" /\ Opened(k)
  BY <1>0, <1>1 DEF OpenReceiver
<1>3. rest \in Seq(AnyGap) /\ gap \in AnyGap /\ Covered(rx[k].todo) = Covered(rest) \cup (gap.start)..(gap.end - 1)
  BY <1>1, <1>2, CoveredTail
<1>4. Recorded \subseteq Recorded' /\ (gap.start)..(gap.end - 1) \subseteq Recorded' /\ Row(gap) \in Int \X Int
  BY <1>1, <1>3, RowDeclares
<1> HIDE DEF gap, rest
<1>5. /\ rx' \in [Conns -> OpenReceivers] /\ \A j \in Conns : j # k => rx'[j] = rx[j]
      /\ \/ rest = <<>> /\ rx'[k].op = "idle"
         \/ rx'[k].op = rx[k].op /\ rx'[k].n = rx[k].n /\ rx'[k].todo = rest
  <2>1. rx[k].op \in OpenOps /\ rx[k].n \in Int
    BY TickerFacts
  <2>2. rest \in Seq(AnyGap \cup Checkpoints)
    BY <1>3
  <2> QED BY <1>1, <2>1, <2>2, Goes, Rests
<1>6. OpenTypes' /\ Others(k)
  BY <1>0, <1>1, <1>4, <1>5 DEF OpenTypes, OpenReceivers, Others, speakerVars
<1>7. Recorded \subseteq Safe' /\ Part(k) \subseteq Safe'
  <2>1. Covered(rest) \subseteq Safe'
    BY <1>1, <1>5, CoveredNothing, PartNext
  <2> QED BY <1>1, <1>3, <1>4, <2>1, PartIs, PartNext
<1>8. OpenReceiver(k)'
  <2>1. Opened(k)' = Opened(k) /\ final' = final
    BY <1>1 DEF Opened, speakerVars
  <2> QED BY <1>0, <1>1, <1>2, <1>3, <1>5, <2>1 DEF OpenReceiver
<1> QED BY <1>0, <1>1, <1>6, <1>7, <1>8, QuietQueues, AckedAlone, DatabaseAlone, LoopSpeaks

\* EpochWriter.sync moves what was written to the disk.
LEMMA Flushed ==
  ASSUME OpenTypes, NEW k \in Conns, Fsync(k)
  PROVE  /\ disk' = disk \cup buf[k] /\ buf'[k] = {} /\ disk' \in SUBSET Int /\ buf' \in [Conns -> SUBSET Int]
         /\ \A j \in Conns : j # k => buf'[j] = buf[j]
BY DEF OpenTypes, Fsync

LEMMA CloseSyncSpeaks ==
  ASSUME Voices, NEW k \in Conns, CloseSync(k), UNCHANGED speakerVars
  PROVE  Voices'
<1> USE DEF linkVars, dbVars
<1>0. OpenTypes /\ OpenReceiver(k) /\ Settled(acked[k].seq, acked[k].end) /\ Settled(db.seq, db.end)
  BY TickerFacts
<1>1. /\ rx[k].op = "sync" /\ Fsync(k) /\ Goto(k, "ack", rx[k].n, <<>>)
      /\ UNCHANGED <<toSrv, ph, tk, trk, acked, db, gaps>>
  BY DEF CloseSync
<1>2. ph[k] = "on" /\ Opened(k)
  BY <1>0, <1>1 DEF OpenReceiver
<1>3. rx' \in [Conns -> OpenReceivers] /\ (\A j \in Conns : j # k => rx'[j] = rx[j]) /\ rx'[k].op = "ack"
  <2>1. "ack" \in OpenOps /\ <<>> \in Seq(AnyGap \cup Checkpoints) /\ rx[k].n \in Int
    BY TickerFacts DEF OpenOps
  <2> QED BY <1>1, <2>1, Goes
<1>4. /\ disk' = disk \cup buf[k] /\ buf'[k] = {} /\ disk' \in SUBSET Int /\ buf' \in [Conns -> SUBSET Int]
      /\ \A j \in Conns : j # k => buf'[j] = buf[j]
  BY <1>0, <1>1, Flushed
<1>5. OpenTypes' /\ Others(k)
  BY <1>0, <1>1, <1>3, <1>4 DEF OpenTypes, OpenReceivers, Others, speakerVars
<1>6. Recorded \subseteq Safe' /\ Part(k) \subseteq Safe' /\ disk \subseteq disk'
  <2>1. Recorded' = Recorded
    BY <1>1 DEF Recorded
  <2> QED BY <1>1, <1>4, <2>1, PartIs, PartNext
<1>7. OpenReceiver(k)'
  <2>1. Opened(k)' = Opened(k)
    BY <1>1 DEF Opened
  <2> QED BY <1>1, <1>2, <1>3, <2>1 DEF OpenReceiver
<1> QED BY <1>0, <1>1, <1>5, <1>6, <1>7, QuietQueues, AckedAlone, DatabaseAlone, LoopSpeaks

LEMMA CloseAnswerSpeaks ==
  ASSUME Voices, NEW k \in Conns, CloseAnswer(k), UNCHANGED speakerVars
  PROVE  Voices'
<1> USE DEF linkVars, dbVars
<1>0. OpenTypes /\ OpenReceiver(k) /\ Settled(acked[k].seq, acked[k].end) /\ Settled(db.seq, db.end)
  BY TickerFacts
<1>1. /\ rx[k].op = "answer" /\ Fsync(k) /\ rx' = [rx EXCEPT ![k] = Idle]
      /\ UNCHANGED <<toSrv, ph, tk, trk, acked, db, gaps>>
  BY DEF CloseAnswer
<1>2. rx' \in [Conns -> OpenReceivers] /\ (\A j \in Conns : j # k => rx'[j] = rx[j]) /\ rx'[k].op = "idle"
  BY <1>1, Rests
<1>3. /\ disk' = disk \cup buf[k] /\ buf'[k] = {} /\ disk' \in SUBSET Int /\ buf' \in [Conns -> SUBSET Int]
      /\ \A j \in Conns : j # k => buf'[j] = buf[j]
  BY <1>0, <1>1, Flushed
<1>4. OpenTypes' /\ Others(k)
  BY <1>0, <1>1, <1>2, <1>3 DEF OpenTypes, OpenReceivers, Others, speakerVars
<1>5. Recorded \subseteq Safe' /\ Part(k) \subseteq Safe' /\ disk \subseteq disk'
  <2>1. Recorded' = Recorded
    BY <1>1 DEF Recorded
  <2> QED BY <1>1, <1>3, <2>1, PartIs, PartNext
<1>6. OpenReceiver(k)'
  BY <1>2 DEF OpenReceiver
<1> QED BY <1>0, <1>1, <1>4, <1>5, <1>6, QuietQueues, AckedAlone, DatabaseAlone, LoopSpeaks

\* What is acknowledged at the close: the gaps that the ticker has still to record are
\* recorded before the checkpoint can be read, or the connection goes on to record them.
LEMMA CloseAckSpeaks ==
  ASSUME Voices, NEW k \in Conns, CloseAck(k), UNCHANGED speakerVars
  PROVE  Voices'
<1> USE DEF linkVars, dbVars
<1>0. OpenTypes /\ OpenReceiver(k) /\ Settled(acked[k].seq, acked[k].end) /\ Settled(db.seq, db.end)
  BY TickerFacts
<1>1. /\ rx[k].op = "ack"
      /\ UNCHANGED <<toSrv, ph, tk, trk, buf, disk, db, gaps>>
      /\ \/ acked' = [acked EXCEPT ![k] = [seq |-> trk[k].seq, end |-> trk[k].end]] /\ Goto(k, "checkpoint", trk[k].seq, <<>>)
         \/ acked' = acked /\ Goto(k, "persist", 0, <<>>)
  BY DEF CloseAck
<1>2. ph[k] = "on" /\ Opened(k)
  BY <1>0, <1>1 DEF OpenReceiver
<1>3. Tracked(trk[k], Holds(k)) /\ trk[k].seq \in Nat \cup {-1} /\ trk[k].end \in Nat
  BY <1>2, OpenFacts
<1> DEFINE a == [seq |-> trk[k].seq, end |-> trk[k].end]
<1>4. a \in [seq : Nat \cup {-1}, end : Nat] /\ a.seq = trk[k].seq /\ a.end = trk[k].end
  BY <1>3
<1> HIDE DEF a
<1>5. /\ acked' \in [Conns -> [seq : Nat \cup {-1}, end : Nat]] /\ \A j \in Conns : j # k => acked'[j] = acked[j]
      /\ acked'[k] = acked[k] \/ acked'[k] = a
  <2>1. acked' = acked \/ acked' = [acked EXCEPT ![k] = a]
    BY <1>1 DEF a
  <2>2. acked \in [Conns -> [seq : Nat \cup {-1}, end : Nat]]
    BY <1>0 DEF OpenTypes
  <2> QED BY <1>4, <2>1, <2>2
<1>6. rx' \in [Conns -> OpenReceivers] /\ (\A j \in Conns : j # k => rx'[j] = rx[j]) /\ rx'[k].op \in {"checkpoint", "persist"}
  <2>1. /\ "checkpoint" \in OpenOps /\ "persist" \in OpenOps /\ <<>> \in Seq(AnyGap \cup Checkpoints)
        /\ trk[k].seq \in Int /\ 0 \in Int
    BY <1>3 DEF OpenOps
  <2> QED BY <1>1, <2>1, Goes
<1>7. OpenTypes' /\ Others(k)
  BY <1>0, <1>1, <1>5, <1>6 DEF OpenTypes, OpenReceivers, Others, speakerVars
<1>8. Recorded \subseteq Safe' /\ Part(k) \subseteq Safe' /\ Covered(tk[k].todo) \subseteq Safe'
  <2>1. Recorded' = Recorded
    BY <1>1 DEF Recorded
  <2> QED BY <1>1, <1>6, <2>1, PartIs, PartNext
<1>9. ASSUME Safe \subseteq Safe' PROVE Settled(acked[k].seq, acked[k].end)'
  <2>1. CASE acked'[k] = acked[k]
    BY <1>0, <1>9, <2>1, AckedAlone
  <2>2. CASE acked'[k] = a
    <3>1. Holds(k) \subseteq Safe'
      BY <1>8, <1>9 DEF Holds
    <3>2. AllBefore(a.end, Safe')
      BY <1>3, <1>4, <3>1 DEF Tracked, Backed, AllBefore
    <3> QED BY <1>3, <1>4, <2>2, <3>2 DEF Settled, AsFar, Tracked, speakerVars
  <2> QED BY <1>5, <2>1, <2>2
<1>10. OpenReceiver(k)'
  <2>1. Opened(k)' = Opened(k)
    BY <1>1 DEF Opened
  <2> QED BY <1>1, <1>2, <1>6, <2>1 DEF OpenReceiver
<1> QED BY <1>0, <1>1, <1>7, <1>8, <1>9, <1>10, QuietQueues, DatabaseAlone, LoopSpeaks

\* The transactions of the close.
LEMMA ClosingPersists ==
  ASSUME Voices, NEW k \in Conns, UNCHANGED speakerVars, rx[k].op \in {"checkpoint", "persist"},
         UNCHANGED <<toSrv, ph, tk, trk, buf, acked, disk, gaps>>,
         Persist(acked[k].seq, acked[k].end),
         NEW op \in {"persist", "epoch"}, Goto(k, op, 0, <<>>)
  PROVE  Voices'
<1>0. OpenTypes /\ OpenReceiver(k) /\ Settled(acked[k].seq, acked[k].end) /\ Settled(db.seq, db.end)
  BY TickerFacts
<1>1. ph[k] = "on" /\ Opened(k)
  BY <1>0 DEF OpenReceiver
<1>2. rx' \in [Conns -> OpenReceivers] /\ (\A j \in Conns : j # k => rx'[j] = rx[j]) /\ rx'[k].op = op
  <2>1. op \in OpenOps /\ <<>> \in Seq(AnyGap \cup Checkpoints) /\ 0 \in Int
    BY DEF OpenOps
  <2> QED BY <2>1, Goes
<1>3. acked[k].seq \in Nat \cup {-1} /\ acked[k].end \in Nat /\ db \in Checkpoints
  <2>1. acked[k] \in [seq : Nat \cup {-1}, end : Nat]
    BY <1>0 DEF OpenTypes
  <2> QED BY <1>0, <2>1 DEF OpenTypes
<1>4. db' \in Checkpoints /\ (Safe \subseteq Safe' => Settled(db.seq, db.end)')
  BY <1>0, <1>3, PersistSpeaks
<1>5. OpenTypes' /\ Others(k)
  BY <1>0, <1>2, <1>4 DEF OpenTypes, OpenReceivers, Others, speakerVars
<1>6. Recorded \subseteq Safe' /\ Part(k) \subseteq Safe'
  <2>1. Recorded' = Recorded
    BY DEF Recorded
  <2> QED BY <1>2, <2>1, PartIs, PartNext
<1>7. OpenReceiver(k)'
  <2>1. Opened(k)' = Opened(k)
    BY DEF Opened
  <2> QED BY <1>1, <1>2, <2>1 DEF OpenReceiver
<1> QED BY <1>0, <1>4, <1>5, <1>6, <1>7, QuietQueues, AckedAlone, LoopSpeaks

LEMMA CloseCheckpointSpeaks ==
  ASSUME Voices, NEW k \in Conns, CloseCheckpoint(k) \/ ClosePersist(k), UNCHANGED speakerVars
  PROVE  Voices'
<1>1. CASE CloseCheckpoint(k)
  BY <1>1, ClosingPersists DEF CloseCheckpoint
<1>2. CASE ClosePersist(k)
  BY <1>2, ClosingPersists DEF ClosePersist, linkVars
<1> QED BY <1>1, <1>2

\* A step of the receive loop that changes the tracker of an open connection.
LEMMA TrackerSpeaks ==
  ASSUME NEW k \in Conns, Voices, OpenTypes', UNCHANGED speakerVars, Others(k), ph[k] = "on",
         ph'[k] = ph[k], tk'[k] = tk[k], acked'[k] = acked[k], db' = db, \A j \in Conns : Alone(toSrv[j])',
         disk \subseteq disk', Recorded' = Recorded, Part(k) \subseteq Safe',
         trk'[k] \in AnyTracker,
         Safe \subseteq Safe' => Tracked(trk'[k], Holds(k)'),
         OpenReceiver(k)'
  PROVE  Voices'
<1>1. Opened(k)'
  BY AnyTrackerTypes DEF Opened
<1>2. ASSUME Safe \subseteq Safe' PROVE OpenTracker(k)'
  BY <1>2 DEF OpenTracker, Tracked, speakerVars
<1>3. Recorded \subseteq Safe'
  BY PartNext
<1>4. Settled(acked[k].seq, acked[k].end) /\ Settled(db.seq, db.end)
  BY TickerFacts
<1> QED BY <1>1, <1>2, <1>3, <1>4, AckedAlone, DatabaseAlone, ReceiverSpeaks

\* A step changes the tracker of k.
LEMMA NewTracking ==
  ASSUME Voices, NEW k \in Conns, NEW t \in AnyTracker, trk' = [trk EXCEPT ![k] = t]
  PROVE  /\ trk' \in [Conns -> AnyTracker \cup {NoTracker}] /\ trk'[k] = t
         /\ \A j \in Conns : j # k => trk'[j] = trk[j]
BY DEF Voices, OpenTypes

\* _on_frame: the frame is written, and then counted.
LEMMA FrameWrittenSpeaks ==
  ASSUME Voices, NEW k \in Conns, FrameWritten(k), UNCHANGED speakerVars
  PROVE  Voices'
<1> USE DEF linkVars, dbVars
<1> DEFINE n == rx[k].n
<1>0. OpenTypes /\ OpenReceiver(k)
  BY TickerFacts
<1>1. /\ rx[k].op = "write" /\ buf' = [buf EXCEPT ![k] = @ \cup {n}]
      /\ UNCHANGED <<toSrv, ph, tk, acked, disk, db, gaps>>
  BY DEF FrameWritten, WriteFrame
<1>2. PICK late \in SUBSET Pending(trk[k]) :
        LET r == Accept(trk[k], n, n, 1, late)
        IN  /\ trk' = [trk EXCEPT ![k] = r.t]
            /\ Goto(k, IF r.gaps = <<>> THEN "idle" ELSE "record", 0, r.gaps)
  BY DEF FrameWritten
<1> DEFINE r == Accept(trk[k], n, n, 1, late)
           S == Holds(k) \cup {n}
<1>3. n \in Nat /\ n <= top /\ ph[k] = "on" /\ Opened(k)
  BY <1>0, <1>1 DEF OpenReceiver
<1>4. /\ trk[k] \in AnyTracker /\ Tracked(trk[k], Holds(k)) /\ trk[k].seq \in Nat \cup {-1}
      /\ ~InStep(trk[k], Holds(k)) => Pending(trk[k]) = {} /\ final # -1 /\ trk[k].seq >= final
  BY <1>3, OpenFacts
<1>5. r \in [t : AnyTracker, gaps : Seq(AnyGap)] /\ Tracked(r.t, S \cup Covered(r.gaps))
  <2>1. CASE InStep(trk[k], Holds(k))
    <3>1. InStep(trk[k], S) /\ n \in S
      BY <2>1, InStepMore
    <3>2. Declares(r, S)
      <4> HIDE DEF S, n
      <4> QED BY <3>1, <1>3, AcceptInStep
    <3> HIDE DEF r, S
    <3> QED BY <3>2 DEF Declares, InStep, Tracked
  <2>2. CASE ~InStep(trk[k], Holds(k))
    <3>1. n <= trk[k].seq
      <4>1. final \in Nat /\ top <= final /\ top \in Int
        BY <1>0, <1>4, <2>2 DEF Voices, OpenTypes
      <4> QED BY <1>3, <1>4, <2>2, <4>1
    <3>2. r = [t |-> trk[k], gaps |-> <<>>]
      BY <3>1 DEF Accept, IsDuplicate
    <3> HIDE DEF r, S
    <3>3. r.t = trk[k] /\ r.gaps = <<>> /\ r \in [t : AnyTracker, gaps : Seq(AnyGap)]
      BY <1>4, <3>2
    <3>4. Holds(k) \subseteq S \cup Covered(r.gaps)
      BY DEF S
    <3> QED BY <1>4, <3>3, <3>4, TrackedMore DEF Tracked, Backed, AllBefore
  <2> QED BY <2>1, <2>2
<1> HIDE DEF r, S
<1>6. r.t \in AnyTracker /\ r.gaps \in Seq(AnyGap)
  BY <1>5
<1>7. /\ trk' \in [Conns -> AnyTracker \cup {NoTracker}] /\ trk'[k] = r.t
      /\ \A j \in Conns : j # k => trk'[j] = trk[j]
  BY <1>2, <1>6, NewTracking DEF r
<1>8. /\ rx' \in [Conns -> OpenReceivers] /\ \A j \in Conns : j # k => rx'[j] = rx[j]
      /\ rx'[k].op = (IF r.gaps = <<>> THEN "idle" ELSE "record") /\ rx'[k].todo = r.gaps
  <2> DEFINE op == IF r.gaps = <<>> THEN "idle" ELSE "record"
  <2>1. op \in OpenOps /\ 0 \in Int /\ r.gaps \in Seq(AnyGap \cup Checkpoints)
    BY <1>6 DEF OpenOps
  <2>2. Goto(k, op, 0, r.gaps)
    BY <1>2 DEF r
  <2> HIDE DEF op
  <2>3. /\ rx' \in [Conns -> OpenReceivers] /\ \A j \in Conns : j # k => rx'[j] = rx[j]
       /\ rx'[k].op = op /\ rx'[k].todo = r.gaps
    BY <2>1, <2>2, Goes
  <2> QED BY <2>3 DEF op
<1>9. buf' \in [Conns -> SUBSET Int] /\ buf'[k] = buf[k] \cup {n} /\ \A j \in Conns : j # k => buf'[j] = buf[j]
  BY <1>0, <1>1, <1>3 DEF OpenTypes
<1>10. OpenTypes' /\ Others(k)
  BY <1>0, <1>1, <1>7, <1>8, <1>9 DEF OpenTypes, OpenReceivers, Others, speakerVars
<1>11. Recorded' = Recorded /\ Part(k) \subseteq Safe' /\ n \in Safe' /\ Covered(r.gaps) \subseteq Safe'
  <2>1. Recorded' = Recorded
    BY <1>1 DEF Recorded
  <2>2. Covered(r.gaps) \subseteq Safe'
    <3>1. CASE r.gaps = <<>>
      BY <3>1, CoveredNothing
    <3>2. CASE r.gaps # <<>>
      BY <1>8, <3>2, PartNext
    <3> QED BY <3>1, <3>2
  <2> QED BY <1>1, <1>9, <2>1, <2>2, PartIs, PartNext
<1>12. ASSUME Safe \subseteq Safe' PROVE Tracked(trk'[k], Holds(k)')
  <2>1. S \cup Covered(r.gaps) \subseteq Holds(k)'
    BY <1>1, <1>11, <1>12 DEF Holds, S
  <2> QED BY <1>5, <1>7, <2>1 DEF Tracked, Backed, AllBefore
<1>13. OpenReceiver(k)'
  <2>1. Opened(k)'
    BY <1>6, <1>7, AnyTrackerTypes DEF Opened
  <2> QED BY <1>1, <1>3, <1>6, <1>8, <2>1 DEF OpenReceiver
<1> QED BY <1>1, <1>3, <1>6, <1>7, <1>10, <1>11, <1>12, <1>13, QuietQueues, TrackerSpeaks

\* _on_gap_report.
LEMMA GapReportSpeaks ==
  ASSUME Voices, NEW k \in Conns, GapReport(k), UNCHANGED speakerVars
  PROVE  Voices'
<1> USE DEF linkVars, dbVars
<1> DEFINE m == Message(k)
<1>0. OpenTypes /\ OpenReceiver(k) /\ Settled(acked[k].seq, acked[k].end) /\ Settled(db.seq, db.end)
  BY TickerFacts
<1>1. /\ ph[k] = "on" /\ Receives(k, "gap") /\ Consume(k)
      /\ UNCHANGED <<ph, tk, buf, acked, disk, db, gaps>>
  BY DEF GapReport
<1>2. /\ m \in Sayings /\ Fair(m) /\ m.type = "gap" /\ rx[k].op = "idle" /\ Part(k) = buf[k]
      /\ toSrv' = [c \in Conns |-> toSrv'[c]] /\ \A j \in Conns : Alone(toSrv[j])'
  BY <1>1, Consumed
<1> HIDE DEF m
<1>3. m.from \in Nat /\ m.to \in Nat /\ m.from <= m.to /\ m.to <= top /\ m.start = m.from /\ m.lost = m.to - m.from + 1
  BY <1>2, SayingTypes DEF Fair
<1>4. Recorded' = Recorded /\ Part(k) \subseteq Safe'
  <2>1. Recorded' = Recorded
    BY <1>1 DEF Recorded
  <2> QED BY <1>1, <1>2, <2>1, PartNext
<1>5. CASE ~Opened(k)
  <2>1. trk' = trk /\ rx' = rx
    BY <1>5 DEF GapReport
  <2>2. OpenTypes' /\ Others(k)
    BY <1>0, <1>1, <1>2, <2>1 DEF OpenTypes, Others, speakerVars
  <2>3. OpenReceiver(k)'
    BY <1>2, <2>1 DEF OpenReceiver
  <2> QED BY <1>0, <1>1, <1>2, <1>4, <2>1, <2>2, <2>3, PartNext, AckedAlone, DatabaseAlone, LoopSpeaks
<1>6. CASE Opened(k)
  <2>1. PICK late \in SUBSET Pending(trk[k]) :
          LET r == ReportLost(trk[k], m.from, m.to, m.start, m.lost, late)
          IN  /\ trk' = [trk EXCEPT ![k] = r.t]
              /\ Goto(k, IF r.gaps = <<>> THEN "idle" ELSE "record", 0, r.gaps)
    BY <1>6 DEF GapReport, m
  <2> DEFINE r == ReportLost(trk[k], m.from, m.to, m.from, m.to - m.from + 1, late)
  <2>2. /\ trk' = [trk EXCEPT ![k] = r.t]
        /\ Goto(k, IF r.gaps = <<>> THEN "idle" ELSE "record", 0, r.gaps)
    BY <1>3, <2>1
  <2>3. /\ trk[k] \in AnyTracker /\ Tracked(trk[k], Holds(k)) /\ trk[k].seq \in Nat \cup {-1}
        /\ ~InStep(trk[k], Holds(k)) => Pending(trk[k]) = {} /\ final # -1 /\ trk[k].seq >= final
    BY <1>1, <1>6, OpenFacts
  <2>4. r \in [t : AnyTracker, gaps : Seq(AnyGap)] /\ Tracked(r.t, Holds(k) \cup Covered(r.gaps))
    <3>1. CASE InStep(trk[k], Holds(k))
      <4>1. Declares(r, Holds(k))
        BY <1>3, <3>1, ReportInStep
      <4> HIDE DEF r
      <4> QED BY <4>1 DEF Declares, InStep, Tracked
    <3>2. CASE ~InStep(trk[k], Holds(k))
      <4>1. m.to <= trk[k].seq
        <5>1. final \in Nat /\ top <= final /\ top \in Int
          BY <1>0, <2>3, <3>2 DEF Voices, OpenTypes
        <5> QED BY <1>3, <2>3, <3>2, <5>1
      <4>2. r = [t |-> trk[k], gaps |-> <<>>]
        BY <4>1 DEF ReportLost
      <4> HIDE DEF r
      <4>3. r.t = trk[k] /\ r.gaps = <<>> /\ r \in [t : AnyTracker, gaps : Seq(AnyGap)]
        BY <2>3, <4>2
      <4>4. Holds(k) \subseteq Holds(k) \cup Covered(r.gaps)
        OBVIOUS
      <4> QED BY <2>3, <4>3, <4>4, TrackedMore DEF Tracked, Backed, AllBefore
    <3> QED BY <3>1, <3>2
  <2> HIDE DEF r
  <2>5. r.t \in AnyTracker /\ r.gaps \in Seq(AnyGap)
    BY <2>4
  <2>6. /\ trk' \in [Conns -> AnyTracker \cup {NoTracker}] /\ trk'[k] = r.t
        /\ \A j \in Conns : j # k => trk'[j] = trk[j]
    BY <2>2, <2>5, NewTracking
  <2>7. /\ rx' \in [Conns -> OpenReceivers] /\ \A j \in Conns : j # k => rx'[j] = rx[j]
        /\ rx'[k].op = (IF r.gaps = <<>> THEN "idle" ELSE "record") /\ rx'[k].todo = r.gaps
    <3> DEFINE op == IF r.gaps = <<>> THEN "idle" ELSE "record"
    <3>1. op \in OpenOps /\ 0 \in Int /\ r.gaps \in Seq(AnyGap \cup Checkpoints)
      BY <2>5 DEF OpenOps
    <3>2. Goto(k, op, 0, r.gaps)
      BY <2>2
    <3> HIDE DEF op
    <3>3. /\ rx' \in [Conns -> OpenReceivers] /\ \A j \in Conns : j # k => rx'[j] = rx[j]
         /\ rx'[k].op = op /\ rx'[k].todo = r.gaps
      BY <3>1, <3>2, Goes
    <3> QED BY <3>3 DEF op
  <2>8. OpenTypes' /\ Others(k)
    BY <1>0, <1>1, <1>2, <2>6, <2>7 DEF OpenTypes, OpenReceivers, Others, speakerVars
  <2>9. Covered(r.gaps) \subseteq Safe'
    <3>1. CASE r.gaps = <<>>
      BY <3>1, CoveredNothing
    <3>2. CASE r.gaps # <<>>
      BY <2>7, <3>2, PartNext
    <3> QED BY <3>1, <3>2
  <2>10. ASSUME Safe \subseteq Safe' PROVE Tracked(trk'[k], Holds(k)')
    <3>1. Holds(k) \cup Covered(r.gaps) \subseteq Holds(k)'
      BY <1>1, <2>9, <2>10 DEF Holds
    <3> QED BY <2>4, <2>6, <3>1 DEF Tracked, Backed, AllBefore
  <2>11. OpenReceiver(k)'
    <3>1. Opened(k)'
      BY <2>5, <2>6, AnyTrackerTypes DEF Opened
    <3> QED BY <1>1, <2>5, <2>7, <3>1 DEF OpenReceiver
  <2> QED BY <1>1, <1>2, <1>4, <2>5, <2>6, <2>8, <2>10, <2>11, TrackerSpeaks
<1> QED BY <1>5, <1>6

\* A tracker that resumes at a checkpoint.
LEMMA ResumesSettled ==
  ASSUME NEW seq \in Nat \cup {-1}, NEW end \in Nat, Settled(seq, end)
  PROVE  NewTracker(seq, end) \in AnyTracker /\ Tracked(NewTracker(seq, end), Safe)
<1> DEFINE t == NewTracker(seq, end)
<1>1. t.seq = seq /\ t.end = end /\ Pending(t) = {}
  BY DEF NewTracker, Pending
<1>2. t \in AnyTracker
  <2>1. <<>> \in [{} -> Items]
    OBVIOUS
  <2>2. <<>> \in Pends
    BY <2>1 DEF Pends
  <2> QED BY <2>2 DEF NewTracker, AnyTracker
<1>3. IsFiniteSet({})
  BY FS_EmptySet
<1> HIDE DEF t
<1>4. Tracked(t, Safe)
  BY <1>1, <1>2, <1>3 DEF Tracked, Backed, Settled, AsFar
<1> QED BY <1>2, <1>4 DEF t

LEMMA SourceReadySpeaks ==
  ASSUME Voices, NEW k \in Conns, SourceReady(k), UNCHANGED speakerVars
  PROVE  Voices'
<1> USE DEF linkVars, dbVars
<1>0. OpenTypes /\ OpenReceiver(k) /\ OpenTracker(k) /\ Settled(acked[k].seq, acked[k].end) /\ Settled(db.seq, db.end)
  BY TickerFacts
<1> DEFINE d == rx[k].todo[1]
           a == [seq |-> d.seq, end |-> d.end]
           t == NewTracker(d.seq, d.end)
<1>1. /\ rx[k].op = "open" /\ rx' = [rx EXCEPT ![k] = Idle]
      /\ UNCHANGED <<toSrv, ph, tk, buf, disk, db, gaps>>
      /\ \/ trk' = trk /\ acked' = acked
         \/ trk' = [trk EXCEPT ![k] = t] /\ acked' = [acked EXCEPT ![k] = a]
  BY DEF SourceReady
<1>2. d \in Checkpoints /\ Settled(d.seq, d.end) /\ ph[k] = "on"
  <2>1. PICK c \in Checkpoints : rx[k].todo = <<c>> /\ Settled(c.seq, c.end)
    BY <1>0, <1>1 DEF OpenReceiver
  <2>2. d = c
    BY <2>1
  <2> QED BY <1>0, <1>1, <2>1, <2>2 DEF OpenReceiver
<1>3. d.seq \in Nat \cup {-1} /\ d.end \in Nat
  BY <1>2 DEF Checkpoints
<1>4. /\ rx' \in [Conns -> OpenReceivers] /\ \A j \in Conns : j # k => rx'[j] = rx[j]
      /\ rx'[k].op = "idle"
  BY <1>1, Rests
<1>5. Recorded' = Recorded /\ Part(k) \subseteq Safe' /\ Recorded \subseteq Safe'
  <2>1. Recorded' = Recorded
    BY <1>1 DEF Recorded
  <2> QED BY <1>1, <2>1, PartIs, PartNext
<1>6. OpenReceiver(k)'
  BY <1>4 DEF OpenReceiver
<1>7. CASE trk' = trk /\ acked' = acked
  <2>1. OpenTypes' /\ Others(k)
    BY <1>0, <1>1, <1>4, <1>7 DEF OpenTypes, OpenReceivers, Others, speakerVars
  <2> QED BY <1>0, <1>1, <1>5, <1>6, <1>7, <2>1, QuietQueues, AckedAlone, DatabaseAlone, LoopSpeaks
<1>8. CASE trk' = [trk EXCEPT ![k] = t] /\ acked' = [acked EXCEPT ![k] = a]
  <2>1. t \in AnyTracker /\ Tracked(t, Safe) /\ a \in [seq : Nat \cup {-1}, end : Nat] /\ a.seq = d.seq /\ a.end = d.end
    BY <1>2, <1>3, ResumesSettled
  <2> HIDE DEF t, a, d
  <2>2. /\ trk' \in [Conns -> AnyTracker \cup {NoTracker}] /\ trk'[k] = t
        /\ \A j \in Conns : j # k => trk'[j] = trk[j]
    BY <1>8, <2>1, NewTracking
  <2>3. /\ acked' \in [Conns -> [seq : Nat \cup {-1}, end : Nat]] /\ acked'[k] = a
        /\ \A j \in Conns : j # k => acked'[j] = acked[j]
    BY <1>0, <1>8, <2>1 DEF OpenTypes
  <2>4. OpenTypes' /\ Others(k)
    BY <1>0, <1>1, <1>4, <2>2, <2>3 DEF OpenTypes, OpenReceivers, Others, speakerVars
  <2>5. Opened(k)'
    BY <2>1, <2>2, AnyTrackerTypes DEF Opened
  <2>6. ASSUME Safe \subseteq Safe' PROVE OpenTracker(k)' /\ Settled(acked[k].seq, acked[k].end)'
    <3>1. Safe \subseteq Holds(k)'
      BY <2>6 DEF Holds
    <3>2. Tracked(t, Holds(k)')
      BY <2>1, <3>1 DEF Tracked, Backed, AllBefore
    <3>3. OpenTracker(k)'
      BY <1>1, <1>2, <2>2, <3>2 DEF OpenTracker, Tracked, speakerVars
    <3>4. Settled(acked'[k].seq, acked'[k].end)
      BY <1>2, <2>1, <2>3
    <3> QED BY <2>6, <3>3, <3>4, SettledMore DEF Settled, AsFar, speakerVars
  <2> QED BY <1>0, <1>1, <1>5, <1>6, <2>4, <2>5, <2>6, QuietQueues, DatabaseAlone, ReceiverSpeaks
<1> QED BY <1>1, <1>7, <1>8

\* _on_source_close: everything that is missing before a frame that waits is declared.
LEMMA SourceCloseSpeaks ==
  ASSUME Voices, NEW k \in Conns, SourceClose(k), UNCHANGED speakerVars
  PROVE  Voices'
<1> USE DEF linkVars, dbVars
<1> DEFINE n == Message(k).n
           r == Expire(trk[k], Pending(trk[k]))
<1>0. OpenTypes /\ OpenReceiver(k) /\ Settled(acked[k].seq, acked[k].end) /\ Settled(db.seq, db.end)
  BY TickerFacts
<1>1. /\ ph[k] = "on" /\ Receives(k, "close") /\ Consume(k)
      /\ UNCHANGED <<ph, tk, buf, acked, disk, db, gaps>>
  BY DEF SourceClose
<1>2. /\ Message(k) \in Sayings /\ Fair(Message(k)) /\ Message(k).type = "close" /\ rx[k].op = "idle" /\ Part(k) = buf[k]
      /\ toSrv' = [c \in Conns |-> toSrv'[c]] /\ \A j \in Conns : Alone(toSrv[j])'
  BY <1>1, Consumed
<1>3. final # -1 /\ n = final /\ n \in Nat
  BY <1>2, SayingTypes DEF Fair
<1>4. \/ rx' = rx /\ trk' = trk
      \/ Opened(k) /\ trk' = trk /\ Goto(k, "sync", n, <<>>)
      \/ Opened(k) /\ ~(trk[k].seq >= n) /\ trk' = [trk EXCEPT ![k] = r.t] /\ Goto(k, "close", n, r.gaps)
  BY DEF SourceClose
<1> HIDE DEF n
<1>5. Recorded' = Recorded /\ Part(k) \subseteq Safe' /\ Recorded \subseteq Safe'
  <2>1. Recorded' = Recorded
    BY <1>1 DEF Recorded
  <2> QED BY <1>1, <1>2, <2>1, PartNext
<1>6. CASE rx' = rx /\ trk' = trk
  <2>1. OpenTypes' /\ Others(k)
    BY <1>0, <1>1, <1>2, <1>6 DEF OpenTypes, Others, speakerVars
  <2>2. OpenReceiver(k)'
    BY <1>2, <1>6 DEF OpenReceiver
  <2> QED BY <1>0, <1>1, <1>2, <1>5, <1>6, <2>1, <2>2, AckedAlone, DatabaseAlone, LoopSpeaks
<1>7. CASE Opened(k) /\ trk' = trk /\ Goto(k, "sync", n, <<>>)
  <2>1. /\ rx' \in [Conns -> OpenReceivers] /\ \A j \in Conns : j # k => rx'[j] = rx[j]
        /\ rx'[k].op = "sync"
    <3>1. "sync" \in OpenOps /\ <<>> \in Seq(AnyGap \cup Checkpoints) /\ n \in Int
      BY <1>3 DEF OpenOps
    <3> QED BY <1>7, <3>1, Goes
  <2>2. OpenTypes' /\ Others(k)
    BY <1>0, <1>1, <1>2, <1>7, <2>1 DEF OpenTypes, OpenReceivers, Others, speakerVars
  <2>3. OpenReceiver(k)'
    <3>1. Opened(k)'
      BY <1>7 DEF Opened
    <3> QED BY <1>1, <2>1, <3>1 DEF OpenReceiver
  <2> QED BY <1>0, <1>1, <1>2, <1>5, <1>7, <2>2, <2>3, AckedAlone, DatabaseAlone, LoopSpeaks
<1>8. CASE Opened(k) /\ ~(trk[k].seq >= n) /\ trk' = [trk EXCEPT ![k] = r.t] /\ Goto(k, "close", n, r.gaps)
  <2>1. InStep(trk[k], Holds(k))
    BY <1>1, <1>3, <1>8, OpenFacts
  <2>2. Declares(r, Holds(k)) /\ Pending(r.t) = {}
    BY <2>1, ExpireInStep, ExpireEverything
  <2> HIDE DEF r
  <2>3. r.t \in AnyTracker /\ r.gaps \in Seq(AnyGap)
    BY <2>2 DEF Declares
  <2>4. /\ trk' \in [Conns -> AnyTracker \cup {NoTracker}] /\ trk'[k] = r.t
        /\ \A j \in Conns : j # k => trk'[j] = trk[j]
    BY <1>8, <2>3, NewTracking
  <2>5. /\ rx' \in [Conns -> OpenReceivers] /\ \A j \in Conns : j # k => rx'[j] = rx[j]
        /\ rx'[k].op = "close" /\ rx'[k].n = n /\ rx'[k].todo = r.gaps
    <3>1. "close" \in OpenOps /\ r.gaps \in Seq(AnyGap \cup Checkpoints) /\ n \in Int
      BY <1>3, <2>3 DEF OpenOps
    <3> QED BY <1>8, <3>1, Goes
  <2>6. OpenTypes' /\ Others(k)
    BY <1>0, <1>1, <1>2, <2>4, <2>5 DEF OpenTypes, OpenReceivers, Others, speakerVars
  <2>7. Covered(r.gaps) \subseteq Safe'
    BY <2>5, PartNext
  <2>8. ASSUME Safe \subseteq Safe' PROVE Tracked(trk'[k], Holds(k)')
    <3>1. Holds(k) \cup Covered(r.gaps) \subseteq Holds(k)'
      BY <1>1, <2>7, <2>8 DEF Holds
    <3> QED BY <2>2, <2>4, <3>1 DEF Declares, InStep, Tracked, Backed, AllBefore
  <2>9. OpenReceiver(k)'
    <3>1. Opened(k)' /\ final' = final
      BY <2>3, <2>4, AnyTrackerTypes DEF Opened, speakerVars
    <3> QED BY <1>1, <1>3, <2>2, <2>3, <2>4, <2>5, <3>1 DEF OpenReceiver
  <2> QED BY <1>1, <1>2, <1>5, <2>3, <2>4, <2>6, <2>8, <2>9, TrackerSpeaks
<1> QED BY <1>4, <1>6, <1>7, <1>8

\* What is still missing is declared without sound: nothing comes after it.
LEMMA MissingAtCloseSpeaks ==
  ASSUME Voices, NEW k \in Conns, MissingAtClose(k), UNCHANGED speakerVars
  PROVE  Voices'
<1> USE DEF linkVars, dbVars
<1> DEFINE n == rx[k].n
           r == ReportLost(trk[k], trk[k].seq + 1, n, trk[k].end, 0, {})
<1>0. OpenTypes /\ OpenReceiver(k) /\ Settled(acked[k].seq, acked[k].end) /\ Settled(db.seq, db.end)
  BY TickerFacts
<1>1. /\ rx[k].op = "close" /\ rx[k].todo = <<>>
      /\ UNCHANGED <<toSrv, ph, tk, buf, acked, disk, db, gaps>>
      /\ \/ trk' = trk /\ Goto(k, "sync", n, <<>>)
         \/ ~(trk[k].seq >= n) /\ trk' = [trk EXCEPT ![k] = r.t] /\ Goto(k, "close", n, r.gaps)
  BY DEF MissingAtClose
<1>2. /\ ph[k] = "on" /\ Opened(k) /\ Pending(trk[k]) = {} /\ final # -1 /\ n = final
  BY <1>0, <1>1 DEF OpenReceiver
<1>3. n \in Nat
  BY <1>0, <1>2 DEF OpenTypes
<1> HIDE DEF n
<1>4. Recorded' = Recorded /\ Part(k) \subseteq Safe' /\ Recorded \subseteq Safe'
  <2>1. Recorded' = Recorded
    BY <1>1 DEF Recorded
  <2> QED BY <1>1, <2>1, CoveredNothing, PartIs, PartNext
<1>5. CASE trk' = trk /\ Goto(k, "sync", n, <<>>)
  <2>1. /\ rx' \in [Conns -> OpenReceivers] /\ \A j \in Conns : j # k => rx'[j] = rx[j]
        /\ rx'[k].op = "sync"
    <3>1. "sync" \in OpenOps /\ <<>> \in Seq(AnyGap \cup Checkpoints) /\ n \in Int
      BY <1>3 DEF OpenOps
    <3> QED BY <1>5, <3>1, Goes
  <2>2. OpenTypes' /\ Others(k)
    BY <1>0, <1>1, <1>5, <2>1 DEF OpenTypes, OpenReceivers, Others, speakerVars
  <2>3. OpenReceiver(k)'
    <3>1. Opened(k)'
      BY <1>2, <1>5 DEF Opened
    <3> QED BY <1>1, <1>2, <2>1, <3>1 DEF OpenReceiver
  <2> QED BY <1>0, <1>1, <1>4, <1>5, <2>2, <2>3, QuietQueues, AckedAlone, DatabaseAlone, LoopSpeaks
<1>6. CASE ~(trk[k].seq >= n) /\ trk' = [trk EXCEPT ![k] = r.t] /\ Goto(k, "close", n, r.gaps)
  <2>1. InStep(trk[k], Holds(k)) /\ trk[k].seq \in Int
    BY <1>2, <1>6, OpenFacts
  <2>2. trk[k].seq < n
    BY <1>3, <1>6, <2>1
  <2>3. /\ r \in [t : AnyTracker, gaps : Seq(AnyGap)]
        /\ Pending(r.t) = {} /\ r.t.seq = n /\ r.t.end = trk[k].end
    BY <1>2, <1>3, <2>1, <2>2, MissingIsDeclared
  <2> HIDE DEF r
  <2>4. r.t \in AnyTracker /\ r.gaps \in Seq(AnyGap)
    BY <2>3
  <2>5. /\ trk' \in [Conns -> AnyTracker \cup {NoTracker}] /\ trk'[k] = r.t
        /\ \A j \in Conns : j # k => trk'[j] = trk[j]
    BY <1>6, <2>4, NewTracking
  <2>6. /\ rx' \in [Conns -> OpenReceivers] /\ \A j \in Conns : j # k => rx'[j] = rx[j]
        /\ rx'[k].op = "close" /\ rx'[k].n = n /\ rx'[k].todo = r.gaps
    <3>1. "close" \in OpenOps /\ r.gaps \in Seq(AnyGap \cup Checkpoints) /\ n \in Int
      BY <1>3, <2>4 DEF OpenOps
    <3> QED BY <1>6, <3>1, Goes
  <2>7. OpenTypes' /\ Others(k)
    BY <1>0, <1>1, <2>5, <2>6 DEF OpenTypes, OpenReceivers, Others, speakerVars
  <2>8. ASSUME Safe \subseteq Safe' PROVE Tracked(trk'[k], Holds(k)')
    <3>1. Holds(k) \subseteq Holds(k)'
      BY <1>1, <2>8 DEF Holds
    <3>2. AllBefore(trk[k].end, Holds(k)')
      BY <2>1, <3>1 DEF InStep, Backed, AllBefore
    <3>3. IsFiniteSet({}) /\ r.t.seq >= final
      BY <1>2, <1>3, <2>3, FS_EmptySet
    <3> QED BY <1>2, <2>3, <2>4, <2>5, <3>2, <3>3 DEF Tracked, Backed
  <2>9. OpenReceiver(k)'
    <3>1. Opened(k)' /\ final' = final
      BY <2>4, <2>5, AnyTrackerTypes DEF Opened, speakerVars
    <3> QED BY <1>1, <1>2, <1>3, <2>3, <2>4, <2>5, <2>6, <3>1 DEF OpenReceiver
  <2> QED BY <1>1, <1>2, <1>4, <2>4, <2>5, <2>7, <2>8, <2>9, QuietQueues, TrackerSpeaks
<1> QED BY <1>1, <1>5, <1>6

\* Before the receive loop begins and after it has ended.
LEMMA EdgeSpeaks ==
  ASSUME NEW k \in Conns, Voices, OpenTypes', UNCHANGED speakerVars, Others(k),
         rx'[k].op = "idle", tk'[k].op = "idle", tk'[k].todo = <<>>, \A j \in Conns : Alone(toSrv[j])',
         disk \subseteq disk', Recorded \subseteq Safe', Part(k) \subseteq Safe',
         ph'[k] \in {"off", "joining", "on"} => ~Opened(k)',
         Safe \subseteq Safe' => Settled(db.seq, db.end)' /\ Settled(acked[k].seq, acked[k].end)'
  PROVE  Voices'
<1>1. OpenTracker(k)' /\ OpenReceiver(k)' /\ OpenTicker(k)'
  BY DEF OpenTracker, OpenReceiver, OpenTicker
<1> QED BY <1>1, ServerSpeaks DEF OpenConn

\* Nothing is under way at a connection that is not open.
LEMMA NothingUnderWay ==
  ASSUME Voices, NEW k \in Conns, ph[k] # "on"
  PROVE  /\ rx[k].op = "idle" /\ tk[k].op = "idle" /\ tk[k].todo = <<>> /\ Part(k) = buf[k]
         /\ ph[k] \in {"off", "joining"} => ~Opened(k)
<1>1. OpenReceiver(k) /\ OpenTicker(k) /\ OpenTracker(k)
  BY TickerFacts
<1>2. rx[k].op = "idle"
  BY <1>1 DEF OpenReceiver
<1> QED BY <1>1, <1>2, PartIs DEF OpenTicker, OpenTracker

LEMMA WelcomeSpeaks ==
  ASSUME Voices, NEW k \in Conns, Welcome(k), UNCHANGED speakerVars
  PROVE  Voices'
<1> USE DEF linkVars, dbVars
<1>0. OpenTypes /\ Settled(acked[k].seq, acked[k].end) /\ Settled(db.seq, db.end)
  BY TickerFacts
<1>1. /\ ph[k] = "joining" /\ ph' = [ph EXCEPT ![k] = "on"]
      /\ UNCHANGED <<toSrv, rx, tk, trk, buf, acked, disk, db, gaps>>
  BY DEF Welcome
<1>2. OpenTypes' /\ Others(k)
  BY <1>0, <1>1 DEF OpenTypes, Others, speakerVars
<1>3. ~Opened(k)' /\ rx'[k].op = "idle" /\ tk'[k].op = "idle" /\ tk'[k].todo = <<>> /\ Part(k) = buf[k]
  BY <1>1, NothingUnderWay DEF Opened
<1>4. Recorded' = Recorded
  BY <1>1 DEF Recorded
<1> QED BY <1>0, <1>1, <1>2, <1>3, <1>4, PartNext, QuietQueues, AckedAlone, DatabaseAlone, EdgeSpeaks

\* Of a queue with one message at most nothing is cut but that message.
LEMMA RegisterSpeaks ==
  ASSUME Voices, NEW k \in Conns, Register(k), UNCHANGED speakerVars
  PROVE  Voices'
<1> USE DEF linkVars, dbVars
<1>0. OpenTypes /\ Settled(acked[k].seq, acked[k].end) /\ Settled(db.seq, db.end)
  BY TickerFacts
<1>1. /\ ph[k] = "off" /\ ph' = [ph EXCEPT ![k] = "joining"] /\ toSrv[k] # <<>>
      /\ toSrv' = [c \in Conns |->
                     IF c = k THEN Tail(toSrv[c])
                     ELSE IF c # registry THEN toSrv[c]
                     ELSE IF ph[c] = "on" /\ rx[c] = Idle THEN SubSeq(toSrv[c], 1, Min({1, Len(toSrv[c])})) ELSE <<>>]
      /\ UNCHANGED <<rx, tk, trk, buf, acked, disk, db, gaps>>
  BY DEF Register, Receives
<1>2. OpenTypes' /\ Others(k)
  BY <1>0, <1>1 DEF OpenTypes, Others, speakerVars
<1>3. ~Opened(k)' /\ rx'[k].op = "idle" /\ tk'[k].op = "idle" /\ tk'[k].todo = <<>> /\ Part(k) = buf[k]
  BY <1>1, NothingUnderWay DEF Opened
<1>4. Recorded' = Recorded
  BY <1>1 DEF Recorded
<1>5. ASSUME NEW j \in Conns PROVE Alone(toSrv[j])'
  <2>1. Alone(toSrv[j])
    BY DEF Voices, OpenConn
  <2>2. \A m \in Sayings : Fair(m)' = Fair(m)
    BY DEF Fair, speakerVars
  <2>3. toSrv'[j] \in {<<>>, toSrv[j]}
    <3>1. CASE toSrv[j] = <<>>
      <4>1. SubSeq(toSrv[j], 1, Min({1, Len(toSrv[j])})) = <<>>
        <5>1. Len(toSrv[j]) = 0
          BY <3>1
        <5>2. Min({1, 0}) = 0
          BY MinOfTwo
        <5> QED BY <3>1, <5>1, <5>2
      <4> QED BY <1>1, <3>1, <4>1
    <3>2. CASE toSrv[j] # <<>>
      <4>1. PICK m \in Sayings : toSrv[j] = <<m>>
        BY <2>1, <3>2 DEF Alone
      <4>2. Tail(toSrv[j]) = <<>> /\ SubSeq(toSrv[j], 1, Min({1, Len(toSrv[j])})) = toSrv[j]
        <5>1. Len(toSrv[j]) = 1
          BY <4>1
        <5>2. Min({1, 1}) = 1
          BY MinOfTwo
        <5>3. Min({1, Len(toSrv[j])}) = 1
          BY <5>1, <5>2
        <5>4. Tail(<<m>>) = <<>>
          OBVIOUS
        <5>5. SubSeq(<<m>>, 1, 1) = <<m>>
          <6>1. <<m>> \in Seq({m}) /\ Len(<<m>>) = 1 /\ <<m>>[1] = m
            OBVIOUS
          <6>2. /\ SubSeq(<<m>>, 1, 1) \in Seq({m}) /\ Len(SubSeq(<<m>>, 1, 1)) = 1
                /\ SubSeq(<<m>>, 1, 1)[1] = <<m>>[1]
            BY <6>1, FirstOnly
          <6> DEFINE q == SubSeq(<<m>>, 1, 1)
          <6>3. q \in Seq({m}) /\ Len(q) = 1 /\ q[1] = m
            BY <6>1, <6>2
          <6> HIDE DEF q
          <6>4. q = <<m>>
            BY <6>3
          <6> QED BY <6>4 DEF q
        <5> QED BY <4>1, <5>3, <5>4, <5>5
      <4> QED BY <1>1, <4>2
    <3> QED BY <3>1, <3>2
  <2> QED BY <2>1, <2>2, <2>3 DEF Alone
<1> QED BY <1>0, <1>1, <1>2, <1>3, <1>4, <1>5, PartNext, AckedAlone, DatabaseAlone, EdgeSpeaks

LEMMA DisconnectSpeaks ==
  ASSUME Voices, NEW k \in Conns, Disconnect(k), UNCHANGED speakerVars
  PROVE  Voices'
<1> USE DEF linkVars, dbVars
<1>0. /\ OpenTypes /\ Settled(acked[k].seq, acked[k].end) /\ Settled(db.seq, db.end)
      /\ tk[k].todo \in Seq(AnyGap)
  BY TickerFacts
<1>1. /\ ph' = [ph EXCEPT ![k] = "closing"] /\ toSrv' = [toSrv EXCEPT ![k] = <<>>]
      /\ tk' = [tk EXCEPT ![k] = Rest] /\ rx[k] = Idle
      /\ UNCHANGED <<rx, trk, buf, acked, disk, db>>
      /\ \/ gaps' = gaps
         \/ tk[k].todo # <<>> /\ gaps' = gaps \cup {Row(Head(tk[k].todo))}
  BY DEF Disconnect
<1>2. gaps' \in SUBSET (Int \X Int) /\ Recorded \subseteq Recorded'
  <2>1. CASE gaps' = gaps
    BY <1>0, <2>1 DEF OpenTypes, Recorded
  <2>2. CASE tk[k].todo # <<>> /\ gaps' = gaps \cup {Row(Head(tk[k].todo))}
    <3>1. Head(tk[k].todo) \in AnyGap
      BY <1>0, <2>2
    <3>2. gaps \in SUBSET (Int \X Int)
      BY <1>0 DEF OpenTypes
    <3> QED BY <2>2, <3>1, <3>2, RowDeclares
  <2> QED BY <1>1, <2>1, <2>2
<1>3. /\ tk' \in [Conns -> [op : {"idle", "record", "sync", "synced", "checkpoint"}, n : Nat \cup {-1}, end : Nat, todo : Seq(AnyGap)]]
      /\ tk'[k].op = "idle" /\ tk'[k].todo = <<>> /\ \A j \in Conns : j # k => tk'[j] = tk[j]
  <2>1. Rest \in [op : {"idle", "record", "sync", "synced", "checkpoint"}, n : Nat \cup {-1}, end : Nat, todo : Seq(AnyGap)]
    BY DEF Rest
  <2> QED BY <1>0, <1>1, <2>1 DEF OpenTypes, Rest
<1>4. OpenTypes' /\ Others(k) /\ ph'[k] = "closing" /\ toSrv'[k] = <<>> /\ \A j \in Conns : j # k => toSrv'[j] = toSrv[j]
  BY <1>0, <1>1, <1>2, <1>3 DEF OpenTypes, Others, speakerVars
<1>5. rx'[k].op = "idle" /\ Part(k) = buf[k]
  BY <1>1, PartIs DEF Idle
<1>6. ASSUME NEW j \in Conns PROVE Alone(toSrv[j])'
  <2>1. CASE j = k
    BY <1>4, <2>1 DEF Alone
  <2>2. CASE j # k
    BY <1>4, <2>2, QueuesStay DEF Voices
  <2> QED BY <2>1, <2>2
<1> QED BY <1>0, <1>1, <1>2, <1>3, <1>4, <1>5, <1>6, PartNext, AckedAlone, DatabaseAlone, EdgeSpeaks

LEMMA CloseWriterSpeaks ==
  ASSUME Voices, NEW k \in Conns, CloseWriter(k), UNCHANGED speakerVars
  PROVE  Voices'
<1> USE DEF linkVars, dbVars
<1>0. OpenTypes /\ Settled(acked[k].seq, acked[k].end) /\ Settled(db.seq, db.end)
  BY TickerFacts
<1>1. /\ ph[k] = "closing" /\ Fsync(k) /\ ph' = [ph EXCEPT ![k] = "leaving"]
      /\ UNCHANGED <<toSrv, rx, tk, trk, acked, db, gaps>>
  BY DEF CloseWriter
<1>2. /\ disk' = disk \cup buf[k] /\ buf'[k] = {} /\ disk' \in SUBSET Int /\ buf' \in [Conns -> SUBSET Int]
      /\ \A j \in Conns : j # k => buf'[j] = buf[j]
  BY <1>0, <1>1, Flushed
<1>3. OpenTypes' /\ Others(k) /\ ph'[k] = "leaving"
  BY <1>0, <1>1, <1>2 DEF OpenTypes, Others, speakerVars
<1>4. rx'[k].op = "idle" /\ tk'[k].op = "idle" /\ tk'[k].todo = <<>> /\ Part(k) = buf[k]
  BY <1>1, NothingUnderWay
<1>5. Recorded' = Recorded
  BY <1>1 DEF Recorded
<1> QED BY <1>0, <1>1, <1>2, <1>3, <1>4, <1>5, PartNext, QuietQueues, AckedAlone, DatabaseAlone, EdgeSpeaks

LEMMA LeaveSpeaks ==
  ASSUME Voices, NEW k \in Conns, Leave(k), UNCHANGED speakerVars
  PROVE  Voices'
<1> USE DEF linkVars, dbVars
<1>0. OpenTypes /\ Settled(acked[k].seq, acked[k].end) /\ Settled(db.seq, db.end)
  BY TickerFacts
<1>1. /\ ph[k] = "leaving" /\ ph' = [ph EXCEPT ![k] = "done"]
      /\ trk' = [trk EXCEPT ![k] = NoTracker] /\ acked' = [acked EXCEPT ![k] = [seq |-> -1, end |-> 0]]
      /\ UNCHANGED <<toSrv, rx, tk, buf, disk, gaps>>
      /\ Persist(acked[k].seq, acked[k].end) \/ db' = db
  BY DEF Leave
<1>2. acked[k].seq \in Nat \cup {-1} /\ acked[k].end \in Nat /\ db \in Checkpoints
  <2>1. acked[k] \in [seq : Nat \cup {-1}, end : Nat]
    BY <1>0 DEF OpenTypes
  <2> QED BY <1>0, <2>1 DEF OpenTypes
<1>3. db' \in Checkpoints /\ (Safe \subseteq Safe' => Settled(db.seq, db.end)')
  BY <1>0, <1>1, <1>2, PersistSpeaks, DatabaseAlone
<1>4. /\ acked' \in [Conns -> [seq : Nat \cup {-1}, end : Nat]] /\ acked'[k].seq = -1 /\ acked'[k].end = 0
      /\ \A j \in Conns : j # k => acked'[j] = acked[j]
  <2> DEFINE A == [seq : Nat \cup {-1}, end : Nat]
             a == [seq |-> -1, end |-> 0]
  <2>1. a \in A /\ a.seq = -1 /\ a.end = 0 /\ acked \in [Conns -> A] /\ acked' = [acked EXCEPT ![k] = a]
    BY <1>0, <1>1 DEF OpenTypes
  <2> HIDE DEF A, a
  <2>2. acked' \in [Conns -> A] /\ acked'[k] = a /\ \A j \in Conns : j # k => acked'[j] = acked[j]
    BY <2>1
  <2> QED BY <2>1, <2>2 DEF A
<1>5. OpenTypes' /\ Others(k) /\ ph'[k] = "done"
  BY <1>0, <1>1, <1>3, <1>4 DEF OpenTypes, Others, speakerVars
<1>6. rx'[k].op = "idle" /\ tk'[k].op = "idle" /\ tk'[k].todo = <<>> /\ Part(k) = buf[k]
  BY <1>1, NothingUnderWay
<1>7. Recorded' = Recorded
  BY <1>1 DEF Recorded
<1>8. Settled(acked[k].seq, acked[k].end)'
  BY <1>4 DEF Settled, AsFar, AllBefore
<1> QED BY <1>0, <1>1, <1>3, <1>5, <1>6, <1>7, <1>8, PartNext, QuietQueues, EdgeSpeaks

\* A step of the speaker or of the network changes nothing that is safe.
LEMMA SpeechKeeps ==
  ASSUME Voices, UNCHANGED serverVars, OpenTypes', top <= top', final' = final \/ final = -1,
         final' # -1 => top' <= final', \A j \in Conns : Alone(toSrv[j])'
  PROVE  Voices'
<1> USE DEF serverVars, connVars, dbVars
<1>1. Safe \subseteq Safe'
  <2>1. \A j \in Conns : Part(j)' = Part(j)
    BY DEF Part, OpenFlight, Committed
  <2> QED BY <2>1 DEF Safe, Recorded
<1>2. Settled(db.seq, db.end)'
  BY <1>1, SettledMore DEF Voices, Settled, AsFar
<1>3. ASSUME NEW j \in Conns PROVE OpenConn(j)'
  <2>1. OpenConn(j) /\ OpenTypes
    BY DEF Voices
  <2> QED BY <1>1, <2>1, ConnAside
<1> QED BY <1>2, <1>3 DEF Voices

LEMMA SilenceKeeps ==
  ASSUME Voices, UNCHANGED <<serverVars, speakerVars>>, toSrv' = [c \in Conns |-> toSrv'[c]],
         \A j \in Conns : Alone(toSrv[j])'
  PROVE  Voices'
<1> USE DEF speakerVars
<1>1. OpenTypes /\ (final # -1 => top <= final)
  BY DEF Voices
<1>2. OpenTypes'
  BY <1>1 DEF OpenTypes, serverVars, connVars, dbVars
<1>3. top <= top'
  BY <1>1 DEF OpenTypes
<1> QED BY <1>1, <1>2, <1>3, SpeechKeeps

LEMMA DialKeeps ==
  ASSUME Voices, NEW k \in Conns, Dial(k)
  PROVE  Voices'
<1> DEFINE hello == [type |-> "hello"]
<1>1. toSrv = [c \in Conns |-> toSrv[c]] /\ toSrv' = [toSrv EXCEPT ![k] = <<hello>>] /\ UNCHANGED <<serverVars, speakerVars>>
  BY DEF Dial, Voices, OpenTypes
<1>2. hello \in Sayings /\ Fair(hello)'
  BY DEF Sayings, Fair
<1> HIDE DEF hello
<1>3. toSrv' = [c \in Conns |-> toSrv'[c]] /\ toSrv'[k] = <<hello>> /\ \A j \in Conns : j # k => toSrv'[j] = toSrv[j]
  BY <1>1
<1>4. ASSUME NEW j \in Conns PROVE Alone(toSrv[j])'
  <2>1. CASE j = k
    BY <1>2, <1>3, <2>1 DEF Alone
  <2>2. CASE j # k
    BY <1>1, <1>3, <2>2, QueuesStay DEF Voices
  <2> QED BY <2>1, <2>2
<1> QED BY <1>1, <1>3, <1>4, SilenceKeeps

LEMMA AsideKeeps ==
  ASSUME Voices, NEW k \in Conns, Hear(k) \/ (Drop(k) /\ UNCHANGED speakerVars)
  PROVE  Voices'
<1>1. toSrv' = toSrv /\ UNCHANGED <<serverVars, speakerVars>>
  BY DEF Hear, Drop
<1>2. toSrv' = [c \in Conns |-> toSrv'[c]]
  BY <1>1 DEF Voices, OpenTypes
<1> QED BY <1>1, <1>2, QuietQueues, SilenceKeeps

\* What the client says.
LEMMA SaidTypes ==
  ASSUME NEW m \in Messages
  PROVE  /\ m \in Sayings /\ Highest(m) \in Nat \cup {-1}
         /\ m.type = "gap" => m.from <= m.to /\ m.start = m.from /\ m.lost = m.to - m.from + 1 /\ Highest(m) = m.to
         /\ m.type \in {"frame", "close"} => m.n \in Nat /\ Highest(m) = m.n
<1>0. Seqs \subseteq Nat
  BY IngestOpenAssumption
<1>1. CASE m \in [type : {"open"}]
  BY <1>1 DEF Sayings, Highest
<1>2. CASE m \in [type : {"frame", "close"}, n : Seqs]
  <2>1. m \in [type : {"frame", "close"}, n : Nat]
    BY <1>0, <1>2
  <2> QED BY <2>1 DEF Sayings, Highest
<1>3. ASSUME NEW a \in Seqs, NEW b \in Seqs, a <= b, m = [type |-> "gap", from |-> a, to |-> b, start |-> a, lost |-> b - a + 1]
      PROVE  /\ m \in [type : {"gap"}, from : Nat, to : Nat, start : Nat, lost : Nat]
             /\ m.type = "gap" /\ m.from <= m.to /\ m.start = m.from /\ m.lost = m.to - m.from + 1 /\ m.to \in Nat
  <2>1. a \in Nat /\ b \in Nat /\ b - a + 1 \in Nat
    BY <1>0, <1>3
  <2> QED BY <1>3, <2>1
<1>4. CASE \E a \in Seqs, b \in Seqs : a <= b /\ m = [type |-> "gap", from |-> a, to |-> b, start |-> a, lost |-> b - a + 1]
  <2>1. PICK a \in Seqs, b \in Seqs : a <= b /\ m = [type |-> "gap", from |-> a, to |-> b, start |-> a, lost |-> b - a + 1]
    BY <1>4
  <2>2. /\ m \in [type : {"gap"}, from : Nat, to : Nat, start : Nat, lost : Nat]
        /\ m.type = "gap" /\ m.from <= m.to /\ m.start = m.from /\ m.lost = m.to - m.from + 1 /\ m.to \in Nat
    BY <1>3, <2>1
  <2> QED BY <2>2 DEF Sayings, Highest
<1>5. \/ m \in [type : {"open"}] \/ m \in [type : {"frame", "close"}, n : Seqs]
      \/ \E a \in Seqs, b \in Seqs : a <= b /\ m = [type |-> "gap", from |-> a, to |-> b, start |-> a, lost |-> b - a + 1]
  BY DEF Messages
<1> QED BY <1>1, <1>2, <1>4, <1>5

LEMMA SayKeeps ==
  ASSUME Voices, NEW k \in Conns, NEW m \in Messages, Say(k, m)
  PROVE  Voices'
<1> DEFINE h == Highest(m)
<1>0. OpenTypes /\ (final # -1 => top <= final) /\ top \in Nat \cup {-1} /\ final \in Nat \cup {-1}
  BY DEF Voices, OpenTypes
<1>1. /\ final # -1 => h <= final
      /\ m.type = "close" => m.n >= top /\ final \in {-1, m.n}
      /\ top' = Max({top, h}) /\ final' = (IF m.type = "close" THEN m.n ELSE final)
      /\ toSrv[k] = <<>> /\ up[k] /\ toSrv' = Queued(k, toSrv, <<m>>) /\ UNCHANGED serverVars
  BY DEF Say
<1>2. /\ m \in Sayings /\ h \in Nat \cup {-1}
      /\ m.type = "gap" => m.from <= m.to /\ m.start = m.from /\ m.lost = m.to - m.from + 1 /\ h = m.to
      /\ m.type \in {"frame", "close"} => m.n \in Nat /\ h = m.n
  BY SaidTypes
<1> HIDE DEF h
<1>3. top' = (IF top >= h THEN top ELSE h) /\ top' \in Nat \cup {-1} /\ top <= top' /\ h <= top'
  <2>1. top' = (IF top >= h THEN top ELSE h)
    BY <1>0, <1>1, <1>2, MaxOfTwo
  <2> QED BY <1>0, <1>2, <2>1
<1>4. final' \in Nat \cup {-1} /\ (final' = final \/ final = -1) /\ (final' # -1 => top' <= final')
  <2>1. CASE m.type = "close"
    BY <1>0, <1>1, <1>2, <1>3, <2>1
  <2>2. CASE m.type # "close"
    BY <1>0, <1>1, <1>2, <1>3, <2>2
  <2> QED BY <2>1, <2>2
<1>5. Fair(m)'
  BY <1>1, <1>2, <1>3 DEF Fair
<1>6. toSrv' = [c \in Conns |-> toSrv'[c]] /\ toSrv'[k] = <<m>> /\ \A j \in Conns : j # k => toSrv'[j] = toSrv[j]
  <2>1. toSrv = [c \in Conns |-> toSrv[c]]
    BY <1>0 DEF OpenTypes
  <2>2. toSrv[k] \o <<m>> = <<m>>
    BY <1>1
  <2>3. toSrv' = [toSrv EXCEPT ![k] = toSrv[k] \o <<m>>]
    BY <1>1 DEF Queued
  <2> QED BY <2>1, <2>2, <2>3
<1>7. ASSUME NEW j \in Conns PROVE Alone(toSrv[j])'
  <2>1. CASE j = k
    BY <1>2, <1>5, <1>6, <2>1 DEF Alone
  <2>2. CASE j # k /\ toSrv[j] = <<>>
    BY <1>6, <2>2 DEF Alone
  <2>3. CASE j # k /\ toSrv[j] # <<>>
    <3>1. PICK w \in Sayings : Fair(w) /\ toSrv[j] = <<w>>
      BY <2>3 DEF Voices, OpenConn, Alone
    <3>2. Fair(w)'
      <4>1. w.type = "frame" => w.n \in Nat
        BY DEF Sayings
      <4>2. w.type = "gap" => w.to \in Nat
        BY DEF Sayings
      <4>3. w.type = "frame" => w.n <= top'
        BY <1>0, <1>3, <3>1, <4>1 DEF Fair
      <4>4. w.type = "gap" => w.from <= w.to /\ w.to <= top' /\ w.start = w.from /\ w.lost = w.to - w.from + 1
        BY <1>0, <1>3, <3>1, <4>2 DEF Fair
      <4>5. w.type = "close" => final' # -1 /\ w.n = final'
        BY <1>4, <3>1 DEF Fair
      <4> QED BY <4>3, <4>4, <4>5 DEF Fair
    <3> QED BY <1>6, <2>3, <3>1, <3>2 DEF Alone
  <2> QED BY <2>1, <2>2, <2>3
<1>8. OpenTypes'
  BY <1>0, <1>1, <1>3, <1>4, <1>6 DEF OpenTypes, serverVars, connVars, dbVars
<1> QED BY <1>1, <1>3, <1>4, <1>7, <1>8, SpeechKeeps

\* A step of the server, but for the one that closes the epoch.
LEMMA ServerKeepsSpeech ==
  ASSUME Voices, NEW k \in Conns, ServerStep(k), UNCHANGED speakerVars, ~CloseEpoch(k)
  PROVE  Voices'
<1>1. CASE Receiving(k)
  BY <1>1, RegisterSpeaks, OpenSourceSpeaks, FrameSpeaks, GapReportSpeaks, SourceCloseSpeaks DEF Receiving
<1>2. CASE Handling(k)
  BY <1>2, SourceReadySpeaks, FrameWrittenSpeaks, LateFrameWrittenSpeaks, NarrowSpeaks, RecordGapSpeaks,
     MissingAtCloseSpeaks, CloseSyncSpeaks, CloseAckSpeaks, CloseCheckpointSpeaks, CloseAnswerSpeaks DEF Handling
<1>3. CASE Welcome(k)
  BY <1>3, WelcomeSpeaks
<1>4. CASE Ticking(k)
  BY <1>4, TickFlushSpeaks, TickRecordSpeaks, TickSyncSpeaks, TickAckSpeaks, TickCheckpointSpeaks DEF Ticking, TickFlush
<1>5. CASE Ending(k)
  BY <1>5, DisconnectSpeaks, CloseWriterSpeaks, LeaveSpeaks DEF Ending
<1> QED BY <1>1, <1>2, <1>3, <1>4, <1>5 DEF ServerStep

\* An epoch that is closed stays closed.
LEMMA RowKept ==
  ASSUME RowShape, NEW k \in Conns, StepOpen(k)
  PROVE  RowShape' /\ (db.closed => db'.closed) /\ (CloseEpoch(k) => db'.closed)
<1> USE DEF linkVars, dbVars, connVars, serverVars
<1>1. \/ db' = db
      \/ \E seq, end : db' = [db EXCEPT !.seq = seq, !.end = end]
      \/ db' = [db EXCEPT !.closed = TRUE]
  <2>1. CASE Dial(k) \/ (\E m \in Messages : Say(k, m)) \/ Hear(k) \/ Drop(k)
    BY <2>1 DEF Dial, Say, Hear, Drop
  <2>2. CASE Receiving(k)
    <3>1. Register(k) => db' = db
      BY DEF Register
    <3>2. OpenSource(k) => db' = db
      BY DEF OpenSource
    <3>3. Frame(k) => db' = db
      BY DEF Frame
    <3>4. GapReport(k) => db' = db
      BY DEF GapReport
    <3>5. SourceClose(k) => db' = db
      BY DEF SourceClose
    <3> QED BY <2>2, <3>1, <3>2, <3>3, <3>4, <3>5 DEF Receiving
  <2>3. CASE Handling(k)
    <3>1. SourceReady(k) => db' = db
      BY DEF SourceReady
    <3>2. FrameWritten(k) => db' = db
      BY DEF FrameWritten
    <3>3. LateFrameWritten(k) => db' = db
      BY DEF LateFrameWritten
    <3>4. NarrowGap(k) => db' = db
      BY DEF NarrowGap
    <3>5. RecordGap(k) => db' = db
      BY DEF RecordGap
    <3>6. MissingAtClose(k) => db' = db
      BY DEF MissingAtClose
    <3>7. CloseSync(k) => db' = db
      BY DEF CloseSync
    <3>8. CloseAck(k) => db' = db
      BY DEF CloseAck
    <3>9. CloseAnswer(k) => db' = db
      BY DEF CloseAnswer
    <3>10. CloseCheckpoint(k) => db' = db \/ \E seq, end : db' = [db EXCEPT !.seq = seq, !.end = end]
      BY DEF CloseCheckpoint, Persist
    <3>11. ClosePersist(k) => db' = db \/ \E seq, end : db' = [db EXCEPT !.seq = seq, !.end = end]
      BY DEF ClosePersist, Persist
    <3>12. CloseEpoch(k) => db' = [db EXCEPT !.closed = TRUE]
      BY DEF CloseEpoch
    <3> QED BY <2>3, <3>1, <3>2, <3>3, <3>4, <3>5, <3>6, <3>7, <3>8, <3>9, <3>10, <3>11, <3>12 DEF Handling
  <2>4. CASE Welcome(k)
    BY <2>4 DEF Welcome
  <2>5. CASE Ticking(k)
    <3>1. TickRecord(k) => db' = db
      BY DEF TickRecord
    <3>2. TickSync(k) => db' = db
      BY DEF TickSync
    <3>3. TickAck(k) => db' = db
      BY DEF TickAck
    <3>4. TickFlush(k) => db' = db
      BY DEF TickFlush, Flush
    <3>5. TickCheckpoint(k) => db' = db \/ \E seq, end : db' = [db EXCEPT !.seq = seq, !.end = end]
      BY DEF TickCheckpoint, Persist
    <3> QED BY <2>5, <3>1, <3>2, <3>3, <3>4, <3>5 DEF Ticking
  <2>6. CASE Ending(k)
    <3>1. Disconnect(k) => db' = db
      BY DEF Disconnect
    <3>2. CloseWriter(k) => db' = db
      BY DEF CloseWriter
    <3>3. Leave(k) => db' = db \/ \E seq, end : db' = [db EXCEPT !.seq = seq, !.end = end]
      BY ZenonT(30) DEF Leave, Persist
    <3> QED BY <2>6, <3>1, <3>2, <3>3 DEF Ending
  <2> QED BY <2>1, <2>2, <2>3, <2>4, <2>5, <2>6 DEF StepOpen, ServerStep
<1>2. db = [seq |-> db.seq, end |-> db.end, closed |-> db.closed] /\ db.closed \in BOOLEAN
  BY DEF RowShape
<1>3. ASSUME db' = db PROVE RowShape' /\ db'.closed = db.closed
  <2>1. db' = [seq |-> db'.seq, end |-> db'.end, closed |-> db'.closed] /\ db'.closed = db.closed
    BY <1>2, <1>3
  <2> QED BY <1>2, <2>1 DEF RowShape
<1>4. ASSUME NEW seq, NEW end, db' = [db EXCEPT !.seq = seq, !.end = end] PROVE RowShape' /\ db'.closed = db.closed
  <2>1. db' = [seq |-> seq, end |-> end, closed |-> db.closed]
    BY <1>2, <1>4
  <2> QED BY <1>2, <2>1 DEF RowShape
<1>5. ASSUME db' = [db EXCEPT !.closed = TRUE] PROVE RowShape' /\ db'.closed = TRUE
  <2>1. db' = [seq |-> db.seq, end |-> db.end, closed |-> TRUE]
    BY <1>2, <1>5
  <2> QED BY <2>1 DEF RowShape
<1>6. CloseEpoch(k) => db' = [db EXCEPT !.closed = TRUE]
  BY DEF CloseEpoch
<1>7. RowShape' /\ (db.closed => db'.closed)
  BY <1>1, <1>3, <1>4, <1>5
<1>8. CloseEpoch(k) => db'.closed
  BY <1>5, <1>6
<1> QED BY <1>7, <1>8

LEMMA OpenInit == InitOpen => OpenInv
<1> SUFFICES ASSUME InitOpen PROVE OpenInv
  OBVIOUS
<1> USE DEF InitOpen, InitLink, InitServer
<1>1. OpenTypes
  <2>1. Idle \in [op : OpenOps, n : Int, todo : Seq(AnyGap \cup Checkpoints)]
    BY DEF Idle, OpenOps
  <2>2. Rest \in [op : {"idle", "record", "sync", "synced", "checkpoint"}, n : Nat \cup {-1}, end : Nat, todo : Seq(AnyGap)]
    BY DEF Rest
  <2>3. db \in Checkpoints /\ [seq |-> -1, end |-> 0] \in [seq : Nat \cup {-1}, end : Nat]
    BY DEF Checkpoints
  <2> QED BY <2>1, <2>2, <2>3 DEF OpenTypes
<1>2. Settled(-1, 0)
  BY DEF Settled, AsFar, AllBefore
<1>3. ASSUME NEW k \in Conns PROVE OpenConn(k)
  <2>1. /\ ph[k] = "off" /\ ~Opened(k) /\ rx[k].op = "idle" /\ tk[k].op = "idle" /\ tk[k].todo = <<>>
        /\ toSrv[k] = <<>> /\ acked[k].seq = -1 /\ acked[k].end = 0
    BY DEF Opened, Idle, Rest
  <2> QED BY <1>2, <2>1 DEF OpenConn, Alone, OpenTracker, OpenReceiver, OpenTicker
<1>4. RowShape /\ db.seq = -1 /\ db.end = 0
  BY DEF RowShape
<1> QED BY <1>1, <1>2, <1>3, <1>4 DEF OpenInv, Voices

LEMMA OpenStep == OpenInv /\ [NextOpen]_openVars => OpenInv'
<1> SUFFICES ASSUME OpenInv, [NextOpen]_openVars PROVE OpenInv'
  OBVIOUS
<1>1. CASE UNCHANGED openVars
  <2>1. RowShape' /\ db' = db
    BY <1>1 DEF OpenInv, RowShape, openVars, serverVars, dbVars
  <2>2. ASSUME Voices PROVE Voices'
    <3>1. toSrv' = toSrv /\ UNCHANGED <<serverVars, speakerVars>>
      BY <1>1 DEF openVars, linkVars
    <3>2. toSrv' = [c \in Conns |-> toSrv'[c]]
      BY <2>2, <3>1 DEF Voices, OpenTypes
    <3> QED BY <2>2, <3>1, <3>2, QuietQueues, SilenceKeeps
  <2> QED BY <2>1, <2>2 DEF OpenInv
<1>2. ASSUME NEW k \in Conns, StepOpen(k) PROVE OpenInv'
  <2>1. RowShape' /\ (db.closed => db'.closed) /\ (CloseEpoch(k) => db'.closed)
    BY <1>2, RowKept DEF OpenInv
  <2>2. ASSUME ~db'.closed PROVE Voices'
    <3>1. Voices /\ ~CloseEpoch(k)
      BY <2>1, <2>2 DEF OpenInv
    <3> QED BY <1>2, <3>1, DialKeeps, SayKeeps, AsideKeeps, ServerKeepsSpeech DEF StepOpen
  <2> QED BY <2>1, <2>2 DEF OpenInv
<1> QED BY <1>1, <1>2 DEF NextOpen

\* Until the epoch is closed no sound before the checkpoint is lost silently, whatever
\* the client sends and in whatever order.
THEOREM NoSilentLossWithAnyClient == SpecOpen => []NoSilentLossWhileOpen
<1>1. OpenInv => NoSilentLossWhileOpen
  <2> SUFFICES ASSUME Voices, NEW p \in 0..(db.end - 1)
               PROVE  \/ p \in disk
                      \/ \E g \in gaps : g[1] <= p /\ p < g[2]
                      \/ \E k \in Conns : p \in buf[k] \cup InFlight(k)
    BY DEF OpenInv, NoSilentLossWhileOpen, NoSilentLoss
  <2>1. p \in Safe
    BY DEF Voices, Settled, AllBefore
  <2>2. CASE p \in disk
    BY <2>2
  <2>3. ASSUME NEW g \in gaps, p \in (g[1])..(g[2] - 1) PROVE g[1] <= p /\ p < g[2]
    <3>1. g \in Int \X Int
      BY DEF Voices, OpenTypes
    <3>2. g[1] \in Int /\ g[2] \in Int /\ p \in Int
      BY <3>1
    <3> QED BY <2>3, <3>2
  <2>4. ASSUME NEW k \in Conns, p \in Part(k) PROVE p \in buf[k] \cup InFlight(k)
    BY <2>4 DEF Part, OpenFlight, Committed, InFlight
  <2> QED BY <2>1, <2>2, <2>3, <2>4 DEF Safe, Recorded
<1> QED BY <1>1, OpenInit, OpenStep, PTL DEF SpecOpen

-----------------------------------------------------------------------------
(* The abstract recording, by itself. *)

\* The state of a recording that no protocol implements yet.
VARIABLES captured, held, stored, lost, done

Abstract == INSTANCE DurableRecording

\* The frames known to the abstract recording are those captured so far.
RInv ==
  /\ captured \in Nat
  /\ held \subseteq 0..(captured - 1)
  /\ Abstract!Accounted

\* Nothing is captured yet, and nothing missing.
LEMMA RInit == Abstract!Init => RInv
BY DEF Abstract!Init, RInv, Abstract!Accounted

\* Each step keeps every captured frame held, stored or lost, and nothing held
\* once the recording is done.
LEMMA RStep == RInv /\ [Abstract!Next]_(Abstract!rvars) => RInv'
<1> SUFFICES ASSUME RInv, [Abstract!Next]_(Abstract!rvars) PROVE RInv'
  OBVIOUS
<1> USE DEF RInv, Abstract!Accounted
<1>1. CASE Abstract!Capture
  BY <1>1 DEF Abstract!Capture
<1>2. CASE Abstract!CaptureFull
  BY <1>2 DEF Abstract!CaptureFull
<1>3. CASE Abstract!Store
  BY <1>3 DEF Abstract!Store
<1>4. CASE Abstract!Release
  <2>1. PICK n \in 0..captured :
          /\ \A p \in held : p < n => p \in stored
          /\ held' = {p \in held : p >= n}
    BY <1>4 DEF Abstract!Release
  <2>2. held' \subseteq held
    BY <2>1
  <2>3. UNCHANGED <<captured, stored, lost, done>>
    BY <1>4 DEF Abstract!Release
  <2>4. ASSUME NEW p \in held, p \notin stored PROVE p \in held'
    <3>1. n \in Int /\ p \in Int
      OBVIOUS
    <3>2. ~(p < n)
      BY <2>1, <2>4
    <3> QED
      BY <2>1, <3>1, <3>2
  <2>5. Abstract!Accounted'
    BY <2>2, <2>3, <2>4
  <2> QED
    BY <2>2, <2>3, <2>5
<1>5. CASE Abstract!Finish
  BY <1>5 DEF Abstract!Finish
<1>6. CASE UNCHANGED Abstract!rvars
  BY <1>6 DEF Abstract!rvars
<1> QED
  BY <1>1, <1>2, <1>3, <1>4, <1>5, <1>6 DEF Abstract!Next

\* No frame vanishes: it is held, stored or known to be lost, at any moment of
\* any behaviour of the abstract recording, and none is held once it is done.
THEOREM NothingVanishes == Abstract!Spec => []Abstract!Accounted
<1>1. RInv => Abstract!Accounted
  BY DEF RInv
<1> QED
  BY RInit, RStep, <1>1, PTL DEF Abstract!Spec

\* The same of the protocol: a captured frame is in the client's buffer, on the disk or
\* was dropped by an overflow, and a recording that the client takes for closed is
\* stored but for what was dropped.
THEOREM EverythingIsAccounted == Spec => []Recording!Accounted
<1>1. Inv => Recording!Accounted
  <2> SUFFICES ASSUME Inv PROVE Recording!Accounted
    OBVIOUS
  <2>1. next \in Nat /\ lo \in 0..next /\ (closeAcked => lo = next)
    BY UploaderAssumption DEF Inv, Types, Client, Finished
  <2>2. \A p \in 0..(lo - 1) : p \in dropped \/ p \in disk
    BY DEF Inv, ReleasedIsSafe
  <2>3. \A p \in 0..(next - 1) : p \in 0..(lo - 1) \/ p \in lo..(next - 1)
    BY <2>1
  <2>4. lo = next => lo..(next - 1) = {}
    BY <2>1
  <2> QED BY <2>1, <2>2, <2>3, <2>4 DEF Recording!Accounted
<1> QED BY <1>1, InvariantHolds, PTL
=============================================================================
