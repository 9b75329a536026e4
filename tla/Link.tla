-------------------------------- MODULE Link --------------------------------
(***************************************************************************)
(* The WebSockets between the audio client and the API, one per connection *)
(* attempt. Both directions are ordered streams. When a socket breaks, the *)
(* messages in flight may still be handled or not: each side learns of the *)
(* break at a moment of its own (Disconnect, OnSocketClose).               *)
(***************************************************************************)
EXTENDS Integers, Sequences

CONSTANT MaxConns   \* bound: connections opened in a behaviour

ASSUME MaxConnsAssumption == MaxConns \in Nat \ {0}

Conns == 1..MaxConns

VARIABLES
  up,     \* the socket is open
  toSrv,  \* messages on their way to the server
  toCli   \* messages on their way to the client

linkVars == <<up, toSrv, toCli>>

InitLink ==
  /\ up    = [k \in Conns |-> FALSE]
  /\ toSrv = [k \in Conns |-> <<>>]
  /\ toCli = [k \in Conns |-> <<>>]

\* A send on a closed socket is dropped (send() of ws.py swallows _SEND_ERRORS;
\* WebSocket.send after the close event is a no-op).
Queued(k, queue, msgs) ==
  IF msgs # <<>> /\ up[k] THEN [queue EXCEPT ![k] = @ \o msgs] ELSE queue
=============================================================================
