-------------------------- MODULE MCWebSocketChannel --------------------------
(* WebSocketChannel on two connections, one of which carries data frames.    *)
EXTENDS WebSocketChannel

CONSTANTS a, b

Sockets == {a, b}
OneFrame == [s \in Sockets |-> IF s = a THEN 1 ELSE 0]
NoFrames == [s \in Sockets |-> 0]
=============================================================================
