-------------------------- MODULE MCWebSocketClient ---------------------------
(* Model-checking instance of WebSocketClient.                              *)
EXTENDS WebSocketClient

CONSTANT n1

MCNotes == {n1}
=============================================================================
