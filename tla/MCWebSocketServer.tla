------------------------- MODULE MCWebSocketServer -------------------------
(* Small instances of WebSocketServer for TLC.                             *)
EXTENDS WebSocketServer

CONSTANTS s1, s2, t1, t2, t3

TwoSessions == {s1, s2}
\* One session performs the handshake, the other one is as the server accepts it.
FirstSession == {s1}
ThreeThreads == {t1, t2, t3}
=============================================================================
