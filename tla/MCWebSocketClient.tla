------------------------- MODULE MCWebSocketClient -------------------------
(* Instances of WebSocketClient for TLC. *)
EXTENDS WebSocketClient

\* What the server sends: an answer in two pieces, then an answer, a frame in
\* two pieces, and a frame.
Answers == << <<"half", "rest">>, <<"accept", "part", "end", "frame">> >>

PlainOrTls == {FALSE, TRUE}

All == {"close", "nowait", "wait", "destroy"}
=============================================================================
