------------------------- MODULE MCWebSocketServer -------------------------
(* Instances of WebSocketServer for TLC. *)
EXTENDS WebSocketServer, TLC

CONSTANTS a, b

OneClient  == {a}
TwoClients == {a, b}

\* What the clients send.
Pings   == {<<"request", "ping">>}
OneChat == {<<"request", "text">>}
Chats   == {<<"request", "text", "other">>, <<"stuck", "request">>}

\* How the server may end.
Never   == {}
Always  == {"exhausted", "wait", "nowait", "destroy"}
Closed  == {"wait"}
Deleted == {"destroy"}

\* Clients are interchangeable.
Symmetry == Permutations(Peers)
=============================================================================
