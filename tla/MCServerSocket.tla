--------------------------- MODULE MCServerSocket ---------------------------
(* Instances of ServerSocket for TLC. *)
EXTENDS ServerSocket, TLC

CONSTANTS a, b, c, w1, w2

NoClients    == {}
OneClient    == {a}
TwoClients   == {a, b}
ThreeClients == {a, b, c}
NoWriters    == {}
OneWriter    == {w1}
TwoWriters   == {w1, w2}

OnlyPlain    == {FALSE}
PlainOrTls   == {FALSE, TRUE}

\* Clients are interchangeable, and so are the threads that write.
Symmetry == Permutations(Peers) \cup Permutations(Writers)
=============================================================================
