---------------------------- MODULE MCMemoryPool ----------------------------
(* Instances of MemoryPool for TLC. *)
EXTENDS MemoryPool

\* Mixed sizes, the empty request and one that exceeds the pool included.
MixedRequests == {0, 1, 2, 3, 9}
=============================================================================
