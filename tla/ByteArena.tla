----------------------------- MODULE ByteArena -----------------------------
(***************************************************************************)
(* What MemoryPool promises its callers, without saying how it looks for   *)
(* room: an arena of Total bytes out of which blocks are granted.  A       *)
(* request is placed at the lowest address at which it overlaps no granted *)
(* block, and is refused only when there is no such address.               *)
(***************************************************************************)
EXTENDS Integers, FiniteSetsExt

CONSTANTS Total,      \* bytes of the arena
          Requests,   \* the sizes callers may ask for
          Null,       \* the answer of a refused request
          Void        \* the answer of an operation that returns nothing

VARIABLES blocks,     \* the granted blocks, a set of [offset, size]
          answer      \* what the last operation returned

vars == <<blocks, answer>>

End(b) == b.offset + b.size

Overlap(b, c) == b.offset < End(c) /\ c.offset < End(b)

\* The addresses at which a block of `size` bytes can be placed.
Room(size) ==
  {a \in 0..Total : /\ a + size <= Total
                    /\ \A b \in blocks : ~Overlap([offset |-> a, size |-> size], b)}

Init == blocks = {} /\ answer = Void

Grant(size) ==
  /\ size > 0
  /\ \E a \in Room(size) :
       /\ \A c \in Room(size) : a <= c
       /\ blocks' = blocks \cup {[offset |-> a, size |-> size]}
       /\ answer' = a

Refuse(size) ==
  /\ size = 0 \/ Room(size) = {}
  /\ answer' = Null
  /\ UNCHANGED blocks

\* Giving back the block at address a; an address nothing was granted at
\* changes nothing.
GiveBack(a) ==
  /\ blocks' = {b \in blocks : b.offset # a}
  /\ answer' = Void

Clear == blocks' = {} /\ answer' = Void

Next ==
  \/ \E size \in Requests : Grant(size) \/ Refuse(size)
  \/ \E a \in (0..Total) \cup {Null} : GiveBack(a)
  \/ Clear

Spec == Init /\ [][Next]_vars
=============================================================================
