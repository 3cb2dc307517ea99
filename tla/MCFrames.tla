------------------------------ MODULE MCFrames ------------------------------
(* Instances of Frames for TLC. *)
EXTENDS Frames

Bits == INSTANCE Bitwise

\* ^ of the bytes.
BitXor(a, b) == Bits!^^(a, b)

Payload(n) == [i \in 1 .. n |-> (3 * i + n) % Byte]
Mask == <<5, 0, 7, 2>>

F(fin, type, mask, n) == [fin |-> fin, type |-> type, mask |-> mask, data |-> Payload(n)]

\* Of every kind of header, with and without mask, with RSV set (2, 3) or not;
\* then an empty payload, a fragment, and one that is too large.
FromClients ==
  {F(1, 1, Mask, 1), F(1, 2, Mask, 2), F(1, 1, Mask, 12), F(1, 2, Mask, 64),
   F(1, 1, << >>, 1), F(1, 2, << >>, 12), F(1, 1, << >>, 64),
   F(1, 3, Mask, 0), F(0, 1, Mask, 2), F(1, 1, Mask, 67)}

FromServer == {F(1, 1, << >>, 0), F(1, 2, << >>, 1), F(1, 1, << >>, 12)}
=============================================================================
