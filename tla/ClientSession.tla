--------------------------- MODULE ClientSession ---------------------------
(***************************************************************************)
(* What WebSocketClient promises its user about the callbacks: for each    *)
(* connection it makes it reports success or failure at most once, hands   *)
(* over messages only after success, each at most once and in the order in *)
(* which the server sent them, and reports the end of the connection at    *)
(* most once, after everything else.  Once the application has freed the   *)
(* SSL object under the read thread, a message may be none the server sent.*)
(***************************************************************************)
EXTENDS Naturals, Sequences

CONSTANT Positions  \* where in what the server sends a message may begin

VARIABLES told,   \* "nothing", "connected", "refused", "closed"
          heard,  \* the positions of the messages that were handed over
          freed   \* Close(false) has freed the SSL object

vars == <<told, heard>>

Init == told = "nothing" /\ heard = << >>

Begin == told' = "nothing" /\ heard' = << >>

Connected == told = "nothing" /\ told' = "connected" /\ UNCHANGED heard

Refused == told = "nothing" /\ told' = "refused" /\ UNCHANGED heard

Message ==
  /\ told = "connected"
  /\ \E k \in Positions :
       /\ \A j \in 1 .. Len(heard) : heard[j] < k
       /\ heard' = Append(heard, k)
  /\ UNCHANGED told

Garbage == freed /\ told = "connected" /\ heard' = Append(heard, 0) /\ UNCHANGED told

Closed == told \in {"nothing", "connected"} /\ told' = "closed" /\ UNCHANGED heard

Next == Begin \/ Connected \/ Refused \/ Message \/ Garbage \/ Closed

Spec == Init /\ [][Next]_vars
=============================================================================
