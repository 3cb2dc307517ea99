-------------------------- MODULE WebSocketService --------------------------
(***************************************************************************)
(* What WebSocketServer promises its user about each client: OnConnect     *)
(* first; then the client is upgraded from HTTP to WebSocket at most once; *)
(* only then are its messages handed to the handler, each at most once and *)
(* in the order in which they were sent; OnDisconnect once at most.        *)
(*                                                                         *)
(* OnDisconnect is not the last that is heard of a client: the server      *)
(* forgets it a step later, and until then the client may still be         *)
(* upgraded and messages of it handed over.  Then it has left: nothing     *)
(* more of it is heard.                                                    *)
(***************************************************************************)
EXTENDS Sequences, Naturals

CONSTANTS Peers,     \* the clients
          Messages   \* the numbers of a client's messages

VARIABLES stage,   \* stage[p]: "away", "joined", "upgraded", "left"
          told,    \* told[p]: "nothing", "connected", "disconnected"
          served   \* served[p]: the numbers of p's messages that were handed over

vars == <<stage, told, served>>

Init ==
  /\ stage = [p \in Peers |-> "away"]
  /\ told = [p \in Peers |-> "nothing"]
  /\ served = [p \in Peers |-> << >>]

Join(p) ==
  /\ stage[p] = "away"
  /\ stage' = [stage EXCEPT ![p] = "joined"]
  /\ told' = [told EXCEPT ![p] = "connected"]
  /\ UNCHANGED served

Upgrade(p) ==
  /\ stage[p] = "joined"
  /\ stage' = [stage EXCEPT ![p] = "upgraded"]
  /\ UNCHANGED <<told, served>>

Serve(p) ==
  /\ stage[p] = "upgraded"
  /\ \E m \in Messages :
       /\ \A k \in 1 .. Len(served[p]) : served[p][k] < m
       /\ served' = [served EXCEPT ![p] = Append(@, m)]
  /\ UNCHANGED <<stage, told>>

Part(p) ==
  /\ told[p] = "connected"
  /\ told' = [told EXCEPT ![p] = "disconnected"]
  /\ UNCHANGED <<stage, served>>

Leave(p) ==
  /\ stage[p] \in {"joined", "upgraded"} /\ told[p] = "disconnected"
  /\ stage' = [stage EXCEPT ![p] = "left"]
  /\ UNCHANGED <<told, served>>

Next == \E p \in Peers : Join(p) \/ Upgrade(p) \/ Serve(p) \/ Part(p) \/ Leave(p)

Spec == Init /\ [][Next]_vars
=============================================================================
