---------------------------- MODULE SessionEvents ----------------------------
(***************************************************************************)
(* What ServerSocket promises the code it calls back (OnConnected,         *)
(* OnDataReady, OnDisconnected): on every index, connections follow one    *)
(* another, each is announced once, its data arrives in the order in which *)
(* it was sent with nothing lost in between, and nothing of it arrives     *)
(* after its end was announced.                                            *)
(*                                                                         *)
(* Once a shutdown has begun the promise is weaker: an event that was      *)
(* still queued may be handed over with index -1, or never.                *)
(***************************************************************************)
EXTENDS Naturals

CONSTANTS Slots,     \* the connection indices
          Peers,     \* the clients; each connects at most once
          Nobody

VARIABLES session,   \* session[i]: the client announced on index i
          met,       \* the clients announced so far
          delivered, \* delivered[p]: how many pieces of p's data were handed over
          closing    \* a shutdown has begun

vars == <<session, met, delivered, closing>>

Init ==
  /\ session = [i \in Slots |-> Nobody]
  /\ met = {}
  /\ delivered = [p \in Peers |-> 0]
  /\ closing = FALSE

Connected(i, p) ==
  /\ session[i] = Nobody
  /\ p \notin met
  /\ session' = [session EXCEPT ![i] = p]
  /\ met' = met \cup {p}
  /\ UNCHANGED <<delivered, closing>>

DataReady(i) ==
  /\ session[i] # Nobody
  /\ delivered' = [delivered EXCEPT ![session[i]] = @ + 1]
  /\ UNCHANGED <<session, met, closing>>

Disconnected(i) ==
  /\ session[i] # Nobody
  /\ session' = [session EXCEPT ![i] = Nobody]
  /\ UNCHANGED <<met, delivered, closing>>

BeginClose ==
  /\ closing' = TRUE
  /\ UNCHANGED <<session, met, delivered>>

\* An event handed over with index -1: of data, still in order; the user
\* cannot tell whose.
Stray(p) ==
  /\ closing
  /\ UNCHANGED <<session, closing>>
  /\ \/ met' = met \cup {p} /\ UNCHANGED delivered
     \/ delivered' = [delivered EXCEPT ![p] = @ + 1] /\ UNCHANGED met

Next ==
  \/ \E i \in Slots, p \in Peers : Connected(i, p)
  \/ \E i \in Slots : DataReady(i) \/ Disconnected(i)
  \/ BeginClose
  \/ \E p \in Peers : Stray(p)

Spec == Init /\ [][Next]_vars
=============================================================================
