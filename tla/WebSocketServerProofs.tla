----------------------- MODULE WebSocketServerProofs -----------------------
(***************************************************************************)
(* Theorems about WebSocketServer, for every number of connections,        *)
(* clients, scripts and bounds: the types, and that the destructor leaves  *)
(* nothing behind.                                                         *)
(***************************************************************************)
EXTENDS WebSocketServer, ProofLemmas

-----------------------------------------------------------------------------
(* The inductive invariant.                                                *)

\* TypeOK by the groups of variables.
ClientTypes ==
  /\ script \in [Peers -> Scripts]
  /\ phase \in [Peers -> {"new", "open", "closed", "shut", "cut"}]
  /\ file \in [Peers -> Slots \cup {None}]
  /\ full \in [Peers -> BOOLEAN]
  /\ fed \in [Peers -> Nat] /\ \A p \in Peers : fed[p] \in 0 .. Len(Stream(p))
  /\ got \in [Peers -> Seq(Answer)]
SocketTypes ==
  /\ socket \in {"none", "ready", "running", "stopping", "closed"}
  /\ session \in [Slots -> Peers \cup {Nobody}]
  /\ worker \in [Indices -> WorkerState]
QueueTypes ==
  requestQueue \in Seq(EntryType) /\ pending \in BOOLEAN /\ routed \in BOOLEAN
ReqTypes == req \in ReqState /\ req.pos <= Len(requestQueue) + 1
LifeTypes ==
  /\ initialized \in BOOLEAN /\ running \in BOOLEAN /\ reqRunning \in BOOLEAN
  /\ app \in AppState
  /\ push \in [file : Slots \cup {None}, peer : Peers \cup {Nobody}]
  /\ runs \in 0 .. MaxRuns /\ pushes \in 0 .. MaxPushes
UserTypes ==
  /\ told \in [Peers -> {"nothing", "connected", "disconnected"}]
  /\ handled \in [Peers -> Seq(MessageNumbers)]

\* The order in which the server is run, closed and destroyed: only a
\* running server polls, the socket server is closed before the request
\* thread is stopped, and that one before the destructor returns.
LifeInv ==
  /\ socket = "running" => running /\ app.pc = "idle" /\ ~ app.dying
  /\ running => socket \in {"running", "stopping", "closed"}
  /\ app.pc \in {"cut", "reap"} => socket \in {"stopping", "closed"}
  /\ app.pc \in {"unwind", "rejoin", "gone"} => app.dying
  /\ app.dying =>
       /\ app.pc # "idle"
       /\ app.pc \in {"cut", "reap"} => app.then = "stop"
       /\ app.pc \notin {"cut", "reap"} => socket \notin {"running", "stopping"}
  /\ app.pc = "gone" => req.pc \in {"off", "exited"}

\* Which connection is whose, and which Cleanup has reaped: what is open is
\* on a connection, and a reaped connection is nobody's; a callback without
\* an index belongs to the connection that is being reaped.
TableInv ==
  /\ \A i \in Slots : worker[i].pc # "idle" => session[i] # Nobody
  /\ \A p \in Peers : phase[p] = "open" => \E i \in Slots : session[i] = p
  /\ \A i \in Slots : session[i] # Nobody => phase[session[i]] # "new"
  /\ \A i \in Slots : worker[i].pc \in {"bye", "remove"} => phase[session[i]] # "open"
  /\ \A i, j \in Slots : session[i] = session[j] /\ session[i] # Nobody => i = j
  /\ app.pc = "reap" /\ session[app.slot] # Nobody => phase[session[app.slot]] # "open"
  /\ worker[Stray].pc # "idle" =>
       app.pc = "reap" /\ session[app.slot] # Nobody /\ worker[app.slot].pc = "idle"
  /\ \A i \in Slots :
       (app.pc \in {"cut", "reap"} /\ i < app.slot) \/ socket \in {"none", "ready", "closed"}
         => session[i] = Nobody

\* The request thread stands in the queue only while it holds the mutex, on
\* an entry with a message when it is about to reply to one; an entry that
\* is not upgraded has no messages, and one that is ready had data.
ReqInv ==
  /\ QueueFree => req.pos = 1
  /\ req.pc = "reply" =>
       /\ req.pos <= Len(requestQueue)
       /\ Entry.ready /\ Entry.handshake /\ Entry.list # << >>
  /\ \A k \in 1 .. Len(requestQueue) :
       /\ ~ requestQueue[k].handshake => requestQueue[k].list = << >>
       /\ requestQueue[k].ready => 1 \in MessageNumbers

IInv == TypeOK /\ LifeInv /\ TableInv /\ ReqInv

\* TypeOK is the conjunction of the groups.
LEMMA Types ==
  TypeOK <=> /\ ClientTypes /\ SocketTypes /\ QueueTypes
             /\ ReqTypes /\ LifeTypes /\ UserTypes
BY DEF TypeOK, ClientTypes, SocketTypes, QueueTypes, ReqTypes, LifeTypes, UserTypes

-----------------------------------------------------------------------------
(* Facts about the operators the model is built from.                      *)

\* Messages are numbered from 1.
LEMMA Numbers ==
  /\ MessageNumbers \subseteq Nat \ {0}
  /\ MessageNumbers # {} => 1 \in MessageNumbers
  /\ \A s \in Scripts : Len(s) \in Nat /\ 1 .. Len(s) \subseteq MessageNumbers
<1>1. \A s \in Scripts : Len(s) \in Nat /\ DOMAIN s = 1 .. Len(s)
  <2>1. \A s \in Scripts : s \in Seq(Kinds)
    BY ServerAssumption
  <2>. QED
    BY <2>1, LenProperties
<1>2. \A m : m \in MessageNumbers <=> \E s \in Scripts : m \in 1 .. Len(s)
  BY <1>1 DEF MessageNumbers
<1>. QED
  BY <1>1, <1>2

\* What a client sends, unit by unit.
LEMMA StreamFacts ==
  ASSUME ClientTypes, NEW p \in Peers
  PROVE  /\ Stream(p) \in Seq(Unit)
         /\ Len(script[p]) \in Nat
         /\ Len(Stream(p)) = Len(script[p]) * Parts
         /\ Len(Stream(p)) \in Nat
         /\ \A n \in 1 .. Len(Stream(p)) :
              Stream(p)[n] = [peer |-> p, msg |-> (n - 1) \div Parts + 1,
                              part |-> ((n - 1) % Parts) + 1]
<1>. DEFINE L == Len(script[p])
            U(n) == [peer |-> p, msg |-> (n - 1) \div Parts + 1,
                     part |-> ((n - 1) % Parts) + 1]
<1>1. L \in Nat /\ 1 .. L \subseteq MessageNumbers
  BY Numbers DEF ClientTypes
<1>2. Parts \in Nat \ {0}
  BY ServerAssumption
<1>. HIDE DEF L
<1>3. L * Parts \in Nat
  BY <1>1, <1>2
<1>4. ASSUME NEW n \in 1 .. L * Parts
      PROVE  U(n) \in Unit
  <2>. DEFINE q == (n - 1) \div Parts
              r == (n - 1) % Parts
  <2>1. n - 1 \in Nat
    BY <1>3
  <2>2. q \in Nat /\ r \in 0 .. Parts - 1 /\ n - 1 = Parts * q + r
    BY <1>2, <2>1, Division
  <2>. HIDE DEF q, r
  <2>3. Parts * q < L * Parts
    <3>1. Parts * q \in Nat
      BY <1>2, <2>2
    <3>2. n - 1 < L * Parts
      BY <1>3
    <3>. QED
      BY <1>2, <1>3, <2>1, <2>2, <3>1, <3>2
  <2>4. q < L
    BY <1>1, <1>2, <2>2, <2>3
  <2>5. q + 1 \in 1 .. L /\ r + 1 \in 1 .. Parts
    BY <1>1, <1>2, <2>2, <2>4
  <2>. QED
    BY <1>1, <2>5 DEF Unit, q, r
<1>5. [n \in 1 .. L * Parts |-> U(n)] \in [1 .. L * Parts -> Unit]
  BY <1>4
<1>6. Stream(p) = [n \in 1 .. L * Parts |-> U(n)]
  BY DEF Stream, L
<1>. HIDE DEF U
<1>7. Stream(p) \in Seq(Unit) /\ Len(Stream(p)) = L * Parts
  BY <1>3, <1>5, <1>6, FunctionIsSeq
<1>8. \A n \in 1 .. L * Parts : Stream(p)[n] = U(n)
  BY <1>6
<1>. QED
  BY <1>1, <1>3, <1>7, <1>8 DEF L, U

\* The parser takes whole messages from the front of the data.
LEMMA ParsedFacts ==
  ASSUME NEW data \in Seq(Unit), NEW kinds
  PROVE  /\ Parsed(data, kinds) \in Nat
         /\ Parsed(data, kinds) * Parts \in 0 .. Len(data)
         /\ \A k \in 1 .. Parsed(data, kinds) : IsMessage(data, k, kinds)
<1>. DEFINE T == {n \in 0 .. Len(data) \div Parts :
                    \A k \in 1 .. n : IsMessage(data, k, kinds)}
            q == Len(data) \div Parts
<1>1. Parts \in Nat \ {0} /\ Len(data) \in Nat
  BY ServerAssumption, LenProperties
<1>2. q \in Nat /\ Parts * q <= Len(data)
  <2>1. /\ Len(data) \div Parts \in Nat
        /\ Len(data) % Parts \in 0 .. Parts - 1
        /\ Len(data) = Parts * (Len(data) \div Parts) + (Len(data) % Parts)
    BY <1>1, Division
  <2>2. Parts * q \in Nat
    BY <1>1, <2>1
  <2>. QED
    BY <1>1, <2>1, <2>2
<1>3. \A t \in T : t \in Nat /\ t <= q /\ \A k \in 1 .. t : IsMessage(data, k, kinds)
  BY <1>2
<1>4. 0 \in T
  BY <1>2
<1>5. Parsed(data, kinds) = Max(T)
  BY DEF Parsed
<1>. HIDE DEF T, q
<1>6. Max(T) \in T
  BY <1>2, <1>3, <1>4, GreatestOfNats
<1>7. \A t \in 0 .. q : t * Parts \in Nat /\ t * Parts <= Parts * q
  BY <1>1, <1>2
<1>8. Parts * q <= Len(data) /\ Parts * q \in Nat
  BY <1>1, <1>2
<1>9. Max(T) \in 0 .. q
  BY <1>2, <1>3, <1>6
<1>. QED
  BY <1>1, <1>3, <1>5, <1>6, <1>7, <1>8, <1>9

\* The last n * Parts units but for the first ones are still units.
LEMMA RestOfData ==
  ASSUME NEW data \in Seq(Unit), NEW n \in Nat, n \in 0 .. Len(data)
  PROVE  /\ SubSeq(data, n + 1, Len(data)) \in Seq(Unit)
         /\ Len(SubSeq(data, n + 1, Len(data))) = Len(data) - n
         /\ \A j \in 1 .. Len(data) - n :
              SubSeq(data, n + 1, Len(data))[j] = data[n + j]
<1>1. Len(data) \in Nat /\ \A k \in 1 .. Len(data) : data[k] \in Unit
  BY LenProperties, ElementOfSeq
<1>2. \A k \in n + 1 .. Len(data) : data[k] \in Unit
  BY <1>1
<1>3. /\ SubSeq(data, n + 1, Len(data)) \in Seq(Unit)
      /\ Len(SubSeq(data, n + 1, Len(data))) =
           IF n + 1 <= Len(data) THEN Len(data) - (n + 1) + 1 ELSE 0
      /\ \A j \in 1 .. Len(data) - (n + 1) + 1 :
           SubSeq(data, n + 1, Len(data))[j] = data[n + 1 + j - 1]
  BY <1>1, <1>2, SubSeqProperties
<1>4. Len(data) - (n + 1) + 1 = Len(data) - n
  BY <1>1
<1>5. \A j \in 1 .. Len(data) - n : n + 1 + j - 1 = n + j
  BY <1>1
<1>. QED
  BY <1>1, <1>3, <1>4, <1>5

\* What the parser does to an entry: nothing, or one request, or n frames.
LEMMA CheckedFacts ==
  ASSUME NEW e \in EntryType
  PROVE  LET n == Parsed(e.data, Frames)
         IN /\ Checked(e) \in EntryType
            /\ Checked(e).connID = e.connID /\ Checked(e).remote = e.remote
            /\ Checked(e).handshake = e.handshake
            /\ \/ Checked(e) = e
               \/ /\ ~ e.ready /\ ~ e.handshake
                  /\ Parsed(e.data, {"request"}) \in Nat \ {0}
                  /\ Parts \in 1 .. Len(e.data)
                  /\ Checked(e).data = SubSeq(e.data, Parts + 1, Len(e.data))
                  /\ Checked(e).list = e.list
                  /\ Checked(e).ready
               \/ /\ ~ e.ready /\ e.handshake
                  /\ n \in Nat \ {0} /\ n * Parts \in 1 .. Len(e.data)
                  /\ Checked(e).data = SubSeq(e.data, n * Parts + 1, Len(e.data))
                  /\ [k \in 1 .. n |-> Message(e.data, k)] \in Seq(MessageRef)
                  /\ Len([k \in 1 .. n |-> Message(e.data, k)]) = n
                  /\ Checked(e).list = e.list \o [k \in 1 .. n |-> Message(e.data, k)]
                  /\ Checked(e).ready
<1>. DEFINE n == Parsed(e.data, Frames)
            M == [k \in 1 .. n |-> Message(e.data, k)]
            h == Parsed(e.data, {"request"})
<1>1. /\ e = [connID |-> e.connID, remote |-> e.remote, data |-> e.data, list |-> e.list,
              handshake |-> e.handshake, ready |-> e.ready]
      /\ e.connID \in Indices /\ e.remote \in Peers
      /\ e.data \in Seq(Unit) /\ e.list \in Seq(MessageRef)
      /\ e.handshake \in BOOLEAN /\ e.ready \in BOOLEAN
  BY DEF EntryType
<1>2. Parts \in Nat \ {0} /\ Len(e.data) \in Nat
      /\ \A k \in 1 .. Len(e.data) : e.data[k] \in Unit
  BY <1>1, ServerAssumption, LenProperties, ElementOfSeq
<1>3. n \in Nat /\ n * Parts \in 0 .. Len(e.data)
  BY <1>1, ParsedFacts
<1>4. h \in Nat /\ h * Parts \in 0 .. Len(e.data)
  BY <1>1, ParsedFacts
<1>. HIDE DEF n, h
<1>5. M \in Seq(MessageRef) /\ Len(M) = n
  <2>1. ASSUME NEW k \in 1 .. n
        PROVE  Message(e.data, k) \in MessageRef
    <3>1. k * Parts \in Nat /\ 1 <= k * Parts /\ k * Parts <= n * Parts
      BY <1>2, <1>3
    <3>2. k * Parts \in 1 .. Len(e.data)
      BY <1>2, <1>3, <3>1
    <3>3. e.data[k * Parts] \in Unit
      BY <1>2, <3>2
    <3>. QED
      BY <3>3 DEF Message, Unit, MessageRef
  <2>2. M \in [1 .. n -> MessageRef]
    BY <2>1
  <2>. QED
    BY <1>3, <2>2, FunctionIsSeq
<1>. HIDE DEF M
<1>. DEFINE c == Checked(e)
            Kept == /\ c \in EntryType
                    /\ c.connID = e.connID /\ c.remote = e.remote
                    /\ c.handshake = e.handshake
            Request == /\ ~ e.ready /\ ~ e.handshake
                       /\ h \in Nat \ {0}
                       /\ Parts \in 1 .. Len(e.data)
                       /\ c.data = SubSeq(e.data, Parts + 1, Len(e.data))
                       /\ c.list = e.list
                       /\ c.ready
            Several == /\ ~ e.ready /\ e.handshake
                       /\ n \in Nat \ {0} /\ n * Parts \in 1 .. Len(e.data)
                       /\ c.data = SubSeq(e.data, n * Parts + 1, Len(e.data))
                       /\ M \in Seq(MessageRef)
                       /\ Len(M) = n
                       /\ c.list = e.list \o M
                       /\ c.ready
<1>6. ASSUME e.ready
      PROVE  Kept /\ c = e
  <2>1. c = e
    BY <1>6 DEF Checked
  <2>. QED
    BY <2>1
<1>7. ASSUME ~ e.ready /\ ~ e.handshake
      PROVE  Kept /\ (c = e \/ Request)
  <2>1. CASE h = 0
    <3>1. c = e
      BY <1>7, <2>1 DEF Checked, CheckWsHeader, h
    <3>. QED
      BY <3>1
  <2>2. CASE h # 0
    <3>1. Parts <= h * Parts
      BY <1>2, <1>4, <2>2
    <3>2. Parts \in 1 .. Len(e.data)
      BY <1>2, <1>4, <3>1
    <3>3. SubSeq(e.data, Parts + 1, Len(e.data)) \in Seq(Unit)
      BY <1>1, <1>2, <3>2, RestOfData
    <3>4. c = [connID |-> e.connID, remote |-> e.remote,
               data |-> SubSeq(e.data, Parts + 1, Len(e.data)), list |-> e.list,
               handshake |-> e.handshake, ready |-> TRUE]
      BY <1>1, <1>7, <2>2 DEF Checked, CheckWsHeader, h
    <3>. HIDE DEF c
    <3>5. c \in EntryType
      BY <1>1, <3>3, <3>4 DEF EntryType
    <3>6. Kept
      BY <3>4, <3>5
    <3>7. Request
      BY <1>4, <1>7, <2>2, <3>2, <3>4
    <3>. QED
      BY <3>6, <3>7
  <2>. QED
    BY <2>1, <2>2
<1>8. ASSUME ~ e.ready /\ e.handshake
      PROVE  Kept /\ (c = e \/ Several)
  <2>1. CASE n = 0
    <3>1. c = e
      BY <1>8, <2>1 DEF Checked, CheckWsFrames, n
    <3>. QED
      BY <3>1
  <2>2. CASE n # 0
    <3>1. Parts <= n * Parts
      BY <1>2, <1>3, <2>2
    <3>2. n * Parts \in 1 .. Len(e.data) /\ n * Parts \in Nat
      BY <1>2, <1>3, <3>1
    <3>3. SubSeq(e.data, n * Parts + 1, Len(e.data)) \in Seq(Unit)
      BY <1>1, <1>2, <3>2, RestOfData
    <3>4. e.list \o M \in Seq(MessageRef)
      BY <1>1, <1>5, ConcatProperties
    <3>5. c = [connID |-> e.connID, remote |-> e.remote,
               data |-> SubSeq(e.data, n * Parts + 1, Len(e.data)),
               list |-> e.list \o M,
               handshake |-> e.handshake, ready |-> TRUE]
      BY <1>1, <1>8, <2>2 DEF Checked, CheckWsFrames, n, M
    <3>. HIDE DEF c
    <3>6. c \in EntryType
      BY <1>1, <3>3, <3>4, <3>5 DEF EntryType
    <3>7. Kept
      BY <3>5, <3>6
    <3>8. Several
      BY <1>3, <1>5, <1>8, <2>2, <3>2, <3>5
    <3>. QED
      BY <3>7, <3>8
  <2>. QED
    BY <2>1, <2>2
<1>9. Kept
  BY <1>1, <1>6, <1>7, <1>8
<1>10. c = e \/ Request \/ Several
  BY <1>1, <1>6, <1>7, <1>8
<1>. QED
  BY <1>9, <1>10 DEF n, h, M

-----------------------------------------------------------------------------
(* What the operations do to the queue, entry by entry.                    *)

\* An entry by its fields.
LEMMA EntryFields ==
  ASSUME NEW e \in EntryType
  PROVE  /\ e = [connID |-> e.connID, remote |-> e.remote, data |-> e.data,
                 list |-> e.list, handshake |-> e.handshake, ready |-> e.ready]
         /\ e.connID \in Indices /\ e.remote \in Peers
         /\ e.data \in Seq(Unit) /\ e.list \in Seq(MessageRef)
         /\ e.handshake \in BOOLEAN /\ e.ready \in BOOLEAN
BY DEF EntryType

\* An entry with other data.
LEMMA EntryWithData ==
  ASSUME NEW e \in EntryType, NEW d \in Seq(Unit)
  PROVE  [e EXCEPT !.data = d] =
              [connID |-> e.connID, remote |-> e.remote, data |-> d,
               list |-> e.list, handshake |-> e.handshake, ready |-> e.ready]
<1>. DEFINE x == [e EXCEPT !.data = d]
<1>1. /\ x \in EntryType
      /\ x.connID = e.connID /\ x.remote = e.remote /\ x.data = d
      /\ x.list = e.list /\ x.handshake = e.handshake /\ x.ready = e.ready
  BY DEF EntryType
<1>. HIDE DEF x
<1>2. x = [connID |-> e.connID, remote |-> e.remote, data |-> d,
           list |-> e.list, handshake |-> e.handshake, ready |-> e.ready]
  BY <1>1, EntryFields, Zenon
<1>. QED
  BY <1>2 DEF x

\* An entry that is upgraded.
LEMMA EntryUpgraded ==
  ASSUME NEW e \in EntryType
  PROVE  [e EXCEPT !.handshake = TRUE, !.ready = FALSE] =
              [connID |-> e.connID, remote |-> e.remote, data |-> e.data,
               list |-> e.list, handshake |-> TRUE, ready |-> FALSE]
<1>. DEFINE x == [e EXCEPT !.handshake = TRUE, !.ready = FALSE]
<1>1. /\ x \in EntryType
      /\ x.connID = e.connID /\ x.remote = e.remote /\ x.data = e.data
      /\ x.list = e.list /\ x.handshake = TRUE /\ x.ready = FALSE
  BY DEF EntryType
<1>. HIDE DEF x
<1>2. x = [connID |-> e.connID, remote |-> e.remote, data |-> e.data,
           list |-> e.list, handshake |-> TRUE, ready |-> FALSE]
  BY <1>1, EntryFields, Zenon
<1>. QED
  BY <1>2 DEF x

\* An entry with another list.
LEMMA EntryWithList ==
  ASSUME NEW e \in EntryType, NEW s \in Seq(MessageRef), NEW r \in BOOLEAN
  PROVE  [e EXCEPT !.list = s, !.ready = r] =
              [connID |-> e.connID, remote |-> e.remote, data |-> e.data,
               list |-> s, handshake |-> e.handshake, ready |-> r]
<1>. DEFINE x == [e EXCEPT !.list = s, !.ready = r]
<1>1. /\ x \in EntryType
      /\ x.connID = e.connID /\ x.remote = e.remote /\ x.data = e.data
      /\ x.list = s /\ x.handshake = e.handshake /\ x.ready = r
  BY DEF EntryType
<1>. HIDE DEF x
<1>2. x = [connID |-> e.connID, remote |-> e.remote, data |-> e.data,
           list |-> s, handshake |-> e.handshake, ready |-> r]
  BY <1>1, EntryFields, Zenon
<1>. QED
  BY <1>2 DEF x

\* The queue as it stands.
LEMMA QueueFacts ==
  ASSUME QueueTypes
  PROVE  /\ Len(requestQueue) \in Nat
         /\ \A k \in 1 .. Len(requestQueue) :
              /\ requestQueue[k] \in EntryType
              /\ requestQueue[k].connID \in Indices
              /\ requestQueue[k].remote \in Peers
              /\ requestQueue[k].data \in Seq(Unit)
              /\ requestQueue[k].list \in Seq(MessageRef)
              /\ requestQueue[k].handshake \in BOOLEAN
              /\ requestQueue[k].ready \in BOOLEAN
<1>1. /\ Len(requestQueue) \in Nat
      /\ \A k \in 1 .. Len(requestQueue) : requestQueue[k] \in EntryType
  BY LenProperties, ElementOfSeq DEF QueueTypes
<1>. QED
  BY <1>1 DEF EntryType

\* The entry that getRequest finds is the first one of the connection.
LEMMA FirstEntry ==
  ASSUME QueueTypes, NEW i \in Indices, Entries(i) # {}
  PROVE  /\ Min(Entries(i)) \in 1 .. Len(requestQueue)
         /\ requestQueue[Min(Entries(i))].connID = i
         /\ \A l \in Entries(i) : Min(Entries(i)) <= l
<1>1. Entries(i) \subseteq Nat
  BY QueueFacts DEF Entries
<1>2. Min(Entries(i)) \in Entries(i) /\ \A l \in Entries(i) : Min(Entries(i)) <= l
  BY <1>1, LeastOfNats
<1>. QED
  BY <1>2 DEF Entries

\* InitConnection appends an empty entry, if the connection has none.
LEMMA InitConnectionQueue ==
  ASSUME QueueTypes, NEW i \in Indices, Client(i) \in Peers, InitConnection(i)
  PROVE  LET e == [connID |-> i, remote |-> Client(i), data |-> << >>, list |-> << >>,
                   handshake |-> FALSE, ready |-> FALSE]
         IN /\ requestQueue' \in Seq(EntryType)
            /\ \/ /\ Entries(i) # {}
                  /\ requestQueue' = requestQueue
               \/ /\ Entries(i) = {}
                  /\ Len(requestQueue') = Len(requestQueue) + 1
                  /\ \A k \in 1 .. Len(requestQueue) : requestQueue'[k] = requestQueue[k]
                  /\ requestQueue'[Len(requestQueue) + 1] = e
<1>. DEFINE e == [connID |-> i, remote |-> Client(i), data |-> << >>, list |-> << >>,
                  handshake |-> FALSE, ready |-> FALSE]
<1>1. e \in EntryType
  <2>1. << >> \in Seq(Unit) /\ << >> \in Seq(MessageRef)
    OBVIOUS
  <2>. QED
    BY <2>1 DEF EntryType
<1>2. requestQueue' = IF Entries(i) # {} THEN requestQueue ELSE Append(requestQueue, e)
  BY DEF InitConnection
<1>. HIDE DEF e
<1>3. /\ Append(requestQueue, e) \in Seq(EntryType)
      /\ Len(Append(requestQueue, e)) = Len(requestQueue) + 1
      /\ \A k \in 1 .. Len(requestQueue) : Append(requestQueue, e)[k] = requestQueue[k]
      /\ Append(requestQueue, e)[Len(requestQueue) + 1] = e
  BY <1>1, AppendProperties DEF QueueTypes
<1>. QED
  BY <1>2, <1>3 DEF QueueTypes, e

\* PutToQueue appends the chunk to the data of the connection's entry.
LEMMA PutToQueueQueue ==
  ASSUME QueueTypes, NEW i \in Indices, worker[i].chunk \in Seq(Unit), PutToQueue(i)
  PROVE  /\ requestQueue' \in Seq(EntryType)
         /\ Len(requestQueue') = Len(requestQueue)
         /\ \A k \in 1 .. Len(requestQueue) :
              LET e == requestQueue[k]
              IN /\ k \in Entries(i) /\ (\A l \in Entries(i) : k <= l) =>
                      requestQueue'[k] =
                        [connID |-> e.connID, remote |-> e.remote,
                         data |-> e.data \o worker[i].chunk, list |-> e.list,
                         handshake |-> e.handshake, ready |-> e.ready]
                 /\ ~ (k \in Entries(i) /\ \A l \in Entries(i) : k <= l) =>
                      requestQueue'[k] = e
         /\ \A k \in 1 .. Len(requestQueue) :
              /\ requestQueue'[k].connID = requestQueue[k].connID
              /\ requestQueue'[k].remote = requestQueue[k].remote
              /\ requestQueue'[k].list = requestQueue[k].list
              /\ requestQueue'[k].handshake = requestQueue[k].handshake
              /\ requestQueue'[k].ready = requestQueue[k].ready
<1>. DEFINE First(k) == k \in Entries(i) /\ \A l \in Entries(i) : k <= l
            U(k) == IF First(k)
                    THEN [requestQueue[k] EXCEPT !.data = @ \o worker[i].chunk]
                    ELSE requestQueue[k]
            R(e) == [connID |-> e.connID, remote |-> e.remote,
                     data |-> e.data \o worker[i].chunk, list |-> e.list,
                     handshake |-> e.handshake, ready |-> e.ready]
<1>1. requestQueue' = [k \in 1 .. Len(requestQueue) |-> U(k)]
  BY DEF PutToQueue
<1>2. ASSUME NEW k \in 1 .. Len(requestQueue)
      PROVE  U(k) \in EntryType /\ U(k) = IF First(k) THEN R(requestQueue[k]) ELSE requestQueue[k]
  <2>. DEFINE e == requestQueue[k]
  <2>1. e \in EntryType
    BY QueueFacts
  <2>. HIDE DEF e, First
  <2>2. e.data \o worker[i].chunk \in Seq(Unit)
    BY <2>1, ConcatProperties DEF EntryType
  <2>3. [e EXCEPT !.data = @ \o worker[i].chunk] = R(e)
    BY <2>1, <2>2, EntryWithData, Zenon
  <2>4. R(e) \in EntryType
    BY <2>1, <2>2, EntryFields DEF EntryType
  <2>. HIDE DEF R
  <2>. QED
    BY <2>1, <2>3, <2>4 DEF e
<1>. HIDE DEF U
<1>3. requestQueue' \in [1 .. Len(requestQueue) -> EntryType]
  BY <1>1, <1>2
<1>4. requestQueue' \in Seq(EntryType) /\ Len(requestQueue') = Len(requestQueue)
  BY <1>3, QueueFacts, FunctionIsSeq
<1>5. \A k \in 1 .. Len(requestQueue) : requestQueue'[k] = U(k)
  BY <1>1
<1>. HIDE DEF First
<1>6. ASSUME NEW k \in 1 .. Len(requestQueue)
      PROVE  /\ First(k) => requestQueue'[k] = R(requestQueue[k])
             /\ ~ First(k) => requestQueue'[k] = requestQueue[k]
  BY <1>2, <1>5
<1>7. ASSUME NEW k \in 1 .. Len(requestQueue)
      PROVE  /\ requestQueue'[k].connID = requestQueue[k].connID
             /\ requestQueue'[k].remote = requestQueue[k].remote
             /\ requestQueue'[k].list = requestQueue[k].list
             /\ requestQueue'[k].handshake = requestQueue[k].handshake
             /\ requestQueue'[k].ready = requestQueue[k].ready
  <2>1. CASE First(k)
    <3>1. requestQueue'[k] = R(requestQueue[k])
      BY <1>6, <2>1
    <3>. QED
      BY <3>1
  <2>2. CASE ~ First(k)
    <3>1. requestQueue'[k] = requestQueue[k]
      BY <1>6, <2>2
    <3>. QED
      BY <3>1
  <2>. QED
    BY <2>1, <2>2
<1>. QED
  BY <1>4, <1>6, <1>7 DEF First

\* RemoveFromQueue drops the connection's entry.
LEMMA RemoveFromQueueQueue ==
  ASSUME QueueTypes, NEW i \in Indices, RemoveFromQueue(i)
  PROVE  /\ requestQueue' \in Seq(EntryType)
         /\ \/ /\ Entries(i) = {}
               /\ requestQueue' = requestQueue
            \/ /\ Entries(i) # {}
               /\ Min(Entries(i)) \in 1 .. Len(requestQueue)
               /\ requestQueue[Min(Entries(i))].connID = i
               /\ Len(requestQueue') = Len(requestQueue) - 1
               /\ \A k \in 1 .. Len(requestQueue) - 1 :
                    requestQueue'[k] = IF k < Min(Entries(i)) THEN requestQueue[k]
                                       ELSE requestQueue[k + 1]
<1>1. requestQueue' = IF Entries(i) = {} THEN requestQueue
                      ELSE RemoveAt(requestQueue, Min(Entries(i)))
  BY DEF RemoveFromQueue
<1>2. CASE Entries(i) = {}
  BY <1>1, <1>2 DEF QueueTypes
<1>3. CASE Entries(i) # {}
  <2>. DEFINE m == Min(Entries(i))
  <2>1. m \in 1 .. Len(requestQueue) /\ requestQueue[m].connID = i
    BY <1>3, FirstEntry
  <2>2. requestQueue' = RemoveAt(requestQueue, m)
    BY <1>1, <1>3
  <2>. HIDE DEF m
  <2>3. /\ RemoveAt(requestQueue, m) \in Seq(EntryType)
        /\ Len(RemoveAt(requestQueue, m)) = Len(requestQueue) - 1
        /\ \A j \in 1 .. Len(requestQueue) - 1 :
             RemoveAt(requestQueue, m)[j] =
               IF j < m THEN requestQueue[j] ELSE requestQueue[j + 1]
    BY <2>1, RemoveAtFacts DEF QueueTypes
  <2>. QED
    BY <1>3, <2>1, <2>2, <2>3 DEF m
<1>. QED
  BY <1>2, <1>3

\* CheckData parses every entry.
LEMMA ParseQueue ==
  ASSUME QueueTypes, ReqParse
  PROVE  /\ requestQueue' \in Seq(EntryType)
         /\ Len(requestQueue') = Len(requestQueue)
         /\ \A k \in 1 .. Len(requestQueue) : requestQueue'[k] = Checked(requestQueue[k])
<1>1. requestQueue' = [k \in 1 .. Len(requestQueue) |-> Checked(requestQueue[k])]
  BY DEF ReqParse
<1>2. \A k \in 1 .. Len(requestQueue) : Checked(requestQueue[k]) \in EntryType
  BY QueueFacts, CheckedFacts
<1>3. requestQueue' \in [1 .. Len(requestQueue) -> EntryType]
  BY <1>1, <1>2
<1>. QED
  BY <1>1, <1>3, QueueFacts, FunctionIsSeq

\* A response that is sent makes the connection count as upgraded.
LEMMA ServeRequestQueue ==
  ASSUME QueueTypes, ReqTypes, ServeRequest
  PROVE  /\ req.pos \in 1 .. Len(requestQueue)
         /\ requestQueue' \in Seq(EntryType)
         /\ Len(requestQueue') = Len(requestQueue)
         /\ \A k \in 1 .. Len(requestQueue) :
              k # req.pos => requestQueue'[k] = requestQueue[k]
         /\ \/ requestQueue' = requestQueue
            \/ requestQueue'[req.pos] =
                 [connID |-> Entry.connID, remote |-> Entry.remote, data |-> Entry.data,
                  list |-> Entry.list, handshake |-> TRUE, ready |-> FALSE]
<1>. DEFINE e == [connID |-> Entry.connID, remote |-> Entry.remote, data |-> Entry.data,
                  list |-> Entry.list, handshake |-> TRUE, ready |-> FALSE]
            k0 == req.pos
<1>1. k0 \in 1 .. Len(requestQueue)
  BY QueueFacts DEF ServeRequest, ReqTypes, ReqState
<1>2. Entry \in EntryType
  BY <1>1, QueueFacts DEF Entry
<1>3. e \in EntryType
  BY <1>2 DEF EntryType
<1>4. CASE requestQueue' = [requestQueue EXCEPT ![k0].handshake = TRUE, ![k0].ready = FALSE]
  <2>1. requestQueue \in [1 .. Len(requestQueue) -> EntryType]
    BY QueueFacts, LenProperties DEF QueueTypes
  <2>2. requestQueue' \in [1 .. Len(requestQueue) -> EntryType]
        /\ requestQueue'[k0] = [Entry EXCEPT !.handshake = TRUE, !.ready = FALSE]
        /\ \A k \in 1 .. Len(requestQueue) : k # k0 => requestQueue'[k] = requestQueue[k]
    <3>1. [Entry EXCEPT !.handshake = TRUE, !.ready = FALSE] \in EntryType
      BY <1>2 DEF EntryType
    <3>. QED
      BY <1>1, <1>4, <2>1, <3>1 DEF Entry
  <2>3. [Entry EXCEPT !.handshake = TRUE, !.ready = FALSE] = e
    BY <1>2, EntryUpgraded, Zenon
  <2>4. requestQueue' \in Seq(EntryType) /\ Len(requestQueue') = Len(requestQueue)
    BY <2>2, QueueFacts, FunctionIsSeq
  <2>. QED
    BY <1>1, <2>2, <2>3, <2>4
<1>5. CASE requestQueue' = requestQueue
  BY <1>1, <1>5 DEF QueueTypes
<1>6. \/ requestQueue' = requestQueue
      \/ requestQueue' = [requestQueue EXCEPT ![k0].handshake = TRUE, ![k0].ready = FALSE]
  BY DEF ServeRequest
<1>. QED
  BY <1>4, <1>5, <1>6

\* A message that was dealt with leaves the list.
LEMMA DispatchedQueue ==
  ASSUME QueueTypes, req.pos \in 1 .. Len(requestQueue), Entry.list # << >>, Dispatched
  PROVE  /\ requestQueue' \in Seq(EntryType)
         /\ Len(requestQueue') = Len(requestQueue)
         /\ \A k \in 1 .. Len(requestQueue) :
              k # req.pos => requestQueue'[k] = requestQueue[k]
         /\ Len(Entry.list) \in Nat \ {0}
         /\ Head(Entry.list) = Entry.list[1] /\ Entry.list[1] \in MessageRef
         /\ Tail(Entry.list) \in Seq(MessageRef)
         /\ Len(Tail(Entry.list)) = Len(Entry.list) - 1
         /\ \A n \in 1 .. Len(Entry.list) - 1 : Tail(Entry.list)[n] = Entry.list[n + 1]
         /\ requestQueue'[req.pos] =
              [connID |-> Entry.connID, remote |-> Entry.remote, data |-> Entry.data,
               list |-> Tail(Entry.list), handshake |-> Entry.handshake,
               ready |-> Len(Entry.list) > 1]
<1>. DEFINE k0 == req.pos
            s  == Entry.list
            e  == [connID |-> Entry.connID, remote |-> Entry.remote, data |-> Entry.data,
                   list |-> Tail(s), handshake |-> Entry.handshake, ready |-> Len(s) > 1]
            x  == [Entry EXCEPT !.list = Tail(s), !.ready = Len(s) > 1]
<1>1. Entry \in EntryType
  BY QueueFacts DEF Entry
<1>2. s \in Seq(MessageRef)
  BY <1>1 DEF EntryType
<1>3. Len(s) \in Nat \ {0} /\ Head(s) = s[1] /\ s[1] \in MessageRef
  <2>1. Len(s) \in Nat \ {0} /\ Head(s) = s[1]
    BY <1>2, EmptySeq
  <2>2. 1 \in 1 .. Len(s)
    BY <2>1
  <2>. QED
    BY <1>2, <2>1, <2>2, ElementOfSeq
<1>4. /\ Tail(s) \in Seq(MessageRef)
      /\ Len(Tail(s)) = Len(s) - 1
      /\ \A n \in 1 .. Len(Tail(s)) : Tail(s)[n] = s[n + 1]
  BY <1>2, HeadTailProperties
<1>. HIDE DEF s
<1>5. x = e /\ e \in EntryType
  <2>1. (Len(s) > 1) \in BOOLEAN
    OBVIOUS
  <2>2. x = e
    BY <1>1, <1>4, <2>1, EntryWithList, Zenon
  <2>3. e \in EntryType
    BY <1>1, <1>4, <2>1, EntryFields DEF EntryType
  <2>. QED
    BY <2>2, <2>3
<1>6. requestQueue' = [requestQueue EXCEPT ![k0] = x]
  BY DEF Dispatched, s
<1>. HIDE DEF x, e
<1>7. requestQueue \in [1 .. Len(requestQueue) -> EntryType]
  BY QueueFacts, LenProperties DEF QueueTypes
<1>8. /\ requestQueue' \in [1 .. Len(requestQueue) -> EntryType]
      /\ requestQueue'[k0] = e
      /\ \A k \in 1 .. Len(requestQueue) : k # k0 => requestQueue'[k] = requestQueue[k]
  BY <1>5, <1>6, <1>7
<1>9. requestQueue' \in Seq(EntryType) /\ Len(requestQueue') = Len(requestQueue)
  BY <1>8, QueueFacts, FunctionIsSeq
<1>. QED
  BY <1>3, <1>4, <1>8, <1>9 DEF s, e

-----------------------------------------------------------------------------
(* The types.                                                              *)

\* The states of the threads that the operations name.
LEMMA States ==
  /\ \A pc \in {"idle", "init", "greet", "put", "signal", "bye", "remove"} :
       [pc |-> pc, chunk |-> << >>] \in WorkerState
  /\ \A w \in WorkerState : w.chunk \in Seq(Unit)
  /\ \A c \in Seq(Unit) : [pc |-> "put", chunk |-> c] \in WorkerState
  /\ 0 \in Slots
  /\ Slots \subseteq Indices /\ Stray \in Indices /\ Stray \notin Slots
  /\ \A c \in Indices : c # Stray => c \in Slots
<1>1. << >> \in Seq(Unit)
  OBVIOUS
<1>2. 0 \in Slots
  BY ServerAssumption DEF Slots
<1>3. Slots \subseteq Indices /\ Stray \in Indices /\ Stray \notin Slots
  BY ServerAssumption DEF Slots, Indices, Stray
<1>4. \A c \in Indices : c # Stray => c \in Slots
  BY DEF Indices
<1>. QED
  BY <1>1, <1>2, <1>3, <1>4 DEF WorkerState

\* The descriptor of a connection.
LEMMA FdTyped ==
  ASSUME ClientTypes, SocketTypes, NEW c
  PROVE  Fd(c) \in Slots \cup {None}
BY DEF Fd, ClientTypes, SocketTypes

\* The clients' own steps keep the types.
LEMMA ClientTypeStep ==
  ASSUME IInv, NEW p \in Peers, Hangup(p) \/ Stall(p) \/ Resume(p) \/ Arrive(p)
  PROVE  TypeOK'
<1>. SUFFICES (ClientTypes /\ SocketTypes /\ QueueTypes
                 /\ ReqTypes /\ LifeTypes /\ UserTypes)'
  BY DEF TypeOK, ClientTypes, SocketTypes, QueueTypes, ReqTypes, LifeTypes, UserTypes
<1>. USE Types DEF IInv
<1>1. CASE Hangup(p)
  BY <1>1 DEF Hangup, ClientTypes, SocketTypes, QueueTypes, ReqTypes, LifeTypes, UserTypes, Stream,
     clientVars, socketVars, queueVars, lifeVars, userVars
<1>2. CASE Stall(p)
  BY <1>2 DEF Stall, ClientTypes, SocketTypes, QueueTypes, ReqTypes, LifeTypes, UserTypes, Stream,
     clientVars, socketVars, queueVars, lifeVars, userVars
<1>3. CASE Resume(p)
  BY <1>3 DEF Resume, ClientTypes, SocketTypes, QueueTypes, ReqTypes, LifeTypes, UserTypes, Stream,
     clientVars, socketVars, queueVars, lifeVars, userVars
<1>4. CASE Arrive(p)
  <2>1. session' \in [Slots -> Peers \cup {Nobody}] /\ worker' \in [Indices -> WorkerState]
    BY <1>4, States DEF Arrive, Begin, SocketTypes
  <2>2. ClientTypes'
    <3>1. file' \in [Peers -> Slots \cup {None}]
      BY <1>4 DEF Arrive, ClientTypes
    <3>. QED
      BY <1>4, <3>1 DEF Arrive, ClientTypes, Stream
  <2>3. (SocketTypes /\ QueueTypes /\ ReqTypes /\ LifeTypes /\ UserTypes)'
    BY <1>4, <2>1 DEF Arrive, SocketTypes, QueueTypes, ReqTypes, LifeTypes, UserTypes,
       queueVars, lifeVars, userVars
  <2>. QED
    BY <2>2, <2>3
<1>. QED
  BY <1>1, <1>2, <1>3, <1>4

\* A worker that is busy has a client, with and without an index.
LEMMA Busy ==
  ASSUME IInv, NEW c \in Indices, worker[c].pc # "idle"
  PROVE  Client(c) \in Peers /\ (c \in Slots => session[c] \in Peers)
<1>1. app.slot \in Slots
  BY Types DEF IInv, LifeTypes, AppState
<1>2. CASE c = Stray
  BY <1>1, <1>2, Types, States DEF IInv, SocketTypes, TableInv, Client
<1>3. CASE c \in Slots
  BY <1>3, Types, States DEF IInv, SocketTypes, TableInv, Client
<1>. QED
  BY <1>2, <1>3, States

\* A chunk is cut from its client's data.
LEMMA ChunkTyped ==
  ASSUME ClientTypes, NEW p \in Peers, NEW n \in fed[p] + 1 .. Len(Stream(p))
  PROVE  /\ SubSeq(Stream(p), fed[p] + 1, n) \in Seq(Unit)
         /\ Len(SubSeq(Stream(p), fed[p] + 1, n)) = n - fed[p]
         /\ \A j \in 1 .. n - fed[p] :
              SubSeq(Stream(p), fed[p] + 1, n)[j] = Stream(p)[fed[p] + j]
<1>1. Stream(p) \in Seq(Unit) /\ Len(Stream(p)) \in Nat /\ fed[p] \in Nat
  BY StreamFacts DEF ClientTypes
<1>. DEFINE s == Stream(p)
            m == fed[p]
<1>. HIDE DEF s, m
<1>2. \A k \in 1 .. Len(s) : s[k] \in Unit
  BY <1>1, ElementOfSeq DEF s
<1>3. m \in Nat /\ m + 1 \in Int /\ n \in Int /\ m + 1 <= n /\ m + 1 >= 1 /\ n <= Len(s)
  BY <1>1 DEF s, m
<1>4. \A k \in m + 1 .. n : s[k] \in Unit
  BY <1>1, <1>2, <1>3 DEF s, m
<1>5. /\ SubSeq(s, m + 1, n) \in Seq(Unit)
      /\ Len(SubSeq(s, m + 1, n)) = n - (m + 1) + 1
      /\ \A j \in 1 .. n - (m + 1) + 1 : SubSeq(s, m + 1, n)[j] = s[m + 1 + j - 1]
  BY <1>1, <1>3, <1>4, SubSeqProperties DEF s
<1>6. n - (m + 1) + 1 = n - m /\ \A j \in 1 .. n - m : m + 1 + j - 1 = m + j
  BY <1>3
<1>. QED
  BY <1>5, <1>6 DEF s, m

\* What begins a callback, and what ends a client, keeps the types.
LEMMA SocketTypeStep ==
  ASSUME IInv, NEW i \in Slots,
         Read(i) \/ Drop(i) \/ End(i) \/ Exhausted(i)
  PROVE  TypeOK'
<1>. SUFFICES (ClientTypes /\ SocketTypes /\ QueueTypes
                 /\ ReqTypes /\ LifeTypes /\ UserTypes)'
  BY DEF TypeOK, ClientTypes, SocketTypes, QueueTypes, ReqTypes, LifeTypes, UserTypes
<1>. USE Types DEF IInv
<1>1. CASE Read(i)
  <2>. DEFINE p == session[i]
  <2>1. p \in Peers
    BY <1>1 DEF Read, SocketTypes
  <2>2. PICK n \in fed[p] + 1 .. Len(Stream(p)) :
          /\ fed' = [fed EXCEPT ![p] = n]
          /\ Begin(i, "put", SubSeq(Stream(p), fed[p] + 1, n))
    BY <1>1 DEF Read
  <2>3. SubSeq(Stream(p), fed[p] + 1, n) \in Seq(Unit)
    BY <2>1, <2>2, ChunkTyped
  <2>. HIDE DEF p
  <2>4. n \in Nat /\ n <= Len(Stream(p)) /\ Len(Stream(p)) \in Nat
    BY <2>1, <2>2, StreamFacts DEF ClientTypes
  <2>5. script' = script /\ phase' = phase /\ file' = file /\ full' = full /\ got' = got
    BY <1>1 DEF Read
  <2>6. \A q \in Peers : Stream(q)' = Stream(q)
    BY <2>5 DEF Stream
  <2>7. ClientTypes'
    BY <2>1, <2>2, <2>4, <2>5, <2>6 DEF ClientTypes
  <2>8. SocketTypes'
    <3>1. [pc |-> "put", chunk |-> SubSeq(Stream(p), fed[p] + 1, n)] \in WorkerState
      BY <2>3, States
    <3>. QED
      BY <1>1, <2>2, <3>1, States DEF Read, Begin, SocketTypes
  <2>. QED
    BY <1>1, <2>7, <2>8 DEF Read, QueueTypes, ReqTypes, LifeTypes, UserTypes,
       queueVars, lifeVars, userVars
<1>2. CASE End(i)
  BY <1>2, States DEF End, ClientTypes, SocketTypes, QueueTypes, ReqTypes, LifeTypes, UserTypes,
     Stream,
     clientVars, socketVars, queueVars, lifeVars, userVars, Begin
<1>3. CASE Exhausted(i)
  BY <1>3 DEF Exhausted, ClientTypes, SocketTypes, QueueTypes, ReqTypes, LifeTypes, UserTypes,
     Stream,
     clientVars, socketVars, queueVars, lifeVars, userVars
<1>4. CASE Drop(i)
  BY <1>4 DEF Drop, ClientTypes, SocketTypes, QueueTypes, ReqTypes, LifeTypes, UserTypes,
     Stream,
     clientVars, socketVars, queueVars, lifeVars, userVars
<1>. QED
  BY <1>1, <1>2, <1>3, <1>4

\* The callbacks keep the types.
LEMMA WorkerTypeStep ==
  ASSUME IInv, NEW i \in Indices, Callback(i)
  PROVE  TypeOK'
<1>. SUFFICES (ClientTypes /\ SocketTypes /\ QueueTypes
                 /\ ReqTypes /\ LifeTypes /\ UserTypes)'
  BY DEF TypeOK, ClientTypes, SocketTypes, QueueTypes, ReqTypes, LifeTypes, UserTypes
<1>. USE Types DEF IInv
<1>1. CASE InitConnection(i)
  <2>1. Client(i) \in Peers
    BY <1>1, Busy DEF InitConnection
  <2>2. /\ requestQueue' \in Seq(EntryType)
        /\ Len(requestQueue') >= Len(requestQueue)
    <3>1. /\ requestQueue' \in Seq(EntryType)
          /\ requestQueue' = requestQueue \/ Len(requestQueue') = Len(requestQueue) + 1
      BY <1>1, <2>1, InitConnectionQueue
    <3>2. Len(requestQueue) \in Nat
      BY QueueFacts
    <3>. QED
      BY <3>1, <3>2
  <2>3. QueueTypes'
    BY <1>1, <2>2 DEF InitConnection, QueueTypes
  <2>4. ReqTypes'
    <3>1. Len(requestQueue) \in Nat /\ Len(requestQueue') \in Nat
      BY <2>2, QueueFacts, LenProperties
    <3>. QED
      BY <1>1, <2>2, <3>1 DEF InitConnection, ReqTypes, ReqState
  <2>. QED
    BY <1>1, <2>3, <2>4, States DEF InitConnection, ClientTypes, Stream, SocketTypes,
       LifeTypes, UserTypes, clientVars, lifeVars, userVars, Begin
<1>2. CASE ConnectCallback(i)
  BY <1>2, States DEF ConnectCallback, ClientTypes, SocketTypes, QueueTypes, ReqTypes, LifeTypes,
     UserTypes, Stream,
     clientVars, socketVars, queueVars, lifeVars, userVars, Begin, Tell
<1>3. CASE PutToQueue(i)
  <2>1. worker[i].chunk \in Seq(Unit)
    BY <1>3, States DEF SocketTypes
  <2>2. requestQueue' \in Seq(EntryType) /\ Len(requestQueue') = Len(requestQueue)
    BY <1>3, <2>1, PutToQueueQueue
  <2>3. QueueTypes' /\ ReqTypes'
    BY <1>3, <2>2 DEF PutToQueue, QueueTypes, ReqTypes
  <2>. QED
    BY <1>3, <2>3, States DEF PutToQueue, ClientTypes, Stream, SocketTypes,
       LifeTypes, UserTypes, clientVars, lifeVars, userVars, Begin
<1>4. CASE WorkerSignal(i)
  BY <1>4, States DEF WorkerSignal, ClientTypes, SocketTypes, QueueTypes, ReqTypes, LifeTypes,
     UserTypes, Stream,
     clientVars, socketVars, queueVars, lifeVars, userVars, Begin, SendSignal
<1>5. CASE DisconnectCallback(i)
  BY <1>5, States DEF DisconnectCallback, ClientTypes, SocketTypes, QueueTypes, ReqTypes,
     LifeTypes, UserTypes, Stream,
     clientVars, socketVars, queueVars, lifeVars, userVars, Begin, Tell
<1>6. CASE RemoveFromQueue(i)
  <2>1. /\ requestQueue' \in Seq(EntryType)
        /\ Len(requestQueue') \in Nat
        /\ Len(requestQueue') >= Len(requestQueue) - 1
    BY <1>6, RemoveFromQueueQueue, QueueFacts, LenProperties
  <2>2. QueueTypes'
    BY <1>6, <2>1 DEF RemoveFromQueue, QueueTypes
  <2>3. req' = req /\ req.pos = 1
    BY <1>6 DEF RemoveFromQueue, ReqInv
  <2>4. ReqTypes'
    BY <2>1, <2>3 DEF ReqTypes
  <2>. QED
    BY <1>6, <2>2, <2>4, States DEF RemoveFromQueue, ClientTypes, Stream, SocketTypes,
       LifeTypes, UserTypes, clientVars, lifeVars, userVars, Begin
<1>. QED
  BY <1>1, <1>2, <1>3, <1>4, <1>5, <1>6 DEF Callback

\* The client that an answer reaches has one more in the end.
LEMMA WriteTyped ==
  ASSUME ClientTypes, NEW f, NEW x \in Answer, NEW sent, Send(f, x, sent)
  PROVE  got' \in [Peers -> Seq(Answer)]
<1>. DEFINE there == {p \in OnFile(f) : phase[p] = "open"}
<1>1. got' = [p \in Peers |-> IF p \in there THEN Append(got[p], x) ELSE got[p]]
  BY DEF Send
<1>2. ASSUME NEW p \in Peers
      PROVE  got[p] \in Seq(Answer) /\ Append(got[p], x) \in Seq(Answer)
  BY AppendProperties DEF ClientTypes
<1>. HIDE DEF there
<1>. QED
  BY <1>1, <1>2

\* The entry that the request thread serves.
LEMMA Served ==
  ASSUME QueueTypes, ReqTypes, req.pos <= Len(requestQueue)
  PROVE  /\ req.pos \in 1 .. Len(requestQueue)
         /\ Entry \in EntryType
         /\ Entry.connID \in Indices /\ Entry.remote \in Peers
         /\ Entry.list \in Seq(MessageRef)
         /\ Entry.handshake \in BOOLEAN /\ Entry.ready \in BOOLEAN
<1>1. req.pos \in 1 .. Len(requestQueue)
  BY QueueFacts DEF ReqTypes, ReqState
<1>. QED
  BY <1>1, QueueFacts DEF Entry

\* Steps of the request thread that only move it.
LEMMA ReqMoves ==
  ASSUME ReqTypes, QueueTypes
  PROVE  /\ \A pc \in {"off", "check", "look", "sleep", "parse", "serve", "reply", "exited"} :
              /\ [req EXCEPT !.pc = pc] \in ReqState
              /\ [req EXCEPT !.pc = pc].pos = req.pos
              /\ [req EXCEPT !.pc = pc].pc = pc
              /\ [pc |-> pc, pos |-> 1] \in ReqState
         /\ [req EXCEPT !.pc = "serve", !.pos = @ + 1] \in ReqState
         /\ [req EXCEPT !.pc = "serve", !.pos = @ + 1].pos = req.pos + 1
         /\ [req EXCEPT !.pc = "serve", !.pos = @ + 1].pc = "serve"
<1>1. req \in ReqState /\ req.pos + 1 \in Nat \ {0}
  BY DEF ReqTypes, ReqState
<1>2. ASSUME NEW pc \in {"off", "check", "look", "sleep", "parse", "serve", "reply", "exited"}
      PROVE  /\ [req EXCEPT !.pc = pc] \in ReqState
             /\ [req EXCEPT !.pc = pc].pos = req.pos
             /\ [req EXCEPT !.pc = pc].pc = pc
             /\ [pc |-> pc, pos |-> 1] \in ReqState
  BY <1>1 DEF ReqState
<1>3. /\ [req EXCEPT !.pc = "serve", !.pos = @ + 1] \in ReqState
      /\ [req EXCEPT !.pc = "serve", !.pos = @ + 1].pos = req.pos + 1
      /\ [req EXCEPT !.pc = "serve", !.pos = @ + 1].pc = "serve"
  BY <1>1 DEF ReqState
<1>. QED
  BY <1>2, <1>3

\* Dispatched keeps the types.
LEMMA DispatchedTyped ==
  ASSUME QueueTypes, ReqTypes, req.pos <= Len(requestQueue), Entry.list # << >>,
         Dispatched
  PROVE  /\ requestQueue' \in Seq(EntryType)
         /\ ReqTypes'
<1>1. req.pos \in 1 .. Len(requestQueue) /\ Len(requestQueue) \in Nat
  BY Served, QueueFacts
<1>2. requestQueue' \in Seq(EntryType) /\ Len(requestQueue') = Len(requestQueue)
  BY <1>1, DispatchedQueue
<1>3. req' \in ReqState /\ req'.pos <= req.pos + 1
  <2>1. req' = [req EXCEPT !.pc = "serve", !.pos = @ + 1] \/ req' = [req EXCEPT !.pc = "serve"]
    BY DEF Dispatched, NextEntry
  <2>2. req.pos \in Nat /\ req.pos + 1 \in Nat \ {0}
    BY <1>1
  <2>3. req \in ReqState
    BY DEF ReqTypes
  <2>4. CASE req' = [req EXCEPT !.pc = "serve", !.pos = @ + 1]
    <3>1. req' \in ReqState /\ req'.pos = req.pos + 1
      BY <2>4, ReqMoves, Zenon
    <3>. QED
      BY <2>2, <3>1
  <2>5. CASE req' = [req EXCEPT !.pc = "serve"]
    BY <2>2, <2>3, <2>5 DEF ReqState
  <2>. QED
    BY <2>1, <2>4, <2>5
<1>. QED
  BY <1>1, <1>2, <1>3 DEF ReqTypes, ReqState

\* The request thread keeps the types.
LEMMA RequestTypeStep ==
  ASSUME IInv, RequestThread
  PROVE  TypeOK'
<1>. SUFFICES (ClientTypes /\ SocketTypes /\ QueueTypes
                 /\ ReqTypes /\ LifeTypes /\ UserTypes)'
  BY DEF TypeOK, ClientTypes, SocketTypes, QueueTypes, ReqTypes, LifeTypes, UserTypes
<1>. USE Types DEF IInv
<1>1. CASE ReqCheck
  <2>1. req' \in ReqState /\ req'.pos = req.pos /\ UNCHANGED requestQueue
    BY <1>1, ReqMoves DEF ReqCheck, queueVars
  <2>2. ReqTypes'
    BY <2>1 DEF ReqTypes
  <2>. QED
    BY <1>1, <2>2 DEF ReqCheck, QueueTypes, queueVars, ClientTypes, Stream, SocketTypes, LifeTypes,
       UserTypes, clientVars, socketVars, lifeVars, userVars
<1>2. CASE ReqLook
  <2>1. req' \in ReqState /\ req'.pos = req.pos /\ UNCHANGED requestQueue
    BY <1>2, ReqMoves DEF ReqLook, queueVars
  <2>2. ReqTypes'
    BY <2>1 DEF ReqTypes
  <2>. QED
    BY <1>2, <2>2 DEF ReqLook, QueueTypes, queueVars, ClientTypes, Stream, SocketTypes, LifeTypes,
       UserTypes, clientVars, socketVars, lifeVars, userVars
<1>3. CASE WaitForSignal
  BY <1>3, ReqMoves DEF WaitForSignal, ClientTypes, SocketTypes, QueueTypes, ReqTypes, LifeTypes,
     UserTypes, Stream,
     clientVars, socketVars, queueVars, lifeVars, userVars
<1>4. CASE ReqParse
  <2>1. requestQueue' \in Seq(EntryType) /\ Len(requestQueue') = Len(requestQueue)
    BY <1>4, ParseQueue
  <2>2. req' \in ReqState /\ req'.pos <= Len(requestQueue) + 1
    BY <1>4, ReqMoves, QueueFacts DEF ReqParse, ReqTypes
  <2>. QED
    BY <1>4, <2>1, <2>2 DEF ReqParse, QueueTypes, ReqTypes, ClientTypes, Stream, SocketTypes,
       LifeTypes, UserTypes, clientVars, socketVars, lifeVars, userVars
<1>5. CASE ServeEnd
  <2>1. req' \in ReqState /\ req'.pos <= Len(requestQueue) + 1
    BY <1>5, ReqMoves, QueueFacts DEF ServeEnd
  <2>. QED
    BY <1>5, <2>1 DEF ServeEnd, QueueTypes, queueVars, ReqTypes, ClientTypes, Stream, SocketTypes,
       LifeTypes, UserTypes, clientVars, socketVars, lifeVars, userVars
<1>6. CASE Skip
  <2>1. req' \in ReqState /\ req'.pos <= Len(requestQueue) + 1
    <3>1. req.pos \in 1 .. Len(requestQueue) /\ Len(requestQueue) \in Nat
      BY <1>6, Served, QueueFacts DEF Skip
    <3>. QED
      BY <1>6, <3>1, ReqMoves DEF Skip, NextEntry
  <2>. QED
    BY <1>6, <2>1 DEF Skip, QueueTypes, queueVars, ReqTypes, ClientTypes, Stream, SocketTypes,
       LifeTypes, UserTypes, clientVars, socketVars, lifeVars, userVars
<1>7. CASE ServeRequest
  <2>1. /\ req.pos \in 1 .. Len(requestQueue) /\ Len(requestQueue) \in Nat
        /\ Entry.remote \in Peers /\ Entry.ready
    BY <1>7, Served, QueueFacts DEF ServeRequest
  <2>2. requestQueue' \in Seq(EntryType) /\ Len(requestQueue') = Len(requestQueue)
    BY <1>7, ServeRequestQueue
  <2>3. req' \in ReqState /\ req'.pos <= Len(requestQueue) + 1
    BY <1>7, <2>1, ReqMoves DEF ServeRequest, NextEntry
  <2>4. 1 \in MessageNumbers
    BY <2>1 DEF ReqInv, Entry
  <2>5. [peer |-> Entry.remote, msg |-> 1] \in Answer
    BY <2>1, <2>4 DEF Answer, MessageRef
  <2>6. PICK sent \in BOOLEAN :
          Write(Entry.connID, [peer |-> Entry.remote, msg |-> 1], sent)
    BY <1>7 DEF ServeRequest
  <2>7. got' \in [Peers -> Seq(Answer)]
    BY <2>5, <2>6, WriteTyped DEF Write
  <2>. QED
    BY <1>7, <2>2, <2>3, <2>7 DEF ServeRequest, QueueTypes, ReqTypes, ClientTypes, Stream,
       SocketTypes,
       LifeTypes, UserTypes, clientVars, socketVars, lifeVars, userVars
<1>8. CASE ServeMessage
  <2>. DEFINE m == Head(Entry.list)
  <2>1. /\ req.pos <= Len(requestQueue) /\ Entry.list # << >>
        /\ Entry.list \in Seq(MessageRef)
    BY <1>8, Served DEF ServeMessage
  <2>2. m \in MessageRef
    BY <2>1, HeadTailProperties
  <2>3. m.peer \in Peers /\ m.msg \in MessageNumbers
    BY <2>2 DEF MessageRef
  <2>4. handled' \in [Peers -> Seq(MessageNumbers)]
    <3>1. handled' = handled \/ handled' = [handled EXCEPT ![m.peer] = Append(handled[m.peer], m.msg)]
      BY <1>8 DEF ServeMessage
    <3>2. handled \in [Peers -> Seq(MessageNumbers)]
      BY DEF UserTypes
    <3>. HIDE DEF m
    <3>3. Append(handled[m.peer], m.msg) \in Seq(MessageNumbers)
      BY <2>3, <3>2, AppendProperties
    <3>. QED
      BY <2>3, <3>1, <3>2, <3>3
  <2>5. requestQueue' \in Seq(EntryType) /\ ReqTypes'
    <3>1. CASE Dispatched
      BY <2>1, <3>1, DispatchedTyped
    <3>2. CASE req' = [req EXCEPT !.pc = "reply"] /\ UNCHANGED requestQueue
      BY <3>2, ReqMoves DEF ReqTypes, QueueTypes
    <3>. QED
      BY <1>8, <3>1, <3>2 DEF ServeMessage
  <2>. QED
    BY <1>8, <2>4, <2>5 DEF ServeMessage, QueueTypes, ClientTypes, Stream, SocketTypes,
       LifeTypes, UserTypes, clientVars, socketVars, lifeVars, userVars
<1>9. CASE Reply
  <2>1. /\ req.pos <= Len(requestQueue) /\ Entry.list # << >>
    BY <1>9 DEF Reply, ReqInv
  <2>2. Entry.list \in Seq(MessageRef)
    BY <2>1, Served
  <2>3. Head(Entry.list) \in Answer
    <3>1. Head(Entry.list) \in MessageRef
      BY <2>1, <2>2, HeadTailProperties
    <3>. QED
      BY <3>1 DEF Answer, MessageRef
  <2>4. PICK sent \in BOOLEAN : Write(Entry.connID, Head(Entry.list), sent)
    BY <1>9 DEF Reply
  <2>5. got' \in [Peers -> Seq(Answer)]
    BY <2>3, <2>4, WriteTyped DEF Write
  <2>6. requestQueue' \in Seq(EntryType) /\ ReqTypes'
    BY <1>9, <2>1, DispatchedTyped DEF Reply
  <2>. QED
    BY <1>9, <2>5, <2>6 DEF Reply, QueueTypes, ClientTypes, Stream, SocketTypes,
       LifeTypes, UserTypes, clientVars, socketVars, lifeVars, userVars
<1>. QED
  BY <1>1, <1>2, <1>3, <1>4, <1>5, <1>6, <1>7, <1>8, <1>9 DEF RequestThread, ReqSleepless

\* The task that the worker of a freed connection may still take.
LEMMA LastTaskFacts ==
  ASSUME SocketTypes, NEW i \in Slots, LastTask(i)
  PROVE  LET p == session[i] IN
         \/ worker' = worker
         \/ /\ worker[i].pc = "init"
            /\ worker' = [worker EXCEPT ![i] = [pc |-> "idle", chunk |-> << >>]]
         \/ \E pc \in {"init", "put", "bye"} : \E chunk :
              /\ worker' = [worker EXCEPT ![i] = [pc |-> "idle", chunk |-> << >>],
                                          ![Stray] = [pc |-> pc, chunk |-> chunk]]
              /\ \/ pc = "init" /\ worker[i].pc = "init" /\ chunk = << >>
                 \/ /\ pc = "put" /\ worker[i].pc = "idle" /\ p \in Peers
                    /\ \E n \in fed[p] + 1 .. Len(Stream(p)) :
                         chunk = SubSeq(Stream(p), fed[p] + 1, n)
                 \/ /\ pc = "bye" /\ worker[i].pc = "idle" /\ p \in Peers
                    /\ phase[p] = "shut" /\ chunk = << >>
<1>. DEFINE p == session[i]
            takes(pc, chunk) ==
              worker' = [worker EXCEPT ![i] = [pc |-> "idle", chunk |-> << >>],
                                       ![Stray] = [pc |-> pc, chunk |-> chunk]]
<1>1. \/ UNCHANGED worker
      \/ worker[i].pc = "init" /\ takes("init", << >>)
      \/ worker[i].pc = "init" /\ Begin(i, "idle", << >>)
      \/ /\ worker[i].pc = "idle" /\ p # Nobody
         /\ \E n \in fed[p] + 1 .. Len(Stream(p)) :
              takes("put", SubSeq(Stream(p), fed[p] + 1, n))
      \/ worker[i].pc = "idle" /\ p # Nobody /\ phase[p] = "shut" /\ takes("bye", << >>)
  BY DEF LastTask
<1>2. p # Nobody => p \in Peers
  BY DEF SocketTypes
<1>. QED
  BY <1>1, <1>2 DEF Begin

\* It has the form of a task.
LEMMA LastTaskTyped ==
  ASSUME ClientTypes, SocketTypes, NEW i \in Slots, LastTask(i)
  PROVE  worker' \in [Indices -> WorkerState]
<1>1. /\ worker \in [Indices -> WorkerState]
      /\ [pc |-> "idle", chunk |-> << >>] \in WorkerState
  BY States DEF SocketTypes
<1>2. CASE worker' = worker
  BY <1>1, <1>2
<1>3. CASE worker' = [worker EXCEPT ![i] = [pc |-> "idle", chunk |-> << >>]]
  BY <1>1, <1>3
<1>4. ASSUME NEW pc, NEW chunk, [pc |-> pc, chunk |-> chunk] \in WorkerState,
             worker' = [worker EXCEPT ![i] = [pc |-> "idle", chunk |-> << >>],
                                      ![Stray] = [pc |-> pc, chunk |-> chunk]]
      PROVE  worker' \in [Indices -> WorkerState]
  BY <1>1, <1>4
<1>5. \A n \in fed[session[i]] + 1 .. Len(Stream(session[i])) :
        session[i] \in Peers =>
          [pc |-> "put", chunk |-> SubSeq(Stream(session[i]), fed[session[i]] + 1, n)]
            \in WorkerState
  BY ChunkTyped, States
<1>6. \A pc \in {"init", "bye"} : [pc |-> pc, chunk |-> << >>] \in WorkerState
  BY States
<1>. QED
  BY <1>2, <1>3, <1>4, <1>5, <1>6, LastTaskFacts

\* The user's calls keep the types.
LEMMA UserTypeStep ==
  ASSUME IInv,
         \/ \E i \in Slots : SendResponse(i)
         \/ SendPush
         \/ OnMessage \/ InitServer \/ Run \/ CloseWait \/ CloseNoWait \/ WaitFor
         \/ Destroy \/ Closing
  PROVE  TypeOK'
<1>. SUFFICES (ClientTypes /\ SocketTypes /\ QueueTypes
                 /\ ReqTypes /\ LifeTypes /\ UserTypes)'
  BY DEF TypeOK, ClientTypes, SocketTypes, QueueTypes, ReqTypes, LifeTypes, UserTypes
<1>. USE Types DEF IInv
<1>0. /\ 0 \in Slots
      /\ \A i \in Slots : i \in Nat /\ i < ClientCount
      /\ MaxRuns \in Nat /\ MaxPushes \in Nat /\ ClientCount \in Nat
      /\ runs \in Nat /\ pushes \in Nat
  BY ServerAssumption DEF Slots, LifeTypes
<1>1. ASSUME NEW i \in Slots, SendResponse(i)
      PROVE  TypeOK'
  <2>1. PICK k \in Entries(i) : push' = [file |-> Fd(i), peer |-> requestQueue[k].remote]
    BY <1>1 DEF SendResponse
  <2>2. requestQueue[k].remote \in Peers /\ Fd(i) \in Slots \cup {None}
    BY <2>1, QueueFacts, FdTyped DEF Entries
  <2>3. push' \in [file : Slots \cup {None}, peer : Peers \cup {Nobody}]
    BY <2>1, <2>2
  <2>4. pushes' \in 0 .. MaxPushes
    BY <1>0, <1>1 DEF SendResponse
  <2>5. (ClientTypes /\ SocketTypes /\ QueueTypes /\ ReqTypes /\ LifeTypes /\ UserTypes)'
    BY <1>1, <2>3, <2>4 DEF SendResponse, ClientTypes, Stream, SocketTypes, QueueTypes, ReqTypes,
       LifeTypes, UserTypes, clientVars, socketVars, queueVars, userVars
  <2>. QED
    BY <2>5 DEF TypeOK, ClientTypes, SocketTypes, QueueTypes, ReqTypes, LifeTypes, UserTypes
<1>16. CASE SendPush
  <2>1. push.peer \in Peers
    BY <1>16 DEF SendPush, LifeTypes
  <2>2. [peer |-> push.peer, msg |-> 0] \in Answer
    BY <2>1 DEF Answer
  <2>3. got' \in [Peers -> Seq(Answer)]
    BY <1>16, <2>2, WriteTyped DEF SendPush
  <2>. QED
    BY <1>16, <2>3 DEF SendPush, ClientTypes, Stream, SocketTypes, QueueTypes, ReqTypes,
       LifeTypes, UserTypes, socketVars, queueVars, userVars
<1>2. CASE OnMessage
  <2>1. (ClientTypes /\ SocketTypes /\ UserTypes)'
    BY <1>2 DEF OnMessage, ClientTypes, Stream, SocketTypes, UserTypes, clientVars, socketVars,
       userVars
  <2>2. (QueueTypes /\ ReqTypes)'
    BY <1>2 DEF OnMessage, QueueTypes, ReqTypes
  <2>3. LifeTypes'
    BY <1>2 DEF OnMessage, LifeTypes, lifeVars
  <2>. QED
    BY <2>1, <2>2, <2>3
<1>3. CASE InitServer
  <2>1. req' \in ReqState /\ req'.pos <= Len(requestQueue) + 1
    <3>1. CASE reqRunning
      BY <1>3, <3>1 DEF InitServer, ReqTypes
    <3>2. CASE ~ reqRunning
      <4>1. req' = [pc |-> "check", pos |-> 1]
        BY <1>3, <3>2 DEF InitServer
      <4>. QED
        BY <4>1, ReqMoves, QueueFacts
    <3>. QED
      BY <3>1, <3>2
  <2>2. runs' = runs + 1 /\ runs < MaxRuns
    BY <1>3 DEF InitServer
  <2>3. runs' \in 0 .. MaxRuns
    BY <1>0, <2>2
  <2>4. reqRunning' \in BOOLEAN
    BY <1>3 DEF InitServer, LifeTypes
  <2>. QED
    BY <1>3, <2>1, <2>3, <2>4 DEF InitServer, ClientTypes, Stream, SocketTypes, QueueTypes,
       ReqTypes,
       LifeTypes, UserTypes, clientVars, queueVars, userVars
<1>4. CASE Run
  BY <1>4, <1>0 DEF Run, ClientTypes, SocketTypes, QueueTypes, ReqTypes, LifeTypes, UserTypes,
     Stream,
     clientVars, socketVars, queueVars, lifeVars, userVars, AppState
<1>5. CASE CloseWait
  BY <1>5, <1>0 DEF CloseWait, ClientTypes, SocketTypes, QueueTypes, ReqTypes, LifeTypes,
     UserTypes, Stream,
     clientVars, socketVars, queueVars, lifeVars, userVars, CloseAndWait, Stopped, Polling, AppState
<1>6. CASE CloseNoWait
  BY <1>6, <1>0 DEF CloseNoWait, ClientTypes, SocketTypes, QueueTypes, ReqTypes, LifeTypes,
     UserTypes, Stream,
     clientVars, socketVars, queueVars, lifeVars, userVars, Stopped, Polling, AppState
<1>7. CASE WaitFor
  BY <1>7, <1>0 DEF WaitFor, ClientTypes, SocketTypes, QueueTypes, ReqTypes, LifeTypes,
     UserTypes, Stream,
     clientVars, socketVars, queueVars, lifeVars, userVars, AppState
<1>8. CASE Destroy
  <2>1. app \in AppState
    BY DEF LifeTypes
  <2>2. app' \in AppState
    <3>1. CASE CloseAndWait(TRUE)
      BY <1>0, <3>1 DEF CloseAndWait, AppState
    <3>2. CASE app' = [app EXCEPT !.pc = "unwind", !.dying = TRUE]
      BY <2>1, <3>2 DEF AppState
    <3>. QED
      BY <1>8, <3>1, <3>2 DEF Destroy
  <2>3. socket' \in {"none", "ready", "running", "stopping", "closed"}
    BY <1>8 DEF Destroy, CloseAndWait, Stopped, Polling, SocketTypes
  <2>. QED
    BY <1>8, <2>2, <2>3 DEF Destroy, ClientTypes, Stream, SocketTypes, QueueTypes, ReqTypes,
       LifeTypes, UserTypes, clientVars, queueVars, userVars
<1>9. CASE Cut
  <2>1. app.slot \in Slots /\ app' \in AppState
    BY <1>9 DEF Cut, LifeTypes, AppState
  <2>2. worker' \in [Indices -> WorkerState]
    BY <1>9, <2>1, LastTaskTyped DEF Cut
  <2>3. phase' \in [Peers -> {"new", "open", "closed", "shut", "cut"}]
    BY <1>9 DEF Cut, ClientTypes
  <2>. QED
    BY <1>9, <2>1, <2>2, <2>3 DEF Cut, ClientTypes, SocketTypes, QueueTypes, ReqTypes, LifeTypes,
       UserTypes, Stream, queueVars, userVars
<1>10. CASE Reap
  <2>1. (ClientTypes /\ QueueTypes /\ ReqTypes /\ UserTypes)'
    BY <1>10 DEF Reap, ClientTypes, Stream, QueueTypes, ReqTypes, UserTypes, clientVars, queueVars,
       userVars
  <2>2. SocketTypes'
    BY <1>10 DEF Reap, SocketTypes
  <2>3. app' \in AppState
    BY <1>0, <1>10 DEF Reap, LifeTypes, AppState
  <2>4. LifeTypes'
    BY <1>10, <2>3 DEF Reap, LifeTypes
  <2>. QED
    BY <2>1, <2>2, <2>4
<1>11. CASE StopNoWait
  BY <1>11, <1>0 DEF StopNoWait, ClientTypes, SocketTypes, QueueTypes, ReqTypes, LifeTypes,
     UserTypes, Stream,
     clientVars, socketVars, queueVars, lifeVars, userVars, AppState
<1>12. CASE StopSignal
  BY <1>12, <1>0 DEF StopSignal, ClientTypes, SocketTypes, QueueTypes, ReqTypes, LifeTypes,
     UserTypes, Stream,
     clientVars, socketVars, queueVars, lifeVars, userVars, SendSignal, AppState
<1>13. CASE StopJoin
  BY <1>13, <1>0 DEF StopJoin, ClientTypes, SocketTypes, QueueTypes, ReqTypes, LifeTypes,
     UserTypes, Stream,
     clientVars, socketVars, queueVars, lifeVars, userVars, AppState
<1>14. CASE Unwind
  BY <1>14, <1>0 DEF Unwind, ClientTypes, SocketTypes, QueueTypes, ReqTypes, LifeTypes,
     UserTypes, Stream,
     clientVars, socketVars, queueVars, lifeVars, userVars, AppState
<1>15. CASE Rejoin
  BY <1>15, <1>0 DEF Rejoin, ClientTypes, SocketTypes, QueueTypes, ReqTypes, LifeTypes,
     UserTypes, Stream,
     clientVars, socketVars, queueVars, lifeVars, userVars, AppState
<1>. QED
  BY <1>1, <1>2, <1>3, <1>4, <1>5, <1>6, <1>7, <1>8, <1>9, <1>10, <1>11, <1>12, <1>13, <1>14,
     <1>15, <1>16 DEF Closing,
     TypeOK, ClientTypes, SocketTypes, QueueTypes, ReqTypes, LifeTypes, UserTypes

-----------------------------------------------------------------------------
(* The order of running, closing and destroying.                           *)

\* Every step keeps it.
LEMMA LifeStep ==
  ASSUME IInv, Next
  PROVE  LifeInv'
<1>. USE Types DEF IInv
<1>0. app \in AppState /\ req \in ReqState
  BY DEF LifeTypes, ReqTypes
<1>1. ASSUME NEW p \in Peers, Hangup(p) \/ Stall(p) \/ Resume(p) \/ Arrive(p)
      PROVE  LifeInv'
  BY <1>1 DEF LifeInv, Hangup, Stall, Resume, Arrive, socketVars, lifeVars
<1>2. ASSUME \/ \E i \in Slots : Read(i) \/ Drop(i) \/ End(i) \/ SendResponse(i)
             \/ \E c \in Indices : Callback(c)
             \/ SendPush
      PROVE  LifeInv'
  <2>1. UNCHANGED <<socket, running, app, req>>
    BY <1>2 DEF Callback, Read, Drop, End, InitConnection, ConnectCallback, PutToQueue,
       WorkerSignal, DisconnectCallback, RemoveFromQueue, SendResponse, SendPush, socketVars,
       lifeVars
  <2>. QED
    BY <2>1 DEF LifeInv
<1>3. ASSUME NEW i \in Slots, Exhausted(i)
      PROVE  LifeInv'
  BY <1>3, <1>0 DEF LifeInv, Exhausted, PollingThread, lifeVars
<1>4. CASE RequestThread
  <2>1. req.pc \notin {"off", "exited"}
    BY <1>4 DEF RequestThread, ReqSleepless, ReqCheck, ReqLook, WaitForSignal, ReqParse,
       ServeEnd, Skip, ServeRequest, ServeMessage, Reply
  <2>2. UNCHANGED <<socket, running, app>>
    BY <1>4 DEF RequestThread, ReqSleepless, ReqCheck, ReqLook, WaitForSignal, ReqParse,
       ServeEnd, Skip, ServeRequest, ServeMessage, Reply,
       socketVars, lifeVars
  <2>. QED
    BY <2>1, <2>2 DEF LifeInv
<1>5. CASE OnMessage
  BY <1>0, <1>5 DEF OnMessage, LifeInv, AppState, ReqState, clientVars, socketVars, queueVars,
     lifeVars, userVars
<1>6. CASE InitServer
  BY <1>0, <1>6 DEF InitServer, LifeInv, AppState, ReqState, clientVars, socketVars, queueVars,
     lifeVars, userVars
<1>7. CASE Run
  BY <1>0, <1>7 DEF Run, LifeInv, AppState, ReqState, clientVars, socketVars, queueVars,
     lifeVars, userVars
<1>8. CASE CloseWait
  BY <1>0, <1>8 DEF CloseWait, LifeInv, AppState, ReqState, clientVars, socketVars, queueVars,
     lifeVars, userVars, CloseAndWait, Stopped, Polling
<1>9. CASE CloseNoWait
  BY <1>0, <1>9 DEF CloseNoWait, LifeInv, AppState, ReqState, clientVars, socketVars, queueVars,
     lifeVars, userVars, Stopped, Polling
<1>10. CASE WaitFor
  BY <1>0, <1>10 DEF WaitFor, LifeInv, AppState, ReqState, clientVars, socketVars, queueVars,
     lifeVars, userVars
<1>11. CASE Destroy
  <2>1. CASE running /\ CloseAndWait(TRUE)
    BY <1>0, <1>11, <2>1 DEF Destroy, LifeInv, CloseAndWait, Stopped, Polling
  <2>2. CASE /\ ~ running /\ socket # "stopping" /\ UNCHANGED socket
             /\ app' = [app EXCEPT !.pc = "unwind", !.dying = TRUE]
    <3>1. app'.pc = "unwind" /\ app'.dying
      BY <1>0, <2>2 DEF AppState
    <3>. QED
      BY <1>11, <2>2, <3>1 DEF Destroy, LifeInv
  <2>. QED
    BY <1>11, <2>1, <2>2 DEF Destroy, CloseAndWait
<1>12. CASE Cut
  BY <1>0, <1>12 DEF Cut, LifeInv, AppState, ReqState, clientVars, socketVars, queueVars,
     lifeVars, userVars
<1>13. CASE Reap
  BY <1>0, <1>13 DEF Reap, LifeInv, AppState, ReqState, clientVars, socketVars, queueVars,
     lifeVars, userVars
<1>14. CASE StopNoWait
  BY <1>0, <1>14 DEF StopNoWait, LifeInv, AppState, ReqState, clientVars, socketVars, queueVars,
     lifeVars, userVars
<1>15. CASE StopSignal
  BY <1>0, <1>15 DEF StopSignal, LifeInv, AppState, ReqState, clientVars, socketVars, queueVars,
     lifeVars, userVars
<1>16. CASE StopJoin
  BY <1>0, <1>16 DEF StopJoin, LifeInv, AppState, ReqState, clientVars, socketVars, queueVars,
     lifeVars, userVars
<1>17. CASE Unwind
  BY <1>0, <1>17 DEF Unwind, LifeInv, AppState, ReqState, clientVars, socketVars, queueVars,
     lifeVars, userVars
<1>18. CASE Rejoin
  BY <1>0, <1>18 DEF Rejoin, LifeInv, AppState, ReqState, clientVars, socketVars, queueVars,
     lifeVars, userVars
<1>. QED
  BY <1>1, <1>2, <1>3, <1>4, <1>5, <1>6, <1>7, <1>8, <1>9, <1>10, <1>11, <1>12, <1>13, <1>14,
     <1>15, <1>16, <1>17, <1>18 DEF Next, Closing

-----------------------------------------------------------------------------
(* Which connection is whose.                                              *)

\* The steps that leave the table, the phases and the shutdown alone.
LEMMA TableKept ==
  ASSUME TableInv, UNCHANGED <<phase, session, worker, socket, app>>
  PROVE  TableInv'
BY DEF TableInv

\* A worker that goes on, or begins for a client, keeps the table.
LEMMA WorkerMoves ==
  ASSUME IInv, NEW i \in Slots, session[i] # Nobody, NEW pc, NEW chunk, Begin(i, pc, chunk),
         pc \in {"bye", "remove"} => phase[session[i]] # "open",
         worker[i].pc # "idle" \/ ~ Freed(i),
         UNCHANGED <<phase, session, socket, app>>
  PROVE  TableInv'
<1>1. \A j \in Indices : j # i => worker'[j] = worker[j]
  BY Types, States DEF IInv, Begin, SocketTypes
<1>2. worker'[i].pc = pc
  BY Types, States DEF IInv, Begin, SocketTypes
<1>3. \A j \in Slots : worker'[j].pc # "idle" => session'[j] # Nobody
  BY <1>1, States DEF IInv, TableInv
<1>4. \A j \in Slots :
        worker'[j].pc \in {"bye", "remove"} => phase'[session'[j]] # "open"
  BY <1>1, <1>2, States DEF IInv, TableInv
<1>5. worker'[Stray].pc # "idle" =>
        app'.pc = "reap" /\ session'[app'.slot] # Nobody /\ worker'[app'.slot].pc = "idle"
  <2>1. worker'[Stray] = worker[Stray]
    BY <1>1, States
  <2>2. app.slot \in Slots
    BY Types DEF IInv, LifeTypes, AppState
  <2>3. worker[Stray].pc # "idle" => app.slot # i
    BY DEF IInv, TableInv, Freed
  <2>. QED
    BY <1>1, <2>1, <2>2, <2>3, States DEF IInv, TableInv
<1>. QED
  BY <1>3, <1>4, <1>5 DEF IInv, TableInv

\* So does a callback without an index that goes on.
LEMMA StrayMoves ==
  ASSUME IInv, worker[Stray].pc # "idle", NEW pc, NEW chunk, Begin(Stray, pc, chunk),
         UNCHANGED <<phase, session, socket, app>>
  PROVE  TableInv'
<1>1. \A j \in Slots : worker'[j] = worker[j]
  BY Types, States DEF IInv, Begin, SocketTypes
<1>2. app.slot \in Slots
  BY Types DEF IInv, LifeTypes, AppState
<1>. QED
  BY <1>1, <1>2 DEF IInv, TableInv

\* Every step keeps it.
LEMMA TableStep ==
  ASSUME IInv, Next
  PROVE  TableInv'
<1>. USE Types DEF IInv
<1>0. /\ app \in AppState /\ app.slot \in Slots
      /\ 0 \in Slots /\ \A i \in Slots : i \in Nat /\ 0 <= i
  BY States DEF LifeTypes, Slots, AppState
<1>1. ASSUME NEW p \in Peers, Hangup(p)
      PROVE  TableInv'
  BY <1>1 DEF Hangup, TableInv, ClientTypes, socketVars, lifeVars
<1>2. ASSUME NEW p \in Peers, Stall(p) \/ Resume(p)
      PROVE  TableInv'
  BY <1>2, TableKept DEF Stall, Resume, socketVars, lifeVars
<1>3. ASSUME NEW p \in Peers, Arrive(p)
      PROVE  TableInv'
  <2>1. PICK i \in Slots :
          /\ session[i] = Nobody /\ worker[i].pc = "idle"
          /\ session' = [session EXCEPT ![i] = p]
          /\ Begin(i, "init", << >>)
    BY <1>3 DEF Arrive
  <2>2. /\ PollingThread /\ phase[p] = "new" /\ p # Nobody
        /\ phase' = [phase EXCEPT ![p] = "open"] /\ socket' = socket /\ app' = app
    BY <1>3, ServerAssumption DEF Arrive, lifeVars
  <2>3. app.pc \notin {"cut", "reap"} /\ socket \in {"running", "stopping"}
    BY <2>2 DEF PollingThread
  <2>4. \A j \in Slots : session[j] # p
    BY <2>2 DEF TableInv
  <2>5. /\ session'[i] = p /\ phase'[p] = "open"
        /\ \A j \in Slots : j # i => session'[j] = session[j] /\ worker'[j] = worker[j]
        /\ \A q \in Peers : q # p => phase'[q] = phase[q]
        /\ worker'[Stray] = worker[Stray]
    BY <2>1, <2>2, States DEF SocketTypes, ClientTypes, Begin
  <2>6. \A j \in Slots : worker'[j].pc # "idle" => session'[j] # Nobody
    BY <2>2, <2>5 DEF TableInv
  <2>7. ASSUME NEW q \in Peers, phase'[q] = "open"
        PROVE  \E j \in Slots : session'[j] = q
    <3>1. CASE q = p
      BY <2>5, <3>1
    <3>2. CASE q # p
      <4>1. PICK j \in Slots : session[j] = q
        BY <2>5, <2>7, <3>2 DEF TableInv
      <4>2. j # i
        BY <2>1, <4>1, ServerAssumption
      <4>. QED
        BY <2>5, <4>1, <4>2
    <3>. QED
      BY <3>1, <3>2
  <2>8. \A j \in Slots : session'[j] # Nobody => phase'[session'[j]] # "new"
    BY <2>4, <2>5 DEF TableInv, SocketTypes
  <2>9. \A j, k \in Slots : session'[j] = session'[k] /\ session'[j] # Nobody => j = k
    BY <2>4, <2>5 DEF TableInv
  <2>10. \A j \in Slots :
           worker'[j].pc \in {"bye", "remove"} => phase'[session'[j]] # "open"
    <3>1. worker'[i].pc = "init"
      BY <2>1, States DEF Begin, SocketTypes
    <3>2. \A j \in Slots : j # i /\ worker[j].pc # "idle" => session[j] \in Peers
      BY Busy, States
    <3>. QED
      BY <2>4, <2>5, <3>1, <3>2 DEF TableInv
  <2>11. worker'[Stray].pc = "idle"
    BY <2>3, <2>5 DEF TableInv
  <2>. QED
    BY <2>2, <2>3, <2>6, <2>7, <2>8, <2>9, <2>10, <2>11 DEF TableInv
<1>4. ASSUME NEW i \in Slots, Read(i) \/ End(i)
      PROVE  TableInv'
  <2>1. /\ session[i] # Nobody /\ ~ Freed(i)
        /\ UNCHANGED <<phase, session, socket, app>>
    BY <1>4 DEF Read, End, lifeVars, clientVars
  <2>2. CASE Read(i)
    <3>1. \E chunk : Begin(i, "put", chunk)
      BY <2>2 DEF Read
    <3>. QED
      BY <2>1, <3>1, WorkerMoves
  <2>3. CASE End(i)
    <3>1. Begin(i, "bye", << >>) /\ phase[session[i]] # "open"
      BY <2>3 DEF End
    <3>. QED
      BY <2>1, <3>1, WorkerMoves
  <2>. QED
    BY <1>4, <2>2, <2>3
<1>5. ASSUME NEW i \in Slots, Drop(i) \/ Exhausted(i)
      PROVE  TableInv'
  <2>. DEFINE q == session[i]
  <2>1. /\ phase' = [phase EXCEPT ![q] = "shut"] /\ q \in Peers
        /\ UNCHANGED <<session, worker, app>>
        /\ socket' = socket \/ socket' = "stopping"
    BY <1>5 DEF Drop, Exhausted, SocketTypes, socketVars, lifeVars
  <2>2. \A p \in Peers : phase'[p] = phase[p] \/ phase'[p] = "shut"
    BY <2>1 DEF ClientTypes
  <2>3. \A j \in Slots : session[j] = Nobody \/ session[j] \in Peers
    BY DEF SocketTypes
  <2>4. \A p \in Peers : phase'[p] = "open" => \E j \in Slots : session'[j] = p
    BY <2>1, <2>2 DEF TableInv
  <2>5. \A j \in Slots : session'[j] # Nobody => phase'[session'[j]] # "new"
    BY <2>1, <2>2, <2>3 DEF TableInv
  <2>6. \A j \in Slots : worker'[j].pc \in {"bye", "remove"} => phase'[session'[j]] # "open"
    <3>1. \A j \in Slots : worker[j].pc \in {"bye", "remove"} => session[j] # Nobody
      BY DEF TableInv
    <3>. QED
      BY <2>1, <2>2, <2>3, <3>1 DEF TableInv
  <2>7. app'.pc = "reap" /\ session'[app'.slot] # Nobody => phase'[session'[app'.slot]] # "open"
    BY <1>0, <2>1, <2>2, <2>3 DEF TableInv
  <2>. QED
    BY <2>1, <2>4, <2>5, <2>6, <2>7 DEF TableInv
<1>6. ASSUME NEW i \in Indices, InitConnection(i) \/ ConnectCallback(i) \/ PutToQueue(i)
                                \/ WorkerSignal(i) \/ DisconnectCallback(i)
      PROVE  TableInv'
  <2>1. worker[i].pc # "idle"
    BY <1>6 DEF InitConnection, ConnectCallback, PutToQueue, WorkerSignal, DisconnectCallback
  <2>2. UNCHANGED <<phase, session, socket, app>>
    BY <1>6 DEF InitConnection, ConnectCallback, PutToQueue, WorkerSignal,
       DisconnectCallback, clientVars, lifeVars
  <2>3. \/ Begin(i, "greet", << >>) \/ Begin(i, "idle", << >>) \/ Begin(i, "signal", << >>)
        \/ worker[i].pc = "bye" /\ Begin(i, "remove", << >>)
    BY <1>6 DEF InitConnection, ConnectCallback, PutToQueue, WorkerSignal, DisconnectCallback
  <2>4. CASE i \in Slots
    <3>1. worker[i].pc = "bye" => phase[session[i]] # "open"
      BY <2>4 DEF TableInv
    <3>2. session[i] # Nobody
      BY <2>1, <2>4 DEF TableInv
    <3>. QED
      BY <2>1, <2>2, <2>3, <2>4, <3>1, <3>2, WorkerMoves
  <2>5. CASE i = Stray
    BY <2>1, <2>2, <2>3, <2>5, StrayMoves
  <2>. QED
    BY <2>4, <2>5, States
<1>7. ASSUME NEW i \in Indices, RemoveFromQueue(i)
      PROVE  TableInv'
  <2>1. /\ session' = [k \in Slots |-> IF k = i THEN Nobody ELSE session[k]]
        /\ Begin(i, "idle", << >>)
        /\ phase' = phase /\ socket' = socket /\ app' = app
        /\ worker[i].pc = "remove"
    BY <1>7 DEF RemoveFromQueue, clientVars, lifeVars
  <2>2. CASE i = Stray
    <3>1. session' = session
      BY <2>1, <2>2, States DEF SocketTypes
    <3>. QED
      BY <2>1, <2>2, <3>1, StrayMoves
  <2>3. CASE i \in Slots
    <3>1. /\ session'[i] = Nobody /\ worker'[i].pc = "idle"
          /\ \A j \in Slots : j # i => session'[j] = session[j]
          /\ \A j \in Indices : j # i => worker'[j] = worker[j]
          /\ session[i] \in Peers /\ phase[session[i]] # "open"
      BY <2>1, <2>3, Busy, States DEF SocketTypes, TableInv, Begin
    <3>2. ASSUME NEW q \in Peers, phase'[q] = "open"
          PROVE  \E j \in Slots : session'[j] = q
      <4>1. PICK j \in Slots : session[j] = q
        BY <2>1, <3>2 DEF TableInv
      <4>2. j # i
        BY <2>1, <3>1, <3>2, <4>1
      <4>. QED
        BY <3>1, <4>1, <4>2
    <3>3. \A j, k \in Slots : session'[j] = session'[k] /\ session'[j] # Nobody => j = k
      BY <3>1 DEF TableInv
    <3>4. worker'[Stray].pc # "idle" =>
            app'.pc = "reap" /\ session'[app'.slot] # Nobody /\ worker'[app'.slot].pc = "idle"
      <4>1. worker'[Stray] = worker[Stray]
        BY <2>3, <3>1, States
      <4>2. worker[Stray].pc # "idle" => app.slot # i
        BY <2>1 DEF TableInv
      <4>. QED
        BY <1>0, <2>1, <3>1, <4>1, <4>2, States DEF TableInv
    <3>5. \A j \in Slots : worker'[j].pc # "idle" => session'[j] # Nobody
      BY <3>1, States DEF TableInv
    <3>6. \A j \in Slots : worker'[j].pc \in {"bye", "remove"} => phase'[session'[j]] # "open"
      BY <2>1, <3>1, States DEF TableInv
    <3>7. \A j \in Slots : session'[j] # Nobody => session'[j] = session[j]
      BY <3>1
    <3>8. \A j \in Slots : session'[j] # Nobody => phase'[session'[j]] # "new"
      BY <2>1, <3>7 DEF TableInv
    <3>9. app'.pc = "reap" /\ session'[app'.slot] # Nobody => phase'[session'[app'.slot]] # "open"
      BY <1>0, <2>1, <3>7 DEF TableInv
    <3>10. \A j \in Slots : session[j] = Nobody => session'[j] = Nobody
      BY <3>7
    <3>. QED
      BY <2>1, <3>2, <3>3, <3>4, <3>5, <3>6, <3>8, <3>9, <3>10 DEF TableInv
  <2>. QED
    BY <2>2, <2>3, States
<1>8. ASSUME (\E i \in Slots : SendResponse(i)) \/ SendPush
      PROVE  TableInv'
  BY <1>8, TableKept DEF SendResponse, SendPush, clientVars, socketVars
<1>9. CASE RequestThread
  <2>1. UNCHANGED <<phase, session, worker, socket, app>>
    BY <1>9 DEF RequestThread, ReqSleepless, ReqCheck, ReqLook, WaitForSignal, ReqParse,
       ServeEnd, Skip, ServeRequest, ServeMessage, Reply,
       clientVars, socketVars, lifeVars
  <2>. QED
    BY <2>1, TableKept
<1>10. CASE OnMessage
  BY <1>10, TableKept DEF OnMessage, clientVars, socketVars, lifeVars
<1>11. CASE InitServer
  BY <1>0, <1>11 DEF InitServer, TableInv, LifeInv, AppState, SocketTypes, ClientTypes, Slots,
     clientVars, socketVars, queueVars, lifeVars, userVars
<1>12. CASE Run
  BY <1>0, <1>12 DEF Run, TableInv, LifeInv, AppState, SocketTypes, ClientTypes, Slots,
     clientVars, socketVars, queueVars, lifeVars, userVars
<1>13. CASE CloseWait
  BY <1>0, <1>13 DEF CloseWait, TableInv, LifeInv, AppState, SocketTypes, ClientTypes, Slots,
     clientVars, socketVars, queueVars, lifeVars, userVars, CloseAndWait, Stopped, Polling
<1>14. CASE CloseNoWait
  BY <1>0, <1>14 DEF CloseNoWait, TableInv, LifeInv, AppState, SocketTypes, ClientTypes, Slots,
     clientVars, socketVars, queueVars, lifeVars, userVars, Stopped, Polling
<1>15. CASE WaitFor
  BY <1>0, <1>15 DEF WaitFor, TableInv, LifeInv, AppState, SocketTypes, ClientTypes, Slots,
     clientVars, socketVars, queueVars, lifeVars, userVars
<1>16. CASE Destroy
  <2>1. /\ UNCHANGED <<phase, session, worker>> /\ app.pc = "idle"
        /\ app'.pc \in {"cut", "unwind"} /\ app'.slot \in Slots
        /\ app'.pc = "cut" => app'.slot = 0
    <3>1. UNCHANGED <<phase, session, worker>> /\ app.pc = "idle"
      BY <1>16 DEF Destroy, clientVars
    <3>2. CASE CloseAndWait(TRUE)
      BY <1>0, <3>1, <3>2 DEF CloseAndWait
    <3>3. CASE app' = [app EXCEPT !.pc = "unwind", !.dying = TRUE]
      <4>1. app'.pc = "unwind" /\ app'.slot \in Slots
        BY <1>0, <3>3 DEF AppState
      <4>. QED
        BY <3>1, <4>1
    <3>. QED
      BY <1>16, <3>2, <3>3 DEF Destroy
  <2>2. socket' = socket \/ socket' = "stopping"
    BY <1>16 DEF Destroy, CloseAndWait, Stopped
  <2>. QED
    BY <1>0, <2>1, <2>2 DEF TableInv
<1>17. CASE Cut
  <2>. DEFINE i == app.slot
              p == session[i]
  <2>1. /\ i \in Slots /\ app.pc = "cut" /\ LastTask(i)
        /\ app'.pc = "reap" /\ app'.slot = i /\ UNCHANGED <<session, socket>>
    BY <1>0, <1>17 DEF Cut, AppState
  <2>2. /\ \A q \in Peers : phase'[q] = phase[q] \/ phase'[q] = "cut"
        /\ p # Nobody => phase'[p] # "open"
    <3>1. phase' = [q \in Peers |-> IF q \in OnFile(Fd(i)) THEN "cut" ELSE phase[q]]
      BY <1>17 DEF Cut
    <3>2. p # Nobody => p \in Peers /\ Fd(i) = file[p]
      BY <2>1 DEF SocketTypes, Fd, Freed
    <3>3. p # Nobody /\ phase[p] = "open" => p \in OnFile(Fd(i))
      BY <3>2 DEF OnFile
    <3>. QED
      BY <3>1, <3>2, <3>3
  <2>3. /\ worker[Stray].pc = "idle"
        /\ worker[i].pc # "idle" => p # Nobody
    BY <2>1 DEF TableInv
  <2>4. /\ \A j \in Slots : worker'[j].pc = worker[j].pc \/ worker'[j].pc = "idle"
        /\ worker'[Stray].pc # "idle" => p # Nobody /\ worker'[i].pc = "idle"
    <3>1. CASE worker' = worker
      BY <2>3, <3>1
    <3>2. CASE worker' = [worker EXCEPT ![i] = [pc |-> "idle", chunk |-> << >>]]
      BY <2>1, <2>3, <3>2, States DEF SocketTypes
    <3>3. ASSUME NEW pc, NEW chunk, p # Nobody,
                 worker' = [worker EXCEPT ![i] = [pc |-> "idle", chunk |-> << >>],
                                          ![Stray] = [pc |-> pc, chunk |-> chunk]]
          PROVE  /\ \A j \in Slots : worker'[j].pc = worker[j].pc \/ worker'[j].pc = "idle"
                 /\ worker'[Stray].pc # "idle" => p # Nobody /\ worker'[i].pc = "idle"
      BY <2>1, <3>3, States DEF SocketTypes
    <3>4. p \in Peers => p # Nobody
      BY ServerAssumption
    <3>. QED
      BY <2>1, <2>3, <3>1, <3>2, <3>3, <3>4, LastTaskFacts
  <2>5. \A j \in Slots : session[j] = Nobody \/ session[j] \in Peers
    BY DEF SocketTypes
  <2>6. \A j \in Slots : worker'[j].pc # "idle" => session'[j] # Nobody
    BY <2>1, <2>4 DEF TableInv
  <2>7. \A q \in Peers : phase'[q] = "open" => \E j \in Slots : session'[j] = q
    BY <2>1, <2>2 DEF TableInv
  <2>8. \A j \in Slots : session'[j] # Nobody => phase'[session'[j]] # "new"
    BY <2>1, <2>2, <2>5 DEF TableInv
  <2>9. \A j \in Slots : worker'[j].pc \in {"bye", "remove"} => phase'[session'[j]] # "open"
    BY <2>1, <2>2, <2>4, <2>5, <2>6 DEF TableInv
  <2>10. \A j, k \in Slots : session'[j] = session'[k] /\ session'[j] # Nobody => j = k
    BY <2>1 DEF TableInv
  <2>11. \A j \in Slots :
           (app'.pc \in {"cut", "reap"} /\ j < app'.slot)
             \/ socket' \in {"none", "ready", "closed"}
             => session'[j] = Nobody
    BY <2>1 DEF TableInv
  <2>. QED
    BY <2>1, <2>2, <2>4, <2>6, <2>7, <2>8, <2>9, <2>10, <2>11 DEF TableInv
<1>18. CASE Reap
  <2>. DEFINE i == app.slot
  <2>1. i \in Slots /\ app.pc = "reap" /\ worker[i].pc = "idle" /\ worker[Stray].pc = "idle"
    BY <1>0, <1>18 DEF Reap, AppState
  <2>2. UNCHANGED <<phase, worker>> /\ session' = [session EXCEPT ![i] = Nobody]
    BY <1>18 DEF Reap, clientVars
  <2>3. /\ session'[i] = Nobody
        /\ \A j \in Slots : j # i => session'[j] = session[j]
    BY <2>1, <2>2 DEF SocketTypes
  <2>4. \A j \in Slots : worker'[j].pc # "idle" => session'[j] # Nobody
    BY <2>1, <2>2, <2>3 DEF TableInv
  <2>5. ASSUME NEW q \in Peers, phase'[q] = "open"
        PROVE  \E j \in Slots : session'[j] = q
    <3>1. PICK j \in Slots : session[j] = q
      BY <2>2, <2>5 DEF TableInv
    <3>2. j # i
      BY <2>1, <2>2, <2>5, <3>1, ServerAssumption DEF TableInv
    <3>. QED
      BY <2>3, <3>1, <3>2
  <2>6. /\ \A j \in Slots : session'[j] # Nobody => phase'[session'[j]] # "new"
        /\ \A j, k \in Slots : session'[j] = session'[k] /\ session'[j] # Nobody => j = k
        /\ \A j \in Slots : worker'[j].pc \in {"bye", "remove"} => phase'[session'[j]] # "open"
    BY <2>1, <2>2, <2>3 DEF TableInv
  <2>7. \A j \in Slots : j <= i => session'[j] = Nobody
    BY <1>0, <2>1, <2>3 DEF TableInv
  <2>8. CASE i + 1 \in Slots
    <3>1. app'.pc = "cut" /\ app'.slot = i + 1 /\ socket' = socket
      BY <1>0, <1>18, <2>8 DEF Reap, AppState
    <3>2. \A j \in Slots : j < i + 1 => session'[j] = Nobody
      BY <1>0, <2>1, <2>7
    <3>3. \A j \in Slots : socket \in {"none", "ready", "closed"} => session'[j] = Nobody
      BY <2>3 DEF TableInv
    <3>. QED
      BY <2>1, <2>2, <2>4, <2>5, <2>6, <3>1, <3>2, <3>3 DEF TableInv
  <2>9. CASE i + 1 \notin Slots
    <3>1. app'.pc = app.then /\ app.then \in {"idle", "stop"}
      BY <1>0, <1>18, <2>9 DEF Reap, AppState
    <3>2. \A j \in Slots : j <= i
      BY <2>1, <2>9, ServerAssumption DEF Slots
    <3>3. \A j \in Slots : session'[j] = Nobody
      BY <2>7, <3>2
    <3>. QED
      BY <2>1, <2>2, <2>4, <2>5, <2>6, <3>1, <3>3 DEF TableInv
  <2>. QED
    BY <2>8, <2>9
<1>19. CASE StopNoWait
  BY <1>0, <1>19 DEF StopNoWait, TableInv, LifeInv, AppState, SocketTypes, ClientTypes, Slots,
     clientVars, socketVars, queueVars, lifeVars, userVars
<1>20. CASE StopSignal
  BY <1>0, <1>20 DEF StopSignal, TableInv, LifeInv, AppState, SocketTypes, ClientTypes, Slots,
     clientVars, socketVars, queueVars, lifeVars, userVars
<1>21. CASE StopJoin
  BY <1>0, <1>21 DEF StopJoin, TableInv, LifeInv, AppState, SocketTypes, ClientTypes, Slots,
     clientVars, socketVars, queueVars, lifeVars, userVars
<1>22. CASE Unwind
  BY <1>0, <1>22 DEF Unwind, TableInv, LifeInv, AppState, SocketTypes, ClientTypes, Slots,
     clientVars, socketVars, queueVars, lifeVars, userVars
<1>23. CASE Rejoin
  BY <1>0, <1>23 DEF Rejoin, TableInv, LifeInv, AppState, SocketTypes, ClientTypes, Slots,
     clientVars, socketVars, queueVars, lifeVars, userVars
<1>. QED
  BY <1>1, <1>2, <1>3, <1>4, <1>5, <1>6, <1>7, <1>8, <1>9, <1>10, <1>11, <1>12, <1>13, <1>14,
     <1>15, <1>16, <1>17, <1>18, <1>19, <1>20, <1>21, <1>22, <1>23 DEF Next, Callback, Closing

-----------------------------------------------------------------------------
(* The request thread in the queue.                                        *)

\* A queue whose entries are as they were, as far as ReqInv looks at them.
LEMMA ReqKept ==
  ASSUME IInv, UNCHANGED <<requestQueue, req>>
  PROVE  ReqInv'
BY DEF IInv, ReqInv, QueueFree, Entry

\* What is left of ReqInv when an operation has changed the queue under the
\* mutex, or without standing in it.
LEMMA ReqUnlocked ==
  ASSUME req'.pc # "reply",
         QueueFree' => req'.pos = 1,
         \A k \in 1 .. Len(requestQueue') :
           /\ ~ requestQueue'[k].handshake => requestQueue'[k].list = << >>
           /\ requestQueue'[k].ready => 1 \in MessageNumbers
  PROVE  ReqInv'
BY DEF ReqInv

\* A message can only be parsed if some client sends one.
LEMMA ParsedExists ==
  ASSUME NEW data \in Seq(Unit), Len(data) # 0
  PROVE  1 \in MessageNumbers
<1>1. Len(data) \in Nat
  BY LenProperties
<1>2. data[1] \in Unit
  BY <1>1, ElementOfSeq
<1>. QED
  BY <1>2, Numbers DEF Unit

\* The entries after Dispatched.
LEMMA ReqDispatched ==
  ASSUME IInv, req.pos <= Len(requestQueue), Entry.handshake, Entry.ready,
         Entry.list # << >>, Dispatched
  PROVE  ReqInv'
<1>. USE Types DEF IInv
<1>1. req.pos \in 1 .. Len(requestQueue) /\ Len(requestQueue) \in Nat
  BY Served, QueueFacts
<1>2. /\ Len(requestQueue') = Len(requestQueue)
      /\ \A k \in 1 .. Len(requestQueue) : k # req.pos => requestQueue'[k] = requestQueue[k]
      /\ requestQueue'[req.pos] =
           [connID |-> Entry.connID, remote |-> Entry.remote, data |-> Entry.data,
            list |-> Tail(Entry.list), handshake |-> Entry.handshake,
            ready |-> Len(Entry.list) > 1]
  BY <1>1, DispatchedQueue
<1>3. req'.pc = "serve"
  <2>1. req \in ReqState
    BY DEF ReqTypes
  <2>. QED
    BY <2>1 DEF Dispatched, NextEntry, ReqState
<1>4. 1 \in MessageNumbers
  BY <1>1 DEF ReqInv, Entry
<1>5. \A k \in 1 .. Len(requestQueue') :
        /\ ~ requestQueue'[k].handshake => requestQueue'[k].list = << >>
        /\ requestQueue'[k].ready => 1 \in MessageNumbers
  BY <1>1, <1>2, <1>4 DEF ReqInv
<1>. QED
  BY <1>3, <1>5, ReqUnlocked DEF QueueFree

\* Every step keeps it.
LEMMA ReqStep ==
  ASSUME IInv, Next
  PROVE  ReqInv'
<1>. USE Types DEF IInv
<1>0. /\ req \in ReqState /\ Len(requestQueue) \in Nat
      /\ \A k \in 1 .. Len(requestQueue) :
           /\ ~ requestQueue[k].handshake => requestQueue[k].list = << >>
           /\ requestQueue[k].ready => 1 \in MessageNumbers
      /\ QueueFree => req.pos = 1
  BY QueueFacts DEF ReqTypes, ReqInv
<1>1. ASSUME NEW p \in Peers, Hangup(p) \/ Stall(p) \/ Resume(p) \/ Arrive(p)
      PROVE  ReqInv'
  BY <1>1, ReqKept DEF Hangup, Stall, Resume, Arrive, queueVars
<1>2. ASSUME \/ \E i \in Slots : \/ Read(i) \/ Drop(i) \/ End(i) \/ Exhausted(i)
                                 \/ SendResponse(i)
             \/ \E c \in Indices : \/ ConnectCallback(c) \/ WorkerSignal(c)
                                   \/ DisconnectCallback(c)
             \/ SendPush
      PROVE  ReqInv'
  <2>1. UNCHANGED <<requestQueue, req>>
    BY <1>2 DEF Read, Drop, End, Exhausted, ConnectCallback, WorkerSignal, DisconnectCallback,
       SendResponse, SendPush, queueVars
  <2>. QED
    BY <2>1, ReqKept
<1>3. ASSUME NEW i \in Indices, InitConnection(i)
      PROVE  ReqInv'
  <2>1. Client(i) \in Peers
    BY <1>3, Busy DEF InitConnection
  <2>2. \/ requestQueue' = requestQueue
        \/ /\ Len(requestQueue') = Len(requestQueue) + 1
           /\ \A k \in 1 .. Len(requestQueue) : requestQueue'[k] = requestQueue[k]
           /\ requestQueue'[Len(requestQueue) + 1] =
                [connID |-> i, remote |-> Client(i), data |-> << >>, list |-> << >>,
                 handshake |-> FALSE, ready |-> FALSE]
    BY <1>3, <2>1, InitConnectionQueue
  <2>3. req' = req /\ QueueFree
    BY <1>3 DEF InitConnection
  <2>4. \A k \in 1 .. Len(requestQueue') :
          /\ ~ requestQueue'[k].handshake => requestQueue'[k].list = << >>
          /\ requestQueue'[k].ready => 1 \in MessageNumbers
    <3>1. CASE requestQueue' = requestQueue
      BY <1>0, <3>1
    <3>2. CASE requestQueue' # requestQueue
      <4>1. \A k \in 1 .. Len(requestQueue') :
              k \in 1 .. Len(requestQueue) \/ k = Len(requestQueue) + 1
        BY <1>0, <2>2, <3>2
      <4>. QED
        BY <1>0, <2>2, <3>2, <4>1
    <3>. QED
      BY <3>1, <3>2
  <2>. QED
    BY <1>0, <2>3, <2>4, ReqUnlocked DEF QueueFree
<1>4. ASSUME NEW i \in Indices, PutToQueue(i)
      PROVE  ReqInv'
  <2>1. worker[i].chunk \in Seq(Unit)
    BY States DEF SocketTypes
  <2>2. /\ Len(requestQueue') = Len(requestQueue)
        /\ \A k \in 1 .. Len(requestQueue) :
             /\ requestQueue'[k].handshake = requestQueue[k].handshake
             /\ requestQueue'[k].list = requestQueue[k].list
             /\ requestQueue'[k].ready = requestQueue[k].ready
    BY <1>4, <2>1, PutToQueueQueue
  <2>3. req' = req /\ QueueFree
    BY <1>4 DEF PutToQueue
  <2>. QED
    BY <1>0, <2>2, <2>3, ReqUnlocked DEF QueueFree
<1>5. ASSUME NEW i \in Indices, RemoveFromQueue(i)
      PROVE  ReqInv'
  <2>1. \/ requestQueue' = requestQueue
        \/ /\ Len(requestQueue') = Len(requestQueue) - 1
           /\ \A k \in 1 .. Len(requestQueue) - 1 :
                requestQueue'[k] \in {requestQueue[k], requestQueue[k + 1]}
    BY <1>5, RemoveFromQueueQueue
  <2>2. req' = req /\ QueueFree
    BY <1>5 DEF RemoveFromQueue
  <2>3. \A k \in 1 .. Len(requestQueue') :
          /\ ~ requestQueue'[k].handshake => requestQueue'[k].list = << >>
          /\ requestQueue'[k].ready => 1 \in MessageNumbers
    <3>1. CASE requestQueue' = requestQueue
      BY <1>0, <3>1
    <3>2. CASE requestQueue' # requestQueue
      <4>1. \A k \in 1 .. Len(requestQueue') :
              k \in 1 .. Len(requestQueue) /\ k + 1 \in 1 .. Len(requestQueue)
        BY <1>0, <2>1, <3>2
      <4>. QED
        BY <1>0, <2>1, <3>2, <4>1
    <3>. QED
      BY <3>1, <3>2
  <2>. QED
    BY <1>0, <2>2, <2>3, ReqUnlocked DEF QueueFree
<1>6. CASE ReqCheck \/ ReqLook \/ WaitForSignal
  <2>1. requestQueue' = requestQueue /\ QueueFree
    BY <1>6 DEF ReqCheck, ReqLook, WaitForSignal, QueueFree, queueVars
  <2>2. req'.pc \notin {"serve", "reply"} /\ req'.pos = req.pos
    BY <1>0, <1>6 DEF ReqCheck, ReqLook, WaitForSignal, ReqState
  <2>. QED
    BY <1>0, <2>1, <2>2, ReqUnlocked DEF QueueFree
<1>7. CASE ReqParse
  <2>1. /\ Len(requestQueue') = Len(requestQueue)
        /\ \A k \in 1 .. Len(requestQueue) : requestQueue'[k] = Checked(requestQueue[k])
    BY <1>7, ParseQueue
  <2>2. req'.pc # "reply" /\ (req'.pc # "serve" => req'.pos = req.pos)
    BY <1>0, <1>7 DEF ReqParse, ReqState
  <2>3. QueueFree
    BY <1>7 DEF ReqParse, QueueFree
  <2>4. ASSUME NEW k \in 1 .. Len(requestQueue)
        PROVE  /\ ~ Checked(requestQueue[k]).handshake => Checked(requestQueue[k]).list = << >>
               /\ Checked(requestQueue[k]).ready => 1 \in MessageNumbers
    <3>. DEFINE e == requestQueue[k]
    <3>1. e \in EntryType
      BY QueueFacts
    <3>2. /\ Checked(e).handshake = e.handshake
          /\ \/ Checked(e) = e
             \/ /\ ~ e.handshake
                /\ Parts \in 1 .. Len(e.data)
                /\ Checked(e).list = e.list
             \/ /\ e.handshake
                /\ Parsed(e.data, Frames) * Parts \in 1 .. Len(e.data)
      BY <3>1, CheckedFacts
    <3>3. e.data \in Seq(Unit) /\ Len(e.data) \in Nat
      BY <3>1, EntryFields, LenProperties
    <3>4. Checked(e) = e \/ Len(e.data) # 0
      BY <3>2, <3>3
    <3>5. Checked(e) = e \/ 1 \in MessageNumbers
      BY <3>3, <3>4, ParsedExists
    <3>. QED
      BY <1>0, <3>2, <3>5
  <2>. QED
    BY <1>0, <2>1, <2>2, <2>3, <2>4, ReqUnlocked DEF QueueFree
<1>8. CASE ServeEnd \/ Skip
  <2>1. requestQueue' = requestQueue
    BY <1>8 DEF ServeEnd, Skip, queueVars
  <2>2. req'.pc = "serve" \/ (req'.pc = "check" /\ req'.pos = 1)
    <3>1. req' = [pc |-> "check", pos |-> 1] \/ req' = [req EXCEPT !.pc = "serve", !.pos = @ + 1]
      BY <1>8 DEF ServeEnd, Skip, NextEntry
    <3>2. CASE req' = [req EXCEPT !.pc = "serve", !.pos = @ + 1]
      BY <3>2, ReqMoves, Zenon
    <3>. QED
      BY <3>1, <3>2
  <2>. QED
    BY <1>0, <2>1, <2>2, ReqUnlocked DEF QueueFree
<1>9. CASE ServeRequest
  <2>1. /\ req.pos \in 1 .. Len(requestQueue)
        /\ Len(requestQueue') = Len(requestQueue)
        /\ \A k \in 1 .. Len(requestQueue) :
             k # req.pos => requestQueue'[k] = requestQueue[k]
        /\ \/ requestQueue' = requestQueue
           \/ requestQueue'[req.pos] =
                [connID |-> Entry.connID, remote |-> Entry.remote, data |-> Entry.data,
                 list |-> Entry.list, handshake |-> TRUE, ready |-> FALSE]
    BY <1>9, ServeRequestQueue
  <2>2. req'.pc = "serve"
    BY <1>0, <1>9 DEF ServeRequest, NextEntry, ReqState
  <2>3. \A k \in 1 .. Len(requestQueue') :
          /\ ~ requestQueue'[k].handshake => requestQueue'[k].list = << >>
          /\ requestQueue'[k].ready => 1 \in MessageNumbers
    BY <1>0, <2>1
  <2>. QED
    BY <2>2, <2>3, ReqUnlocked DEF QueueFree
<1>10. CASE ServeMessage
  <2>1. req.pos <= Len(requestQueue) /\ Entry.ready /\ Entry.handshake /\ Entry.list # << >>
    BY <1>10 DEF ServeMessage
  <2>2. CASE Dispatched
    BY <2>1, <2>2, ReqDispatched
  <2>3. CASE req' = [req EXCEPT !.pc = "reply"] /\ UNCHANGED requestQueue
    <3>1. req'.pc = "reply" /\ req'.pos = req.pos
      BY <1>0, <2>3 DEF ReqState
    <3>. QED
      BY <1>0, <2>1, <2>3, <3>1 DEF ReqInv, QueueFree, Entry
  <2>. QED
    BY <1>10, <2>2, <2>3 DEF ServeMessage
<1>11. CASE Reply
  <2>1. req.pos <= Len(requestQueue) /\ Entry.ready /\ Entry.handshake /\ Entry.list # << >>
    BY <1>11 DEF Reply, ReqInv
  <2>. QED
    BY <1>11, <2>1, ReqDispatched DEF Reply
<1>12. CASE InitServer
  <2>1. /\ requestQueue' = requestQueue
        /\ req' = req \/ req' = [pc |-> "check", pos |-> 1]
    BY <1>12 DEF InitServer, queueVars
  <2>2. CASE req' = req
    BY <2>1, <2>2, ReqKept
  <2>3. CASE req' = [pc |-> "check", pos |-> 1]
    BY <1>0, <2>1, <2>3, ReqUnlocked
  <2>. QED
    BY <2>1, <2>2, <2>3
<1>13. CASE OnMessage \/ Run \/ CloseWait \/ CloseNoWait \/ WaitFor \/ Destroy \/ Closing
  <2>1. UNCHANGED <<requestQueue, req>>
    BY <1>13 DEF OnMessage, Run, CloseWait, CloseNoWait, WaitFor, Destroy, Closing, Cut, Reap,
       StopNoWait, StopSignal, StopJoin, Unwind, Rejoin, queueVars
  <2>. QED
    BY <2>1, ReqKept
<1>. QED
  BY <1>1, <1>2, <1>3, <1>4, <1>5, <1>6, <1>7, <1>8, <1>9, <1>10, <1>11, <1>12, <1>13 DEF Next,
     Callback, RequestThread, ReqSleepless

-----------------------------------------------------------------------------
(* The theorems.                                                           *)

\* The invariant holds when a server has been constructed.
LEMMA InitKeeps ==
  ASSUME Init
  PROVE  IInv
<1>1. ClientTypes
  <2>1. script \in [Peers -> Scripts]
    BY DEF Init
  <2>2. ASSUME NEW p \in Peers
        PROVE  Len(Stream(p)) \in Nat
    <3>1. Len(script[p]) \in Nat /\ Parts \in Nat
      BY <2>1, Numbers, ServerAssumption
    <3>. DEFINE L == Len(script[p]) * Parts
                f == [n \in 1 .. L |->
                        [peer |-> p, msg |-> (n - 1) \div Parts + 1,
                         part |-> ((n - 1) % Parts) + 1]]
    <3>2. L \in Nat
      BY <3>1
    <3>3. Stream(p) = f
      BY DEF Stream
    <3>. HIDE DEF L
    <3>4. f \in [1 .. L -> {f[n] : n \in 1 .. L}]
      OBVIOUS
    <3>. HIDE DEF f
    <3>5. Len(f) = L
      BY <3>2, <3>4, FunctionIsSeq
    <3>. QED
      BY <3>2, <3>3, <3>5
  <2>3. \A p \in Peers : 0 \in 0 .. Len(Stream(p))
    BY <2>2
  <2>. QED
    BY <2>1, <2>3 DEF Init, ClientTypes
<1>2. Len(requestQueue) = 0 /\ 0 \in Slots /\ \A i \in Slots : i \in Nat
  BY States DEF Init, Slots
<1>3. SocketTypes /\ QueueTypes
  <2>1. [pc |-> "idle", chunk |-> << >>] \in WorkerState
    BY States
  <2>2. requestQueue \in Seq(EntryType)
    BY DEF Init
  <2>3. SocketTypes
    BY <2>1 DEF Init, SocketTypes
  <2>. QED
    BY <2>2, <2>3, ServerAssumption DEF Init, QueueTypes
<1>4. ReqTypes
  BY <1>2 DEF Init, ReqTypes, ReqState
<1>5. LifeTypes /\ UserTypes
  <2>1. app \in AppState
    BY <1>2 DEF Init, AppState
  <2>2. runs \in 0 .. MaxRuns /\ pushes \in 0 .. MaxPushes
    BY ServerAssumption DEF Init
  <2>3. << >> \in Seq(MessageNumbers)
    OBVIOUS
  <2>. QED
    BY <2>1, <2>2, <2>3 DEF Init, LifeTypes, UserTypes
<1>6. LifeInv
  BY DEF Init, LifeInv
<1>7. TableInv
  BY States DEF Init, TableInv
<1>8. ReqInv
  BY <1>2 DEF Init, ReqInv
<1>. QED
  BY <1>1, <1>3, <1>4, <1>5, <1>6, <1>7, <1>8, Types DEF IInv

\* Every step keeps the invariant.
LEMMA StepKeeps ==
  ASSUME IInv, [Next]_vars
  PROVE  IInv'
<1>1. ASSUME Next
      PROVE  TypeOK'
  BY <1>1, ClientTypeStep, SocketTypeStep, WorkerTypeStep, RequestTypeStep, UserTypeStep
     DEF Next
<1>2. CASE Next
  BY <1>1, <1>2, LifeStep, TableStep, ReqStep DEF IInv
<1>3. CASE UNCHANGED vars
  <2>. USE <1>3 DEF vars, clientVars, socketVars, queueVars, lifeVars, userVars, IInv
  <2>1. TypeOK'
    BY DEF TypeOK, Stream
  <2>2. LifeInv'
    BY DEF LifeInv
  <2>3. TableInv'
    BY TableKept
  <2>4. ReqInv'
    BY ReqKept
  <2>. QED
    BY <2>1, <2>2, <2>3, <2>4
<1>. QED
  BY <1>2, <1>3

\* The inductive invariant holds in every reachable state.
THEOREM Inductive == Spec => []IInv
<1>1. Init => IInv
  BY InitKeeps
<1>2. IInv /\ [Next]_vars => IInv'
  BY StepKeeps
<1>. QED
  BY <1>1, <1>2, PTL DEF Spec

\* Every variable of the server keeps its type, however many clients and
\* connections there are and whatever is sent.
THEOREM TypeInvariance == Spec => []TypeOK
<1>1. IInv => TypeOK
  BY DEF IInv
<1>. QED
  BY <1>1, Inductive, PTL

\* When the destructor of WebSocketServer has returned, in whatever way the
\* server ended, its request thread has ended, no thread of a connection is in a
\* callback, with or without an index, and no client is connected.
THEOREM DestructorLeavesNothing == Spec => []NothingLeft
<1>1. ASSUME IInv
      PROVE  NothingLeft
  <2>1. SUFFICES ASSUME app.pc = "gone"
                 PROVE  /\ req.pc \in {"off", "exited"}
                        /\ \A c \in Indices : worker[c].pc = "idle"
                        /\ \A p \in Peers : phase[p] # "open"
    BY DEF NothingLeft
  <2>2. socket \in {"none", "ready", "closed"}
    BY <1>1, <2>1, Types DEF IInv, LifeInv, SocketTypes
  <2>3. \A i \in Slots : session[i] = Nobody
    BY <1>1, <2>2 DEF IInv, TableInv
  <2>4. \A c \in Indices : worker[c].pc = "idle"
    BY <1>1, <2>1, <2>3, States DEF IInv, TableInv
  <2>5. \A p \in Peers : phase[p] # "open"
    BY <1>1, <2>3, ServerAssumption DEF IInv, TableInv
  <2>. QED
    BY <1>1, <2>1, <2>4, <2>5 DEF IInv, LifeInv
<1>. QED
  BY <1>1, Inductive, PTL
=============================================================================
